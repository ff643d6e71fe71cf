SPECIFICATION FairSpec
CONSTANTS
    Releases <- TwoReleases
    Period = 3
    RETRY_FIRST = 1
    RETRY_MAX = 2
    MaxFailures = 2
    Scenes <- AllScenes
INVARIANTS
    ApplyingExcludes
    QuietAtInstall
    DrainIsLifted
PROPERTIES
    NeverEarly
    UpdateEnds
CHECK_DEADLOCK FALSE
