SPECIFICATION FairSpec
CONSTANTS
    Versions <- Three
    FirstPack = 1
    Scenes <- AllScenes
INVARIANTS
    FailureChangesNothing
    OneUnit
    CanGoBack
PROPERTIES
    NoRetryOfUndone
    SettlesDown
CHECK_DEADLOCK FALSE
