SPECIFICATION Spec
CONSTANTS
    Pids = {p1, p2}
    Jobs = {j1, j2}
    Lookahead = 2
    Scenes <- AllScenes
SYMMETRY Symmetry
INVARIANTS
    BrokenPathIsNotCharged
    HoldsComeAndGo
    CountIsAboutOneFile
CHECK_DEADLOCK FALSE
