SPECIFICATION Spec
CONSTANTS
    p1 = p1
    p2 = p2
    own = own
    j1 = j1
    j2 = j2
    Pids <- TwoAndOwn
    Local = {own}
    Names = {"m", "local"}
    NameOf <- OneName
    Jobs <- TwoJobs
    Rows = {1, 2}
    RowOf <- TwoRows
    VolumeOf <- OneVolume
    LanesPer = 1
    Lookahead = 2
    MaxClaims = 2
    Inputs <- AllInputs
SYMMETRY Symmetric
CHECK_DEADLOCK FALSE
INVARIANTS
    TypeOK
    Ownership
    NothingLeftBehind
    ScanOffIsQuiet
    WrittenOnce
PROPERTIES
    FailuresAreEarned
    KeepsTheLedger
