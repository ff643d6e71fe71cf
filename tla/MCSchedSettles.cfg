SPECIFICATION FairSpec
CONSTANTS
    p1 = p1
    p2 = p2
    own = own
    j1 = j1
    j2 = j2
    Pids <- TwoPids
    Local = {}
    Names = {"m", "local"}
    NameOf <- OneName
    Jobs <- TwoJobs
    Rows = {1}
    RowOf <- OneRow
    VolumeOf <- EachItsVolume
    LanesPer = 1
    Lookahead = 2
    MaxClaims = 2
    Inputs <- DrainInputs
PROPERTIES
    ClaimsSettle
    DrainEnds
