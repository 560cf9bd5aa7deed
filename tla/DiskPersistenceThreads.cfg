SPECIFICATION Spec
CHECK_DEADLOCK FALSE
CONSTANTS
    Keys = {k1, k2}
    Procs = {p1, p2}
    MaxCalls = 4
    MaxCrashes = 1
    TornAppends = TRUE
    MaxSize = 2
    TargetSize = 1
    LogLimit = 2
SYMMETRY DiskSymmetry
INVARIANTS
    AckedIsDurable
    InFlightLogged
    QuotaLeavesUnreadable
