SPECIFICATION Spec
CHECK_DEADLOCK FALSE
CONSTANTS
    e1 = e1
    e2 = e2
    e3 = e3
    Events = {e1, e2, e3}
    TableOf <- MCTables
    MaxAttempts = 2
    MaxStarts = 3
    MaxSignals = 2
    Torn = Torn
    Faults = {"refused", "unanswered", "crash", "disk", "close"}
CONSTRAINTS
    StillClaimed
    FewFaults
SYMMETRY EventSymmetry
INVARIANTS
    LossNeedsMishap
    DuplicateNeedsMishap
