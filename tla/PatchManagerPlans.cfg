SPECIFICATION PatchSpec
CHECK_DEADLOCK FALSE
CONSTANTS
    Paths = {f1, f2}
    Contents = {a, b}
    AsRead <- UnixText
    Nothing = Nothing
    CutShort = CutShort
    Changes <- MCChanges
    MaxPlan = 2
    MaxPatchCalls = 2
    MaxEdits = 1
    Faults = {"apply", "restore", "crash"}
SYMMETRY PatchSymmetry
INVARIANTS
    FailureRestoresAll
    UntouchedRollsBack
    TrueMeansRolledBack
PROPERTIES
    RollbackKeepsEdits
