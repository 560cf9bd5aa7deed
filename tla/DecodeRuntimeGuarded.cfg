SPECIFICATION Spec
CONSTANTS
    k1 = k1
    k2 = k2
    k3 = k3
    p1 = p1
    Keys = {k1, k2, k3}
    Sizes = {1, 2, 3, 4}
    MaxBytes = 3
    MaxPinnedBytes = 2
    Targets = {0, 2}
    SoftLimit = 3
    HardLimit = 5
    DenseRatio = 2
    InitialRatio = 1
    MinRatio = 1
    MaxRatio = 2
    IncreaseStep = 1
    DecreaseStep = 1
    StabilizationSteps = 2
    BytesOf <- MCBytesOf
    EstimateOf <- MCEstimateOf
    ProfileOf <- MCOneProfile
    AttentionBytes = 1
    Readings = {0, 3, 5}
    Overrides = {0}
    DefaultRatio = 2
    SparseDecode = TRUE
    Audit = TRUE
    HasGuard = TRUE
    HasController = TRUE
    HasCallback = TRUE
INVARIANTS
    TotalsExact
    WithinBudgets
    SparseNeedsCalm
PROPERTIES
    PressureLeavesCacheAlone
    PinnedSurvive
    SparseOffIsForever
