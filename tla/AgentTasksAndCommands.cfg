SPECIFICATION Spec
CHECK_DEADLOCK FALSE
CONSTANTS
    Tasks = {t1, t2, t3}
    None = None
    Torn = Torn
    MaxCalls = 4
SYMMETRY TaskSymmetry
INVARIANTS
    EveryTaskInOneTree
    SuccessIsEarned
    CriticCatchesHopeless
    TimeoutLeavesNoGroup
PROPERTIES
    AckedSurvives
