SPECIFICATION ReleaseSpec
CHECK_DEADLOCK FALSE
CONSTANTS
    None = None
    NoSummary = NoSummary
    Absent = Absent
    NaN = NaN
    Configs = {"stable_k8_v5_gs64", "experimental_hybrid"}
    Contexts <- MCContexts
    MaxMeasures = 2
    Tiers <- MCTiers
    Times = {0, 1, 2}
    Scenarios = {"long"}
    Numbers = {1, 2}
    Rules <- MCRules
    Floors <- MCFloors
INVARIANTS
    EveryGateWasOpen
    RefusalIsDisagreement
    SummaryAgrees
    LossesDoNotAddUp
