SPECIFICATION Spec
CHECK_DEADLOCK FALSE
CONSTANTS
    Threads = {h1, h2}
    Tenants = {m1, m2}
    SizesOf = {1, 2}
    Quotas = {0, 1}
    DefaultQuota = 2
    EvictUpTo = 5
    Operations = {"register", "switch", "cleanup", "allocate", "release", "set_quota", "enforce", "evict"}
    MaxCalls = 5
INVARIANTS
    UsageExact
    OneModelTwoDictionaries
PROPERTIES
    ImplementsLedger
    CallsReturn
