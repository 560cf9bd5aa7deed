SPECIFICATION Spec
CHECK_DEADLOCK FALSE
CONSTANTS
    Tasks = {a, b}
    Stoppers = {s1,s2}
    Nobody = Nobody
    BatchSize = 2
    MaxQueueSize = 2
    MaxRetries = 0
    DropOldest = TRUE
    MaxEvents = 2
SYMMETRY WriterSymmetry
INVARIANTS
    EveryEventAccounted
    SentinelMeansSettled
PROPERTIES
    DeliveredInOrder
    ImplementsLedger
