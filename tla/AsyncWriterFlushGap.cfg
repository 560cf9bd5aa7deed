SPECIFICATION Spec
CONSTANTS
    Tasks = {a, b}
    Stoppers = {s1}
    Nobody = Nobody
    BatchSize = 2
    MaxQueueSize = 2
    MaxRetries = 0
    DropOldest = FALSE
    MaxEvents = 1
INVARIANTS
    StopFlushesAllPending
CHECK_DEADLOCK FALSE
