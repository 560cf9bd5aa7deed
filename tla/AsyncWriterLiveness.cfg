SPECIFICATION FairSpec
CHECK_DEADLOCK FALSE
CONSTANTS
    Tasks = {a, b}
    Stoppers = {s1}
    Nobody = Nobody
    BatchSize = 2
    MaxQueueSize = 1
    MaxRetries = 1
    DropOldest = FALSE
    MaxEvents = 2
PROPERTIES
    EventuallySettled
    StopEnds
