SPECIFICATION FairSpec
CONSTANTS
    Partitions = {k1}
    Workers = {w1}
    Producers = {p1}
    Reconciler = reconciler
    None = None
    Batch = 1
    Inner = 1
    MaxRows = 2
    MaxFaults = 1
    MaxErrors = 1
    MaxLeaks = 1
PROPERTIES
    EventuallySequenced
CHECK_DEADLOCK FALSE
