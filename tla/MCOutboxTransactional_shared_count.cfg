SPECIFICATION Spec
CONSTANTS
    Processes = {p1}
    Partitions = {k1, k2}
    None = None
    PerMessage = TRUE
    BatchSize = 2
    Threshold = 1
    MaxMsgs = 2
    MaxFaults = 1
PROPERTY PoisonIsolated
CHECK_DEADLOCK FALSE
