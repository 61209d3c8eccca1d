SPECIFICATION FairSpec
CONSTANTS
    Processes = {p1, p2}
    Partitions = {k1}
    None = None
    PerMessage = TRUE
    BatchSize = 3
    Threshold = 1
    MaxMsgs = 3
    MaxFaults = 2
INVARIANTS
    TypeOK
    NothingSkipped
    RepeatedOnlyByRetry
PROPERTIES
    SettledIsFinal
    EventuallySettled
CHECK_DEADLOCK FALSE
