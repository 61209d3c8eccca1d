SPECIFICATION FairSpec
CONSTANTS
    i1 = i1  i2 = i2  p1 = p1  p2 = p2
    Traces = {1}
    Partitions = {p1, p2}
    Instances = {i1, i2}
    Owner <- MCOwner
    Batch <- MCBatch
    Watched = {1}
    None = None
    MsgBatch = 2
    PageSize = 1
    Retention = 0
    OrphanAfter = 0
    LeftoverAfter = 0
    MaxFaults = 2
INVARIANTS TypeOK CountsAreExact ToldTheTruth NoMailLost
PROPERTIES CompletedIsFinal EventuallyAnswered EventuallyCollected
CHECK_DEADLOCK FALSE
