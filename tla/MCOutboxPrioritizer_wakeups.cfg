SPECIFICATION Spec
CONSTANTS
    Partitions = {k1, k2}
    Workers = {w1, w2}
    Producers = {p1}
    Reconciler = reconciler
    None = None
    Batch = 1
    Inner = 2
    MaxRows = 3
    MaxFaults = 1
    MaxErrors = 0
    MaxLeaks = 0
SYMMETRY Symmetry
INVARIANTS
    TypeOK
    OnePlace
    NoSignalLost
    NoLostWakeup
CHECK_DEADLOCK FALSE
