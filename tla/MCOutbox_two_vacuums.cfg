SPECIFICATION Spec
CONSTANTS
    Producers = {p1}
    Sequencers = {q1}
    Workers = {w1}
    Vacuums = {v1, v2}
    None = None
    MaxMsgs = 2
    MaxFaults = 0
    SeqBatch = 2
    MsgBatch = 2
    VacBatch = 1
    AttemptsMax = 4
INVARIANT NoOrphanedRows
