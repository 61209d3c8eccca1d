SPECIFICATION FairSpec
CONSTANTS
    Producers = {p1, p2}
    Sequencers = {q1, q2}
    Workers = {w1, w2}
    Vacuums = {v1}
    None = None
    MaxMsgs = 2
    MaxFaults = 1
    SeqBatch = 1
    MsgBatch = 2
    VacBatch = 1
    AttemptsMax = 3
INVARIANTS
    SequencedOnce
    ProducerOrder
    UnprocessedIsReadable
    SettledWasHandled
    DeadLetteredOnce
    HolderIsCurrent
    NoOrphanedRows
PROPERTIES
    ImplementsQueue
    EventuallySettled
    EventuallyVacuumed
