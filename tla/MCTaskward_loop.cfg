SPECIFICATION FairSpec
CONSTANTS
    Tiered = {q1, q2}
    Fixed = {v1}
    None = None
    Guaranteed = 1
    Shared = 1
    Initial = 1
    Multiplier = 2
    DurationMax = 1
    MaxFailures = 2
    MaxHung = 1
INVARIANTS
    TypeOK
    PermitsAccounted
PROPERTIES
    EveryNotificationRuns
    ShutdownEnds
CHECK_DEADLOCK FALSE
