SPECIFICATION FairSpec
CONSTANTS
    Letters = {1, 2}
    Callers = {c1, c2}
    None = None
    Limit = 2
    Timeout = 1
    AttemptsMax = 2
    MaxTime = 3
    MaxFaults = 1
INVARIANTS
    OneReplayerUnlessStolen
PROPERTIES
    Lifecycle
    Recoverable
CHECK_DEADLOCK FALSE
