SPECIFICATION FairSpec
CONSTANTS
    Workers = {w1, w2}
    Impl = "coord"
    None = None
    NoRow = NoRow
    TTL = 2
    Skew = 1
    MaxAttempts = 2
    MaxTime = 4
    MaxCalls = 3
    MaxFaults = 1
INVARIANTS
    FencedByLatest
    LeaseIsBounded
PROPERTIES
    TermEnds
    LossIsSignalled
    EveryCallReturns
CHECK_DEADLOCK FALSE
