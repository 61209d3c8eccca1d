SPECIFICATION Spec
CONSTANTS
    Workers = {w1, w2}
    Impl = "am"
    None = None
    NoRow = NoRow
    TTL = 2
    Skew = 1
    MaxAttempts = 2
    MaxTime = 4
    MaxCalls = 3
    MaxFaults = 0
INVARIANT FencedByLatest
CHECK_DEADLOCK FALSE
