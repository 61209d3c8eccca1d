SPECIFICATION Spec
CONSTANTS
    Tiered = {q1}
    Fixed = {v1}
    None = None
    Guaranteed = 1
    Shared = 1
    Initial = 1
    Multiplier = 2
    DurationMax = 4
    MaxFailures = 4
    MaxHung = 0
INVARIANT OnlyCancellationEnds
CHECK_DEADLOCK FALSE
