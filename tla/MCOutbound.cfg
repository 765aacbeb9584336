CONSTANTS
    Conns = {c1, c2}
    Limit = 1
    Idle = 2
    HalfClosed = 1
    Hosted = TRUE
    None = None
    Options <- OneLimit
    MaxTime = 2
    MaxLinks = 2
    MaxNetwork = 2
SPECIFICATION MCSpec
INVARIANTS TableIsRelays QuietBounded PoolWithinLimits OneClient
SYMMETRY Symmetry
CHECK_DEADLOCK FALSE
