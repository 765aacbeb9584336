CONSTANTS
    a = a
    b = b
    c = c
    Name = {a, b, c}
    Unsupported = {}
    Families = {FALSE}
    Ranges <- NestedRanges
    Capacities = {3}
    CompactFloor = 1
    MaxStamp = 4
SPECIFICATION MCSpec
INVARIANTS StartNeverFails
CHECK_DEADLOCK FALSE
