CONSTANTS
    a = a
    b = b
    c = c
    u = u
    Name = {a, b, c, u}
    Unsupported = {u}
    Families = {FALSE, TRUE}
    Ranges <- DisjointRanges
    Capacities = {1, 2}
    CompactFloor = 1
    MaxStamp = 5
SYMMETRY Symmetry
SPECIFICATION MCSpec
INVARIANTS MappingsPaired AllocationComplete
PROPERTIES EvictsLeastRecent WholePoolFirst SavedNotReassigned
CHECK_DEADLOCK FALSE
