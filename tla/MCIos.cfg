SPECIFICATION MCSpec
CONSTANTS
    Path = {wifi, cell, none}
    Wifi = {wifi}
    Usable = {wifi, cell}
    RoutesV6 = {cell}
    ProfileIPv6 = TRUE
    RecoveryLimit = 1
    MaxRuns = 2
    MaxMoves = 3
    wifi = wifi
    cell = cell
    none = none
INVARIANT ToldOwnNetwork
PROPERTIES  CoreStopNoticed
CHECK_DEADLOCK FALSE
