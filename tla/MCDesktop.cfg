CONSTANTS
    Prefix = {"c4", "c6", "x4"}
    Interface = {"tun", "e1", "e2"}
    Tun = "tun"
    Service = {"e1", "e2"}
    Address = {"e1", "e2"}
    Chosen = {"auto"}
    NoAddress = "none"
    NoExit = "none"
    Exit6 = {"e1"}
    Capture4 = {"c4"}
    Capture6 = {"c6"}
    Excluded = {"x4"}
    MaxFails = 2
    MaxDeaths = 2
    MaxLinks = 2
    MaxOthers = 1
    MaxUser = 1
    MaxEvents = 3
SPECIFICATION FairSpec
INVARIANTS WriteAhead AppliedInForce DnsRecoverable 
PROPERTIES OthersKept RecoveryCleans
CHECK_DEADLOCK FALSE
