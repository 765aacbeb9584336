CONSTANTS
    Policy = {"p1", "p2"}
    Nameserver = {"n1"}
    MaxNetwork = 2
SPECIFICATION MCFairSpec
PROPERTY LookupEnds
INVARIANT GivesUpLast
CHECK_DEADLOCK FALSE
