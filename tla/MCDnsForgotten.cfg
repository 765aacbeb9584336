CONSTANTS
    Policy = {"p1"}
    Nameserver = {"n1"}
    MaxNetwork = 2
SPECIFICATION MCSpec
INVARIANT ForgottenOnChange
CHECK_DEADLOCK FALSE
