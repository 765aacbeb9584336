SPECIFICATION MCSpec
CONSTANTS
    Handle = {1, 2}
    Hooked = {1, 2}
    Tunnel = {1, 2}
    QueueCap = 1
    Turn = 1
    Thread = {t1, t2, cb}
    Callback = cb
    Main = t1
    Capacity = 1
    CommandCap = 1
    LogCap = 1
INVARIANTS NoLostWakeup StopJoinsCallbacks
PROPERTIES  CallsReturn PacketsArrive ChangeTakenUp
CHECK_DEADLOCK FALSE
