CONSTANTS
    Source = {s1}
    Target = {t1, t2, d1}
    DnsTarget = {d1}
    MaxSessions = 2
    MaxPorts = 1
    DnsReserve = 1
    DnsPortReserve = 1
    ReuseAfter = 1
    NoticeEvery = 1
    Idle = 1
    RefusedFor = 1
    IncomingCap = 1
    ReplyCap = 1
    Footprint = {0, 3}
    ShedAbove = 2
    CloseAbove = 3
    RecoverMargin = 1
    CloseCooldown = 1
    CloseEvery = 2
    MaxTime = 2
    MaxSessionsEver = 2
    MaxNoticed = 2
    s1 = s1
    t1 = t1
    t2 = t2
    d1 = d1
SPECIFICATION FairSpec
INVARIANTS SessionsMatchTasks ReleasedWhileCooling CountsAgree WithinBudget DnsNeverStarved
PROPERTIES  ReclaimSparesRecent EndedSessionsLeave
CHECK_DEADLOCK FALSE
