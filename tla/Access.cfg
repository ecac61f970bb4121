SPECIFICATION Spec
CONSTANTS
    Tabs = {t1, t2}
    Posts <- MCPosts
    FlowLife = 1
    TokenLife = 2
    CacheLife = 1
    FetchLife = 1
    Skew = 1
    Requests = {r1, r2, r3, r4, r5}
    SessionLife = 2
    CodeLife = 1
    AccessLife = 1
    Retention = 3
    QueueSize = 1
    McpLife = 1
    ConfirmLife = 1
    Procs = {p1, p2}
    MaxHits = 3
    Limit = 1
    Window = 2
    Threshold = 1
    FailWindow = 2
    BaseDelay = 1
    MaxDelay = 3
    Slots = 1
    MaxFaults = 1
    MaxNow = 3
    Castings <- MCCastings
    Asking <- MCAsking
    r1 = r1
    r2 = r2
    r3 = r3
    r4 = r4
    r5 = r5
    t1 = t1
    t2 = t2
INVARIANTS
    UsedOnce
    ChannelsUsedWell
    LimitsKept
PROPERTIES
    KeysTrustedInTime
    RevokedStaysOut
CHECK_DEADLOCK FALSE
