SPECIFICATION FairSpec
CONSTANTS
    Jobs = {j1, j2}
    NoJob = noJob
    Events = {e1, e2}
    NoEvent = noEvent
    Channels = {c1}
    NoChannel = noChannel
    Runners = {r1, r2}
    SameKey <- OneKey
    ChannelAttempts = 2
    JobAttempts = 3
    Cooldown = 1
    Window = 2
    SendTime = 3
    LeaseTimeout = 2
    FaultKinds = {"crash", "lost", "slow"}
    MaxFaults = 1
PROPERTY EveryNotificationEnds
CHECK_DEADLOCK FALSE
