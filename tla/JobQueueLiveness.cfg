SPECIFICATION FairSpec
CONSTANTS
    MaxJobs = 2
    Deliveries = {}
    NoDelivery = none
    Tenants = {t1, t2}
    Workers = {w1, w2}
    LeaseTimeout = 1
    Heartbeat = 1
    MaxAttempts = 2
    BackoffStep = 1
    MaxFaults = 1
PROPERTY EveryJobEnds
CHECK_DEADLOCK FALSE
