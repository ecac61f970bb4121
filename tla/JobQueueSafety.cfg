SPECIFICATION Spec
CONSTANTS
    MaxJobs = 2
    Deliveries = {d1}
    NoDelivery = none
    Tenants = {t1}
    Workers = {w1, w2}
    LeaseTimeout = 2
    Heartbeat = 1
    MaxAttempts = 2
    BackoffStep = 1
    MaxFaults = 2
SYMMETRY WorkerSymmetry
INVARIANTS
    LeaseExclusive
    HealthyLeaseKept
    OneJobPerDelivery
    VerdictsHonest
    AttemptsBoundedByFaults
PROPERTY ContractSpec
CHECK_DEADLOCK FALSE
