SPECIFICATION PoolFairSpec
CONSTANTS
    Users = {u1, u2, u3, u4}
    Size = 2
INVARIANTS
    SlotsMatchConnections
    LeftOpenOnlyByRace
PROPERTY EveryAcquireReturns
CHECK_DEADLOCK FALSE
