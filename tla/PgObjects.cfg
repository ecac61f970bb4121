SPECIFICATION MCSpec
CONSTANTS
    Txs = {1, 2, 3}
    NoTx = 0
    Objects <- MCObjects
    Present <- MCPresent
    Open <- MCOpen
    Menus <- MCMenus
    Limit = 1
    MaxFaults = 1
    KindOrder <- MCKindOrder
INVARIANT OnlyCleanupDeadlocks
PROPERTIES
    ImplementsStore
    EveryCallReturns
CHECK_DEADLOCK FALSE
