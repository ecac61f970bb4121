SPECIFICATION StorageSpec
CONSTANTS
    Ops = {o1, o2, o3}
    NoOp = noOp
    NoFile = noFile
    NotJSON = notJSON
    MaxCrashes = 2
    MaxErrors = 2
    MaxCorruptions = 2
    Settings <- MCSettings
    MaxCalls = 3
    MaxDials = 2
SYMMETRY OpSymmetry
INVARIANTS
    AckedSurvives
    DamageCostsOne
    FailedLeavesNothing
    InStep
CHECK_DEADLOCK FALSE
