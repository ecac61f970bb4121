SPECIFICATION Spec
CONSTANTS
    Ops = {o1, o2}
    NoOp = noOp
    NoFile = noFile
    NotJSON = notJSON
    MaxCrashes = 1
    MaxErrors = 1
    MaxCorruptions = 0
INVARIANT FailedIsUndone
CHECK_DEADLOCK FALSE
