SPECIFICATION Spec
CONSTANTS
    MaxFaults = 2
    Limits = {0, 2, 3}
    DefaultLimit = 4
    MaxSize = 5
    MaxPieces = 3
    Handlers = {h1, h2, h3}
    MaxRuns = 3
    Teams <- MCTeams
    Workers = {w1, w2}
    Patches = {"fix1", "fix2"}
    Paths = {"code", "test"}
    NewPaths = {"test"}
    MaxJobRuns = 2
    MaxPushes = 1
    JobKinds <- MCJobKinds
    NFiles = 3
    MaxApplies = 2
    MaxEdited = 2
    h1 = h1
    h2 = h2
    h3 = h3
    w1 = w1
    w2 = w2
INVARIANTS
    OutsideMatchesRecords
    DraftWhole
    AppliedWhole
    LogBounded
CHECK_DEADLOCK FALSE
