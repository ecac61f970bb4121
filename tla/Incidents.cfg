SPECIFICATION Spec
CONSTANTS
    o1 = o1
    o2 = o2
    Observers = {o1, o2}
    RepoOf <- MCRepoOf
    OrgOf <- MCOrgOf
    Criticality <- MCCriticality
    NoOrg = ""
    Stamped = {o2}
    RepoThreshold = 3
    OrgThreshold = 2
    MajorAt = 2
    CriticalAt = 3
    Window = 1
    ResolveAfter = 1
    Retention = 1
    Handling = 1
    ProviderStates <- MCProviderStates
    MaxEvents = 1
INVARIANTS CountedRight AnnouncementsAgree
PROPERTIES LateWritesHarmless ResolvedAtLast
CHECK_DEADLOCK FALSE
