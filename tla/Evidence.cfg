SPECIFICATION Spec
CONSTANTS
    MaxFaults = 1
    Providers = {"gitlab", "buildkite", "circleci", "jenkins", "azuredevops", "bitrise", "teamcity", "travis",
                 "codebuild", "bitbucket", "drone", "semaphore", "appveyor", "cloudbuild", "github"}
    Notices <- MCNotices
    MaxPosts = 3
    Workers = {a1, a2}
    Clerks = {a1, a2}
    Deliveries = {"d1", "d2", "d3"}
    Stories <- MCStories
    MaxClaims = 2
    Readers = {a1, a2}
    Reports <- MCReports
    MaxReports = 3
    MaxActs = 1
    MaxNow = 2
    WarmUp = 2
    ConfirmAt = 3
    MinRuns = 3
    MinScore = 65
    Quarantine = 1
    Retention = 1
    PageLimit = 2
    GroupLimit = 1
    Tests <- MCTests
    Trees <- MCTrees
    TestNames <- MCTestNames
    Coverages <- MCCoverages
    Requests <- MCRequests
    ListLimit = 2
    Mergers = {a1, a2}
    MaxMerges = 2
    MaxIndexed = 1
    Tenants = {"t1", "t2"}
    Runs <- MCRuns
    Contexts <- MCContexts
    Words <- MCWords
    Analysts = {a1, a2}
    MaxPerTenant = 2
    Ttl = 1
    MaxHour = 2
    MaxRuns = 2
    MaxWords = 1
    RetryMinScore = 75
    a1 = a1
    a2 = a2
SYMMETRY Symmetry
INVARIANTS
    EveryBuildHeard
    RerunsFit
    PlanKept
    StatsHonest
    SelectionTrue
    FeedbackHolds
CHECK_DEADLOCK FALSE
