SPECIFICATION EngineSpec
CONSTANTS
    Keys <- MCKeys
    Order <- MCOrder
    Category <- MCCategory
    Severity <- MCSeverity
    Quota <- MCQuota
    MaxIssues = 5
    SnapshotLimit = 2
    Grace = 2
    IsolationThreshold = 2
    ReopenLimit = 1
    MaxMoves = 1
    MaxFaults = 1
    MaxHealthFaults = 1
    Syncs = {"p1", "p2"}
    Versions = {1, 2, 3, 4}
    Major <- MCMajor
    NoFile = 0
    Roots <- MCRoots
    ProjectFacts <- MCProjectFacts
    Servers <- MCServers
    ServerFacts <- MCServerFacts
    Databases <- MCDatabases
    NameOf <- MCNameOf
    Threshold <- MCThreshold
    Expected = "any"
    MaxEdits = 1
    Entries = {"e1", "e2"}
    Pattern <- MCPattern
    TestArtifact = {"e2"}
    Jobs = {"j1", "j2"}
    PathOrder <- MCPathOrder
    Dir <- MCDir
    Remarks = {"r1", "r2", "r3"}
    LineOf <- MCLineOf
    MaxFiles = 2
    InlineBatch = 2
    PerShard = 1
    MaxReviews = 2
    MaxReviewFaults = 1
INVARIANTS
    TypeOK
    GhostNeedsFailure
    CommentsOnce
    FilesAgree
    ResolutionSurvives
    ShardsPartition
    FindingsShown
    ExitTellsCritical
    PlanIsSafe
PROPERTIES
    ClosedOnEvidence
    CreatesOnlyUntracked
    EventuallyTracked
    EventuallyQuiet
    NeverDowngraded
    
    MutualHealing
    DeadTicksReported
CHECK_DEADLOCK FALSE
