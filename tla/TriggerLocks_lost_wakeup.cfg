SPECIFICATION FairSpec
CONSTANTS
    t1 = t1
    t2 = t2
    t3 = t3
    i1 = i1
    i2 = i2
    TeamLock = TeamLock
    None = None
    Triggers <- MCPair
    Issues <- MCIssues
    IssueOf <- MCPairOf
    HygieneDryRun = TRUE
    MaxInode = 3
    MaxFaults = 0
    MaxCrashes = 0
PROPERTIES
    QueuedIssueIsTried
CHECK_DEADLOCK FALSE
