SPECIFICATION Spec
CONSTANTS
    t1 = t1
    t2 = t2
    t3 = t3
    i1 = i1
    i2 = i2
    TeamLock = TeamLock
    None = None
    Triggers <- MCTriggers
    Issues <- MCIssues
    IssueOf <- MCIssueOf
    HygieneDryRun = TRUE
    MaxInode = 3
    MaxFaults = 0
    MaxCrashes = 1
INVARIANTS
    TypeOK
    OneDroidPerTeam
    MetaNamesHolder
PROPERTIES
    TurnedAwayByAHolder
    ImplementsSerialExecutor
CHECK_DEADLOCK FALSE
