SPECIFICATION FairSpec
CONSTANTS
    t1 = t1
    t2 = t2
    t3 = t3
    i1 = i1
    i2 = i2
    TeamLock = TeamLock
    None = None
    Triggers <- MCTwice
    Issues <- MCIssues
    IssueOf <- MCTwiceOf
    HygieneDryRun = FALSE
    MaxInode = 5
    MaxFaults = 1
    MaxCrashes = 1
INVARIANTS
    MetaNamesHolder
PROPERTIES
    EveryTriggerSettles
    TurnedAwayByAHolder
CHECK_DEADLOCK FALSE
