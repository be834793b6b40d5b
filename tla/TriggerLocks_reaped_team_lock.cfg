SPECIFICATION Spec
CONSTANTS
    t1 = t1
    t2 = t2
    t3 = t3
    i1 = i1
    i2 = i2
    TeamLock = TeamLock
    None = None
    Triggers <- MCTriggers
    Issues <- MCIssues
    IssueOf <- MCIssueOf
    HygieneDryRun = FALSE
    MaxInode = 5
    MaxFaults = 0
    MaxCrashes = 0
INVARIANTS
    OneDroidPerTeam
CHECK_DEADLOCK FALSE
