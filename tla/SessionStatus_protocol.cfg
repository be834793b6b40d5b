SPECIFICATION FairSpec
CONSTANTS
    i1 = i1
    i2 = i2
    None = None
    Refs <- MCRefs
    MaxRuns = 2
    HygieneDryRun = FALSE
    MaxKills = 1
INVARIANTS
    TypeOK
    NoTornStatus
    CurrentIsRepaired
PROPERTIES
    UndisturbedTerminalIsFinal
    StatusNeverVanishes
    HeartbeatsDrain
CHECK_DEADLOCK FALSE
