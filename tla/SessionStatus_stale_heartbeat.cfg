SPECIFICATION Spec
CONSTANTS
    i1 = i1
    i2 = i2
    None = None
    Refs <- MCRefs
    MaxRuns = 1
    HygieneDryRun = TRUE
    MaxKills = 0
PROPERTIES
    TerminalIsFinal
CHECK_DEADLOCK FALSE
