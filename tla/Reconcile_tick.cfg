SPECIFICATION FairSpec
CONSTANTS
    i1 = i1  i2 = i2  m1 = m1  m2 = m2  None = None
    Issues = {i1, i2}
    Mirrors = {m1, m2}
    About <- MCAbout
    Synced = {i1}
    Pages = {1, 2}
    FallbackTicks = 2
    MaxWebhooks = 1
    FaultKinds = {"gh", "linear", "kill", "refuse", "reopen", "mention"}
    MaxFaults = 1
INVARIANTS TypeOK
PROPERTIES
    SweeperNeverSilent InfraFrozenNeverCancelled EventuallyConsistent MirrorFollows
