SPECIFICATION FairSpec
CONSTANTS
    i1 = i1  i2 = i2  m1 = m1  m2 = m2  None = None
    Issues = {i1}
    Mirrors = {m1}
    About <- MCAbout
    Synced = {i1}
    Pages = {1}
    FallbackTicks = 2
    MaxWebhooks = 1
    FaultKinds = {"gh"}
    MaxFaults = 1
PROPERTIES
    AbsorbedMirrorIsClosed
