SPECIFICATION FairSpec
CONSTANTS
    d1 = d1
    d2 = d2
    Watchdog = Watchdog
    Deliveries <- MCDeliveries
    Sources = {"session", "scanner", "runner"}
    FaultKinds = {"gh", "token", "kill"}
    MaxFaults = 1
INVARIANTS
    TypeOK
    TruncatedIsBeingWritten
PROPERTIES
    RegistrationIsSettled
    PendingDrains
CHECK_DEADLOCK FALSE
