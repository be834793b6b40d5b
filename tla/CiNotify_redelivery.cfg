SPECIFICATION Spec
CONSTANTS
    d1 = d1
    d2 = d2
    Watchdog = Watchdog
    Deliveries <- MCDeliveries
    Sources = {"session"}
    FaultKinds = {}
    MaxFaults = 0
PROPERTIES
    RepeatIsSuppressed
CHECK_DEADLOCK FALSE
