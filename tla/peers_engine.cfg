SPECIFICATION Spec
CONSTANTS
    p1 = p1
    p2 = p2
    p3 = p3
    Peer = {p1, p2, p3}
    MaxConnections = 2
    MaxList = 3
    WithCoordinator = TRUE
INVARIANTS
    CapRespected
    NeverBlacklisted
    RegisteredIsEstablished
    ClosedOnExit
CHECK_DEADLOCK FALSE
