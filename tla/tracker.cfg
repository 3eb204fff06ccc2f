SPECIFICATION FairSpec
CONSTANTS
    announce_list <- ThreeTrackers
    Attempts = 2
    FirstTimeout = 3
    HttpTimeout = 10
    ResolveTimeout = 5
    PeerBytes = {7}
    ErrorBytes = {10, 20}
    MaxFaults = 2
INVARIANTS
    Authentic
    SocketReleased
    BlockedBound
PROPERTIES
    ToleratesLoss
    Starts
CHECK_DEADLOCK FALSE
