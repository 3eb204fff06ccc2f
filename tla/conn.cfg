SPECIFICATION FairSpec
CONSTANTS
    HandshakeSize = 2
    HeaderSize = 2
    Handshakes = {"Match", "NotHandshake"}
    FrameKinds = {"KeepAlive", "Unchoke", "Malformed"}
    MaxFrames = 2
    SendKinds = {"Interested"}
    MaxSends = 2
    Unreliable = TRUE
    ClientDisconnects = TRUE
INVARIANTS
    EpollOutExact
    WireInOrder
    FramesInOrder
    CleanDown
PROPERTIES
    EverythingFlows
CHECK_DEADLOCK FALSE
