\* Three honest peers with partial bitfields; one connection may break, one peer may choke.
CONSTANTS
    p1 = p1
    p2 = p2
    p3 = p3
    PieceLength = 2
    TotalLength = 3
    BlockSize = 1
    BootstrapPieces = 0
    Peer = {p1, p2, p3}
    Honest = {p1, p2, p3}
    PipelineDepth = 2
    MaxPayload = 1
    MayFail = {p1}
    MayChoke = {p2}
    MayHave = {}
    Bitfields <- AnyBitfield
    DiskMayFail = FALSE
SPECIFICATION Spec
INVARIANTS
    FullyReceivedIsResolved
    BlacklistNeedsOffender
PROPERTIES
    RarestFirst
CHECK_DEADLOCK FALSE
