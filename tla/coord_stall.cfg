\* A reliable seed and an honest seed whose connection may break.
CONSTANTS
    p1 = p1
    p2 = p2
    p3 = p3
    PieceLength = 2
    TotalLength = 3
    BlockSize = 1
    BootstrapPieces = 1
    Peer = {p1, p2}
    Honest = {p1, p2}
    PipelineDepth = 3
    MaxPayload = 1
    MayFail = {p1}
    MayChoke = {}
    MayHave = {}
    Bitfields <- SeedBitfield
    DiskMayFail = FALSE
SPECIFICATION FairSpec
PROPERTIES
    Completion
CHECK_DEADLOCK FALSE
