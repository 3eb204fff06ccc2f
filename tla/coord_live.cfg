\* Two honest seeds, one of which chokes and unchokes; no connection breaks.
CONSTANTS
    p1 = p1
    p2 = p2
    p3 = p3
    PieceLength = 2
    TotalLength = 3
    BlockSize = 1
    BootstrapPieces = 1
    Peer = {p1, p2}
    Honest = {p1, p2}
    PipelineDepth = 2
    MaxPayload = 1
    MayFail = {}
    MayChoke = {p1}
    MayHave = {}
    Bitfields <- SeedBitfield
    DiskMayFail = FALSE
SPECIFICATION FairSpec
PROPERTIES
    Completion
