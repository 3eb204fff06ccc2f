\* Honest seeds whose connections may break.
CONSTANTS
    p1 = p1
    p2 = p2
    p3 = p3
    PieceLength = 2
    TotalLength = 3
    BlockSize = 1
    BootstrapPieces = 1
    Peer = {p1, p2}
    Honest = {p1, p2}
    PipelineDepth = 2
    MaxPayload = 1
    MayFail = {p1, p2}
    MayChoke = {}
    MayHave = {}
    Bitfields <- SeedBitfield
    DiskMayFail = FALSE
SPECIFICATION Spec
INVARIANTS
    NoUseAfterFree
CHECK_DEADLOCK FALSE
