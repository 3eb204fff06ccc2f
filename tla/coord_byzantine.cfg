\* One honest and one arbitrary peer; both connections may break, the honest one chokes.
CONSTANTS
    p1 = p1
    p2 = p2
    p3 = p3
    PieceLength = 2
    TotalLength = 3
    BlockSize = 1
    BootstrapPieces = 1
    Peer = {p1, p2}
    Honest = {p1}
    PipelineDepth = 2
    MaxPayload = 2
    MayFail = {p1, p2}
    MayChoke = {p1}
    MayHave = {p2}
    Bitfields <- TwoBitfields
    DiskMayFail = TRUE
SPECIFICATION Spec
INVARIANTS
    TypeOK
    NoOrphanRequest
    AvailabilityExact
    CancelComplete
    PipelineLimits
    BlacklistedIsGone
    
    NoDuplicateRequest
PROPERTIES
    ImplementsPieceTransfer
CHECK_DEADLOCK FALSE
