SPECIFICATION Spec
CONSTANTS
    Base = 16
    Width = 3
    MaxInt = 25
    MaxSize = 25
    HashSize = 2
    Messages <- SomeMessages
    Values <- SomeValues
    Torrents <- SomeTorrents
    Responses <- SomeResponses
    PeerLists <- SomePeerLists
    WireFields <- FieldBytes
    Sizes = {0, 2, 3, 5, 6}
    Damages <- SomeDamages
INVARIANTS
    RoundTrip
    Canonical
    InfoSpanExact
    LayoutConsistent
    PeersAgree
    BitfieldExact
CHECK_DEADLOCK FALSE
