SPECIFICATION Spec
CONSTANTS
    BlockLength = 4
    Word = 1024
    RingCap = 34
    Length = 17
    PieceLength = 8
    Header <- SmallHeader
    Reserved <- SmallReserved
    InfoHash <- SmallInfoHash
    PeerId <- SmallPeerId
    MaxMessageLength = 134217728
    ReadLength = 18
    MaxMessages = 3
    Streams <- AllStreams
    Openings <- AllOpenings
    Faults = {"read", "handle"}
INVARIANTS
    TypeOK
    RingHoldsTheRest
    NothingLeftBehind
    HonestPeersAreKept
    OverflowsOnlyOnLongMessages
PROPERTY
    ImplementsStream
CHECK_DEADLOCK FALSE
