SPECIFICATION Spec
CONSTANTS
    p1 = p1
    p2 = p2
    Peers = {p1, p2}
    BlockLength = 2
    Word = 64
    Length = 6
    PieceLength = 4
    MaxInFlight = 2
    WriteCtxs = 4
    RemoteHas <- OverlappingPieces
    Faults = {}
    ReadBatch = 2
    MaxInbox = 2
    MaxChokes = 0
    MaxNoise = 0
INVARIANTS
    TypeOK
    InFlightAccounting
    NoAssertionFails
    RequestsInOnePlace
CHECK_DEADLOCK FALSE
