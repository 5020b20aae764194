SPECIFICATION Spec
CONSTANTS
    p1 = p1
    p2 = p2
    Peers = {p1}
    BlockLength = 2
    Word = 64
    Length = 5
    PieceLength = 4
    MaxInFlight = 2
    WriteCtxs = 4
    RemoteHas <- OverlappingPieces
    Faults = {}
    ReadBatch = 1
    MaxInbox = 1
    MaxChokes = 0
    MaxNoise = 0
INVARIANTS
    NoAssertionFails
CHECK_DEADLOCK FALSE
