SPECIFICATION Spec
CONSTANTS
    p1 = p1
    p2 = p2
    Peers = {p1}
    BlockLength = 2
    Word = 64
    Length = 4
    PieceLength = 4
    MaxInFlight = 2
    WriteCtxs = 4
    RemoteHas <- OverlappingPieces
    Faults = {}
    ReadBatch = 3
    MaxInbox = 3
    MaxChokes = 1
    MaxNoise = 0
INVARIANTS
    NoLostWakeup
CHECK_DEADLOCK FALSE
