SPECIFICATION FairSpec
CONSTANTS
    p1 = p1
    p2 = p2
    Peers = {p1, p2}
    BlockLength = 2
    Word = 64
    Length = 4
    PieceLength = 4
    MaxInFlight = 1
    WriteCtxs = 4
    RemoteHas <- OverlappingPieces
    Faults = {}
    ReadBatch = 1
    MaxInbox = 1
    MaxChokes = 1
    MaxNoise = 0
INVARIANTS
    NoLostWakeup
PROPERTIES
    DownloadCompletes
CHECK_DEADLOCK FALSE
