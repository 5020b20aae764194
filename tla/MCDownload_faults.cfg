SPECIFICATION Spec
CONSTANTS
    p1 = p1
    p2 = p2
    Peers = {p1}
    BlockLength = 2
    Word = 64
    Length = 4
    PieceLength = 4
    MaxInFlight = 2
    WriteCtxs = 6
    RemoteHas <- OverlappingPieces
    Faults = {"connect", "write", "corrupt", "malformed", "disk", "discard", "eof", "unsolicited"}
    ReadBatch = 2
    MaxInbox = 2
    MaxChokes = 1
    MaxNoise = 1
INVARIANTS
    PipelineLimits
CHECK_DEADLOCK FALSE
