SPECIFICATION Spec
CONSTANTS
    p1 = p1
    p2 = p2
    Peers = {p1, p2}
    BlockLength = 2
    Word = 64
    Length = 4
    PieceLength = 4
    MaxInFlight = 1
    WriteCtxs = 4
    RemoteHas <- OverlappingPieces
    Faults = {"eof", "corrupt", "write", "disk"}
    ReadBatch = 1
    MaxInbox = 1
    MaxChokes = 0
    MaxNoise = 0
INVARIANTS
    BlocksPartition
    InFlightAccounting
    CountersAgree
PROPERTIES
    VerifiedPiecesAreFinal
CHECK_DEADLOCK FALSE
