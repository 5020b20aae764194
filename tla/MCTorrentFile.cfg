SPECIFICATION Spec
CONSTANTS
    StringLength <- MCStringLength
    NumberOf <- MCNumberOf
    HttpUrls <- MCHttpUrls
    MaxU32 = 31
    MaxResponse = 12
    TRACKER_MAX_PEERS = 3
    Starts <- MCStarts
    AnyToken <- MCAnyToken
    MaxTokens = 7
    BlockLength = 3
    Word = 32
    MaxLength = 40
    MaxBlocksPerPiece = 4
INVARIANTS
    TokensFormATree
    MetainfoIsRead
    PeersAreThoseListed
    PositionsAgree
PROPERTIES
    StartsEnd
CHECK_DEADLOCK FALSE
