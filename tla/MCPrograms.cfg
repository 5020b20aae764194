SPECIFICATION Spec
CONSTANTS
    Backends = {"sigtimedwait", "self_pipe", "self_pipe2", "kqueue", "process_descriptor", "io_uring", "eb"}
    MaxRetries = 3
    MaxDuration = TRUE
    PipeCapacity = 2
    MaxOutput = 3
    HeadLength = 2
    PayloadLengths = {0, 1, 3}
    max_payload_length = 4
    SocketBuffer = 3
    ResponseLength = 2
    ClientBuffer = 3
    BatchSizeMax = 2
    TimesOut = TRUE
    max_items_count = 3
    ByteBits = 2
    MaxIndices = {0, 1, 2, 3}
    RingCap = 3
    RingValues = {1, 2}
    Needles <- SpanNeedles
    Alphabet = {" ", "-", "+", "0", "9", "x", "a", "/"}
    MaxText = 4
    U64 = 320
    FileSizes = {0, 3, 9}
    MaxLen = 12
    FileChanges = TRUE
    Ptrs = {1, 2, 3, 4}
    HashOf <- SharedHash
    InitialCaps = {2, 4}
    MaxAllocEvents = 5
    Box = 2
    Puzzles <- SudokuPuzzles
    DayHours = 3
    WorkHours = {1}
    WeekDays = 3
    WeekEnd = {2}
    MonthDays = 2
    YearMonths = 2
    Horizon = 17
    MaxShifts = 2
    ReadEvents = 2
    ImageWords = 9
    MaxXEvents = 5
    RopeLen = 4
    GridSide = 10
    MaxSteps = 7
    Letters = {1, 2, 3, 4}
    MaxLetters = 7
    Width = 4
    Height = 3
    TreeSizes = {1, 2}
    Sums = {1, 2}
    MaxLines = 5
    LineRange = 3
    MaxSpecial = 8
    U16 = 16
    CallSize = 2
INVARIANTS
    RetryIsSafe
    OutputReachesTheUrl
    AnswersAreWhole
    StructuresAreExact
    SpansAreRight
    PairsAreRight
    SolutionsAreFound
    BillsAreRight
    StreamStaysInStep
    PuzzlesAreSolved
    
PROPERTIES
    RingIsADeque
    ProgramsEnd
CHECK_DEADLOCK FALSE
