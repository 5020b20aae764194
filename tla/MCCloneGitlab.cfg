SPECIFICATION FairSpec
CONSTANTS
    Pages <- ShortPages
    Pids = {1, 2}
    PipeCapacity = 1
    MaxStderr = 1
    MaxMissing = 1
    Faults = {"git", "signal", "fork", "http", "empty", "no_header", "chdir"}
INVARIANTS
    TypeOK
    RegistryIsExact
    ReportsAreTruthful
    SkipsOnlyEmptyPages
PROPERTIES
    CommandEnds
CHECK_DEADLOCK FALSE
