SPECIFICATION Spec
CONSTANTS
    Pages <- OnePage
    Pids = {1, 2}
    PipeCapacity = 1
    MaxStderr = 0
    MaxMissing = 1
    Faults = {}
INVARIANTS
    WatcherReportsAll
CHECK_DEADLOCK FALSE
