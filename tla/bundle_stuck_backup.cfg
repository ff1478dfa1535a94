CONSTANTS
    Entries <- TwoEntries
    MaxPulls = 3
    StuckBackups = TRUE
    BundleFaults = 3
    MaxEdits = 3
    MaxRemovals = 3
    Lockers = {p1, p2}
    NoLocker = nobody
    RootAttempts = 3
    MaxFiles = 4
    Collectors = {w1}
    Phases <- FirstPagesThenOthers
    Deniable = {}
    InitialLimit = 1
    MaxTries = 1
    JobQueue = 1
    BatchQueue = 1
    RefreshFaults = 0
SPECIFICATION LocalSpec
INVARIANTS
    SuccessIsKept
CHECK_DEADLOCK FALSE
