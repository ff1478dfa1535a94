CONSTANTS
    Entries <- TwoEntries
    MaxPulls = 2
    StuckBackups = FALSE
    BundleFaults = 2
    MaxEdits = 3
    MaxRemovals = 3
    Lockers = {p1, p2}
    NoLocker = nobody
    RootAttempts = 3
    MaxFiles = 4
    Collectors = {w1, w2}
    Phases <- FirstPagesThenOthers
    Deniable = {2, 3}
    InitialLimit = 1
    MaxTries = 2
    JobQueue = 1
    BatchQueue = 1
    RefreshFaults = 1
SPECIFICATION LocalFairSpec
INVARIANTS
    BundleIsSafe
    MoveKeepsArtifact
    LockIsExclusive
    RefreshIsTrue
PROPERTIES
    QuietEditsSurvive
    BegunIsEnded
CHECK_DEADLOCK FALSE
