CONSTANTS
    s1 = s1
    s2 = s2
    Commands = {c1, c2}
    PATs = {p1, p2}
    Sites = {s1, s2}
    References = {}
    Environment = env
    SiteOf <- NoReference
    Targets <- TwoTargets
    NoPAT = nopat
    Free = free
    MaxSignIns = 0
    Again = FALSE
    Modes = {"reuse"}
    SessionFaults = {}
    Calls = {r1, r2}
    MaxTokens = 2
    Waiters = {w1, w2}
    Jobs = {j1}
    NoJob = nojob
    Nobody = nobody
    WaitLimit = 1
    PollInterval = 1
    MaxReadFailures = 2
    JobFaults = {"interrupt"}
    MaxClock = 1
    MaxAnswers = 1
SPECIFICATION ProgressSpec
PROPERTIES
    NobodyWaitsForEver
CHECK_DEADLOCK FALSE
