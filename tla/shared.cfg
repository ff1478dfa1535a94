CONSTANTS
    s1 = s1
    r1 = r1
    p1 = p1
    Commands = {c1, c2}
    PATs = {p1, p2}
    Sites = {s1}
    References = {r1}
    Environment = env
    SiteOf <- OneReference
    Targets <- SharedPAT
    NoPAT = nopat
    Free = free
    MaxSignIns = 2
    Again = TRUE
    Modes = {"reuse", "signIn", "login"}
    SessionFaults = {"epoch", "key", "save", "crash", "expire"}
    CacheWriters = {c1, c2}
    Pagers = {u1}
    PagedKinds = {"workbook"}
    Requests <- RefreshRequests
    RowCount = 2
    MaxVersion = 1
    MaxChanges = 1
    MaxPublished = 2
SPECIFICATION SharedSpec
SYMMETRY Symmetric
INVARIANTS
    EpochsOrderSessions
    CompleteMeansCollected
    PagesAreOneSnapshot
PROPERTIES
    SoleUserKeepsSession
CHECK_DEADLOCK FALSE
