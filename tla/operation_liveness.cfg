CONSTANTS
    Workers = {w1}
    Inspectors = {}
    Items = {i1}
    Faults = {"write", "read"}
    Parent = parent
    None = none
SPECIFICATION FairSpec
PROPERTIES
    CancelEndsWorker
    ParentReturns
CHECK_DEADLOCK FALSE
