CONSTANTS
    Workers = {w1}
    Inspectors = {}
    Items = {i1, i2}
    Faults = {"write", "sync", "read"}
    Parent = parent
    None = none
SPECIFICATION Spec
SYMMETRY Symmetric
INVARIANTS
    TypeOK
    CompletedIsTrue
    AcknowledgedMeansStopping
    ParentReportsFacts
PROPERTIES
    ImplementsPublishOnce
CHECK_DEADLOCK FALSE
