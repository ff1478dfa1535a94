CONSTANTS
    Workers = {w1, w2}
    Inspectors = {p1}
    Items = {i1}
    Faults = {}
    Parent = parent
    None = none
SPECIFICATION Spec
SYMMETRY Symmetric
INVARIANTS
    ItemsOnlyOfStarter
    InterruptedMeansWorkerGone
    WorkerLostIsFinal
PROPERTIES
    OutcomeIsFinal
CHECK_DEADLOCK FALSE
