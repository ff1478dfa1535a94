CONSTANTS
    Inspectors = {p1, p2}
    Receipts = 1
    Bare = 0
    Batch = FALSE
    Saved = {"kept", "lost", "interrupted"}
    Endings = {"succeeded", "failed", "cancelled"}
    Steady = TRUE
    MaxInspections = 2
SPECIFICATION Spec
SYMMETRY Symmetric
INVARIANTS
    TypeOK
    SuccessfulResultIsTrue
PROPERTIES
    RecordedOutcomeStays
CHECK_DEADLOCK FALSE
