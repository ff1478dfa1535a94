CONSTANTS
    Inspectors = {p1, p2}
    Receipts = 1
    Bare = 0
    Batch = FALSE
    Saved = {"kept", "interrupted"}
    Endings = {"succeeded", "failed", "cancelled"}
    Steady = FALSE
    MaxInspections = 2
SPECIFICATION Spec
SYMMETRY Symmetric
PROPERTIES
    SavedOutcomeStays
    EvidenceOnlyGrows
CHECK_DEADLOCK FALSE
