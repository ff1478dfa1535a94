CONSTANTS
    Inspectors = {p1}
    Receipts = 1
    Bare = 1
    Batch = TRUE
    Saved = {"lost"}
    Endings = {"succeeded", "failed"}
    Steady = TRUE
    MaxInspections = 1
SPECIFICATION Spec
SYMMETRY Symmetric
INVARIANTS
    CompletedIsTrue
CHECK_DEADLOCK FALSE
