CONSTANTS
    Inspectors = {p1, p2}
    Receipts = 2
    Bare = 1
    Batch = TRUE
    Saved = {"kept"}
    Endings = {"succeeded", "failed"}
    Steady = TRUE
    MaxInspections = 1
SPECIFICATION Spec
SYMMETRY Symmetric
INVARIANTS
    CompletedIsTrue
PROPERTIES
    EndedJobsSettle
CHECK_DEADLOCK FALSE
