SPECIFICATION Spec
CONSTANTS
    None = None
    Partial = Partial
    Edited = Edited
    Written = Written
    Records <- TwoRecords
    Verifiers = {"writer", "auditor"}
    Own = "writer"
    MaxEdits = 3
INVARIANTS
    UneditedBundle
    TamperEvident
CHECK_DEADLOCK FALSE
