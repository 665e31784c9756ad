SPECIFICATION Spec
CONSTANTS
    None = None
    Runs = {1}
    SemanticKey <- One
    Issued <- OneIssued
    Expires <- OneExpires
    Preflight <- OnePreflight
    Labelled = {}
    Effects = {"effect"}
    AdapterOf <- TwoAdapters
    Mutable = {}
    Registries <- Revocation
    Secret = {"observer"}
    Usages <- OneUsage
    MaxSeconds = 2
    CellSeconds = 1
    MaxOutput = 2
    MaxTotal = 5
    Times = {0}
INVARIANTS
    HoldDispatchesNothing
