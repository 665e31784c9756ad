SPECIFICATION Spec
CONSTANTS
    None = None
    Runs = {1, 2, 3}
    SemanticKey <- Three
    Issued <- ThreeIssued
    Expires <- ThreeExpires
    Preflight <- ThreePreflight
    Labelled = {}
    Effects = {"e"}
    AdapterOf <- TwoAdapters
    Mutable = {}
    Registries <- Steady
    Secret = {"observer", "analyst", "action"}
    Usages <- OneUsage
    MaxSeconds = 2
    CellSeconds = 1
    MaxOutput = 2
    MaxTotal = 5
    Times = {0}
INVARIANTS
    SemanticRunOnce
    SemanticEffectOnce
