SPECIFICATION FairSpec
CONSTANTS
    None = None
    Runs = {1}
    SemanticKey <- One
    Issued <- OneIssued
    Expires <- OneExpires
    Preflight <- OnePreflight
    Labelled = {}
    Effects = {"effect"}
    AdapterOf <- TwoAdapters
    Mutable = {"a"}
    Registries <- MCRegistries
    Secret = {"observer", "analyst"}
    Usages <- MCUsages
    MaxSeconds = 2
    CellSeconds = 1
    MaxOutput = 2
    MaxTotal = 5
    Times = {0, 1, 2, 3}
INVARIANTS
    OrganismInv
    AuthorityCoversAction
    EffectsAreAdmitted
    UsageIsReported
    SensitiveDataStaysInside
    NoWorkBeyondBudget
PROPERTIES
    EveryRunEnds
