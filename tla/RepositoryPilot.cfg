SPECIFICATION Spec
CONSTANTS
    None = None
    Digest <- MCDigest
    Unusable <- MCUnusable
    MaxResponseBytes = 2
    MaxUsage = 8
    Pilots = {p, q}
    Models = {m, n}
    Replies <- MCReplies
    Trees <- MCTrees
    MaxEdits = 1
    ExcludedNames = {8}
    SecretNames = {9}
    TextNames = {1, 2}
    MaxDirectories = 3
    MaxEntries = 5
    MaxDirectoryEntries = 3
    MaxFiles = 2
    MaxHashBytes = 2
    MaxExcerptBytes = 2
    MaxTotalExcerptBytes = 3
    MaxOutputTokens = 1
    MaxTotalTokens = 4
SYMMETRY MCSymmetry
INVARIANTS
    UnchangedTreeIsObservedOnce
    SnapshotTellsTheTruth
    ReportsAreTrue
    AdapterKeepsContract
