SPECIFICATION Spec
CONSTANTS
    p1 = p1
    p2 = p2
    None = None
    BadPort = BadPort
    Digest <- MCDigest
    CanonicalHost <- MCCanonicalHost
    LoopbackHosts = {}
    NetworkNamed = {}
    Attempts = {1, 2, 3}
    Processes = {p1, p2}
    ProcessOf <- RetryProcess
    Proposal <- Retries
    Policy <- MCPolicy
    Durable = TRUE
    Compliant = TRUE
    Times = {0, 1, 2}
INVARIANTS
    CellInv
    AtMostOneDispatch
    StoreHoldsGrantedClaims
    ReplayIsNeverFalse
    BundleTellsTheTruth
    RecordedDecisionIsReproducible
PROPERTIES
    ClaimIsFresh
    ImplementsReplayClaims
