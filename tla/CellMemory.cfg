SPECIFICATION FairSpec
CONSTANTS
    p1 = p1
    p2 = p2
    None = None
    BadPort = BadPort
    Digest <- MCDigest
    CanonicalHost <- MCCanonicalHost
    LoopbackHosts = {}
    NetworkNamed = {}
    Attempts = {1, 2, 3}
    Processes = {p1, p2}
    ProcessOf <- MixedProcess
    Proposal <- Mixed
    Policy <- MCPolicy
    Durable = FALSE
    Compliant = TRUE
    Times = {1, 2}
INVARIANTS
    AtMostOneDispatchPerProcessLife
PROPERTIES
    EveryCallEnds
    ClaimIsUsed
