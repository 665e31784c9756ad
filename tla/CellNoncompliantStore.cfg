SPECIFICATION Spec
CONSTANTS
    p1 = p1
    p2 = p2
    None = None
    BadPort = BadPort
    Digest <- MCDigest
    CanonicalHost <- MCCanonicalHost
    LoopbackHosts = {}
    NetworkNamed = {}
    Attempts = {1, 2, 3}
    Processes = {p1, p2}
    ProcessOf <- MixedProcess
    Proposal <- Doubtful
    Policy <- MCPolicy
    Durable = TRUE
    Compliant = FALSE
    Times = {0, 1, 2}
INVARIANTS
    DispatchIsFreshlyAuthorized
