SPECIFICATION Spec
CONSTANTS
    None = None
    BadPort = BadPort
    Digest <- MCDigest
    CanonicalHost <- MCCanonicalHost
    LoopbackHosts = {"127.0.0.1"}
    NetworkNamed = {"network.api", "network.local_model"}
    Proposals <- MCProposals
    Policy <- MCPolicy
    NarrowerPolicies <- MCNarrowerPolicies
    MaxTime = 7
INVARIANTS
    PermissionNeverReturns
    NarrowingNeverPermits
    HoldLacksOnlyApproval
    ApprovalCoversOneProposal
    EgressReachesAllowedEndpoint
