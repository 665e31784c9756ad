SPECIFICATION Spec
CONSTANTS
    None = None
    BadPort = BadPort
    AnyHttps = AnyHttps
    Digest <- MCDigest
    CanonicalHost <- MCCanonicalHost
    LoopbackHosts = {"127.0.0.1"}
    NetworkNamed = {"network.model", "network.egress", "network.local_model"}
    Hosts <- MCHosts
    Contexts <- MCContexts
    Labels <- MCLabels
    Drifting <- MCDrifting
    Drafts <- MCDrafts
    Verdicts <- MCVerdicts
    Times = {0, 1, 2}
INVARIANTS
    PreflightSettlesAuthority
    PreflightRefusesOnlyTheImpossible
    TargetIsAtDestination
    EffectKeyNamesTheEffect
