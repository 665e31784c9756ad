------------------------------- MODULE Guard -------------------------------
(***************************************************************************)
(* The pure pre-execution guard of guard.py.  Given one proposal, one      *)
(* policy and one reading of the clock, EvaluateProposal says ACCEPT, HOLD *)
(* or BLOCK and why.  It keeps no state: the runtime calls it twice for    *)
(* one attempt (module CausalCell), the organism compares its outcome with *)
(* its own activation checks.                                              *)
(*                                                                         *)
(* Names are strings, timestamps are integers or None when unparsable, a   *)
(* digest is Digest(content), a URL is its parsed parts.  Reasons are a    *)
(* set: the code's order of reasons is presentation.                       *)
(***************************************************************************)
EXTENDS Integers, Sequences, FiniteSets

CONSTANTS
    None,            \* Python's None, and the result of a failed parse
    Digest(_),       \* canonical JSON followed by SHA-256: injective
    BadPort,         \* a port that urlsplit refuses to parse
    CanonicalHost,   \* host spelling -> compressed lower-case host, or None
    LoopbackHosts,   \* canonical hosts that are literal loopback addresses
    NetworkNamed     \* scopes whose name starts with "network."

LocalModelScope == "network.local_model"

BudgetFields == {"max_steps", "max_seconds", "max_cost", "max_fan_out", "max_retries"}
SensitiveClasses == {"confidential", "restricted", "unknown"}
RiskLevels == {"low", "medium", "high", "critical"}

Statuses == {"ACCEPT", "HOLD", "BLOCK"}
GuardReasons ==
    {"MISSING_INTENT", "MISSING_CAUSAL_PARENT", "MISSING_NONCE", "MALFORMED_PROPOSAL",
     "POLICY_INVALID", "INVALID_TIME_WINDOW", "PROPOSAL_NOT_YET_VALID", "PROPOSAL_EXPIRED",
     "POLICY_VERSION_MISMATCH", "ARGUMENTS_DIGEST_MISMATCH", "PROPOSAL_DIGEST_MISMATCH",
     "IDENTITY_DENIED", "ACTION_DENIED", "SCOPE_DENIED", "ACTION_SCOPE_DENIED",
     "TOOL_ORIGIN_DENIED", "DELEGATION_DENIED", "RESOURCE_BUDGET_EXCEEDED",
     "DESTINATION_DENIED", "DESTINATION_SCOPE_MISMATCH", "SECRET_DESTINATION_DENIED",
     "APPROVAL_REQUIRED", "APPROVAL_UNKNOWN", "APPROVAL_REVOKED", "APPROVAL_EXPIRED",
     "APPROVAL_BINDING_MISMATCH"}

Decision(status, reasons) == [status |-> status, reasons |-> reasons]
Decisions(reasons) == [status : Statuses, reasons : SUBSET reasons]

-----------------------------------------------------------------------------
(* Destinations.  A URL is [scheme, userinfo, host, port], with port None  *)
(* when it names none.                                                     *)

Origin(url, scheme, defaultPort) ==
    [scheme |-> scheme, host |-> CanonicalHost[url.host],
     port |-> IF url.port = None THEN defaultPort ELSE url.port]

UsableUrl(url, scheme) ==
    /\ url # None
    /\ url.scheme = scheme
    /\ ~url.userinfo
    /\ CanonicalHost[url.host] # None
    /\ url.port # BadPort

NormalizeHttpsOrigin(url) ==
    IF UsableUrl(url, "https") THEN Origin(url, "https", 443) ELSE None

\* Mutant: any host is taken for a local model.
LocalModelOfAnyHost(url) ==
    IF UsableUrl(url, "http") THEN Origin(url, "http", 80) ELSE None

NormalizeLocalModelOrigin(url) ==
    IF UsableUrl(url, "http") /\ CanonicalHost[url.host] \in LoopbackHosts
    THEN Origin(url, "http", 80) ELSE None

NormalizeEgressOrigin(url, scope) ==
    IF NormalizeHttpsOrigin(url) # None THEN NormalizeHttpsOrigin(url)
    ELSE IF scope = LocalModelScope THEN NormalizeLocalModelOrigin(url)
    ELSE None

EgressOrigins(urls, scope) ==
    {NormalizeEgressOrigin(u, scope) : u \in urls} \ {None}

-----------------------------------------------------------------------------
(* Shape of the documents.                                                 *)

ProposalDigest(p) == Digest([f \in DOMAIN p \ {"proposal_digest"} |-> p[f]])

\* What application code does before it submits a proposal: bind_proposal.
BindProposal(p) ==
    LET q == [p EXCEPT !.arguments_digest = Digest(p.arguments)]
    IN  [q EXCEPT !.proposal_digest = ProposalDigest(q)]

StructuralReasons(p) ==
    {r \in {"MISSING_INTENT", "MISSING_CAUSAL_PARENT", "MISSING_NONCE", "MALFORMED_PROPOSAL"} :
        \/ r = "MISSING_INTENT" /\ p.intent_id = ""
        \/ r = "MISSING_CAUSAL_PARENT" /\ p.parent_cause = ""
        \/ r = "MISSING_NONCE" /\ p.nonce = ""
        \/ r = "MALFORMED_PROPOSAL" /\ \/ p.idempotency_key = ""
                                       \/ p.risk_tier \notin RiskLevels
                                       \/ p.resource_budget.max_steps < 1
                                       \/ p.resource_budget.max_seconds < 1}

ApprovalValid(approval) ==
    /\ approval.status \in {"ACTIVE", "REVOKED"}
    /\ approval.expires_at # None

PolicyValid(policy) ==
    /\ DOMAIN policy.allowed_action_scopes = policy.allowed_actions
    /\ policy.allowed_actions # {}
    /\ \A a \in policy.allowed_actions :
          /\ policy.allowed_action_scopes[a] # {}
          /\ policy.allowed_action_scopes[a] \subseteq policy.allowed_scopes
    /\ policy.approval_required_risk_tiers \subseteq RiskLevels
    /\ policy.max_resource_budget.max_steps >= 1
    /\ policy.max_resource_budget.max_seconds >= 1
    /\ \A r \in DOMAIN policy.approvals : ApprovalValid(policy.approvals[r])

-----------------------------------------------------------------------------
(* The checks of an exact proposal against the policy.  Every failed check *)
(* adds its reason: none of them returns early.                            *)

\* Mutant: a proposal is expired at the instant of its expiry only.
TimeReasonsAtTheInstant(p, now) ==
    IF None \in {p.issued_at, p.expires_at} THEN {"MALFORMED_PROPOSAL"}
    ELSE {r \in {"INVALID_TIME_WINDOW", "PROPOSAL_NOT_YET_VALID", "PROPOSAL_EXPIRED"} :
             \/ r = "INVALID_TIME_WINDOW" /\ p.expires_at <= p.issued_at
             \/ r = "PROPOSAL_NOT_YET_VALID" /\ p.issued_at > now
             \/ r = "PROPOSAL_EXPIRED" /\ p.expires_at = now}

TimeReasons(p, now) ==
    IF None \in {p.issued_at, p.expires_at} THEN {"MALFORMED_PROPOSAL"}
    ELSE {r \in {"INVALID_TIME_WINDOW", "PROPOSAL_NOT_YET_VALID", "PROPOSAL_EXPIRED"} :
             \/ r = "INVALID_TIME_WINDOW" /\ p.expires_at <= p.issued_at
             \/ r = "PROPOSAL_NOT_YET_VALID" /\ p.issued_at > now
             \/ r = "PROPOSAL_EXPIRED" /\ p.expires_at <= now}

BindingReasons(p, policy) ==
    {r \in {"POLICY_VERSION_MISMATCH", "ARGUMENTS_DIGEST_MISMATCH", "PROPOSAL_DIGEST_MISMATCH"} :
        \/ r = "POLICY_VERSION_MISMATCH" /\ p.policy_version # policy.policy_version
        \/ r = "ARGUMENTS_DIGEST_MISMATCH" /\ p.arguments_digest # Digest(p.arguments)
        \/ r = "PROPOSAL_DIGEST_MISMATCH" /\ p.proposal_digest # ProposalDigest(p)}

AuthorityReasons(p, policy) ==
    {r \in {"IDENTITY_DENIED", "ACTION_DENIED", "SCOPE_DENIED", "ACTION_SCOPE_DENIED",
            "TOOL_ORIGIN_DENIED", "DELEGATION_DENIED", "RESOURCE_BUDGET_EXCEEDED"} :
        \/ r = "IDENTITY_DENIED" /\ \/ p.subject \notin policy.allowed_subjects
                                    \/ p.agent \notin policy.allowed_agents
                                    \/ p.workload \notin policy.allowed_workloads
        \/ r = "ACTION_DENIED" /\ p.action \notin policy.allowed_actions
        \/ r = "SCOPE_DENIED" /\ p.scope \notin policy.allowed_scopes
        \/ r = "ACTION_SCOPE_DENIED" /\ p.action \in policy.allowed_actions
                                     /\ p.scope \in policy.allowed_scopes
                                     /\ p.scope \notin policy.allowed_action_scopes[p.action]
        \/ r = "TOOL_ORIGIN_DENIED" /\ p.tool \notin policy.trusted_tools
        \/ r = "DELEGATION_DENIED" /\ p.delegation_chain # <<>>
                                   /\ p.delegation_chain \notin policy.allowed_delegation_chains
        \/ r = "RESOURCE_BUDGET_EXCEEDED" /\ \E f \in BudgetFields :
                  p.resource_budget[f] > policy.max_resource_budget[f]}

ScopeIsNetwork(p, policy) == p.scope \in NetworkNamed \cup policy.network_scopes

Sensitive(p) == p.contains_secret \/ p.data_classification \in SensitiveClasses

\* Mutant: an empty list of secret destinations is taken for no restriction.
DestinationReasonsEmptyMeansAny(p, policy) ==
    LET origin == NormalizeEgressOrigin(p.destination, p.scope)
    IN  {r \in {"DESTINATION_DENIED", "DESTINATION_SCOPE_MISMATCH", "SECRET_DESTINATION_DENIED"} :
           \/ r = "DESTINATION_DENIED" /\ ScopeIsNetwork(p, policy)
                 /\ origin \notin EgressOrigins(policy.allowed_destinations, p.scope)
           \/ r = "DESTINATION_SCOPE_MISMATCH" /\ ~ScopeIsNetwork(p, policy)
                 /\ p.destination # None
           \/ r = "SECRET_DESTINATION_DENIED" /\ ScopeIsNetwork(p, policy) /\ Sensitive(p)
                 /\ policy.allowed_secret_destinations # {}
                 /\ origin \notin EgressOrigins(policy.allowed_secret_destinations, p.scope)}

DestinationReasons(p, policy) ==
    LET origin == NormalizeEgressOrigin(p.destination, p.scope)
    IN  {r \in {"DESTINATION_DENIED", "DESTINATION_SCOPE_MISMATCH", "SECRET_DESTINATION_DENIED"} :
           \/ r = "DESTINATION_DENIED" /\ ScopeIsNetwork(p, policy)
                 /\ origin \notin EgressOrigins(policy.allowed_destinations, p.scope)
           \/ r = "DESTINATION_SCOPE_MISMATCH" /\ ~ScopeIsNetwork(p, policy)
                 /\ p.destination # None
           \/ r = "SECRET_DESTINATION_DENIED" /\ ScopeIsNetwork(p, policy) /\ Sensitive(p)
                 /\ origin \notin EgressOrigins(policy.allowed_secret_destinations, p.scope)}

DenialReasons(p, policy, now) ==
    BindingReasons(p, policy) \cup TimeReasons(p, now)
      \cup AuthorityReasons(p, policy) \cup DestinationReasons(p, policy)

-----------------------------------------------------------------------------
(* Approval.  It is looked at only when nothing else denies the proposal,  *)
(* and a reference that is supplied is checked even when none is required. *)

ApprovalRequired(p, policy) ==
    \/ policy.require_approval_for_irreversible /\ p.reversibility # "reversible"
    \/ p.risk_tier \in policy.approval_required_risk_tiers

\* Mutant: the approval is not bound to the digest of the proposal.
BoundFieldsWithoutProposal == {"arguments_digest", "target", "target_state_digest",
                "policy_version", "subject", "auth_context_digest"}

BoundFields == {"proposal_digest", "arguments_digest", "target", "target_state_digest",
                "policy_version", "subject", "auth_context_digest"}

ApprovalDecision(p, policy, now) ==
    IF p.approval_ref = None
    THEN IF ApprovalRequired(p, policy) THEN Decision("HOLD", {"APPROVAL_REQUIRED"})
                                        ELSE Decision("ACCEPT", {})
    ELSE IF p.approval_ref \notin DOMAIN policy.approvals
    THEN Decision("BLOCK", {"APPROVAL_UNKNOWN"})
    ELSE LET approval == policy.approvals[p.approval_ref]
         IN  IF approval.status = "REVOKED" THEN Decision("BLOCK", {"APPROVAL_REVOKED"})
             ELSE IF approval.expires_at <= now THEN Decision("BLOCK", {"APPROVAL_EXPIRED"})
             ELSE IF \E f \in BoundFields : approval[f] # p[f]
             THEN Decision("BLOCK", {"APPROVAL_BINDING_MISMATCH"})
             ELSE Decision("ACCEPT", {})

\* Mutant: an approval is asked for before the denials are looked at.
EvaluateApprovalFirst(p, policy, now) ==
    IF StructuralReasons(p) # {} THEN Decision("BLOCK", StructuralReasons(p))
    ELSE IF ~PolicyValid(policy) THEN Decision("BLOCK", {"POLICY_INVALID"})
    ELSE IF ApprovalDecision(p, policy, now).status # "ACCEPT" THEN ApprovalDecision(p, policy, now)
    ELSE IF DenialReasons(p, policy, now) # {} THEN Decision("BLOCK", DenialReasons(p, policy, now))
    ELSE Decision("ACCEPT", {})

EvaluateProposal(p, policy, now) ==
    IF StructuralReasons(p) # {} THEN Decision("BLOCK", StructuralReasons(p))
    ELSE IF ~PolicyValid(policy) THEN Decision("BLOCK", {"POLICY_INVALID"})
    ELSE IF DenialReasons(p, policy, now) # {} THEN Decision("BLOCK", DenialReasons(p, policy, now))
    ELSE ApprovalDecision(p, policy, now)

=============================================================================
