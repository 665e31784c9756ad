-------------------------- MODULE ProposalFactory --------------------------
(***************************************************************************)
(* The trusted host side of the organism that never asks the guard: what   *)
(* the constructors of StaticProposalFactory and OrganismRunner accept,    *)
(* the static checks of a manifest, the preflight of a run, and the two    *)
(* compilers that turn a model call and a model's draft into proposals.    *)
(* Everything here is a pure function of the host's configuration.         *)
(*                                                                         *)
(* A host is a record: manifest, organism_policy, invocation_policy,       *)
(* action_policy (policies as in module Guard), adapters (id -> identity), *)
(* capabilities, executors and the two policy versions of the factory.     *)
(*                                                                         *)
(* A target, and a target prefix, is [url, fragment, path]: url is None    *)
(* for a name that is no network locator, and path is a sequence of        *)
(* segments, the last one "" when the text ends in a separator.            *)
(***************************************************************************)
EXTENDS Guard

CONSTANT AnyHttps     \* the url of the bare prefix "https://"

ModelStages == {"observer", "analyst"}

DataClassificationRank ==
    [public |-> 0, internal |-> 1, confidential |-> 2, restricted |-> 3, unknown |-> 4]

JoinDataClassification(left, right) ==
    IF {left, right} \subseteq DOMAIN DataClassificationRank
    THEN IF DataClassificationRank[left] >= DataClassificationRank[right] THEN left ELSE right
    ELSE "unknown"

\* The label of a run once data with another label has entered it.
JoinLabel(context, label) ==
    LET joined == JoinDataClassification(context.data_classification, label.data_classification)
    IN  [context EXCEPT !.data_classification = joined,
                        !.contains_secret = @ \/ label.contains_secret \/ joined = "unknown"]

-----------------------------------------------------------------------------
(* Targets.                                                                *)

LooksLikeNetworkLocator(t) == t.url # None

TargetOrigin(t) == IF t.url = AnyHttps THEN None ELSE NormalizeHttpsOrigin(t.url)

\* An origin written as a URL again.
OriginUrl(origin) ==
    [scheme |-> origin.scheme, userinfo |-> FALSE, host |-> origin.host, port |-> origin.port]

CanonicalHttpsTarget(t) ==
    IF TargetOrigin(t) = None \/ t.fragment THEN None
    ELSE [t EXCEPT !.url = OriginUrl(TargetOrigin(t)), !.path = IF @ = <<>> THEN <<"">> ELSE @]

PathMatchesPrefix(path, prefix) ==
    /\ Len(prefix) <= Len(path)
    /\ \A i \in 1..Len(prefix) : path[i] = prefix[i] \/ (i = Len(prefix) /\ prefix[i] = "")

TargetMatchesPrefix(t, prefix) ==
    IF prefix.url = AnyHttps THEN LooksLikeNetworkLocator(t) /\ t.url.scheme = "https"
    ELSE /\ t.url = prefix.url
         /\ t.fragment = prefix.fragment
         /\ PathMatchesPrefix(t.path, prefix.path)

TargetPrefixCanReachDestination(prefix, destination) ==
    \/ ~LooksLikeNetworkLocator(prefix)
    \/ prefix.url = AnyHttps
    \/ /\ CanonicalHttpsTarget(prefix) # None
       /\ TargetOrigin(prefix) = NormalizeHttpsOrigin(destination)

-----------------------------------------------------------------------------
(* Construction.  A capability is [capability_id, action, scope,           *)
(* executor_id, tool, reversibility, risk_tier, allowed_target_prefixes,   *)
(* allowed_argument_keys, required_argument_keys, resource_budget,         *)
(* contains_secret, destination, bare, data_classification]; bare says     *)
(* that the destination has no path, query or fragment.                    *)

ResourceBudgetValid(budget) ==
    /\ budget.max_steps >= 1 /\ budget.max_seconds >= 1
    /\ \A f \in BudgetFields : budget[f] >= 0

NormalizedPrefix(prefix) ==
    IF LooksLikeNetworkLocator(prefix) /\ CanonicalHttpsTarget(prefix) # None
    THEN CanonicalHttpsTarget(prefix) ELSE prefix

NormalizedCapability(c) ==
    [c EXCEPT !.allowed_target_prefixes = {NormalizedPrefix(prefix) : prefix \in @},
              !.destination = IF @ = None THEN None ELSE OriginUrl(NormalizeHttpsOrigin(@))]

CapabilityAccepted(c) ==
    /\ c.reversibility = "reversible"
    /\ c.risk_tier \in {"low", "medium"}
    /\ c.allowed_target_prefixes # {}
    /\ c.required_argument_keys \subseteq c.allowed_argument_keys
    /\ ResourceBudgetValid(c.resource_budget)
    /\ c.data_classification \in DOMAIN DataClassificationRank
    /\ c.scope \in NetworkNamed => c.destination # None
    /\ c.destination # None =>
          /\ c.bare /\ NormalizeHttpsOrigin(c.destination) # None
          /\ \E prefix \in c.allowed_target_prefixes :
                TargetPrefixCanReachDestination(prefix, c.destination)

FactoryAccepts(host) ==
    /\ \A c \in host.capabilities : CapabilityAccepted(c)
    /\ \A c, d \in host.capabilities : c.capability_id = d.capability_id => c = d

\* OrganismPolicy.__post_init__.
OrganismPolicyValid(policy) ==
    /\ policy.allowed_adapter_identity_digests # {} /\ policy.allowed_capability_ids # {}
    /\ policy.max_steps >= 3 /\ policy.max_seconds >= 1 /\ policy.max_model_calls >= 2
    /\ policy.max_output_tokens_per_call >= 1
    /\ policy.max_total_tokens >= 2 * policy.max_output_tokens_per_call
    /\ policy.max_cost_microunits_per_call >= 0
    /\ policy.max_total_cost_microunits >= 2 * policy.max_cost_microunits_per_call
    /\ policy.max_retries >= 0 /\ policy.max_fan_out >= 1

\* Organism v0.1 excludes policies that ask for approvals.
ApprovalsExcluded(policy) ==
    /\ ~policy.require_approval_for_irreversible
    /\ policy.approval_required_risk_tiers = {}
    /\ DOMAIN policy.approvals = {}

RunnerAccepts(host) ==
    /\ OrganismPolicyValid(host.organism_policy)
    /\ \A policy \in {host.invocation_policy, host.action_policy} :
          PolicyValid(policy) /\ ApprovalsExcluded(policy)

-----------------------------------------------------------------------------
(* The static part of evaluate_organism_manifest: all of it except the     *)
(* activation, which is module Organism's.  identity is what the adapters  *)
(* say of themselves at this moment.                                       *)

LimitFields ==
    {"max_steps", "max_seconds", "max_model_calls", "max_output_tokens_per_call",
     "max_total_tokens", "max_cost_microunits_per_call", "max_total_cost_microunits",
     "max_retries", "max_fan_out"}

ManifestDigest(manifest) ==
    Digest([f \in DOMAIN manifest \ {"manifest_digest"} |-> manifest[f]])

BindOrganismManifest(manifest) == [manifest EXCEPT !.manifest_digest = ManifestDigest(manifest)]

LimitsWithinPolicy(limits, policy) ==
    /\ limits.max_steps = 3 /\ limits.max_model_calls = 2
    /\ limits.max_retries = 0 /\ limits.max_fan_out = 1
    /\ limits.max_seconds >= 1 /\ limits.max_output_tokens_per_call >= 1
    /\ limits.max_total_tokens >= 2 * limits.max_output_tokens_per_call
    /\ limits.max_total_cost_microunits >= 2 * limits.max_cost_microunits_per_call
    /\ \A f \in LimitFields : limits[f] <= policy[f]

AdapterPinned(host, stage, identity) ==
    LET cell == host.manifest.pipeline[stage]
        digest == Digest(identity[cell.adapter_id])
    IN  /\ identity[cell.adapter_id].adapter_id = cell.adapter_id
        /\ cell.adapter_identity_digest = digest
        /\ digest \in host.organism_policy.allowed_adapter_identity_digests

ManifestReasons(host, identity) ==
    LET manifest == host.manifest
        pipeline == manifest.pipeline
        Known(s) == pipeline[s].adapter_id \in DOMAIN identity
        Stages == {"observer", "analyst", "executor"}
        capabilities == pipeline.executor.allowed_capability_ids
    IN  {r \in {"MANIFEST_MALFORMED", "MANIFEST_DIGEST_MISMATCH", "MANIFEST_POLICY_MISMATCH",
                "NESTED_SPAWN_DENIED", "MANIFEST_IDENTITY_CONFLICT", "MANIFEST_BUDGET_INVALID",
                "ADAPTER_UNKNOWN", "ADAPTER_PROVENANCE_DENIED", "CAPABILITY_DENIED",
                "MANIFEST_LIMITS_EXCEEDED"} :
           \/ r = "MANIFEST_MALFORMED" /\ "" \in {manifest.organism_id, manifest.policy_version}
           \/ r = "MANIFEST_DIGEST_MISMATCH" /\ manifest.manifest_digest # ManifestDigest(manifest)
           \/ r = "MANIFEST_POLICY_MISMATCH"
                 /\ manifest.policy_version # host.organism_policy.policy_version
           \/ r = "NESTED_SPAWN_DENIED" /\ \E s \in ModelStages :
                 \/ pipeline[s].invocation_action = "create_organism"
                 \/ pipeline[s].invocation_scope = "organism.spawn"
           \/ r = "MANIFEST_IDENTITY_CONFLICT" /\ \E s, t \in Stages :
                 s # t /\ \/ pipeline[s].cell_id = pipeline[t].cell_id
                          \/ pipeline[s].agent_id = pipeline[t].agent_id
           \/ r = "MANIFEST_BUDGET_INVALID" /\ \E s \in ModelStages :
                 ~ResourceBudgetValid(pipeline[s].resource_budget)
           \/ r = "ADAPTER_UNKNOWN" /\ \E s \in ModelStages : ~Known(s)
           \/ r = "ADAPTER_PROVENANCE_DENIED" /\ \E s \in ModelStages :
                 Known(s) /\ ~AdapterPinned(host, s, identity)
           \/ r = "CAPABILITY_DENIED"
                 /\ \/ capabilities = {}
                    \/ ~(capabilities \subseteq host.organism_policy.allowed_capability_ids)
           \/ r = "MANIFEST_LIMITS_EXCEEDED"
                 /\ ~LimitsWithinPolicy(manifest.limits, host.organism_policy)}

-----------------------------------------------------------------------------
(* The preflight: what would the guard say of every call this run can      *)
(* make?  The answer is worked out here a second time, from the host's     *)
(* records and not from a proposal.                                        *)

\* Mutant: the labels are left to the guard.
StaticallyAllowsAnyLabel(policy, q) ==
    LET origin == NormalizeEgressOrigin(q.destination, q.scope)
    IN  /\ q.subject \in policy.allowed_subjects
        /\ q.agent \in policy.allowed_agents
        /\ q.workload \in policy.allowed_workloads
        /\ q.action \in policy.allowed_actions
        /\ q.scope \in policy.allowed_scopes
        /\ q.scope \in policy.allowed_action_scopes[q.action]
        /\ q.tool \in policy.trusted_tools
        /\ \A f \in BudgetFields : q.resource_budget[f] <= policy.max_resource_budget[f]
        /\ IF q.scope \in NetworkNamed \cup policy.network_scopes
           THEN origin \in EgressOrigins(policy.allowed_destinations, q.scope)
           ELSE q.destination = None

\* Mutant: every destination is compared as an HTTPS origin.
StaticallyAllowsHttpsOnly(policy, q) ==
    LET origin == NormalizeHttpsOrigin(q.destination)
    IN  /\ StaticallyAllowsAnyLabel(policy, q)
        /\ q.scope \in NetworkNamed \cup policy.network_scopes =>
              /\ origin # None
              /\ Sensitive(q) => origin \in EgressOrigins(policy.allowed_secret_destinations, q.scope)

PolicyStaticallyAllows(policy, q) ==
    LET origin == NormalizeEgressOrigin(q.destination, q.scope)
    IN  /\ q.subject \in policy.allowed_subjects
        /\ q.agent \in policy.allowed_agents
        /\ q.workload \in policy.allowed_workloads
        /\ q.action \in policy.allowed_actions
        /\ q.scope \in policy.allowed_scopes
        /\ q.scope \in policy.allowed_action_scopes[q.action]
        /\ q.tool \in policy.trusted_tools
        /\ \A f \in BudgetFields : q.resource_budget[f] <= policy.max_resource_budget[f]
        /\ IF q.scope \in NetworkNamed \cup policy.network_scopes
           THEN /\ origin \in EgressOrigins(policy.allowed_destinations, q.scope)
                /\ Sensitive(q) =>
                      origin \in EgressOrigins(policy.allowed_secret_destinations, q.scope)
           ELSE q.destination = None

CapabilityOf(host, id) == CHOOSE c \in host.capabilities : c.capability_id = id

\* All the reasons there are; the code names the first it meets.
RegistryReasons(host) ==
    LET Unknown(id) == \A c \in host.capabilities : c.capability_id # id
        Reason(id) ==
            IF Unknown(id) THEN "CAPABILITY_UNKNOWN"
            ELSE IF \/ CapabilityOf(host, id).action = "create_organism"
                    \/ CapabilityOf(host, id).scope = "organism.spawn" THEN "NESTED_SPAWN_DENIED"
            ELSE IF CapabilityOf(host, id).executor_id \notin host.executors THEN "EXECUTOR_UNKNOWN"
            ELSE None
    IN  {Reason(id) : id \in host.manifest.pipeline.executor.allowed_capability_ids} \ {None}

PolicyVersionReasons(host) ==
    IF /\ host.invocation_policy.policy_version = host.invocation_policy_version
       /\ host.action_policy.policy_version = host.action_policy_version
    THEN {} ELSE {"PROPOSAL_FACTORY_POLICY_MISMATCH"}

\* What the preflight asks of one model stage.
InvocationAllowed(host, stage, identity, context) ==
    LET cell == host.manifest.pipeline[stage]
        adapter == identity[cell.adapter_id]
    IN  PolicyStaticallyAllows(host.invocation_policy,
            [subject |-> context.subject, agent |-> cell.agent_id,
             workload |-> host.manifest.organism_id,
             action |-> cell.invocation_action, scope |-> cell.invocation_scope,
             tool |-> adapter.tool, resource_budget |-> cell.resource_budget,
             destination |-> adapter.destination, contains_secret |-> context.contains_secret,
             data_classification |-> context.data_classification])

\* What it asks of one capability.
CapabilityAllowed(host, c, context) ==
    LET joined == JoinDataClassification(context.data_classification, c.data_classification)
    IN  PolicyStaticallyAllows(host.action_policy,
            [subject |-> context.subject, agent |-> host.manifest.pipeline.executor.agent_id,
             workload |-> host.manifest.organism_id, action |-> c.action, scope |-> c.scope,
             tool |-> c.tool, resource_budget |-> c.resource_budget,
             destination |-> c.destination,
             contains_secret |-> context.contains_secret \/ c.contains_secret \/ joined = "unknown",
             data_classification |-> joined])

\* Each group of checks is reached only when the ones before it found nothing.
ConfigurationReasons(host, identity, context) ==
    LET registry == PolicyVersionReasons(host) \cup RegistryReasons(host)
    IN  IF registry # {} THEN registry
        ELSE IF \E s \in ModelStages : ~InvocationAllowed(host, s, identity, context)
        THEN {"INVOCATION_POLICY_INCOMPATIBLE"}
        ELSE IF \E id \in host.manifest.pipeline.executor.allowed_capability_ids :
                    ~CapabilityAllowed(host, CapabilityOf(host, id), context)
        THEN {"ACTION_POLICY_INCOMPATIBLE"}
        ELSE {}

-----------------------------------------------------------------------------
(* The compilers.                                                          *)

\* model_invocation.  Nonce and key carry the run id, which is fresh.
ModelInvocation(host, stage, adapter, context, until) ==
    LET cell == host.manifest.pipeline[stage]
    IN  BindProposal(
            [intent_id |-> context.intent_id, parent_cause |-> context.parent_cause,
             nonce |-> stage, idempotency_key |-> stage,
             policy_version |-> host.invocation_policy_version,
             arguments |-> Digest(adapter), arguments_digest |-> None, proposal_digest |-> None,
             issued_at |-> context.issued_at, expires_at |-> until,
             subject |-> context.subject, agent |-> cell.agent_id,
             workload |-> host.manifest.organism_id,
             action |-> cell.invocation_action, scope |-> cell.invocation_scope,
             tool |-> adapter.tool, delegation_chain |-> <<>>,
             resource_budget |-> cell.resource_budget, destination |-> adapter.destination,
             contains_secret |-> context.contains_secret,
             data_classification |-> context.data_classification,
             reversibility |-> "reversible",
             risk_tier |-> IF stage = "observer" THEN "low" ELSE "medium",
             approval_ref |-> None, target |-> adapter.model, target_state_digest |-> stage,
             auth_context_digest |-> context.auth_context_digest])

\* A draft is [kind, conflict, capability_id, target, arguments]; conflict
\* says that it carries fields it must not have.
DraftReasons(draft) ==
    {r \in {"ACTION_DRAFT_AUTHORITY_CONFLICT", "ACTION_DRAFT_INVALID"} :
        \/ r = "ACTION_DRAFT_AUTHORITY_CONFLICT" /\ draft.conflict
        \/ r = "ACTION_DRAFT_INVALID" /\ draft.kind \notin {"ACTION", "NO_ACTION"}}

CompiledTarget(target) ==
    IF LooksLikeNetworkLocator(target) THEN CanonicalHttpsTarget(target) ELSE target

\* Mutant: the origin of the target is left to the prefixes.
CompilationReasonByPrefix(host, draft, verdict) ==
    LET c == CapabilityOf(host, draft.capability_id)
        target == CompiledTarget(draft.target)
    IN  IF \A d \in host.capabilities : d.capability_id # draft.capability_id
        THEN "CAPABILITY_UNKNOWN"
        ELSE IF draft.capability_id \notin host.manifest.pipeline.executor.allowed_capability_ids
        THEN "CAPABILITY_DENIED"
        ELSE IF target = None THEN "TARGET_DENIED"
        ELSE IF \/ \A prefix \in c.allowed_target_prefixes : ~TargetMatchesPrefix(target, prefix)
                \/ ~verdict.target
        THEN "TARGET_DENIED"
        ELSE IF \/ ~(c.required_argument_keys \subseteq draft.arguments)
                \/ ~(draft.arguments \subseteq c.allowed_argument_keys)
                \/ ~verdict.arguments
        THEN "ARGUMENTS_DENIED"
        ELSE IF ~verdict.state THEN "TARGET_STATE_RESOLUTION_FAILED"
        ELSE None

\* The first check that fails.  verdict is what the capability's callbacks
\* (target validator, argument validator, resolver of the target's state) say.
CompilationReason(host, draft, verdict) ==
    LET c == CapabilityOf(host, draft.capability_id)
        target == CompiledTarget(draft.target)
    IN  IF \A d \in host.capabilities : d.capability_id # draft.capability_id
        THEN "CAPABILITY_UNKNOWN"
        ELSE IF draft.capability_id \notin host.manifest.pipeline.executor.allowed_capability_ids
        THEN "CAPABILITY_DENIED"
        ELSE IF target = None THEN "TARGET_DENIED"
        ELSE IF LooksLikeNetworkLocator(target)
                /\ (c.destination = None \/ TargetOrigin(target) # NormalizeHttpsOrigin(c.destination))
        THEN "TARGET_DESTINATION_MISMATCH"
        ELSE IF \/ \A prefix \in c.allowed_target_prefixes : ~TargetMatchesPrefix(target, prefix)
                \/ ~verdict.target
        THEN "TARGET_DENIED"
        ELSE IF \/ ~(c.required_argument_keys \subseteq draft.arguments)
                \/ ~(draft.arguments \subseteq c.allowed_argument_keys)
                \/ ~verdict.arguments
        THEN "ARGUMENTS_DENIED"
        ELSE IF ~verdict.state THEN "TARGET_STATE_RESOLUTION_FAILED"
        ELSE None

\* Mutant: the effect is named by the target as the model wrote it.
SemanticActionAsWritten(c, draft, context) ==
    Digest(<<context.subject, context.intent_id, context.parent_cause, c.action, c.scope,
             draft.target, c.destination, Digest(draft.arguments)>>)

\* What makes two actions the same effect, whatever run compiled them.
SemanticActionDigest(c, draft, context) ==
    Digest(<<context.subject, context.intent_id, context.parent_cause, c.action, c.scope,
             CompiledTarget(draft.target), c.destination, Digest(draft.arguments)>>)

\* action_from_draft, of a draft without a CompilationReason.  cause is the
\* digest of the analyst's result.
ActionFromDraft(host, draft, context, state, cause, until) ==
    LET c == CapabilityOf(host, draft.capability_id)
        joined == JoinDataClassification(context.data_classification, c.data_classification)
    IN  BindProposal(
            [intent_id |-> context.intent_id, parent_cause |-> cause,
             nonce |-> "action", idempotency_key |-> SemanticActionDigest(c, draft, context),
             policy_version |-> host.action_policy_version,
             arguments |-> draft.arguments, arguments_digest |-> None, proposal_digest |-> None,
             issued_at |-> context.issued_at, expires_at |-> until,
             subject |-> context.subject, agent |-> host.manifest.pipeline.executor.agent_id,
             workload |-> host.manifest.organism_id,
             action |-> c.action, scope |-> c.scope, tool |-> c.tool, delegation_chain |-> <<>>,
             resource_budget |-> c.resource_budget, destination |-> c.destination,
             contains_secret |-> context.contains_secret \/ c.contains_secret \/ joined = "unknown",
             data_classification |-> joined,
             reversibility |-> c.reversibility, risk_tier |-> c.risk_tier, approval_ref |-> None,
             target |-> CompiledTarget(draft.target), target_state_digest |-> state,
             auth_context_digest |-> context.auth_context_digest])

=============================================================================
