--------------------------- MODULE AdmissionProofs ---------------------------
(***************************************************************************)
(* What the preflight settles, for every host, policy, context, draft and  *)
(* adapter: it and the guard were written apart, and agree.                *)
(***************************************************************************)
EXTENDS Admission, TLAPS

-----------------------------------------------------------------------------
(* The preflight's question and the guard's.                               *)

\* What the guard asks of a proposal besides its form, its binding and its
\* time is what the preflight has asked, for a proposal like the one the
\* preflight had in mind.  A label that rose since can only cost the secret
\* destination.
THEOREM PreflightAgreesWithGuard ==
    ASSUME NEW policy, NEW p, NEW q,
           policy.max_resource_budget \in Counts, q.resource_budget \in Counts,
           \A f \in {"subject", "agent", "workload", "action", "scope", "tool",
                     "resource_budget", "destination"} : p[f] = q[f],
           p.delegation_chain = <<>>,
           PolicyStaticallyAllows(policy, q)
    PROVE  /\ AuthorityReasons(p, policy) = {}
           /\ DestinationReasons(p, policy) \subseteq {"SECRET_DESTINATION_DENIED"}
           /\ (Sensitive(p) => Sensitive(q)) => DestinationReasons(p, policy) = {}
<1>1. /\ p.subject = q.subject /\ p.agent = q.agent /\ p.workload = q.workload
      /\ p.action = q.action /\ p.scope = q.scope /\ p.tool = q.tool
      /\ p.resource_budget = q.resource_budget /\ p.destination = q.destination
  OBVIOUS
<1>2. \A f \in BudgetFields : ~(q.resource_budget[f] > policy.max_resource_budget[f])
  BY DEF PolicyStaticallyAllows, Counts
<1>3. AuthorityReasons(p, policy) = {}
  BY <1>1, <1>2 DEF AuthorityReasons, PolicyStaticallyAllows
<1>4. ScopeIsNetwork(p, policy) =>
         NormalizeEgressOrigin(p.destination, p.scope) \in EgressOrigins(policy.allowed_destinations, p.scope)
  BY <1>1 DEF PolicyStaticallyAllows, ScopeIsNetwork
<1>5. ~ScopeIsNetwork(p, policy) => p.destination = None
  BY <1>1 DEF PolicyStaticallyAllows, ScopeIsNetwork
<1>6. ScopeIsNetwork(p, policy) /\ Sensitive(q) =>
         NormalizeEgressOrigin(p.destination, p.scope)
            \in EgressOrigins(policy.allowed_secret_destinations, p.scope)
  BY <1>1 DEF PolicyStaticallyAllows, ScopeIsNetwork
<1> QED BY <1>3, <1>4, <1>5, <1>6 DEF DestinationReasons

\* Approvals are excluded, and nothing the compilers build refers to one.
LEMMA NothingIsHeld ==
    ASSUME NEW policy, NEW p, NEW t, ApprovalsExcluded(policy), p.approval_ref = None
    PROVE  ApprovalDecision(p, policy, t) = Decision("ACCEPT", {})
BY DEF ApprovalsExcluded, ApprovalDecision, ApprovalRequired

\* A proposal that was bound and whose form is right, under a policy that is
\* valid and its own.
Compiled(p, policy) ==
    /\ StructuralReasons(p) = {}
    /\ BindingReasons(p, policy) = {}
    /\ None \notin {p.issued_at, p.expires_at}
    /\ p.delegation_chain = <<>>
    /\ p.approval_ref = None

LEMMA GuardOnCompiled ==
    ASSUME NEW policy, NEW p, NEW t,
           PolicyValid(policy), ApprovalsExcluded(policy), Compiled(p, policy)
    PROVE  LET d == EvaluateProposal(p, policy, t)
           IN  /\ d.status # "HOLD"
               /\ d.reasons \subseteq TimeRefusals \cup AuthorityReasons(p, policy)
                                          \cup DestinationReasons(p, policy)
<1>1. TimeReasons(p, t) \subseteq TimeRefusals
  BY DEF TimeReasons, TimeRefusals, Compiled
<1>2. DenialReasons(p, policy, t) \subseteq
         TimeRefusals \cup AuthorityReasons(p, policy) \cup DestinationReasons(p, policy)
  BY <1>1 DEF DenialReasons, Compiled
<1>3. CASE DenialReasons(p, policy, t) = {}
  BY <1>3, NothingIsHeld DEF EvaluateProposal, Compiled, Decision
<1>4. CASE DenialReasons(p, policy, t) # {}
  BY <1>2, <1>4 DEF EvaluateProposal, Compiled, Decision
<1> QED BY <1>3, <1>4

-----------------------------------------------------------------------------
(* Labels.                                                                 *)

LEMMA JoinType ==
    ASSUME NEW l, NEW r
    PROVE  JoinDataClassification(l, r) \in DOMAIN DataClassificationRank
BY DEF JoinDataClassification, DataClassificationRank

\* A label is sensitive exactly when one of those it was joined of is.
LEMMA JoinIsSensitive ==
    ASSUME NEW l \in DOMAIN DataClassificationRank, NEW r \in DOMAIN DataClassificationRank
    PROVE  JoinDataClassification(l, r) \in SensitiveClasses
              <=> l \in SensitiveClasses \/ r \in SensitiveClasses
<1>1. DOMAIN DataClassificationRank = {"public", "internal", "confidential", "restricted", "unknown"}
  BY DEF DataClassificationRank
<1>2. /\ DataClassificationRank["public"] = 0 /\ DataClassificationRank["internal"] = 1
      /\ DataClassificationRank["confidential"] = 2 /\ DataClassificationRank["restricted"] = 3
      /\ DataClassificationRank["unknown"] = 4
  BY DEF DataClassificationRank
<1> QED BY <1>1, <1>2 DEF JoinDataClassification, SensitiveClasses

-----------------------------------------------------------------------------
(* The compilers.                                                          *)

\* bind_proposal changes two fields, and they are what the guard recomputes.
LEMMA BindingHolds ==
    ASSUME NEW p, {"arguments", "arguments_digest", "proposal_digest"} \subseteq DOMAIN p
    PROVE  LET r == BindProposal(p)
           IN  /\ \A f \in DOMAIN p \ {"arguments_digest", "proposal_digest"} : r[f] = p[f]
               /\ r.arguments_digest = Digest(r.arguments)
               /\ r.proposal_digest = ProposalDigest(r)
<1> DEFINE q == [p EXCEPT !.arguments_digest = Digest(p.arguments)]
           r == [q EXCEPT !.proposal_digest = ProposalDigest(q)]
<1>1. BindProposal(p) = r
  BY DEF BindProposal
<1>2. \A f \in DOMAIN p \ {"arguments_digest", "proposal_digest"} : r[f] = p[f]
  OBVIOUS
<1>3. r.arguments_digest = Digest(r.arguments)
  <2>1. r.arguments = p.arguments /\ r.arguments_digest = Digest(p.arguments)
    OBVIOUS
  <2> QED BY <2>1
<1>4. r.proposal_digest = ProposalDigest(r)
  <2>1. [f \in DOMAIN r \ {"proposal_digest"} |-> r[f]] = [f \in DOMAIN q \ {"proposal_digest"} |-> q[f]]
    OBVIOUS
  <2>2. r.proposal_digest = ProposalDigest(q)
    OBVIOUS
  <2> QED BY <2>1, <2>2 DEF ProposalDigest
<1> HIDE DEF r
<1> QED BY <1>1, <1>2, <1>3, <1>4

\* The host's budgets, and the context of a run.
BudgetOK(budget) == budget \in Counts /\ ResourceBudgetValid(budget)

LEMMA BudgetIsPositive ==
    ASSUME NEW budget, BudgetOK(budget)
    PROVE  ~(budget.max_steps < 1) /\ ~(budget.max_seconds < 1)
<1>1. budget.max_steps \in Int /\ budget.max_seconds \in Int
  BY DEF BudgetOK, Counts, BudgetFields
<1> QED BY <1>1 DEF BudgetOK, ResourceBudgetValid

ContextOK(c) ==
    /\ "" \notin {c.intent_id, c.parent_cause} /\ c.issued_at # None
    /\ c.data_classification \in DOMAIN DataClassificationRank

LEMMA InvocationIsCompiled ==
    ASSUME NEW h, NEW s \in ModelStages, NEW adapter, NEW c, NEW until,
           ContextOK(c), until # None, BudgetOK(h.manifest.pipeline[s].resource_budget),
           PolicyVersionReasons(h) = {}
    PROVE  LET p == ModelInvocation(h, s, adapter, c, until)
               cell == h.manifest.pipeline[s]
           IN  /\ Compiled(p, h.invocation_policy)
               /\ p.subject = c.subject /\ p.agent = cell.agent_id
               /\ p.workload = h.manifest.organism_id
               /\ p.action = cell.invocation_action /\ p.scope = cell.invocation_scope
               /\ p.tool = adapter.tool /\ p.resource_budget = cell.resource_budget
               /\ p.destination = adapter.destination
               /\ Sensitive(p) <=> Sensitive(c)
<1> DEFINE cell == h.manifest.pipeline[s]
           u == [intent_id |-> c.intent_id, parent_cause |-> c.parent_cause,
                 nonce |-> s, idempotency_key |-> s,
                 policy_version |-> h.invocation_policy_version,
                 arguments |-> Digest(adapter), arguments_digest |-> None, proposal_digest |-> None,
                 issued_at |-> c.issued_at, expires_at |-> until,
                 subject |-> c.subject, agent |-> cell.agent_id,
                 workload |-> h.manifest.organism_id,
                 action |-> cell.invocation_action, scope |-> cell.invocation_scope,
                 tool |-> adapter.tool, delegation_chain |-> <<>>,
                 resource_budget |-> cell.resource_budget, destination |-> adapter.destination,
                 contains_secret |-> c.contains_secret,
                 data_classification |-> c.data_classification,
                 reversibility |-> "reversible",
                 risk_tier |-> IF s = "observer" THEN "low" ELSE "medium",
                 approval_ref |-> None, target |-> adapter.model, target_state_digest |-> s,
                 auth_context_digest |-> c.auth_context_digest]
           p == ModelInvocation(h, s, adapter, c, until)
<1>1. p = BindProposal(u)
  BY DEF ModelInvocation
<1>2. /\ \A f \in DOMAIN u \ {"arguments_digest", "proposal_digest"} : p[f] = u[f]
      /\ p.arguments_digest = Digest(p.arguments)
      /\ p.proposal_digest = ProposalDigest(p)
  <2>1. {"arguments", "arguments_digest", "proposal_digest"} \subseteq DOMAIN u
    OBVIOUS
  <2> HIDE DEF u
  <2> QED BY <1>1, <2>1, BindingHolds
<1> HIDE DEF p
<1>3. /\ p.intent_id = c.intent_id /\ p.parent_cause = c.parent_cause
      /\ p.nonce = s /\ p.idempotency_key = s
      /\ p.policy_version = h.invocation_policy_version
      /\ p.issued_at = c.issued_at /\ p.expires_at = until
      /\ p.delegation_chain = <<>> /\ p.approval_ref = None
      /\ p.risk_tier \in {"low", "medium"}
  BY <1>2
<1>4. /\ p.subject = c.subject /\ p.agent = cell.agent_id
      /\ p.workload = h.manifest.organism_id
      /\ p.action = cell.invocation_action /\ p.scope = cell.invocation_scope
      /\ p.tool = adapter.tool /\ p.resource_budget = cell.resource_budget
      /\ p.destination = adapter.destination
      /\ p.contains_secret = c.contains_secret /\ p.data_classification = c.data_classification
  BY <1>2
<1>5. ~(cell.resource_budget.max_steps < 1) /\ ~(cell.resource_budget.max_seconds < 1)
  BY BudgetIsPositive
<1>6. StructuralReasons(p) = {}
  BY <1>3, <1>4, <1>5 DEF StructuralReasons, ContextOK, ModelStages, RiskLevels
<1>7. BindingReasons(p, h.invocation_policy) = {}
  BY <1>2, <1>3 DEF BindingReasons, PolicyVersionReasons
<1>8. Compiled(p, h.invocation_policy)
  BY <1>3, <1>6, <1>7 DEF Compiled, ContextOK
<1>9. Sensitive(p) <=> Sensitive(c)
  BY <1>4 DEF Sensitive
<1> QED BY <1>4, <1>8, <1>9 DEF p

PolicyOK(policy) ==
    PolicyValid(policy) /\ ApprovalsExcluded(policy) /\ policy.max_resource_budget \in Counts

\* What the guard may still refuse, to data labelled as in now, of what the
\* preflight passed for data labelled as in before.
LeftToTheGuard(now, before) ==
    TimeRefusals \cup (IF Sensitive(now) /\ ~Sensitive(before) THEN {"SECRET_DESTINATION_DENIED"} ELSE {})

LEMMA InvocationIsAdmitted ==
    ASSUME NEW h, NEW s \in ModelStages, NEW adapter, NEW identities, NEW c, NEW a, NEW until, NEW t,
           ContextOK(c), until # None, BudgetOK(h.manifest.pipeline[s].resource_budget),
           PolicyVersionReasons(h) = {}, PolicyOK(h.invocation_policy), c.subject = a.subject
    PROVE  LET d == EvaluateProposal(ModelInvocation(h, s, adapter, c, until), h.invocation_policy, t)
           IN  /\ d.status # "HOLD"
               /\ InvocationAllowed(h, s, identities, a)
                     /\ identities[h.manifest.pipeline[s].adapter_id] = adapter
                     => d.reasons \subseteq LeftToTheGuard(c, a)
<1> DEFINE cell == h.manifest.pipeline[s]
           p == ModelInvocation(h, s, adapter, c, until)
           d == EvaluateProposal(p, h.invocation_policy, t)
           q == [subject |-> a.subject, agent |-> cell.agent_id,
                 workload |-> h.manifest.organism_id,
                 action |-> cell.invocation_action, scope |-> cell.invocation_scope,
                 tool |-> adapter.tool, resource_budget |-> cell.resource_budget,
                 destination |-> adapter.destination, contains_secret |-> a.contains_secret,
                 data_classification |-> a.data_classification]
<1>1. /\ Compiled(p, h.invocation_policy)
      /\ p.subject = c.subject /\ p.agent = cell.agent_id
      /\ p.workload = h.manifest.organism_id
      /\ p.action = cell.invocation_action /\ p.scope = cell.invocation_scope
      /\ p.tool = adapter.tool /\ p.resource_budget = cell.resource_budget
      /\ p.destination = adapter.destination
      /\ Sensitive(p) <=> Sensitive(c)
  BY InvocationIsCompiled
<1> HIDE DEF p
<1>2. /\ d.status # "HOLD"
      /\ d.reasons \subseteq TimeRefusals \cup AuthorityReasons(p, h.invocation_policy)
                                     \cup DestinationReasons(p, h.invocation_policy)
  BY <1>1, GuardOnCompiled DEF PolicyOK
<1>3. ASSUME InvocationAllowed(h, s, identities, a), identities[cell.adapter_id] = adapter
      PROVE  d.reasons \subseteq LeftToTheGuard(c, a)
  <2>1. PolicyStaticallyAllows(h.invocation_policy, q)
    BY <1>3 DEF InvocationAllowed
  <2>2. \A f \in {"subject", "agent", "workload", "action", "scope", "tool",
                  "resource_budget", "destination"} : p[f] = q[f]
    BY <1>1
  <2>3. Sensitive(q) <=> Sensitive(a)
    BY DEF Sensitive
  <2>4. q.resource_budget \in Counts
    BY DEF BudgetOK
  <2> HIDE DEF q
  <2>5. /\ AuthorityReasons(p, h.invocation_policy) = {}
        /\ DestinationReasons(p, h.invocation_policy) \subseteq {"SECRET_DESTINATION_DENIED"}
        /\ (Sensitive(p) => Sensitive(q)) => DestinationReasons(p, h.invocation_policy) = {}
    BY <1>1, <2>1, <2>2, <2>4, PreflightAgreesWithGuard DEF Compiled, PolicyOK
  <2> QED BY <1>1, <1>2, <2>3, <2>5 DEF LeftToTheGuard
<1> QED BY <1>2, <1>3 DEF p

\* A capability as the constructor leaves it.
CapabilityOK(c) ==
    /\ c.risk_tier \in {"low", "medium"} /\ BudgetOK(c.resource_budget)
    /\ c.data_classification \in DOMAIN DataClassificationRank

\* Digests do not collide, and are not empty.
DigestsAreExact == (\A x, y : Digest(x) = Digest(y) => x = y) /\ \A x : Digest(x) # ""

LEMMA ActionIsCompiled ==
    ASSUME NEW h, NEW draft, NEW c, NEW state, NEW cause, NEW until,
           ContextOK(c), until # None, cause # "", CapabilityOK(CapabilityOf(h, draft.capability_id)),
           PolicyVersionReasons(h) = {}, DigestsAreExact
    PROVE  LET p == ActionFromDraft(h, draft, c, state, cause, until)
               k == CapabilityOf(h, draft.capability_id)
           IN  /\ Compiled(p, h.action_policy)
               /\ p.subject = c.subject /\ p.agent = h.manifest.pipeline.executor.agent_id
               /\ p.workload = h.manifest.organism_id
               /\ p.action = k.action /\ p.scope = k.scope
               /\ p.tool = k.tool /\ p.resource_budget = k.resource_budget
               /\ p.destination = k.destination
               /\ Sensitive(p) <=> Sensitive(c) \/ Sensitive(k)
<1> DEFINE k == CapabilityOf(h, draft.capability_id)
           joined == JoinDataClassification(c.data_classification, k.data_classification)
           secret == c.contains_secret \/ k.contains_secret \/ joined = "unknown"
           key == SemanticActionDigest(k, draft, c)
           u == [intent_id |-> c.intent_id, parent_cause |-> cause,
                 nonce |-> "action", idempotency_key |-> key,
                 policy_version |-> h.action_policy_version,
                 arguments |-> draft.arguments, arguments_digest |-> None, proposal_digest |-> None,
                 issued_at |-> c.issued_at, expires_at |-> until,
                 subject |-> c.subject, agent |-> h.manifest.pipeline.executor.agent_id,
                 workload |-> h.manifest.organism_id,
                 action |-> k.action, scope |-> k.scope, tool |-> k.tool, delegation_chain |-> <<>>,
                 resource_budget |-> k.resource_budget, destination |-> k.destination,
                 contains_secret |-> secret,
                 data_classification |-> joined,
                 reversibility |-> k.reversibility, risk_tier |-> k.risk_tier, approval_ref |-> None,
                 target |-> CompiledTarget(draft.target), target_state_digest |-> state,
                 auth_context_digest |-> c.auth_context_digest]
           p == ActionFromDraft(h, draft, c, state, cause, until)
<1>1. p = BindProposal(u)
  BY DEF ActionFromDraft
<1>3. key # ""
  BY DEF SemanticActionDigest, DigestsAreExact
<1>4. joined \in SensitiveClasses
         <=> c.data_classification \in SensitiveClasses \/ k.data_classification \in SensitiveClasses
  BY JoinIsSensitive DEF ContextOK, CapabilityOK
<1> HIDE DEF p, k, joined, secret, key
<1>2. /\ \A f \in DOMAIN u \ {"arguments_digest", "proposal_digest"} : p[f] = u[f]
      /\ p.arguments_digest = Digest(p.arguments)
      /\ p.proposal_digest = ProposalDigest(p)
  <2>1. {"arguments", "arguments_digest", "proposal_digest"} \subseteq DOMAIN u
    OBVIOUS
  <2> HIDE DEF u
  <2> QED BY <1>1, <2>1, BindingHolds
<1>5. /\ p.intent_id = c.intent_id /\ p.parent_cause = cause
      /\ p.nonce = "action" /\ p.idempotency_key = key
      /\ p.policy_version = h.action_policy_version
      /\ p.issued_at = c.issued_at /\ p.expires_at = until
      /\ p.delegation_chain = <<>> /\ p.approval_ref = None
      /\ p.risk_tier = k.risk_tier
  BY <1>2, ZenonT(40)
<1>6. /\ p.subject = c.subject /\ p.agent = h.manifest.pipeline.executor.agent_id
      /\ p.workload = h.manifest.organism_id
      /\ p.action = k.action /\ p.scope = k.scope
      /\ p.tool = k.tool /\ p.resource_budget = k.resource_budget
      /\ p.destination = k.destination
      /\ p.data_classification = joined
      /\ p.contains_secret = secret
  BY <1>2, ZenonT(40)
<1> HIDE DEF u
<1>7. CapabilityOK(k)
  BY DEF k
<1>8. ~(k.resource_budget.max_steps < 1) /\ ~(k.resource_budget.max_seconds < 1)
  BY <1>7, BudgetIsPositive DEF CapabilityOK
<1>9. StructuralReasons(p) = {}
  BY <1>3, <1>5, <1>6, <1>7, <1>8 DEF StructuralReasons, ContextOK, CapabilityOK, RiskLevels
<1>10. BindingReasons(p, h.action_policy) = {}
  <2>1. h.action_policy_version = h.action_policy.policy_version
    BY DEF PolicyVersionReasons
  <2> QED BY <1>2, <1>5, <2>1 DEF BindingReasons
<1>11. Compiled(p, h.action_policy)
  BY <1>5, <1>9, <1>10 DEF Compiled, ContextOK
<1>12. Sensitive(p) <=> Sensitive(c) \/ Sensitive(k)
  BY <1>4, <1>6 DEF Sensitive, SensitiveClasses, secret
<1> QED BY <1>6, <1>11, <1>12 DEF p, k

LEMMA ActionIsAdmitted ==
    ASSUME NEW h, NEW draft, NEW c, NEW a, NEW until, NEW t,
           ContextOK(c), ContextOK(a), until # None,
           CapabilityOK(CapabilityOf(h, draft.capability_id)),
           PolicyVersionReasons(h) = {}, PolicyOK(h.action_policy), c.subject = a.subject,
           CapabilityAllowed(h, CapabilityOf(h, draft.capability_id), a), DigestsAreExact
    PROVE  LET d == EvaluateProposal(ActionFromDraft(h, draft, c, "state", "result", until),
                                     h.action_policy, t)
           IN  d.status # "HOLD" /\ d.reasons \subseteq LeftToTheGuard(c, a)
<1> DEFINE k == CapabilityOf(h, draft.capability_id)
           joined == JoinDataClassification(a.data_classification, k.data_classification)
           p == ActionFromDraft(h, draft, c, "state", "result", until)
           d == EvaluateProposal(p, h.action_policy, t)
           q == [subject |-> a.subject, agent |-> h.manifest.pipeline.executor.agent_id,
                 workload |-> h.manifest.organism_id, action |-> k.action, scope |-> k.scope,
                 tool |-> k.tool, resource_budget |-> k.resource_budget,
                 destination |-> k.destination,
                 contains_secret |-> a.contains_secret \/ k.contains_secret \/ joined = "unknown",
                 data_classification |-> joined]
<1>1. /\ Compiled(p, h.action_policy)
      /\ p.subject = c.subject /\ p.agent = h.manifest.pipeline.executor.agent_id
      /\ p.workload = h.manifest.organism_id
      /\ p.action = k.action /\ p.scope = k.scope
      /\ p.tool = k.tool /\ p.resource_budget = k.resource_budget
      /\ p.destination = k.destination
      /\ Sensitive(p) <=> Sensitive(c) \/ Sensitive(k)
  BY ActionIsCompiled
<1> HIDE DEF p
<1>2. /\ d.status # "HOLD"
      /\ d.reasons \subseteq TimeRefusals \cup AuthorityReasons(p, h.action_policy)
                                     \cup DestinationReasons(p, h.action_policy)
  BY <1>1, GuardOnCompiled DEF PolicyOK
<1>3. PolicyStaticallyAllows(h.action_policy, q)
  BY DEF CapabilityAllowed
<1>4. joined \in SensitiveClasses
         <=> a.data_classification \in SensitiveClasses \/ k.data_classification \in SensitiveClasses
  BY JoinIsSensitive DEF ContextOK, CapabilityOK
<1> HIDE DEF k, joined
<1>5. Sensitive(q) <=> Sensitive(a) \/ Sensitive(k)
  BY <1>4 DEF Sensitive, SensitiveClasses
<1>6. \A f \in {"subject", "agent", "workload", "action", "scope", "tool",
                "resource_budget", "destination"} : p[f] = q[f]
  BY <1>1
<1>7. q.resource_budget \in Counts
  BY DEF CapabilityOK, BudgetOK, k
<1> HIDE DEF q
<1>8. /\ AuthorityReasons(p, h.action_policy) = {}
      /\ DestinationReasons(p, h.action_policy) \subseteq {"SECRET_DESTINATION_DENIED"}
      /\ (Sensitive(p) => Sensitive(q)) => DestinationReasons(p, h.action_policy) = {}
  BY <1>1, <1>3, <1>6, <1>7, PreflightAgreesWithGuard DEF Compiled, PolicyOK
<1> QED BY <1>1, <1>2, <1>5, <1>8 DEF LeftToTheGuard, p

-----------------------------------------------------------------------------
(* The invariant of a run.                                                 *)

Later == {"stage", "call", "guard", "result", "draft"}
Built == {"manifest", "preflight"} \cup Later

HostInv ==
    /\ HostFields \subseteq DOMAIN host
    /\ \A s \in ModelStages : host.manifest.pipeline[s].resource_budget \in Counts
    /\ host.invocation_policy.max_resource_budget \in Counts
    /\ host.action_policy.max_resource_budget \in Counts
    /\ pc = "constructor" =>
          \A c \in host.capabilities :
              /\ {"reversibility", "risk_tier", "resource_budget", "data_classification",
                  "capability_id", "executor_id"} \subseteq DOMAIN c
              /\ c.resource_budget \in Counts
    /\ pc \in Built => RunnerAccepts(host) /\ \A c \in host.capabilities : CapabilityOK(c)

ContextInv ==
    /\ {"intent_id", "parent_cause", "subject", "issued_at", "contains_secret",
        "data_classification"} \subseteq DOMAIN context
    /\ ContextOK(context)

PreflightInv ==
    /\ pc \in {"constructor", "manifest", "preflight"} => asked = None
    /\ pc \in {"preflight"} \cup Later =>
          ManifestReasons(host, identity) \subseteq {"ADAPTER_PROVENANCE_DENIED"}
    /\ pc \in Later => /\ ContextOK(asked) /\ asked.subject = context.subject
                       /\ ConfigurationReasons(host, seen, asked) = {}

StageInv ==
    /\ stage \in ModelStages \cup {"executor"}
    /\ pc \in {"constructor", "manifest", "preflight", "stage", "call", "result"} => stage \in ModelStages
    /\ pc = "draft" => stage = "executor"

\* The capability of an action is one of the host's, and in the manifest.
Offered(h, id) ==
    /\ \E c \in h.capabilities : c.capability_id = id
    /\ id \in h.manifest.pipeline.executor.allowed_capability_ids

ProposalInv ==
    pc = "guard" =>
        /\ stage \in ModelStages => \E adapter, until :
              /\ until # None
              /\ Digest(adapter) = host.manifest.pipeline[stage].adapter_identity_digest
              /\ proposal = ModelInvocation(host, stage, adapter, context, until)
        /\ stage = "executor" => \E draft, until :
              /\ until # None /\ Offered(host, draft.capability_id)
              /\ proposal = ActionFromDraft(host, draft, context, "state", "result", until)

AdmissionInv ==
    HostInv /\ ContextInv /\ PreflightInv /\ StageInv /\ ProposalInv /\ PreflightSettlesAuthority

\* Only what an adapter says of itself can change after the first check.
LEMMA OnlyProvenanceChanges ==
    ASSUME NEW h, NEW i, NEW j, DOMAIN i = DOMAIN j,
           ManifestReasons(h, i) \subseteq {"ADAPTER_PROVENANCE_DENIED"}
    PROVE  ManifestReasons(h, j) \subseteq {"ADAPTER_PROVENANCE_DENIED"}
<1>1. ASSUME NEW r \in ManifestReasons(h, j), r # "ADAPTER_PROVENANCE_DENIED"
      PROVE  r \in ManifestReasons(h, i)
  BY <1>1 DEF ManifestReasons
<1> QED BY <1>1

LEMMA ManifestBudgets ==
    ASSUME NEW h, NEW i, NEW s \in ModelStages,
           h.manifest.pipeline[s].resource_budget \in Counts,
           ManifestReasons(h, i) \subseteq {"ADAPTER_PROVENANCE_DENIED"}
    PROVE  BudgetOK(h.manifest.pipeline[s].resource_budget)
<1>1. "MANIFEST_BUDGET_INVALID" \notin ManifestReasons(h, i)
  OBVIOUS
<1> QED BY <1>1 DEF ManifestReasons, BudgetOK

LEMMA ConfigurationSettles ==
    ASSUME NEW h, NEW i, NEW a, ConfigurationReasons(h, i, a) = {}
    PROVE  /\ PolicyVersionReasons(h) = {}
           /\ RegistryReasons(h) = {}
           /\ \A s \in ModelStages : InvocationAllowed(h, s, i, a)
           /\ \A id \in h.manifest.pipeline.executor.allowed_capability_ids :
                 CapabilityAllowed(h, CapabilityOf(h, id), a)
BY DEF ConfigurationReasons

LEMMA OfferedCapability ==
    ASSUME NEW h, NEW id, Offered(h, id)
    PROVE  CapabilityOf(h, id) \in h.capabilities
BY DEF Offered, CapabilityOf

LEMMA CompiledIsOffered ==
    ASSUME NEW h, NEW draft, NEW answers, CompilationReason(h, draft, answers) = None
    PROVE  Offered(h, draft.capability_id)
<1>1. \E d \in h.capabilities : d.capability_id = draft.capability_id
  BY NoneAssumption DEF CompilationReason
<1>2. draft.capability_id \in h.manifest.pipeline.executor.allowed_capability_ids
  BY <1>1, NoneAssumption DEF CompilationReason
<1> QED BY <1>1, <1>2 DEF Offered

LEMMA ExecutorIsKnown ==
    ASSUME NEW h, NEW id, Offered(h, id), RegistryReasons(h) = {}
    PROVE  CapabilityOf(h, id).executor_id \in h.executors
BY NoneAssumption DEF RegistryReasons, Offered

-----------------------------------------------------------------------------
LEMMA InitAdmission == Init => AdmissionInv
<1> SUFFICES ASSUME Init PROVE AdmissionInv
  OBVIOUS
<1>1. HostInv
  BY HostTypes DEF Init, HostInv, Built, Later
<1>2. ContextInv
  BY ContextTypes DEF Init, ContextInv, ContextOK
<1>3. PreflightInv /\ StageInv /\ ProposalInv /\ PreflightSettlesAuthority
  BY DEF Init, PreflightInv, StageInv, ProposalInv, PreflightSettlesAuthority, Later, ModelStages
<1> QED BY <1>1, <1>2, <1>3 DEF AdmissionInv

LEMMA ConstructKeeps ==
    ASSUME AdmissionInv, Construct
    PROVE  AdmissionInv'
<1> USE DEF AdmissionInv, Construct
<1>1. CASE FactoryAccepts(host) /\ RunnerAccepts(host)
  <2>1. /\ host' = [host EXCEPT !.capabilities = {NormalizedCapability(c) : c \in host.capabilities}]
        /\ pc' = "manifest" /\ verdict' = verdict
        /\ UNCHANGED <<identity, context, clock, stage, proposal, asked, seen>>
    BY <1>1 DEF Goes
  <2>2. \A f \in HostFields \ {"capabilities"} : host'[f] = host[f]
    BY <2>1 DEF HostInv
  <2>3. /\ host'.manifest = host.manifest /\ host'.organism_policy = host.organism_policy
        /\ host'.invocation_policy = host.invocation_policy
        /\ host'.action_policy = host.action_policy
    BY <2>2 DEF HostFields
  <2>4. host'.capabilities = {NormalizedCapability(c) : c \in host.capabilities}
    BY <2>1 DEF HostInv, HostFields
  <2>5. \A c \in host.capabilities : CapabilityOK(NormalizedCapability(c))
    <3> SUFFICES ASSUME NEW c \in host.capabilities PROVE CapabilityOK(NormalizedCapability(c))
      OBVIOUS
    <3>1. CapabilityAccepted(c) /\ c.resource_budget \in Counts
      BY <1>1 DEF FactoryAccepts, HostInv
    <3>2. /\ NormalizedCapability(c).risk_tier = c.risk_tier
          /\ NormalizedCapability(c).resource_budget = c.resource_budget
          /\ NormalizedCapability(c).data_classification = c.data_classification
      BY DEF NormalizedCapability, HostInv
    <3> QED BY <3>1, <3>2 DEF CapabilityOK, BudgetOK, CapabilityAccepted
  <2>6. HostInv'
    BY <1>1, <2>1, <2>3, <2>4, <2>5 DEF HostInv, RunnerAccepts
  <2> QED BY <2>1, <2>6 DEF ContextInv, PreflightInv, StageInv, ProposalInv,
                           PreflightSettlesAuthority, Later
<1>2. CASE ~(FactoryAccepts(host) /\ RunnerAccepts(host))
  BY <1>2 DEF Ends, HostInv, ContextInv, PreflightInv, StageInv, ProposalInv,
              PreflightSettlesAuthority, Later, Built
<1> QED BY <1>1, <1>2

\* Steps of a run that leave the host and the context alone and do not build a
\* proposal: what is left to show of each.
LEMMA Frame ==
    ASSUME AdmissionInv, UNCHANGED <<host, context, stage>>, pc \in Built,
           pc' \in Built \cup {"ended"}, pc' # "guard",
           PreflightInv', PreflightSettlesAuthority',
           pc' \in {"manifest", "preflight", "stage", "call", "result"} => stage \in ModelStages,
           pc' = "draft" => stage = "executor"
    PROVE  AdmissionInv'
BY DEF AdmissionInv, HostInv, ContextInv, StageInv, ProposalInv, Built, Later

LEMMA CheckManifestKeeps ==
    ASSUME AdmissionInv, CheckManifest
    PROVE  AdmissionInv'
BY Frame DEF AdmissionInv, CheckManifest, ManifestRefuses, ManifestAccepts, Ends, Goes, PreflightInv,
             StageInv, PreflightSettlesAuthority, Built, Later

LEMMA RunPreflightKeeps ==
    ASSUME AdmissionInv, RunPreflight
    PROVE  AdmissionInv'
<1>1. CASE ConfigurationReasons(host, identity, context) = {} /\ Goes("stage")
  BY <1>1, Frame DEF AdmissionInv, RunPreflight, Goes, PreflightInv, ContextInv, StageInv,
                     PreflightSettlesAuthority, Built, Later
<1>2. CASE \E reasons : Ends("preflight", "BLOCK", reasons)
  <2>1. pc' = "ended" /\ verdict'.by = "preflight"
    BY <1>2 DEF Ends
  <2> QED BY <2>1, Frame DEF AdmissionInv, RunPreflight, PreflightInv, StageInv,
                             PreflightSettlesAuthority, Built, Later
<1>3. \/ ConfigurationReasons(host, identity, context) = {} /\ Goes("stage")
      \/ \E reasons : Ends("preflight", "BLOCK", reasons)
  BY DEF RunPreflight, IdentityUnreadable
<1> QED BY <1>1, <1>2, <1>3

LEMMA StartStageKeeps ==
    ASSUME AdmissionInv, StartStage
    PROVE  AdmissionInv'
BY Frame DEF AdmissionInv, StartStage, ManifestRefuses, ManifestAccepts, Ends, Goes, PreflightInv,
             StageInv, PreflightSettlesAuthority, Built, Later

LEMMA BuildInvocationKeeps ==
    ASSUME AdmissionInv, BuildInvocation
    PROVE  AdmissionInv'
<1> DEFINE cell == host.manifest.pipeline[stage]
           adapter == identity[cell.adapter_id]
<1>0. /\ pc = "call" /\ stage \in ModelStages
      /\ UNCHANGED <<host, identity, context, clock, stage, asked, seen>>
  BY DEF BuildInvocation, AdmissionInv, StageInv
<1>1. CASE Digest(adapter) # cell.adapter_identity_digest
  <2>1. pc' = "ended" /\ verdict' = [by |-> "provenance", status |-> "BLOCK",
                                     reasons |-> {"ADAPTER_PROVENANCE_DENIED"}]
    BY <1>1 DEF BuildInvocation, Ends
  <2> QED BY <1>0, <2>1, Frame DEF AdmissionInv, PreflightInv, PreflightSettlesAuthority, Built, Later
<1>2. CASE Digest(adapter) = cell.adapter_identity_digest
  <2>1. PICK until \in Deadlines :
           proposal' = ModelInvocation(host, stage, adapter, context, until) /\ Goes("guard")
    BY <1>2 DEF BuildInvocation
  <2>2. until # None
    BY NoneAssumption DEF Deadlines
  <2>3. ProposalInv'
    BY <1>0, <1>2, <2>1, <2>2 DEF ProposalInv, ModelStages
  <2> QED BY <1>0, <2>1, <2>3 DEF Goes, AdmissionInv, HostInv, ContextInv, PreflightInv, StageInv,
                                  PreflightSettlesAuthority, Built, Later
<1> QED BY <1>1, <1>2

LEMMA SubmitInvocationKeeps ==
    ASSUME AdmissionInv, SubmitInvocation, DigestsAreExact
    PROVE  AdmissionInv'
<1> DEFINE d == EvaluateProposal(proposal, host.invocation_policy, clock)
           cell == host.manifest.pipeline[stage]
<1>0. /\ pc = "guard" /\ stage \in ModelStages
      /\ UNCHANGED <<host, identity, context, clock, stage, proposal, asked, seen>>
  BY DEF SubmitInvocation
<1>1. CASE d.status = "ACCEPT"
  BY <1>0, <1>1, Frame DEF SubmitInvocation, Goes, AdmissionInv, PreflightInv,
                           PreflightSettlesAuthority, Built, Later
<1>2. CASE d.status # "ACCEPT"
  <2>1. PICK adapter, until :
           /\ until # None
           /\ Digest(adapter) = cell.adapter_identity_digest
           /\ proposal = ModelInvocation(host, stage, adapter, context, until)
    BY <1>0 DEF AdmissionInv, ProposalInv
  <2>2. /\ PolicyVersionReasons(host) = {}
        /\ InvocationAllowed(host, stage, seen, asked)
        /\ ContextOK(context) /\ asked.subject = context.subject
    BY <1>0, ConfigurationSettles DEF AdmissionInv, PreflightInv, ContextInv, Later
  <2>3. PolicyOK(host.invocation_policy)
    BY <1>0 DEF AdmissionInv, HostInv, RunnerAccepts, PolicyOK, Built, Later
  <2>4. BudgetOK(cell.resource_budget)
    BY <1>0, ManifestBudgets DEF AdmissionInv, HostInv, PreflightInv, Later
  <2>5. /\ d.status # "HOLD"
        /\ seen[cell.adapter_id] = adapter => d.reasons \subseteq LeftToTheGuard(context, asked)
    BY <1>0, <2>1, <2>2, <2>3, <2>4, InvocationIsAdmitted
  <2>6. ~MisledBy(stage) => seen[cell.adapter_id] = adapter
    BY <2>1 DEF MisledBy, DigestsAreExact
  <2>7. pc' = "ended" /\ verdict' = [by |-> "guard", status |-> d.status, reasons |-> d.reasons]
    BY <1>2 DEF SubmitInvocation, Ends
  <2> HIDE DEF d
  <2>8. MisledBy(stage)' <=> MisledBy(stage)
    BY <1>0 DEF MisledBy
  <2>9. PreflightSettlesAuthority'
    BY <1>0, <2>5, <2>6, <2>7, <2>8 DEF PreflightSettlesAuthority, LeftToTheGuard, LabelRose
  <2> QED BY <1>0, <2>7, <2>9, Frame DEF AdmissionInv, PreflightInv, Built, Later
<1> QED BY <1>1, <1>2

LEMMA ModelReturnsKeeps ==
    ASSUME AdmissionInv, ModelReturns
    PROVE  AdmissionInv'
<1>0. /\ pc = "result" /\ stage \in ModelStages /\ verdict' = verdict
      /\ UNCHANGED <<host, identity, clock, asked, seen>>
      /\ \/ stage' = "analyst" /\ pc' = "stage"
         \/ stage' = "executor" /\ pc' = "draft"
  BY DEF ModelReturns, Goes, AdmissionInv, StageInv
<1>1. PICK label \in Labels : context' = JoinLabel(context, label)
  BY DEF ModelReturns
<1>2. /\ DOMAIN context' = DOMAIN context
      /\ \A f \in DOMAIN context \ {"data_classification", "contains_secret"} : context'[f] = context[f]
      /\ context'.data_classification \in DOMAIN DataClassificationRank
  <2> DEFINE joined == JoinDataClassification(context.data_classification, label.data_classification)
  <2>1. joined \in DOMAIN DataClassificationRank
    BY JoinType
  <2>2. {"data_classification", "contains_secret"} \subseteq DOMAIN context
    BY DEF AdmissionInv, ContextInv
  <2>3. PICK secret :
           context' = [context EXCEPT !.data_classification = joined, !.contains_secret = secret]
    BY <1>1 DEF JoinLabel
  <2> HIDE DEF joined
  <2> QED BY <2>1, <2>2, <2>3
<1>3. ContextInv' /\ context'.subject = context.subject
  BY <1>2 DEF AdmissionInv, ContextInv, ContextOK
<1>4. PreflightInv'
  BY <1>0, <1>3 DEF AdmissionInv, PreflightInv, Later
<1> QED BY <1>0, <1>3, <1>4 DEF AdmissionInv, HostInv, StageInv, ProposalInv, ModelStages,
                                PreflightSettlesAuthority, Built, Later

LEMMA CompileDraftKeeps ==
    ASSUME AdmissionInv, CompileDraft
    PROVE  AdmissionInv'
<1>0. /\ pc = "draft" /\ stage = "executor"
      /\ UNCHANGED <<host, identity, context, clock, stage, asked, seen>>
  BY DEF CompileDraft, AdmissionInv, StageInv
<1>1. PICK draft \in Drafts, answers \in Verdicts, until \in Deadlines :
         \/ /\ pc' = "ended"
            /\ verdict'.by = "draft" /\ verdict'.status # "HOLD"
         \/ /\ CompilationReason(host, draft, answers) = None
            /\ proposal' = ActionFromDraft(host, draft, context, "state", "result", until)
            /\ IF CapabilityOf(host, draft.capability_id).executor_id \in host.executors
               THEN Goes("guard") ELSE Ends("executor", "BLOCK", {"EXECUTOR_UNKNOWN"})
  BY DEF CompileDraft, Ends
<1>2. CASE pc' = "ended" /\ verdict'.by = "draft" /\ verdict'.status # "HOLD"
  BY <1>0, <1>2, Frame DEF AdmissionInv, PreflightInv, PreflightSettlesAuthority, Built, Later
<1>3. CASE /\ CompilationReason(host, draft, answers) = None
           /\ proposal' = ActionFromDraft(host, draft, context, "state", "result", until)
           /\ IF CapabilityOf(host, draft.capability_id).executor_id \in host.executors
              THEN Goes("guard") ELSE Ends("executor", "BLOCK", {"EXECUTOR_UNKNOWN"})
  <2>1. Offered(host, draft.capability_id)
    BY <1>3, CompiledIsOffered
  <2>2. RegistryReasons(host) = {}
    BY <1>0, ConfigurationSettles DEF AdmissionInv, PreflightInv, Later
  <2>3. Goes("guard")
    BY <1>3, <2>1, <2>2, ExecutorIsKnown
  <2>4. until # None
    BY NoneAssumption DEF Deadlines
  <2>5. ProposalInv'
    BY <1>0, <1>3, <2>1, <2>4 DEF ProposalInv, ModelStages
  <2> QED BY <1>0, <2>3, <2>5 DEF Goes, AdmissionInv, HostInv, ContextInv, PreflightInv, StageInv,
                                  PreflightSettlesAuthority, Built, Later
<1> QED BY <1>1, <1>2, <1>3

LEMMA SubmitActionKeeps ==
    ASSUME AdmissionInv, SubmitAction, DigestsAreExact
    PROVE  AdmissionInv'
<1> DEFINE d == EvaluateProposal(proposal, host.action_policy, clock)
<1>0. /\ pc = "guard" /\ stage = "executor"
      /\ UNCHANGED <<host, identity, context, clock, stage, proposal, asked, seen>>
      /\ pc' = "ended" /\ verdict' = [by |-> "guard", status |-> d.status, reasons |-> d.reasons]
  BY DEF SubmitAction, Ends
<1>1. PICK draft, until :
         /\ until # None /\ Offered(host, draft.capability_id)
         /\ proposal = ActionFromDraft(host, draft, context, "state", "result", until)
  BY <1>0 DEF AdmissionInv, ProposalInv
<1>2. /\ PolicyVersionReasons(host) = {}
      /\ CapabilityAllowed(host, CapabilityOf(host, draft.capability_id), asked)
      /\ ContextOK(context) /\ ContextOK(asked) /\ asked.subject = context.subject
  BY <1>0, <1>1, ConfigurationSettles DEF AdmissionInv, PreflightInv, ContextInv, Later, Offered
<1>3. PolicyOK(host.action_policy)
  BY <1>0 DEF AdmissionInv, HostInv, RunnerAccepts, PolicyOK, Built, Later
<1>4. CapabilityOK(CapabilityOf(host, draft.capability_id))
  BY <1>0, <1>1, OfferedCapability DEF AdmissionInv, HostInv, Built, Later
<1>5. d.status # "HOLD" /\ d.reasons \subseteq LeftToTheGuard(context, asked)
  BY <1>1, <1>2, <1>3, <1>4, ActionIsAdmitted
<1> HIDE DEF d
<1>6. PreflightSettlesAuthority'
  BY <1>0, <1>5 DEF PreflightSettlesAuthority, LeftToTheGuard, LabelRose
<1> QED BY <1>0, <1>6, Frame DEF AdmissionInv, PreflightInv, Built, Later

LEMMA SurroundingsKeep ==
    ASSUME AdmissionInv, AdjustClock \/ DriftAdapter
    PROVE  AdmissionInv'
<1>1. /\ pc # "ended" /\ DOMAIN identity' = DOMAIN identity
      /\ UNCHANGED <<host, context, pc, stage, proposal, verdict, asked, seen>>
  BY DEF AdjustClock, DriftAdapter
<1>2. PreflightInv'
  BY <1>1, OnlyProvenanceChanges DEF AdmissionInv, PreflightInv
<1> QED BY <1>1, <1>2 DEF AdmissionInv, HostInv, ContextInv, StageInv, ProposalInv,
                          PreflightSettlesAuthority

LEMMA NextAdmission ==
    ASSUME AdmissionInv, [Next]_vars, DigestsAreExact
    PROVE  AdmissionInv'
<1>1. CASE UNCHANGED vars
  BY <1>1 DEF vars, AdmissionInv, HostInv, ContextInv, PreflightInv, StageInv, ProposalInv,
              PreflightSettlesAuthority, LabelRose, MisledBy
<1> QED BY <1>1, ConstructKeeps, CheckManifestKeeps, RunPreflightKeeps, StartStageKeeps,
           BuildInvocationKeeps, SubmitInvocationKeeps, ModelReturnsKeeps, CompileDraftKeeps,
           SubmitActionKeeps, SurroundingsKeep DEF Next, Ended

\* Whatever a run of a host has come to, its capabilities and policies are what
\* the constructors accepted, its preflight found nothing to refuse, and what
\* waits for the guard was compiled from them.
THEOREM AdmissionInvHolds ==
    ASSUME DigestsAreExact
    PROVE  Spec => []AdmissionInv
<1>1. Init => AdmissionInv
  BY InitAdmission
<1>2. AdmissionInv /\ [Next]_vars => AdmissionInv'
  BY NextAdmission
<1> QED BY <1>1, <1>2, PTL DEF Spec

\* For every host that can be built, every policy, context, draft and label,
\* however the clock moves and the adapters change: once the preflight has
\* passed, the guard refuses a run only for its time, or data that a model
\* labelled sensitive a destination that may not have it; it never holds one.
THEOREM PreflightSettles ==
    ASSUME DigestsAreExact
    PROVE  Spec => []PreflightSettlesAuthority
<1>1. AdmissionInv => PreflightSettlesAuthority
  BY DEF AdmissionInv
<1> QED BY <1>1, AdmissionInvHolds, PTL

-----------------------------------------------------------------------------
(* Keys of effects.                                                        *)

LEMMA OriginsAreRecords ==
    \A t : TargetOrigin(t) # None =>
       \E a, b, c : TargetOrigin(t) = [scheme |-> a, host |-> b, port |-> c]
<1>1. SUFFICES ASSUME NEW t, TargetOrigin(t) # None
               PROVE  \E a, b, c : TargetOrigin(t) = [scheme |-> a, host |-> b, port |-> c]
  OBVIOUS
<1>2. TargetOrigin(t) = Origin(t.url, "https", 443)
  BY <1>1 DEF TargetOrigin, NormalizeHttpsOrigin
<1> QED BY <1>2 DEF Origin

\* The parts of an origin are those of the URL it is written as.
LEMMA OriginsAreWritten ==
    ASSUME NEW t, NEW u, TargetOrigin(t) # None, TargetOrigin(u) # None
    PROVE  OriginUrl(TargetOrigin(t)) = OriginUrl(TargetOrigin(u))
              <=> TargetOrigin(t) = TargetOrigin(u)
<1>1. PICK a, b, c : TargetOrigin(t) = [scheme |-> a, host |-> b, port |-> c]
  BY OriginsAreRecords
<1>2. PICK d, e, f : TargetOrigin(u) = [scheme |-> d, host |-> e, port |-> f]
  BY OriginsAreRecords
<1>3. OriginUrl(TargetOrigin(t)) = [scheme |-> a, userinfo |-> FALSE, host |-> b, port |-> c]
  BY <1>1 DEF OriginUrl
<1>4. OriginUrl(TargetOrigin(u)) = [scheme |-> d, userinfo |-> FALSE, host |-> e, port |-> f]
  BY <1>2 DEF OriginUrl
<1>5. ASSUME OriginUrl(TargetOrigin(t)) = OriginUrl(TargetOrigin(u))
      PROVE  a = d /\ b = e /\ c = f
  BY <1>3, <1>4, <1>5
<1> QED BY <1>1, <1>2, <1>5

LEMMA TargetIsRewritten ==
    ASSUME NEW target, NEW url, NEW path, NEW old, NEW new,
           target = [url |-> url, fragment |-> FALSE, path |-> path]
    PROVE  [target EXCEPT !.url = old, !.path = new] = [url |-> old, fragment |-> FALSE, path |-> new]
<1> DEFINE w == [url |-> old, fragment |-> FALSE, path |-> new]
           r == [target EXCEPT !.url = old, !.path = new]
<1>1. target.fragment = FALSE
  OBVIOUS
<1>2. DOMAIN target = {"url", "fragment", "path"} /\ DOMAIN w = {"url", "fragment", "path"}
  OBVIOUS
<1>3. w.url = old /\ w.fragment = FALSE /\ w.path = new
  OBVIOUS
<1>4. DOMAIN r = DOMAIN target /\ r.url = old /\ r.path = new /\ r.fragment = target.fragment
  BY <1>2
<1>5. w = [x \in {"url", "fragment", "path"} |-> w[x]] /\ r = [x \in DOMAIN target |-> r[x]]
  OBVIOUS
<1> HIDE DEF w, r
<1>6. r = w
  BY <1>1, <1>2, <1>3, <1>4, <1>5
<1> QED BY <1>6 DEF w, r

\* Two targets are compiled to one exactly when they are one place.
LEMMA CompiledTargetsAgree ==
    ASSUME NEW d \in Drafts, NEW e \in Drafts,
           CompiledTarget(d.target) # None, CompiledTarget(e.target) # None
    PROVE  CompiledTarget(d.target) = CompiledTarget(e.target) <=> SameTarget(d.target, e.target)
<1> DEFINE t == d.target
           u == e.target
           Path(x) == IF x = <<>> THEN <<"">> ELSE x
           Written(x) == [url |-> OriginUrl(TargetOrigin(x)), fragment |-> FALSE, path |-> Path(x.path)]
<1>1. \A x \in Drafts : LooksLikeNetworkLocator(x.target) /\ CompiledTarget(x.target) # None =>
         /\ TargetOrigin(x.target) # None /\ OriginUrl(TargetOrigin(x.target)) # None
         /\ CompiledTarget(x.target) = Written(x.target)
  <2>1. SUFFICES ASSUME NEW x \in Drafts, LooksLikeNetworkLocator(x.target),
                        CompiledTarget(x.target) # None
                 PROVE  /\ TargetOrigin(x.target) # None /\ OriginUrl(TargetOrigin(x.target)) # None
                        /\ CompiledTarget(x.target) = Written(x.target)
    OBVIOUS
  <2>2. /\ TargetOrigin(x.target) # None /\ ~x.target.fragment
        /\ CompiledTarget(x.target) = [x.target EXCEPT !.url = OriginUrl(TargetOrigin(x.target)),
                                                       !.path = Path(x.target.path)]
    BY <2>1 DEF CompiledTarget, CanonicalHttpsTarget
  <2>3. /\ x.target = [url |-> x.target.url, fragment |-> x.target.fragment, path |-> x.target.path]
        /\ x.target.fragment = FALSE /\ OriginUrl(TargetOrigin(x.target)) # None
    BY <2>2, UrlTypes
  <2> DEFINE target == x.target url == x.target.url old == x.target.path
             origin == OriginUrl(TargetOrigin(x.target))
             path == Path(x.target.path)
             rewritten == CompiledTarget(x.target)
  <2>4. /\ target = [url |-> url, fragment |-> FALSE, path |-> old]
        /\ rewritten = [target EXCEPT !.url = origin, !.path = path]
    BY <2>2, <2>3
  <2> HIDE DEF target, url, old, origin, path, rewritten
  <2>5. rewritten = [url |-> origin, fragment |-> FALSE, path |-> path]
    BY <2>4, TargetIsRewritten
  <2> QED BY <2>2, <2>3, <2>5 DEF origin, path, rewritten
<1>2. CASE LooksLikeNetworkLocator(t) /\ LooksLikeNetworkLocator(u)
  <2>1. CompiledTarget(t) = Written(t) /\ CompiledTarget(u) = Written(u)
    BY <1>1, <1>2
  <2>2. Written(t) = Written(u) <=>
           OriginUrl(TargetOrigin(t)) = OriginUrl(TargetOrigin(u)) /\ Path(t.path) = Path(u.path)
    <3> DEFINE a == OriginUrl(TargetOrigin(t)) b == OriginUrl(TargetOrigin(u))
               v == Path(t.path) w == Path(u.path)
    <3> HIDE DEF a, b, v, w
    <3>1. [url |-> a, fragment |-> FALSE, path |-> v] = [url |-> b, fragment |-> FALSE, path |-> w]
             <=> a = b /\ v = w
      OBVIOUS
    <3> QED BY <3>1 DEF a, b, v, w
  <2>3. Path(t.path) = Path(u.path) <=> t.path = u.path \/ {t.path, u.path} = {<<>>, <<"">>}
    <3> DEFINE empty == <<>> root == <<"">>
    <3>1. empty # root
      OBVIOUS
    <3> HIDE DEF empty, root
    <3>2. \A x, y : (IF x = empty THEN root ELSE x) = (IF y = empty THEN root ELSE y)
                       <=> x = y \/ {x, y} = {empty, root}
      BY <3>1
    <3> QED BY <3>2 DEF empty, root
  <2>4. OriginUrl(TargetOrigin(t)) = OriginUrl(TargetOrigin(u)) <=> TargetOrigin(t) = TargetOrigin(u)
    BY <1>1, <1>2, OriginsAreWritten
  <2> HIDE DEF Written, Path
  <2> QED BY <1>2, <2>1, <2>2, <2>3, <2>4 DEF SameTarget
<1>3. CASE ~LooksLikeNetworkLocator(t) /\ ~LooksLikeNetworkLocator(u)
  BY <1>3 DEF CompiledTarget, SameTarget
<1>4. ASSUME NEW x \in {t, u}, NEW y \in {t, u},
             LooksLikeNetworkLocator(x), ~LooksLikeNetworkLocator(y)
      PROVE  CompiledTarget(x) # CompiledTarget(y) /\ x # y
  <2>1. CompiledTarget(y) = y /\ y.url = None
    BY <1>4 DEF CompiledTarget, LooksLikeNetworkLocator
  <2>2. CompiledTarget(x).url # None
    <3>1. CompiledTarget(x) = Written(x) /\ OriginUrl(TargetOrigin(x)) # None
      BY <1>1, <1>4
    <3>2. Written(x).url = OriginUrl(TargetOrigin(x))
      OBVIOUS
    <3> HIDE DEF Written
    <3> QED BY <3>1, <3>2
  <2> QED BY <1>4, <2>1, <2>2
<1> QED BY <1>2, <1>3, <1>4 DEF SameTarget

\* action_from_draft of organism.py: of two drafts that compile, the keys agree
\* exactly when what is done, and where, is the same, however it is spelled.
THEOREM EffectKeyNames ==
    ASSUME DigestsAreExact
    PROVE  Spec => []EffectKeyNamesTheEffect
<1>1. EffectKeyNamesTheEffect
  <2>1. \A d \in Drafts, answers \in Verdicts :
           CompilationReason(host, d, answers) = None => CompiledTarget(d.target) # None
    BY NoneAssumption DEF CompilationReason
  <2>2. ASSUME NEW d \in Drafts, NEW e \in Drafts,
               CompiledTarget(d.target) # None, CompiledTarget(e.target) # None
        PROVE  LET Capability(x) == CapabilityOf(host, x.capability_id)
                   Key(x) == SemanticActionDigest(Capability(x), x, context)
                   Doing(x) == <<Capability(x).action, Capability(x).scope,
                                 Capability(x).destination, x.arguments>>
               IN  Key(d) = Key(e) <=> Doing(d) = Doing(e) /\ SameTarget(d.target, e.target)
    <3> DEFINE c == CapabilityOf(host, d.capability_id)
               k == CapabilityOf(host, e.capability_id)
               a == Digest(d.arguments)
               b == Digest(e.arguments)
               t == CompiledTarget(d.target)
               u == CompiledTarget(e.target)
    <3>1. a = b <=> d.arguments = e.arguments
      BY DEF DigestsAreExact
    <3>2. t = u <=> SameTarget(d.target, e.target)
      BY <2>2, CompiledTargetsAgree
    <3>3. SemanticActionDigest(c, d, context) = SemanticActionDigest(k, e, context)
            <=> c.action = k.action /\ c.scope = k.scope /\ c.destination = k.destination
                   /\ t = u /\ a = b
      <4> HIDE DEF c, k, a, b, t, u
      <4>1. \A s, i, p : <<s, i, p, c.action, c.scope, t, c.destination, a>>
                           = <<s, i, p, k.action, k.scope, u, k.destination, b>>
               <=> c.action = k.action /\ c.scope = k.scope /\ c.destination = k.destination
                      /\ t = u /\ a = b
        OBVIOUS
      <4>2. \A x, y : Digest(x) = Digest(y) <=> x = y
        BY DEF DigestsAreExact
      <4>3. /\ SemanticActionDigest(c, d, context)
                = Digest(<<context.subject, context.intent_id, context.parent_cause, c.action,
                           c.scope, t, c.destination, a>>)
            /\ SemanticActionDigest(k, e, context)
                = Digest(<<context.subject, context.intent_id, context.parent_cause, k.action,
                           k.scope, u, k.destination, b>>)
        BY DEF SemanticActionDigest, a, b, t, u
      <4> QED BY <4>1, <4>2, <4>3
    <3> HIDE DEF c, k, a, b, t, u
    <3>4. <<c.action, c.scope, c.destination, d.arguments>>
              = <<k.action, k.scope, k.destination, e.arguments>>
            <=> c.action = k.action /\ c.scope = k.scope /\ c.destination = k.destination
                   /\ d.arguments = e.arguments
      OBVIOUS
    <3> QED BY <3>1, <3>2, <3>3, <3>4 DEF c, k
  <2> QED BY <2>1, <2>2 DEF EffectKeyNamesTheEffect
<1> QED BY <1>1, PTL

-----------------------------------------------------------------------------
(* What the preflight refuses.                                             *)

\* The other direction of PreflightAgreesWithGuard: what the guard does not
\* refuse for its authority or its destination, the preflight allows.
LEMMA GuardAgreesWithPreflight ==
    ASSUME NEW policy, NEW p, NEW q,
           policy.max_resource_budget \in Counts, q.resource_budget \in Counts,
           \A f \in {"subject", "agent", "workload", "action", "scope", "tool", "resource_budget",
                     "destination"} : p[f] = q[f],
           Sensitive(q) => Sensitive(p),
           AuthorityReasons(p, policy) = {}, DestinationReasons(p, policy) = {}
    PROVE  PolicyStaticallyAllows(policy, q)
<1>1. /\ p.subject = q.subject /\ p.agent = q.agent /\ p.workload = q.workload
      /\ p.action = q.action /\ p.scope = q.scope /\ p.tool = q.tool
      /\ p.resource_budget = q.resource_budget /\ p.destination = q.destination
  OBVIOUS
<1>2. \A r : r \notin AuthorityReasons(p, policy) /\ r \notin DestinationReasons(p, policy)
  OBVIOUS
<1>3. /\ "IDENTITY_DENIED" \notin AuthorityReasons(p, policy)
      /\ "ACTION_DENIED" \notin AuthorityReasons(p, policy)
      /\ "SCOPE_DENIED" \notin AuthorityReasons(p, policy)
      /\ "ACTION_SCOPE_DENIED" \notin AuthorityReasons(p, policy)
      /\ "TOOL_ORIGIN_DENIED" \notin AuthorityReasons(p, policy)
      /\ "RESOURCE_BUDGET_EXCEEDED" \notin AuthorityReasons(p, policy)
  BY <1>2
<1>4. /\ q.subject \in policy.allowed_subjects /\ q.agent \in policy.allowed_agents
      /\ q.workload \in policy.allowed_workloads /\ q.action \in policy.allowed_actions
      /\ q.scope \in policy.allowed_scopes /\ q.scope \in policy.allowed_action_scopes[q.action]
      /\ q.tool \in policy.trusted_tools
  BY <1>1, <1>3 DEF AuthorityReasons
<1>5. \A f \in BudgetFields : q.resource_budget[f] <= policy.max_resource_budget[f]
  <2>1. \A f \in BudgetFields : ~(q.resource_budget[f] > policy.max_resource_budget[f])
    BY <1>1, <1>3 DEF AuthorityReasons
  <2> QED BY <2>1 DEF Counts
<1>6. /\ "DESTINATION_DENIED" \notin DestinationReasons(p, policy)
      /\ "DESTINATION_SCOPE_MISMATCH" \notin DestinationReasons(p, policy)
      /\ "SECRET_DESTINATION_DENIED" \notin DestinationReasons(p, policy)
  BY <1>2
<1>7. /\ ScopeIsNetwork(p, policy) =>
            NormalizeEgressOrigin(q.destination, q.scope)
               \in EgressOrigins(policy.allowed_destinations, q.scope)
      /\ ScopeIsNetwork(p, policy) /\ Sensitive(p) =>
            NormalizeEgressOrigin(q.destination, q.scope)
               \in EgressOrigins(policy.allowed_secret_destinations, q.scope)
      /\ ~ScopeIsNetwork(p, policy) => q.destination = None
  BY <1>1, <1>6 DEF DestinationReasons
<1>8. ScopeIsNetwork(p, policy) <=> q.scope \in NetworkNamed \cup policy.network_scopes
  BY <1>1 DEF ScopeIsNetwork
<1> QED BY <1>4, <1>5, <1>7, <1>8 DEF PolicyStaticallyAllows

LEMMA AcceptedMeansNoReason ==
    ASSUME NEW p, NEW policy, NEW t, EvaluateProposal(p, policy, t).status = "ACCEPT"
    PROVE  AuthorityReasons(p, policy) = {} /\ DestinationReasons(p, policy) = {}
<1>1. DenialReasons(p, policy, t) = {}
  BY DEF EvaluateProposal, Decision
<1> QED BY <1>1 DEF DenialReasons

\* What both compilers carry over unchanged.
LEMMA InvocationCarries ==
    ASSUME NEW h, NEW s, NEW adapter, NEW c, NEW until
    PROVE  LET p == ModelInvocation(h, s, adapter, c, until)
               cell == h.manifest.pipeline[s]
           IN  /\ p.subject = c.subject /\ p.agent = cell.agent_id
               /\ p.workload = h.manifest.organism_id
               /\ p.action = cell.invocation_action /\ p.scope = cell.invocation_scope
               /\ p.tool = adapter.tool /\ p.resource_budget = cell.resource_budget
               /\ p.destination = adapter.destination
               /\ p.contains_secret = c.contains_secret
               /\ p.data_classification = c.data_classification
<1> DEFINE cell == h.manifest.pipeline[s]
           u == [intent_id |-> c.intent_id, parent_cause |-> c.parent_cause,
                 nonce |-> s, idempotency_key |-> s,
                 policy_version |-> h.invocation_policy_version,
                 arguments |-> Digest(adapter), arguments_digest |-> None, proposal_digest |-> None,
                 issued_at |-> c.issued_at, expires_at |-> until,
                 subject |-> c.subject, agent |-> cell.agent_id,
                 workload |-> h.manifest.organism_id,
                 action |-> cell.invocation_action, scope |-> cell.invocation_scope,
                 tool |-> adapter.tool, delegation_chain |-> <<>>,
                 resource_budget |-> cell.resource_budget, destination |-> adapter.destination,
                 contains_secret |-> c.contains_secret,
                 data_classification |-> c.data_classification,
                 reversibility |-> "reversible",
                 risk_tier |-> IF s = "observer" THEN "low" ELSE "medium",
                 approval_ref |-> None, target |-> adapter.model, target_state_digest |-> s,
                 auth_context_digest |-> c.auth_context_digest]
           p == ModelInvocation(h, s, adapter, c, until)
<1>1. p = BindProposal(u)
  BY DEF ModelInvocation
<1>2. \A f \in DOMAIN u \ {"arguments_digest", "proposal_digest"} : p[f] = u[f]
  BY <1>1, BindingHolds
<1> HIDE DEF p
<1>3. /\ p.subject = c.subject /\ p.agent = cell.agent_id
      /\ p.workload = h.manifest.organism_id
      /\ p.action = cell.invocation_action /\ p.scope = cell.invocation_scope
      /\ p.tool = adapter.tool /\ p.resource_budget = cell.resource_budget
      /\ p.destination = adapter.destination
      /\ p.contains_secret = c.contains_secret /\ p.data_classification = c.data_classification
  BY <1>2
<1> QED BY <1>3 DEF p

LEMMA ActionCarries ==
    ASSUME NEW h, NEW draft, NEW c, NEW state, NEW cause, NEW until
    PROVE  LET p == ActionFromDraft(h, draft, c, state, cause, until)
               k == CapabilityOf(h, draft.capability_id)
               joined == JoinDataClassification(c.data_classification, k.data_classification)
           IN  /\ p.subject = c.subject /\ p.agent = h.manifest.pipeline.executor.agent_id
               /\ p.workload = h.manifest.organism_id
               /\ p.action = k.action /\ p.scope = k.scope
               /\ p.tool = k.tool /\ p.resource_budget = k.resource_budget
               /\ p.destination = k.destination /\ p.target = CompiledTarget(draft.target)
               /\ p.contains_secret = (c.contains_secret \/ k.contains_secret \/ joined = "unknown")
               /\ p.data_classification = joined
<1> DEFINE k == CapabilityOf(h, draft.capability_id)
           joined == JoinDataClassification(c.data_classification, k.data_classification)
           secret == c.contains_secret \/ k.contains_secret \/ joined = "unknown"
           key == SemanticActionDigest(k, draft, c)
           target == CompiledTarget(draft.target)
           u == [intent_id |-> c.intent_id, parent_cause |-> cause,
                 nonce |-> "action", idempotency_key |-> key,
                 policy_version |-> h.action_policy_version,
                 arguments |-> draft.arguments, arguments_digest |-> None, proposal_digest |-> None,
                 issued_at |-> c.issued_at, expires_at |-> until,
                 subject |-> c.subject, agent |-> h.manifest.pipeline.executor.agent_id,
                 workload |-> h.manifest.organism_id,
                 action |-> k.action, scope |-> k.scope, tool |-> k.tool, delegation_chain |-> <<>>,
                 resource_budget |-> k.resource_budget, destination |-> k.destination,
                 contains_secret |-> secret,
                 data_classification |-> joined,
                 reversibility |-> k.reversibility, risk_tier |-> k.risk_tier, approval_ref |-> None,
                 target |-> target, target_state_digest |-> state,
                 auth_context_digest |-> c.auth_context_digest]
           p == ActionFromDraft(h, draft, c, state, cause, until)
<1>1. p = BindProposal(u)
  BY DEF ActionFromDraft
<1> HIDE DEF p, k, joined, secret, key, target
<1>2. \A f \in DOMAIN u \ {"arguments_digest", "proposal_digest"} : p[f] = u[f]
  <2>1. {"arguments", "arguments_digest", "proposal_digest"} \subseteq DOMAIN u
    OBVIOUS
  <2> HIDE DEF u
  <2> QED BY <1>1, <2>1, BindingHolds
<1>3. /\ p.subject = c.subject /\ p.agent = h.manifest.pipeline.executor.agent_id
      /\ p.workload = h.manifest.organism_id
      /\ p.action = k.action /\ p.scope = k.scope
      /\ p.tool = k.tool /\ p.resource_budget = k.resource_budget
      /\ p.destination = k.destination /\ p.target = target
      /\ p.contains_secret = secret /\ p.data_classification = joined
  BY <1>2
<1> HIDE DEF u
<1> QED BY <1>3 DEF p, k, joined, secret, target

\* What the guard would accept, at any time, the preflight lets pass.
LEMMA AcceptedInvocationIsAllowed ==
    ASSUME NEW h, NEW s, NEW identities, NEW a, NEW until, NEW t,
           h.invocation_policy.max_resource_budget \in Counts,
           h.manifest.pipeline[s].resource_budget \in Counts,
           EvaluateProposal(ModelInvocation(h, s, identities[h.manifest.pipeline[s].adapter_id], a, until),
                            h.invocation_policy, t).status = "ACCEPT"
    PROVE  InvocationAllowed(h, s, identities, a)
<1> DEFINE cell == h.manifest.pipeline[s]
           adapter == identities[cell.adapter_id]
           p == ModelInvocation(h, s, adapter, a, until)
           q == [subject |-> a.subject, agent |-> cell.agent_id,
                 workload |-> h.manifest.organism_id,
                 action |-> cell.invocation_action, scope |-> cell.invocation_scope,
                 tool |-> adapter.tool, resource_budget |-> cell.resource_budget,
                 destination |-> adapter.destination, contains_secret |-> a.contains_secret,
                 data_classification |-> a.data_classification]
<1>1. AuthorityReasons(p, h.invocation_policy) = {} /\ DestinationReasons(p, h.invocation_policy) = {}
  BY AcceptedMeansNoReason
<1>2. /\ p.subject = a.subject /\ p.agent = cell.agent_id
      /\ p.workload = h.manifest.organism_id
      /\ p.action = cell.invocation_action /\ p.scope = cell.invocation_scope
      /\ p.tool = adapter.tool /\ p.resource_budget = cell.resource_budget
      /\ p.destination = adapter.destination
      /\ p.contains_secret = a.contains_secret /\ p.data_classification = a.data_classification
  BY InvocationCarries
<1> HIDE DEF p
<1>3. /\ \A f \in {"subject", "agent", "workload", "action", "scope", "tool", "resource_budget",
                   "destination"} : p[f] = q[f]
      /\ q.contains_secret = p.contains_secret /\ q.data_classification = p.data_classification
      /\ q.resource_budget \in Counts
  BY <1>2
<1>4. PolicyStaticallyAllows(h.invocation_policy, q)
  <2> HIDE DEF q
  <2>1. Sensitive(q) => Sensitive(p)
    BY <1>3 DEF Sensitive
  <2> QED BY <1>1, <1>3, <2>1, GuardAgreesWithPreflight
<1> QED BY <1>4 DEF InvocationAllowed

LEMMA AcceptedActionIsAllowed ==
    ASSUME NEW h, NEW draft, NEW a, NEW state, NEW cause, NEW until, NEW t,
           h.action_policy.max_resource_budget \in Counts,
           CapabilityOf(h, draft.capability_id).resource_budget \in Counts,
           EvaluateProposal(ActionFromDraft(h, draft, a, state, cause, until),
                            h.action_policy, t).status = "ACCEPT"
    PROVE  CapabilityAllowed(h, CapabilityOf(h, draft.capability_id), a)
<1> DEFINE k == CapabilityOf(h, draft.capability_id)
           joined == JoinDataClassification(a.data_classification, k.data_classification)
           secret == a.contains_secret \/ k.contains_secret \/ joined = "unknown"
           p == ActionFromDraft(h, draft, a, state, cause, until)
           q == [subject |-> a.subject, agent |-> h.manifest.pipeline.executor.agent_id,
                 workload |-> h.manifest.organism_id, action |-> k.action, scope |-> k.scope,
                 tool |-> k.tool, resource_budget |-> k.resource_budget,
                 destination |-> k.destination,
                 contains_secret |-> secret,
                 data_classification |-> joined]
<1>1. AuthorityReasons(p, h.action_policy) = {} /\ DestinationReasons(p, h.action_policy) = {}
  BY AcceptedMeansNoReason
<1>2. /\ p.subject = a.subject /\ p.agent = h.manifest.pipeline.executor.agent_id
      /\ p.workload = h.manifest.organism_id
      /\ p.action = k.action /\ p.scope = k.scope
      /\ p.tool = k.tool /\ p.resource_budget = k.resource_budget
      /\ p.destination = k.destination
      /\ p.contains_secret = secret /\ p.data_classification = joined
  BY ActionCarries
<1> HIDE DEF p, secret, joined
<1>3. /\ \A f \in {"subject", "agent", "workload", "action", "scope", "tool", "resource_budget",
                   "destination"} : p[f] = q[f]
      /\ q.contains_secret = p.contains_secret /\ q.data_classification = p.data_classification
      /\ q.resource_budget \in Counts
  BY <1>2
<1>4. PolicyStaticallyAllows(h.action_policy, q)
  <2> HIDE DEF q, k
  <2>1. Sensitive(q) => Sensitive(p)
    BY <1>3 DEF Sensitive
  <2> QED BY <1>1, <1>3, <2>1, GuardAgreesWithPreflight
<1> QED BY <1>4 DEF CapabilityAllowed, secret, joined

\* The verdict of a run that ended without its preflight, and what a preflight
\* that refused has found, unless an adapter did not say what it is.
RefusalInv ==
    pc = "ended" /\ verdict.by = "preflight" =>
        /\ \/ verdict.reasons = ConfigurationReasons(host, seen, asked)
           \/ "ADAPTER_PROVENANCE_DENIED" \in verdict.reasons
        /\ \A c \in host.capabilities : CapabilityOK(c)

LEMMA RefusalsAreFound ==
    ASSUME AdmissionInv, RefusalInv, [Next]_vars
    PROVE  RefusalInv'
<1>1. CASE UNCHANGED vars \/ Ended
  BY <1>1 DEF vars, Ended, RefusalInv
<1>2. CASE RunPreflight
  <2>1. /\ pc = "preflight" /\ UNCHANGED <<host, identity, context>>
        /\ asked' = context /\ seen' = identity
    BY <1>2 DEF RunPreflight
  <2>2. \A c \in host.capabilities : CapabilityOK(c)
    BY <2>1 DEF AdmissionInv, HostInv, Built
  <2>3. pc' = "ended" => \/ verdict'.reasons = ConfigurationReasons(host, identity, context)
                         \/ "ADAPTER_PROVENANCE_DENIED" \in verdict'.reasons
    <3>1. CASE IdentityUnreadable
      BY <3>1 DEF IdentityUnreadable, Ends
    <3>2. CASE ~IdentityUnreadable
      BY <1>2, <3>2 DEF RunPreflight, Ends, Goes
    <3> QED BY <3>1, <3>2
  <2> QED BY <2>1, <2>2, <2>3 DEF RefusalInv
<1>3. CASE AdjustClock \/ DriftAdapter
  BY <1>3 DEF AdjustClock, DriftAdapter, RefusalInv
<1>4. CASE Construct
  BY <1>4 DEF Construct, Ends, Goes, RefusalInv
<1>5. CASE CheckManifest \/ StartStage
  BY <1>5 DEF CheckManifest, StartStage, ManifestRefuses, ManifestAccepts, Ends, Goes, RefusalInv
<1>6. CASE BuildInvocation
  BY <1>6 DEF BuildInvocation, Ends, Goes, RefusalInv
<1>7. CASE SubmitInvocation
  BY <1>7 DEF SubmitInvocation, Ends, Goes, RefusalInv
<1>8. CASE ModelReturns
  BY <1>8 DEF ModelReturns, Goes, RefusalInv
<1>9. CASE CompileDraft
  BY <1>9 DEF CompileDraft, Ends, Goes, RefusalInv
<1>10. CASE SubmitAction
  BY <1>10 DEF SubmitAction, Ends, RefusalInv
<1> QED BY <1>1, <1>2, <1>3, <1>4, <1>5, <1>6, <1>7, <1>8, <1>9, <1>10 DEF Next

\* OrganismRunner's preflight against evaluate_proposal: a run is refused for
\* its policies only if some model stage, or some capability of the manifest,
\* would be denied by the guard at every time, whatever the analyst drafts.
THEOREM PreflightRefuses ==
    ASSUME DigestsAreExact
    PROVE  Spec => []PreflightRefusesOnlyTheImpossible
<1>1. Init => RefusalInv
  BY DEF Init, RefusalInv
<1>2. AdmissionInv /\ RefusalInv /\ [Next]_vars => RefusalInv'
  BY RefusalsAreFound
<1>3. ASSUME AdmissionInv, RefusalInv
      PROVE  PreflightRefusesOnlyTheImpossible
  <2>1. SUFFICES ASSUME pc = "ended", verdict.by = "preflight",
                        verdict.reasons \in {{"INVOCATION_POLICY_INCOMPATIBLE"},
                                            {"ACTION_POLICY_INCOMPATIBLE"}}
                 PROVE  /\ verdict.reasons = {"INVOCATION_POLICY_INCOMPATIBLE"} =>
                              \E s \in ModelStages : ~CanInvoke(s)
                        /\ verdict.reasons = {"ACTION_POLICY_INCOMPATIBLE"} =>
                              \E id \in host.manifest.pipeline.executor.allowed_capability_ids : ~CanAct(id)
    BY DEF PreflightRefusesOnlyTheImpossible
  <2>2. /\ verdict.reasons = ConfigurationReasons(host, seen, asked)
        /\ \A c \in host.capabilities : CapabilityOK(c)
    <3>1. "ADAPTER_PROVENANCE_DENIED" \notin verdict.reasons
      BY <2>1
    <3> QED BY <1>3, <2>1, <3>1 DEF RefusalInv
  <2>3. /\ \A s \in ModelStages : host.manifest.pipeline[s].resource_budget \in Counts
        /\ host.invocation_policy.max_resource_budget \in Counts
        /\ host.action_policy.max_resource_budget \in Counts
    BY <1>3 DEF AdmissionInv, HostInv
  <2> DEFINE registry == PolicyVersionReasons(host) \cup RegistryReasons(host)
             ids == host.manifest.pipeline.executor.allowed_capability_ids
  <2>4. registry \subseteq {"PROPOSAL_FACTORY_POLICY_MISMATCH", "CAPABILITY_UNKNOWN",
                            "NESTED_SPAWN_DENIED", "EXECUTOR_UNKNOWN"}
    BY DEF PolicyVersionReasons, RegistryReasons
  <2>5. /\ verdict.reasons = {"INVOCATION_POLICY_INCOMPATIBLE"} =>
              \E s \in ModelStages : ~InvocationAllowed(host, s, seen, asked)
        /\ verdict.reasons = {"ACTION_POLICY_INCOMPATIBLE"} =>
              registry = {} /\ \E id \in ids : ~CapabilityAllowed(host, CapabilityOf(host, id), asked)
    <3> DEFINE inv == {"INVOCATION_POLICY_INCOMPATIBLE"} act == {"ACTION_POLICY_INCOMPATIBLE"}
               NotInvoked == \E s \in ModelStages : ~InvocationAllowed(host, s, seen, asked)
               NotActed == \E id \in ids : ~CapabilityAllowed(host, CapabilityOf(host, id), asked)
    <3>1. verdict.reasons = IF registry # {} THEN registry
                            ELSE IF NotInvoked THEN inv ELSE IF NotActed THEN act ELSE {}
      BY <2>2 DEF ConfigurationReasons
    <3>2. inv # act /\ inv # {} /\ act # {} /\ registry # inv /\ registry # act
      BY <2>4
    <3> HIDE DEF registry, inv, act, NotInvoked, NotActed
    <3>3. /\ verdict.reasons = inv => NotInvoked
          /\ verdict.reasons = act => registry = {} /\ NotActed
      BY <3>1, <3>2
    <3> QED BY <3>3 DEF inv, act, NotInvoked, NotActed
  <2>6. ASSUME NEW s \in ModelStages, ~InvocationAllowed(host, s, seen, asked)
        PROVE  ~CanInvoke(s)
    BY <2>3, <2>6, AcceptedInvocationIsAllowed DEF CanInvoke
  <2>7. ASSUME NEW id \in ids, registry = {},
               ~CapabilityAllowed(host, CapabilityOf(host, id), asked)
        PROVE  ~CanAct(id)
    <3>1. \E c \in host.capabilities : c.capability_id = id
      BY <2>7, NoneAssumption DEF RegistryReasons
    <3>2. CapabilityOf(host, id).resource_budget \in Counts
      BY <2>2, <2>7, <3>1, OfferedCapability DEF Offered, CapabilityOK, BudgetOK
    <3> QED BY <2>3, <2>7, <3>2, AcceptedActionIsAllowed DEF CanAct
  <2> HIDE DEF registry, ids
  <2> QED BY <2>5, <2>6, <2>7 DEF ids
<1> QED BY <1>1, <1>2, <1>3, AdmissionInvHolds, PTL DEF Spec

-----------------------------------------------------------------------------
(* Where an accepted action goes.                                          *)

\* An HTTPS origin written as a URL is an HTTPS URL again.
LEMMA WrittenOriginIsUsable ==
    ASSUME NEW url, NormalizeHttpsOrigin(url) # None, url.host \in DOMAIN CanonicalHost,
           OriginUrl(NormalizeHttpsOrigin(url)) # None
    PROVE  NormalizeHttpsOrigin(OriginUrl(NormalizeHttpsOrigin(url))) # None
<1> DEFINE canonical == CanonicalHost[url.host]
           number == IF url.port = None THEN 443 ELSE url.port
           origin == [scheme |-> "https", host |-> canonical, port |-> number]
           written == [scheme |-> "https", userinfo |-> FALSE, host |-> canonical, port |-> number]
<1>1. NormalizeHttpsOrigin(url) = origin /\ UsableUrl(url, "https")
  BY DEF NormalizeHttpsOrigin, Origin
<1>2. canonical # None /\ CanonicalHost[canonical] = canonical /\ number # BadPort
  BY <1>1, HostIsSpelledOnce, UrlTypes DEF UsableUrl
<1>3. OriginUrl(origin) = written
  BY DEF OriginUrl
<1>4. written # None
  BY <1>1, <1>3, ZenonT(40)
<1>5. UsableUrl(written, "https")
  <2> HIDE DEF canonical, number
  <2>1. /\ written.scheme = "https" /\ written.userinfo = FALSE
        /\ written.host = canonical /\ written.port = number
    OBVIOUS
  <2> HIDE DEF written
  <2> QED BY <1>2, <1>4, <2>1 DEF UsableUrl
<1>6. written.host = canonical /\ written.port = number
  OBVIOUS
<1> HIDE DEF written
<1>7. NormalizeHttpsOrigin(written) = [scheme |-> "https", host |-> canonical,
                                       port |-> IF number = None THEN 443 ELSE number]
  BY <1>2, <1>5, <1>6 DEF NormalizeHttpsOrigin, Origin
<1>8. (IF number = None THEN 443 ELSE number) = number
  OBVIOUS
<1>9. NormalizeHttpsOrigin(written) = origin
  BY <1>7, <1>8
<1> QED BY <1>1, <1>3, <1>9

\* Every destination of a built host is an HTTPS origin; an action that waits
\* for the guard was compiled for its capability's destination.
TargetInv ==
    /\ pc = "constructor" => host \in Hosts
    /\ pc \in Built => \A c \in host.capabilities :
          c.destination # None => NormalizeHttpsOrigin(c.destination) # None
    /\ pc = "guard" /\ stage = "executor" =>
          \E draft \in Drafts, answers \in Verdicts, until \in Times :
             /\ CompilationReason(host, draft, answers) = None
             /\ proposal = ActionFromDraft(host, draft, context, "state", "result", until)
    /\ TargetIsAtDestination

LEMMA BuiltDestinations ==
    ASSUME host \in Hosts, Construct, pc' = "manifest"
    PROVE  \A c \in host'.capabilities :
              c.destination # None => NormalizeHttpsOrigin(c.destination) # None
<1>1. /\ host' = [host EXCEPT !.capabilities = {NormalizedCapability(c) : c \in host.capabilities}]
      /\ \A c \in host.capabilities : CapabilityAccepted(c)
  BY DEF Construct, Ends, FactoryAccepts
<1>2. host'.capabilities = {NormalizedCapability(c) : c \in host.capabilities}
  BY <1>1, HostTypes DEF HostFields
<1>3. ASSUME NEW c \in host.capabilities, NormalizedCapability(c).destination # None
      PROVE  NormalizeHttpsOrigin(NormalizedCapability(c).destination) # None
  <2> DEFINE written == IF c.destination = None THEN None
                        ELSE OriginUrl(NormalizeHttpsOrigin(c.destination))
             prefixes == {NormalizedPrefix(prefix) : prefix \in c.allowed_target_prefixes}
  <2>1. NormalizedCapability(c) = [c EXCEPT !.allowed_target_prefixes = prefixes, !.destination = written]
    BY DEF NormalizedCapability
  <2>2. "destination" \in DOMAIN c
    BY HostTypes
  <2> HIDE DEF written, prefixes
  <2>3. NormalizedCapability(c).destination = written
    BY <2>1, <2>2
  <2>4. c.destination # None /\ written = OriginUrl(NormalizeHttpsOrigin(c.destination))
    BY <1>3, <2>3 DEF written
  <2>5. NormalizeHttpsOrigin(c.destination) # None
    BY <1>1, <2>4 DEF CapabilityAccepted
  <2> QED BY <2>3, <2>4, <2>5, WrittenOriginIsUsable, UrlTypes
<1> QED BY <1>2, <1>3

\* The guard has looked at the destination; the target is there.
LEMMA AcceptedTargetIsThere ==
    ASSUME NEW h, NEW draft, NEW answers, NEW c, NEW state, NEW cause, NEW until, NEW t,
           CompilationReason(h, draft, answers) = None,
           \A k \in h.capabilities : k.destination # None => NormalizeHttpsOrigin(k.destination) # None,
           EvaluateProposal(ActionFromDraft(h, draft, c, state, cause, until),
                            h.action_policy, t).status = "ACCEPT",
           LooksLikeNetworkLocator(ActionFromDraft(h, draft, c, state, cause, until).target)
    PROVE  LET p == ActionFromDraft(h, draft, c, state, cause, until)
               place == TargetOrigin(p.target)
           IN  /\ place \in EgressOrigins(h.action_policy.allowed_destinations, p.scope)
               /\ Sensitive(p) =>
                     place \in EgressOrigins(h.action_policy.allowed_secret_destinations, p.scope)
<1> DEFINE k == CapabilityOf(h, draft.capability_id)
           p == ActionFromDraft(h, draft, c, state, cause, until)
           target == CompiledTarget(draft.target)
           policy == h.action_policy
           place == TargetOrigin(target)
<1>1. p.scope = k.scope /\ p.destination = k.destination /\ p.target = target
  BY ActionCarries
<1>2. k \in h.capabilities
  BY CompiledIsOffered, OfferedCapability
<1>3. k.destination # None /\ place = NormalizeHttpsOrigin(k.destination)
  <2>1. LooksLikeNetworkLocator(target)
    BY <1>1
  <2> QED BY <2>1, NoneAssumption DEF CompilationReason
<1>4. DestinationReasons(p, policy) = {}
  BY AcceptedMeansNoReason
<1> HIDE DEF p, k, target, place, policy
<1>5. /\ "DESTINATION_DENIED" \notin DestinationReasons(p, policy)
      /\ "DESTINATION_SCOPE_MISMATCH" \notin DestinationReasons(p, policy)
      /\ "SECRET_DESTINATION_DENIED" \notin DestinationReasons(p, policy)
  BY <1>4
<1>6. ScopeIsNetwork(p, policy)
  BY <1>1, <1>3, <1>5 DEF DestinationReasons
<1>7. NormalizeEgressOrigin(p.destination, p.scope) = place
  BY <1>1, <1>2, <1>3 DEF NormalizeEgressOrigin
<1>8. place \in EgressOrigins(policy.allowed_destinations, p.scope)
  BY <1>5, <1>6, <1>7 DEF DestinationReasons
<1>9. Sensitive(p) => place \in EgressOrigins(policy.allowed_secret_destinations, p.scope)
  BY <1>5, <1>6, <1>7 DEF DestinationReasons
<1> QED BY <1>1, <1>8, <1>9 DEF p, place, policy

LEMMA TargetsAreCompiled ==
    ASSUME AdmissionInv, TargetInv, [Next]_vars
    PROVE  TargetInv'
<1>1. CASE UNCHANGED vars \/ Ended
  BY <1>1 DEF vars, Ended, TargetInv, TargetIsAtDestination
<1>2. CASE Construct
  <2>1. host \in Hosts /\ pc' \in {"manifest", "ended"} /\ stage' = stage /\ stage \in ModelStages
    BY <1>2 DEF Construct, Ends, Goes, TargetInv, AdmissionInv, StageInv
  <2>2. pc' = "manifest" => \A c \in host'.capabilities :
          c.destination # None => NormalizeHttpsOrigin(c.destination) # None
    BY <1>2, <2>1, BuiltDestinations
  <2> QED BY <2>1, <2>2 DEF TargetInv, TargetIsAtDestination, Built, Later, ModelStages
<1>3. CASE SubmitAction
  <2>1. /\ pc = "guard" /\ stage = "executor" /\ pc' = "ended"
        /\ UNCHANGED <<host, identity, context, stage, proposal>>
        /\ verdict' = [by |-> "guard",
                       status |-> EvaluateProposal(proposal, host.action_policy, clock).status,
                       reasons |-> EvaluateProposal(proposal, host.action_policy, clock).reasons]
    BY <1>3 DEF SubmitAction, Ends
  <2>2. PICK draft \in Drafts, answers \in Verdicts, until \in Times :
           /\ CompilationReason(host, draft, answers) = None
           /\ proposal = ActionFromDraft(host, draft, context, "state", "result", until)
    BY <2>1 DEF TargetInv
  <2>3. \A c \in host.capabilities : c.destination # None => NormalizeHttpsOrigin(c.destination) # None
    BY <2>1 DEF TargetInv, Built, Later
  <2>4. verdict'.status = "ACCEPT" => EvaluateProposal(proposal, host.action_policy, clock).status = "ACCEPT"
    BY <2>1
  <2>5. TargetIsAtDestination'
    BY <2>1, <2>2, <2>3, <2>4, AcceptedTargetIsThere DEF TargetIsAtDestination
  <2> QED BY <2>1, <2>5 DEF TargetInv, Built, Later
<1>4. CASE CompileDraft
  <2>1. /\ pc = "draft" /\ stage = "executor" /\ UNCHANGED <<host, context, stage>>
        /\ pc' \in {"guard", "ended"}
    BY <1>4 DEF CompileDraft, Ends, Goes, AdmissionInv, StageInv
  <2>2. pc' = "guard" => \E draft \in Drafts, answers \in Verdicts, until \in Times :
           /\ CompilationReason(host, draft, answers) = None
           /\ proposal' = ActionFromDraft(host, draft, context, "state", "result", until)
    BY <1>4 DEF CompileDraft, Ends, Goes, Deadlines
  <2>3. pc' = "ended" => verdict'.by # "guard"
    BY <1>4 DEF CompileDraft, Ends, Goes
  <2> QED BY <2>1, <2>2, <2>3 DEF TargetInv, TargetIsAtDestination, Built, Later
<1>5. ASSUME \/ CheckManifest \/ RunPreflight \/ StartStage \/ BuildInvocation
             \/ SubmitInvocation \/ ModelReturns
      PROVE  TargetInv'
  <2>1. /\ pc \in Built /\ stage \in ModelStages /\ host' = host
        /\ pc' \in Built \cup {"ended"}
        /\ pc' \in {"guard", "ended"} => stage' = stage
    <3>1. CASE CheckManifest \/ RunPreflight \/ StartStage
      BY <3>1 DEF CheckManifest, RunPreflight, IdentityUnreadable, StartStage, ManifestRefuses,
                  ManifestAccepts, Ends, Goes, AdmissionInv, StageInv, Built, Later
    <3>2. CASE BuildInvocation \/ SubmitInvocation
      BY <3>2 DEF BuildInvocation, SubmitInvocation, Ends, Goes, AdmissionInv, StageInv, Built, Later
    <3>3. CASE ModelReturns
      BY <3>3 DEF ModelReturns, Goes, AdmissionInv, StageInv, Built, Later
    <3> QED BY <1>5, <3>1, <3>2, <3>3
  <2> QED BY <2>1 DEF TargetInv, TargetIsAtDestination, Built, Later, ModelStages
<1>6. CASE AdjustClock \/ DriftAdapter
  BY <1>6 DEF AdjustClock, DriftAdapter, TargetInv, TargetIsAtDestination, Built, Later
<1> QED BY <1>1, <1>2, <1>3, <1>4, <1>5, <1>6 DEF Next

\* StaticProposalFactory and evaluate_proposal together: the model writes the
\* target, the guard looks at the destination only, and still an accepted
\* action goes where the policy lets data of its label go.
THEOREM TargetIsThere ==
    ASSUME DigestsAreExact
    PROVE  Spec => []TargetIsAtDestination
<1>1. Init => TargetInv
  BY DEF Init, TargetInv, TargetIsAtDestination, Built, Later
<1>2. AdmissionInv /\ TargetInv /\ [Next]_vars => TargetInv'
  BY TargetsAreCompiled
<1>3. TargetInv => TargetIsAtDestination
  BY DEF TargetInv
<1> QED BY <1>1, <1>2, <1>3, AdmissionInvHolds, PTL DEF Spec

=============================================================================
