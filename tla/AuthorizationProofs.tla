------------------------- MODULE AuthorizationProofs -------------------------
(***************************************************************************)
(* How evaluations of proposals relate, for every policy, every set of     *)
(* proposals and every reading of the clock.                               *)
(***************************************************************************)
EXTENDS Authorization, TLAPS

-----------------------------------------------------------------------------
(* What an answer means: the checks that must all have passed.             *)

LEMMA DecisionFields ==
    ASSUME NEW status, NEW reasons
    PROVE  Decision(status, reasons).status = status
BY DEF Decision

\* Whatever is checked before the approval.
Cleared(p, policy, t) ==
    /\ StructuralReasons(p) = {} /\ PolicyValid(policy)
    /\ TimeReasons(p, t) = {} /\ BindingReasons(p, policy) = {}
    /\ AuthorityReasons(p, policy) = {} /\ DestinationReasons(p, policy) = {}

\* The approval that is cited covers the proposal.
Covered(p, policy, t) ==
    /\ p.approval_ref \in DOMAIN policy.approvals
    /\ policy.approvals[p.approval_ref].status # "REVOKED"
    /\ ~(policy.approvals[p.approval_ref].expires_at <= t)
    /\ \A f \in BoundFields : policy.approvals[p.approval_ref][f] = p[f]

LEMMA NotBlocked ==
    ASSUME NEW p, NEW policy, NEW t
    PROVE  EvaluateProposal(p, policy, t).status # "BLOCK"
             => /\ Cleared(p, policy, t)
                /\ EvaluateProposal(p, policy, t) = ApprovalDecision(p, policy, t)
BY DecisionFields DEF EvaluateProposal, Cleared, DenialReasons

LEMMA AcceptMeans ==
    ASSUME NEW p, NEW policy, NEW t
    PROVE  EvaluateProposal(p, policy, t).status = "ACCEPT"
             <=> /\ Cleared(p, policy, t)
                 /\ IF p.approval_ref = None THEN ~ApprovalRequired(p, policy)
                    ELSE Covered(p, policy, t)
<1>1. ApprovalDecision(p, policy, t).status = "ACCEPT"
        <=> IF p.approval_ref = None THEN ~ApprovalRequired(p, policy) ELSE Covered(p, policy, t)
  BY DecisionFields DEF ApprovalDecision, Covered
<1>2. Cleared(p, policy, t) => EvaluateProposal(p, policy, t) = ApprovalDecision(p, policy, t)
  BY DEF EvaluateProposal, Cleared, DenialReasons
<1> QED BY <1>1, <1>2, NotBlocked

LEMMA HoldMeans ==
    ASSUME NEW p, NEW policy, NEW t, EvaluateProposal(p, policy, t).status = "HOLD"
    PROVE  Cleared(p, policy, t) /\ p.approval_ref = None
BY NotBlocked, DecisionFields DEF ApprovalDecision

\* The checks of the clock, and of the authority, one by one.
LEMMA TimeMeans ==
    ASSUME NEW p, NEW t
    PROVE  TimeReasons(p, t) = {}
             <=> /\ p.issued_at # None /\ p.expires_at # None
                 /\ ~(p.expires_at <= p.issued_at) /\ ~(p.issued_at > t) /\ ~(p.expires_at <= t)
BY DEF TimeReasons

LEMMA BindingMeans ==
    ASSUME NEW p, NEW policy
    PROVE  BindingReasons(p, policy) = {}
             <=> /\ p.policy_version = policy.policy_version
                 /\ p.arguments_digest = Digest(p.arguments)
                 /\ p.proposal_digest = ProposalDigest(p)
BY DEF BindingReasons

LEMMA AuthorityMeans ==
    ASSUME NEW p, NEW policy
    PROVE  AuthorityReasons(p, policy) = {}
             <=> /\ p.subject \in policy.allowed_subjects /\ p.agent \in policy.allowed_agents
                 /\ p.workload \in policy.allowed_workloads
                 /\ p.action \in policy.allowed_actions /\ p.scope \in policy.allowed_scopes
                 /\ p.scope \in policy.allowed_action_scopes[p.action]
                 /\ p.tool \in policy.trusted_tools
                 /\ p.delegation_chain # <<>> => p.delegation_chain \in policy.allowed_delegation_chains
                 /\ \A f \in BudgetFields :
                       ~(p.resource_budget[f] > policy.max_resource_budget[f])
<1> DEFINE reasons == AuthorityReasons(p, policy)
<1>1. /\ "IDENTITY_DENIED" \notin reasons
            <=> /\ p.subject \in policy.allowed_subjects /\ p.agent \in policy.allowed_agents
                /\ p.workload \in policy.allowed_workloads
      /\ "ACTION_DENIED" \notin reasons <=> p.action \in policy.allowed_actions
      /\ "SCOPE_DENIED" \notin reasons <=> p.scope \in policy.allowed_scopes
  BY DEF AuthorityReasons
<1>2. /\ "ACTION_SCOPE_DENIED" \notin reasons
            <=> (p.action \in policy.allowed_actions /\ p.scope \in policy.allowed_scopes
                  => p.scope \in policy.allowed_action_scopes[p.action])
      /\ "TOOL_ORIGIN_DENIED" \notin reasons <=> p.tool \in policy.trusted_tools
  BY DEF AuthorityReasons
<1>3. /\ "DELEGATION_DENIED" \notin reasons
            <=> (p.delegation_chain # <<>>
                  => p.delegation_chain \in policy.allowed_delegation_chains)
      /\ "RESOURCE_BUDGET_EXCEEDED" \notin reasons
            <=> \A f \in BudgetFields : ~(p.resource_budget[f] > policy.max_resource_budget[f])
  BY DEF AuthorityReasons
<1>4. reasons \subseteq {"IDENTITY_DENIED", "ACTION_DENIED", "SCOPE_DENIED", "ACTION_SCOPE_DENIED",
                         "TOOL_ORIGIN_DENIED", "DELEGATION_DENIED", "RESOURCE_BUDGET_EXCEEDED"}
  BY DEF AuthorityReasons
<1> HIDE DEF reasons
<1>5. reasons = {} <=> (/\ "IDENTITY_DENIED" \notin reasons /\ "ACTION_DENIED" \notin reasons
                       /\ "SCOPE_DENIED" \notin reasons /\ "ACTION_SCOPE_DENIED" \notin reasons
                       /\ "TOOL_ORIGIN_DENIED" \notin reasons /\ "DELEGATION_DENIED" \notin reasons
                       /\ "RESOURCE_BUDGET_EXCEEDED" \notin reasons)
  BY <1>4
<1>6. reasons = AuthorityReasons(p, policy)
  BY DEF reasons
<1> QED BY <1>1, <1>2, <1>3, <1>5, <1>6

LEMMA DestinationMeans ==
    ASSUME NEW p, NEW policy
    PROVE  DestinationReasons(p, policy) = {}
             <=> IF ScopeIsNetwork(p, policy)
                 THEN /\ NormalizeEgressOrigin(p.destination, p.scope)
                            \in EgressOrigins(policy.allowed_destinations, p.scope)
                      /\ Sensitive(p) => NormalizeEgressOrigin(p.destination, p.scope)
                            \in EgressOrigins(policy.allowed_secret_destinations, p.scope)
                 ELSE p.destination = None
BY DEF DestinationReasons

-----------------------------------------------------------------------------
(* Time: what is accepted at two instants is accepted in between.          *)

LEMMA AcceptedInBetween ==
    ASSUME proposal \in Proposals, NEW t \in Int, NEW u \in Int, NEW w \in Int,
           t <= u, u <= w, Accepts(t), Accepts(w)
    PROVE  Accepts(u)
<1>1. /\ Cleared(proposal, Policy, t) /\ Cleared(proposal, Policy, w)
      /\ IF proposal.approval_ref = None THEN ~ApprovalRequired(proposal, Policy)
         ELSE Covered(proposal, Policy, w)
  BY AcceptMeans DEF Accepts
<1>2. proposal.issued_at \in Int /\ proposal.expires_at \in Int
  BY <1>1, TimeMeans, DocumentsAssumption DEF Cleared
<1>3. TimeReasons(proposal, u) = {}
  BY <1>1, <1>2, TimeMeans DEF Cleared
<1>4. Cleared(proposal, Policy, u)
  BY <1>1, <1>3 DEF Cleared
<1>5. ASSUME Covered(proposal, Policy, w) PROVE Covered(proposal, Policy, u)
  <2> DEFINE approval == Policy.approvals[proposal.approval_ref]
  <2>1. approval.expires_at \in Int
    BY <1>1, <1>5, DocumentsAssumption DEF Covered, Cleared, PolicyValid, ApprovalValid
  <2> QED BY <1>5, <2>1 DEF Covered
<1> QED BY <1>1, <1>4, <1>5, AcceptMeans DEF Accepts

THEOREM AuthorizationInvHolds == Spec => []AuthorizationInv
<1>1. Init => AuthorizationInv
  <2>1. 0 \in 0..MaxTime
    BY DocumentsAssumption DEF ProposalFields
  <2> QED BY <2>1 DEF Init, AuthorizationInv, TypeOK, LapseIsReal
<1>2. AuthorizationInv /\ [Next]_vars => AuthorizationInv'
  <2> SUFFICES ASSUME AuthorizationInv, [Next]_vars PROVE AuthorizationInv'
    OBVIOUS
  <2> USE DEF AuthorizationInv
  <2>1. CASE Reevaluate
    <3>1. /\ now' = now + 1 /\ now \in Int /\ now' \in 0..MaxTime /\ proposal' = proposal
          /\ decision' = EvaluateProposal(proposal, Policy, now')
      BY <2>1, DocumentsAssumption DEF Reevaluate, TypeOK
    <3>2. TypeOK'
      BY <2>1, <3>1 DEF Reevaluate, TypeOK
    <3>3. LapseIsReal'
      <4>1. SUFFICES ASSUME lapsed'
                     PROVE  \E t, u \in 0..now' : t < u /\ Accepts(t) /\ ~Accepts(u)
        BY <3>1 DEF LapseIsReal, Accepts
      <4>2. 0..now \subseteq 0..now' /\ now \in 0..now' /\ now' \in 0..now' /\ now < now'
        BY <3>1 DEF TypeOK
      <4>3. CASE lapsed
        BY <4>2, <4>3 DEF LapseIsReal
      <4>4. CASE ~lapsed
        <5>1. Accepts(now) /\ ~Accepts(now')
          BY <2>1, <3>1, <4>1, <4>4 DEF Reevaluate, Accepts
        <5> QED BY <4>2, <5>1
      <4> QED BY <4>3, <4>4
    <3> QED BY <3>1, <3>2, <3>3
  <2>2. CASE Expired \/ UNCHANGED vars
    BY <2>2 DEF Expired, vars, TypeOK, LapseIsReal, Accepts
  <2> QED BY <2>1, <2>2 DEF Next
<1> QED BY <1>1, <1>2, PTL DEF Spec

\* Permission that has lapsed never comes back, nor does it outlive what it
\* rests on: what is accepted at both ends of the runtime's evaluate-then-claim
\* pair was accepted all along, and before either expiry.
THEOREM PermissionNeverReturnsHolds == Spec => []PermissionNeverReturns
<1>1. AuthorizationInv => PermissionNeverReturns
  <2> SUFFICES ASSUME AuthorizationInv, Accepts(now)
               PROVE  /\ ~lapsed
                      /\ proposal.issued_at <= now /\ now < proposal.expires_at
                      /\ proposal.approval_ref # None
                            => now < Policy.approvals[proposal.approval_ref].expires_at
    BY DEF AuthorizationInv, PermissionNeverReturns, Accepts
  <2>1. now \in Int /\ proposal \in Proposals
    BY DEF AuthorizationInv, TypeOK
  <2>2. /\ Cleared(proposal, Policy, now)
        /\ proposal.approval_ref # None => Covered(proposal, Policy, now)
    BY AcceptMeans DEF Accepts
  <2>3. ASSUME lapsed PROVE FALSE
    <3>1. PICK t \in 0..now, u \in 0..now : t < u /\ Accepts(t) /\ ~Accepts(u)
      BY <2>3 DEF AuthorizationInv, LapseIsReal
    <3>2. t \in Int /\ u \in Int /\ t <= u /\ u <= now
      BY <2>1, <3>1
    <3> QED BY <2>1, <3>1, <3>2, AcceptedInBetween
  <2>4. proposal.issued_at <= now /\ now < proposal.expires_at
    <3>1. /\ proposal.issued_at # None /\ proposal.expires_at # None
          /\ ~(proposal.issued_at > now) /\ ~(proposal.expires_at <= now)
      BY <2>2, TimeMeans DEF Cleared
    <3>2. proposal.issued_at \in Int /\ proposal.expires_at \in Int
      BY <2>1, <3>1, DocumentsAssumption
    <3> QED BY <2>1, <3>1, <3>2
  <2>5. ASSUME proposal.approval_ref # None
        PROVE  now < Policy.approvals[proposal.approval_ref].expires_at
    <3> DEFINE approval == Policy.approvals[proposal.approval_ref]
    <3>1. approval.expires_at \in Int
      BY <2>2, <2>5, DocumentsAssumption DEF Covered, Cleared, PolicyValid, ApprovalValid
    <3> QED BY <2>1, <2>2, <2>5, <3>1 DEF Covered
  <2> QED BY <2>3, <2>4, <2>5
<1> QED BY <1>1, AuthorizationInvHolds, PTL

-----------------------------------------------------------------------------
(* Narrower policies.                                                      *)

LEMMA OriginsShrink ==
    ASSUME NEW urls, NEW more, urls \subseteq more, NEW scope
    PROVE  EgressOrigins(urls, scope) \subseteq EgressOrigins(more, scope)
BY DEF EgressOrigins

LEMMA NarrowerAccepts ==
    ASSUME NEW p \in Proposals, NEW policy \in NarrowerPolicies, NEW t \in Int,
           EvaluateProposal(p, policy, t).status = "ACCEPT"
    PROVE  EvaluateProposal(p, Policy, t).status = "ACCEPT"
<1>1. /\ Cleared(p, policy, t)
      /\ IF p.approval_ref = None THEN ~ApprovalRequired(p, policy) ELSE Covered(p, policy, t)
  BY AcceptMeans
<1>2. /\ PolicyValid(Policy)
      /\ policy.policy_version = Policy.policy_version /\ policy.network_scopes = Policy.network_scopes
      /\ policy.allowed_subjects \subseteq Policy.allowed_subjects
      /\ policy.allowed_agents \subseteq Policy.allowed_agents
      /\ policy.allowed_workloads \subseteq Policy.allowed_workloads
      /\ policy.allowed_actions \subseteq Policy.allowed_actions
      /\ policy.allowed_scopes \subseteq Policy.allowed_scopes
      /\ policy.trusted_tools \subseteq Policy.trusted_tools
      /\ policy.allowed_delegation_chains \subseteq Policy.allowed_delegation_chains
      /\ policy.allowed_destinations \subseteq Policy.allowed_destinations
      /\ policy.allowed_secret_destinations \subseteq Policy.allowed_secret_destinations
      /\ \A a \in policy.allowed_actions :
            policy.allowed_action_scopes[a] \subseteq Policy.allowed_action_scopes[a]
      /\ Policy.approval_required_risk_tiers \subseteq policy.approval_required_risk_tiers
      /\ Policy.require_approval_for_irreversible => policy.require_approval_for_irreversible
      /\ \A f \in BudgetFields : policy.max_resource_budget[f] <= Policy.max_resource_budget[f]
      /\ \A r \in DOMAIN policy.approvals : ApprovesNoMore(policy, Policy, r)
  BY <1>1, NarrowingAssumption DEF PermitsNoMore, Cleared
<1>3. BindingReasons(p, Policy) = {}
  BY <1>1, <1>2, BindingMeans DEF Cleared
<1>4. AuthorityReasons(p, Policy) = {}
  <2>1. \A f \in BudgetFields : ~(p.resource_budget[f] > Policy.max_resource_budget[f])
    <3>1. \A f \in BudgetFields : ~(p.resource_budget[f] > policy.max_resource_budget[f])
      BY <1>1, AuthorityMeans DEF Cleared
    <3>2. \A f \in BudgetFields : /\ p.resource_budget[f] \in Int
                                  /\ policy.max_resource_budget[f] \in Int
                                  /\ Policy.max_resource_budget[f] \in Int
      BY DocumentsAssumption, NarrowingAssumption
    <3> QED BY <1>2, <3>1, <3>2
  <2>2. /\ p.subject \in policy.allowed_subjects /\ p.agent \in policy.allowed_agents
        /\ p.workload \in policy.allowed_workloads
        /\ p.action \in policy.allowed_actions /\ p.scope \in policy.allowed_scopes
        /\ p.scope \in policy.allowed_action_scopes[p.action]
        /\ p.tool \in policy.trusted_tools
        /\ p.delegation_chain # <<>> => p.delegation_chain \in policy.allowed_delegation_chains
    BY <1>1, AuthorityMeans DEF Cleared
  <2> QED BY <1>2, <2>1, <2>2, AuthorityMeans
<1>5. DestinationReasons(p, Policy) = {}
  <2>1. ScopeIsNetwork(p, Policy) <=> ScopeIsNetwork(p, policy)
    BY <1>2 DEF ScopeIsNetwork
  <2>2. DestinationReasons(p, policy) = {}
    BY <1>1 DEF Cleared
  <2>3. /\ EgressOrigins(policy.allowed_destinations, p.scope)
              \subseteq EgressOrigins(Policy.allowed_destinations, p.scope)
        /\ EgressOrigins(policy.allowed_secret_destinations, p.scope)
              \subseteq EgressOrigins(Policy.allowed_secret_destinations, p.scope)
    BY <1>2, OriginsShrink
  <2> QED BY <2>1, <2>2, <2>3, DestinationMeans
<1>6. Cleared(p, Policy, t)
  BY <1>1, <1>2, <1>3, <1>4, <1>5 DEF Cleared
<1>7. ApprovalRequired(p, Policy) => ApprovalRequired(p, policy)
  BY <1>2 DEF ApprovalRequired
<1>8. ASSUME Covered(p, policy, t) PROVE Covered(p, Policy, t)
  <2> DEFINE r == p.approval_ref
  <2>1. /\ r \in DOMAIN policy.approvals /\ policy.approvals[r].status # "REVOKED"
        /\ ~(policy.approvals[r].expires_at <= t)
        /\ \A f \in BoundFields : policy.approvals[r][f] = p[f]
    BY <1>8 DEF Covered
  <2>2. /\ r \in DOMAIN Policy.approvals /\ Policy.approvals[r].status # "REVOKED"
        /\ Policy.approvals[r].expires_at >= policy.approvals[r].expires_at
        /\ \A f \in BoundFields : Policy.approvals[r][f] = policy.approvals[r][f]
    BY <1>2, <2>1 DEF ApprovesNoMore
  <2>3. policy.approvals[r].expires_at # None /\ Policy.approvals[r].expires_at # None
    BY <1>1, <1>2, <2>1, <2>2 DEF Cleared, PolicyValid, ApprovalValid
  <2>4. policy.approvals[r].expires_at \in Int /\ Policy.approvals[r].expires_at \in Int
    BY <2>1, <2>2, <2>3, DocumentsAssumption, NarrowingAssumption
  <2>5. ~(Policy.approvals[r].expires_at <= t)
    BY <2>1, <2>2, <2>4
  <2> QED BY <2>1, <2>2, <2>5 DEF Covered
<1> QED BY <1>1, <1>6, <1>7, <1>8, AcceptMeans

\* A narrower policy permits nothing that the policy refuses.
THEOREM NarrowingHolds == Spec => []NarrowingNeverPermits
<1>1. AuthorizationInv => NarrowingNeverPermits
  BY NarrowerAccepts DEF AuthorizationInv, TypeOK, NarrowingNeverPermits
<1> QED BY <1>1, AuthorizationInvHolds, PTL

-----------------------------------------------------------------------------
(* Approvals.                                                              *)

LEMMA DigestNamesContent ==
    ASSUME NEW p \in Proposals, NEW q \in Proposals, ProposalDigest(p) = ProposalDigest(q)
    PROVE  p = q \/ p.proposal_digest # q.proposal_digest
<1> DEFINE contents == {Content(d) : d \in Proposals}
           digest   == [c \in contents |-> Digest(c)]
<1>1. Content(p) \in contents /\ Content(q) \in contents
  OBVIOUS
<1>2. Digest(Content(p)) = Digest(Content(q))
  BY DEF ProposalDigest, Content
<1>3. Content(p) = Content(q)
  <2>1. \A c, d \in contents : digest[c] = digest[d] => c = d
    BY DigestAssumption
  <2>2. digest[Content(p)] = digest[Content(q)]
    BY <1>1, <1>2
  <2> HIDE DEF contents, digest
  <2> QED BY <1>1, <2>1, <2>2
<1>4. SUFFICES ASSUME p.proposal_digest = q.proposal_digest PROVE p = q
  OBVIOUS
<1>5. /\ p = [f \in DOMAIN p |-> p[f]] /\ q = [f \in DOMAIN q |-> q[f]]
      /\ "proposal_digest" \in DOMAIN p /\ "proposal_digest" \in DOMAIN q
  BY DocumentsAssumption DEF ProposalFields
<1>6. DOMAIN p \ {"proposal_digest"} = DOMAIN q \ {"proposal_digest"}
  <2>1. /\ DOMAIN Content(p) = DOMAIN p \ {"proposal_digest"}
        /\ DOMAIN Content(q) = DOMAIN q \ {"proposal_digest"}
    BY DEF Content
  <2> QED BY <1>3, <2>1
<1>7. \A f \in DOMAIN p \ {"proposal_digest"} : p[f] = q[f]
  <2>1. \A f \in DOMAIN p \ {"proposal_digest"} : Content(p)[f] = p[f] /\ Content(q)[f] = q[f]
    BY <1>6 DEF Content
  <2> QED BY <1>3, <2>1
<1> QED BY <1>4, <1>5, <1>6, <1>7

\* An approval covers one exact proposal: two that cite it and are accepted
\* are one, however alike others are.
THEOREM ApprovalCoversOneHolds == Spec => []ApprovalCoversOneProposal
<1>1. AuthorizationInv => ApprovalCoversOneProposal
  <2> SUFFICES ASSUME AuthorizationInv, Accepts(now), proposal.approval_ref # None,
                      NEW other \in Proposals, other.approval_ref = proposal.approval_ref,
                      EvaluateProposal(other, Policy, now).status = "ACCEPT"
               PROVE  other = proposal
    BY DEF AuthorizationInv, ApprovalCoversOneProposal, Accepts
  <2>1. /\ Cleared(proposal, Policy, now) /\ Covered(proposal, Policy, now)
        /\ Cleared(other, Policy, now) /\ Covered(other, Policy, now)
    BY AcceptMeans DEF Accepts
  <2>2. proposal.proposal_digest = other.proposal_digest
    BY <2>1 DEF Covered, BoundFields
  <2>3. ProposalDigest(proposal) = ProposalDigest(other)
    BY <2>1, <2>2, BindingMeans DEF Cleared
  <2> QED BY <2>2, <2>3, DigestNamesContent DEF AuthorizationInv, TypeOK
<1> QED BY <1>1, AuthorizationInvHolds, PTL

\* Binding gives a proposal its digests and changes nothing else.
LEMMA Bound ==
    ASSUME NEW p, p = [f \in DOMAIN p |-> p[f]],
           {"arguments", "arguments_digest", "proposal_digest"} \subseteq DOMAIN p
    PROVE  LET q == BindProposal(p)
           IN  /\ DOMAIN q = DOMAIN p
               /\ \A f \in DOMAIN p \ {"arguments_digest", "proposal_digest"} : q[f] = p[f]
               /\ q.arguments_digest = Digest(q.arguments)
               /\ q.proposal_digest = ProposalDigest(q)
<1> DEFINE r == [p EXCEPT !.arguments_digest = Digest(p.arguments)]
           q == BindProposal(p)
<1>1. /\ r = [f \in DOMAIN r |-> r[f]] /\ DOMAIN r = DOMAIN p
      /\ r.arguments_digest = Digest(p.arguments)
      /\ \A f \in DOMAIN p \ {"arguments_digest"} : r[f] = p[f]
  OBVIOUS
<1>2. q = [r EXCEPT !.proposal_digest = ProposalDigest(r)]
  BY DEF BindProposal
<1> HIDE DEF r, q
<1>3. /\ DOMAIN q = DOMAIN r /\ q.proposal_digest = ProposalDigest(r)
      /\ \A f \in DOMAIN r \ {"proposal_digest"} : q[f] = r[f]
  BY <1>1, <1>2
<1>4. [f \in DOMAIN q \ {"proposal_digest"} |-> q[f]] = [f \in DOMAIN r \ {"proposal_digest"} |-> r[f]]
  BY <1>3
<1>5. ProposalDigest(q) = ProposalDigest(r)
  BY <1>4 DEF ProposalDigest
<1>6. q.arguments = p.arguments /\ q.arguments_digest = r.arguments_digest
  BY <1>1, <1>3
<1> QED BY <1>1, <1>3, <1>5, <1>6 DEF q

\* The proposal that asks for a fresh approval, and the policy that gives it.
Asked(p) == BindProposal([p EXCEPT !.approval_ref = "fresh"])

LEMMA AskedFields ==
    ASSUME NEW p \in Proposals
    PROVE  /\ \A f \in ProposalFields \ {"approval_ref", "arguments_digest", "proposal_digest"} :
                 Asked(p)[f] = p[f]
           /\ Asked(p).approval_ref = "fresh"
           /\ Asked(p).arguments_digest = Digest(Asked(p).arguments)
           /\ Asked(p).proposal_digest = ProposalDigest(Asked(p))
<1> DEFINE r == [p EXCEPT !.approval_ref = "fresh"]
<1>1. p = [f \in DOMAIN p |-> p[f]] /\ ProposalFields \subseteq DOMAIN p
  BY DocumentsAssumption
<1>2. {"arguments", "arguments_digest", "proposal_digest", "approval_ref"} \subseteq DOMAIN p
  BY <1>1 DEF ProposalFields
<1>3. /\ r = [f \in DOMAIN r |-> r[f]] /\ DOMAIN r = DOMAIN p /\ r.approval_ref = "fresh"
      /\ \A f \in DOMAIN p \ {"approval_ref"} : r[f] = p[f]
  BY <1>1, <1>2
<1>4. Asked(p) = BindProposal(r)
  BY DEF Asked
<1> HIDE DEF r
<1>5. /\ \A f \in DOMAIN r \ {"arguments_digest", "proposal_digest"} : BindProposal(r)[f] = r[f]
      /\ BindProposal(r).arguments_digest = Digest(BindProposal(r).arguments)
      /\ BindProposal(r).proposal_digest = ProposalDigest(BindProposal(r))
  BY <1>2, <1>3, Bound
<1> QED BY <1>1, <1>2, <1>3, <1>4, <1>5

LEMMA FreshApprovalSuffices ==
    ASSUME NEW p \in Proposals, NEW t \in 0..MaxTime,
           EvaluateProposal(p, Policy, t).status = "HOLD"
    PROVE  HeldThenApproved(p, t).status = "ACCEPT"
<1> DEFINE asked == Asked(p)
           approval == [f \in BoundFields \cup {"status", "expires_at"} |->
                           CASE f = "status"     -> "ACTIVE"
                             [] f = "expires_at" -> t + 1
                             [] OTHER            -> asked[f]]
           policy == [Policy EXCEPT !.approvals = [r \in {"fresh"} |-> approval]]
<1>1. HeldThenApproved(p, t) = EvaluateProposal(asked, policy, t)
  BY DEF HeldThenApproved, Asked
<1>2. Cleared(p, Policy, t)
  BY HoldMeans
<1>3. /\ approval.status = "ACTIVE" /\ approval.expires_at = t + 1
      /\ \A f \in BoundFields : approval[f] = asked[f]
  BY DEF BoundFields
<1> HIDE DEF approval
<1>4. /\ policy.approvals = [r \in {"fresh"} |-> approval]
      /\ \A f \in PolicyFields \ {"approvals"} : policy[f] = Policy[f]
  BY DocumentsAssumption DEF PolicyFields
<1>5. policy.approvals["fresh"] = approval /\ DOMAIN policy.approvals = {"fresh"}
  BY <1>4
<1>6. /\ \A f \in ProposalFields \ {"approval_ref", "arguments_digest", "proposal_digest"} : asked[f] = p[f]
      /\ asked.approval_ref = "fresh"
      /\ asked.arguments_digest = Digest(asked.arguments)
      /\ asked.proposal_digest = ProposalDigest(asked)
  BY AskedFields
<1> HIDE DEF asked, policy
<1>7. ApprovalValid(approval)
  <2>1. t + 1 \in 0..(MaxTime + 1)
    BY DocumentsAssumption
  <2> QED BY <1>3, <2>1, DocumentsAssumption DEF ApprovalValid
<1>8. /\ policy.policy_version = Policy.policy_version /\ policy.network_scopes = Policy.network_scopes
      /\ policy.allowed_subjects = Policy.allowed_subjects
      /\ policy.allowed_agents = Policy.allowed_agents
      /\ policy.allowed_workloads = Policy.allowed_workloads
      /\ policy.allowed_actions = Policy.allowed_actions
      /\ policy.allowed_scopes = Policy.allowed_scopes
      /\ policy.allowed_action_scopes = Policy.allowed_action_scopes
      /\ policy.trusted_tools = Policy.trusted_tools
      /\ policy.allowed_delegation_chains = Policy.allowed_delegation_chains
      /\ policy.allowed_destinations = Policy.allowed_destinations
      /\ policy.allowed_secret_destinations = Policy.allowed_secret_destinations
      /\ policy.max_resource_budget = Policy.max_resource_budget
      /\ policy.approval_required_risk_tiers = Policy.approval_required_risk_tiers
  BY <1>4 DEF PolicyFields
<1>9. /\ asked.policy_version = p.policy_version /\ asked.issued_at = p.issued_at
      /\ asked.expires_at = p.expires_at
      /\ asked.subject = p.subject /\ asked.agent = p.agent /\ asked.workload = p.workload
      /\ asked.action = p.action /\ asked.scope = p.scope /\ asked.tool = p.tool
      /\ asked.delegation_chain = p.delegation_chain /\ asked.resource_budget = p.resource_budget
      /\ asked.destination = p.destination /\ asked.contains_secret = p.contains_secret
      /\ asked.data_classification = p.data_classification
      /\ asked.intent_id = p.intent_id /\ asked.parent_cause = p.parent_cause /\ asked.nonce = p.nonce
      /\ asked.idempotency_key = p.idempotency_key /\ asked.risk_tier = p.risk_tier
  BY <1>6 DEF ProposalFields
<1>10. StructuralReasons(asked) = {}
  BY <1>2, <1>9 DEF Cleared, StructuralReasons
<1>11. PolicyValid(policy)
  BY <1>2, <1>5, <1>7, <1>8 DEF Cleared, PolicyValid
<1>12. TimeReasons(asked, t) = {}
  BY <1>2, <1>9, TimeMeans DEF Cleared
<1>13. BindingReasons(asked, policy) = {}
  BY <1>2, <1>6, <1>8, <1>9, BindingMeans DEF Cleared
<1>14. AuthorityReasons(asked, policy) = {}
  BY <1>2, <1>8, <1>9, AuthorityMeans DEF Cleared
<1>15. DestinationReasons(asked, policy) = {}
  <2>1. /\ ScopeIsNetwork(asked, policy) <=> ScopeIsNetwork(p, Policy)
        /\ Sensitive(asked) <=> Sensitive(p)
    BY <1>8, <1>9 DEF ScopeIsNetwork, Sensitive
  <2> QED BY <1>2, <1>8, <1>9, <2>1, DestinationMeans DEF Cleared
<1>16. Cleared(asked, policy, t)
  BY <1>10, <1>11, <1>12, <1>13, <1>14, <1>15 DEF Cleared
<1>17. Covered(asked, policy, t)
  <2>1. ~(t + 1 <= t)
    BY DocumentsAssumption
  <2> QED BY <1>3, <1>5, <1>6, <2>1 DEF Covered
<1>18. asked.approval_ref # None
  BY <1>6, DocumentsAssumption
<1> QED BY <1>1, <1>16, <1>17, <1>18, AcceptMeans

\* HOLD means that an approval is the only thing missing.
THEOREM HoldLacksOnlyApprovalHolds == Spec => []HoldLacksOnlyApproval
<1>1. AuthorizationInv => HoldLacksOnlyApproval
  BY FreshApprovalSuffices DEF AuthorizationInv, TypeOK, HoldLacksOnlyApproval
<1> QED BY <1>1, AuthorizationInvHolds, PTL

-----------------------------------------------------------------------------
(* Egress.                                                                 *)

\* The origin the guard compares is the endpoint a request reaches.
LEMMA OriginIsEndpoint ==
    ASSUME NEW url, NEW scope, NormalizeEgressOrigin(url, scope) # None
    PROVE  /\ url # None
           /\ NormalizeEgressOrigin(url, scope)
                = [scheme |-> url.scheme, host |-> CanonicalHost[url.host], port |-> Endpoint(url)[3]]
           /\ url.scheme # "https" => CanonicalHost[url.host] \in LoopbackHosts
<1>1. CASE UsableUrl(url, "https") /\ NormalizeHttpsOrigin(url) # None
  BY <1>1 DEF NormalizeEgressOrigin, NormalizeHttpsOrigin, UsableUrl, Origin, Endpoint
<1>2. CASE ~(UsableUrl(url, "https") /\ NormalizeHttpsOrigin(url) # None)
  <2>1. NormalizeHttpsOrigin(url) = None
    BY <1>2 DEF NormalizeHttpsOrigin
  <2>2. /\ NormalizeLocalModelOrigin(url) # None
        /\ NormalizeEgressOrigin(url, scope) = NormalizeLocalModelOrigin(url)
    BY <2>1 DEF NormalizeEgressOrigin
  <2>3. UsableUrl(url, "http") /\ CanonicalHost[url.host] \in LoopbackHosts
    BY <2>2 DEF NormalizeLocalModelOrigin
  <2> QED BY <2>2, <2>3 DEF NormalizeLocalModelOrigin, UsableUrl, Origin, Endpoint
<1> QED BY <1>1, <1>2

LEMMA OriginListed ==
    ASSUME NEW url, NEW urls, NEW scope,
           NormalizeEgressOrigin(url, scope) \in EgressOrigins(urls, scope)
    PROVE  NormalizeEgressOrigin(url, scope) # None /\ Endpoint(url) \in Endpoints(urls)
<1>1. NormalizeEgressOrigin(url, scope) # None
  BY DEF EgressOrigins
<1>2. PICK u \in urls : NormalizeEgressOrigin(u, scope) = NormalizeEgressOrigin(url, scope)
  BY DEF EgressOrigins
<1>3. /\ u.scheme = url.scheme /\ CanonicalHost[u.host] = CanonicalHost[url.host]
      /\ Endpoint(u)[3] = Endpoint(url)[3]
  BY <1>1, <1>2, OriginIsEndpoint
<1>4. Endpoint(u) = Endpoint(url)
  BY <1>3 DEF Endpoint
<1> QED BY <1>1, <1>4 DEF Endpoints

\* An accepted network action goes to an endpoint the policy lists, one listed
\* for secrets when the data is sensitive, and in clear text only to this
\* machine; an accepted local action goes nowhere.
THEOREM EgressHolds == Spec => []EgressReachesAllowedEndpoint
<1>1. AuthorizationInv => EgressReachesAllowedEndpoint
  <2> SUFFICES ASSUME AuthorizationInv, Accepts(now)
               PROVE  IF proposal.destination = None THEN ~ScopeIsNetwork(proposal, Policy)
                      ELSE /\ Endpoint(proposal.destination) \in Endpoints(Policy.allowed_destinations)
                           /\ Sensitive(proposal) =>
                                Endpoint(proposal.destination)
                                   \in Endpoints(Policy.allowed_secret_destinations)
                           /\ proposal.destination.scheme # "https" =>
                                CanonicalHost[proposal.destination.host] \in LoopbackHosts
    BY DEF AuthorizationInv, EgressReachesAllowedEndpoint, Accepts
  <2>1. DestinationReasons(proposal, Policy) = {}
    BY AcceptMeans DEF Accepts, Cleared
  <2>2. CASE ~ScopeIsNetwork(proposal, Policy)
    BY <2>1, <2>2, DestinationMeans
  <2>3. CASE ScopeIsNetwork(proposal, Policy)
    <3> DEFINE origin == NormalizeEgressOrigin(proposal.destination, proposal.scope)
    <3>1. /\ origin \in EgressOrigins(Policy.allowed_destinations, proposal.scope)
          /\ Sensitive(proposal) =>
                origin \in EgressOrigins(Policy.allowed_secret_destinations, proposal.scope)
      BY <2>1, <2>3, DestinationMeans
    <3>2. /\ origin # None /\ Endpoint(proposal.destination) \in Endpoints(Policy.allowed_destinations)
          /\ Sensitive(proposal) =>
                Endpoint(proposal.destination) \in Endpoints(Policy.allowed_secret_destinations)
      BY <3>1, OriginListed
    <3>3. /\ proposal.destination # None
          /\ proposal.destination.scheme # "https" =>
                CanonicalHost[proposal.destination.host] \in LoopbackHosts
      BY <3>2, OriginIsEndpoint
    <3> QED BY <3>2, <3>3
  <2> QED BY <2>2, <2>3
<1> QED BY <1>1, AuthorizationInvHolds, PTL

=============================================================================
