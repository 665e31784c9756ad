---------------------------- MODULE Authorization ----------------------------
(***************************************************************************)
(* One proposal under one frozen policy, evaluated again and again while   *)
(* the clock advances: the runtime and the organism evaluate the same      *)
(* proposal at several points of one attempt and rely on how the answers   *)
(* relate.  The properties compare evaluations with one another (a later   *)
(* one, one under a narrower policy, one of another proposal) and with     *)
(* where a request really goes, never with the text of the guard.          *)
(***************************************************************************)
EXTENDS Guard

CONSTANTS
    Proposals,       \* the proposals submitted, bound by the application
    Policy,          \* the policy the runtime was built with
    NarrowerPolicies,\* policies that permit no more than Policy
    MaxTime          \* bound of the clock

VARIABLES
    proposal,
    now,
    decision,
    lapsed           \* history: an ACCEPT was followed by another answer

vars == <<proposal, now, decision, lapsed>>

-----------------------------------------------------------------------------
(* What a proposal and a policy are, as far as the guard tells.            *)

\* What its digest is taken of: everything but the digest itself.
Content(p) == [f \in DOMAIN p \ {"proposal_digest"} |-> p[f]]

ProposalFields ==
    {"intent_id", "parent_cause", "nonce", "idempotency_key", "policy_version", "arguments",
     "arguments_digest", "proposal_digest", "issued_at", "expires_at", "subject", "agent", "workload",
     "action", "scope", "tool", "delegation_chain", "resource_budget", "destination",
     "contains_secret", "data_classification", "reversibility", "risk_tier", "approval_ref", "target",
     "target_state_digest", "auth_context_digest"}
PolicyFields ==
    {"policy_version", "allowed_subjects", "allowed_agents", "allowed_workloads", "allowed_actions",
     "allowed_action_scopes", "allowed_scopes", "network_scopes", "allowed_destinations",
     "allowed_secret_destinations", "trusted_tools", "allowed_delegation_chains",
     "approval_required_risk_tiers", "require_approval_for_irreversible", "max_resource_budget",
     "approvals"}

\* A document is a record, and its times are integers or did not parse.
ASSUME DocumentsAssumption ==
    /\ \A p \in Proposals :
          /\ p = [f \in DOMAIN p |-> p[f]]
          /\ ProposalFields \subseteq DOMAIN p
          /\ \A time \in {p.issued_at, p.expires_at} : time # None => time \in Int
          /\ \A f \in BudgetFields : p.resource_budget[f] \in Int
    /\ Policy = [f \in DOMAIN Policy |-> Policy[f]] /\ PolicyFields \subseteq DOMAIN Policy
    /\ \A r \in DOMAIN Policy.approvals :
          Policy.approvals[r].expires_at # None => Policy.approvals[r].expires_at \in Int
    /\ MaxTime \in Nat /\ None \notin 0..(MaxTime + 1) /\ None # "fresh"

\* The digests of two proposals are equal only if their contents are.
ASSUME DigestAssumption ==
    LET contents == {Content(p) : p \in Proposals}
        digest   == [c \in contents |-> Digest(c)]
    IN  \A c, d \in contents : digest[c] = digest[d] => c = d

\* An approval that lets a proposal through under the narrower policy does so
\* under the wider one: same binding, no earlier expiry.
ApprovesNoMore(narrow, wide, r) ==
    narrow.approvals[r].status # "REVOKED" =>
        /\ r \in DOMAIN wide.approvals /\ wide.approvals[r].status # "REVOKED"
        /\ wide.approvals[r].expires_at >= narrow.approvals[r].expires_at
        /\ \A f \in BoundFields : wide.approvals[r][f] = narrow.approvals[r][f]

\* Permissions were taken out; a policy that is not valid permits nothing.
\* Which scopes are network scopes is no permission: a network scope needs a
\* destination, the others forbid one.
PermitsNoMore(narrow, wide) ==
    PolicyValid(narrow) =>
        /\ PolicyValid(wide)
        /\ narrow.policy_version = wide.policy_version /\ narrow.network_scopes = wide.network_scopes
        /\ \A f \in {"allowed_subjects", "allowed_agents", "allowed_workloads", "allowed_actions",
                     "allowed_scopes", "trusted_tools", "allowed_delegation_chains",
                     "allowed_destinations", "allowed_secret_destinations"} : narrow[f] \subseteq wide[f]
        /\ \A a \in narrow.allowed_actions :
              narrow.allowed_action_scopes[a] \subseteq wide.allowed_action_scopes[a]
        /\ wide.approval_required_risk_tiers \subseteq narrow.approval_required_risk_tiers
        /\ wide.require_approval_for_irreversible => narrow.require_approval_for_irreversible
        /\ \A f \in BudgetFields : narrow.max_resource_budget[f] <= wide.max_resource_budget[f]
        /\ \A r \in DOMAIN narrow.approvals : ApprovesNoMore(narrow, wide, r)

\* The policies compared, and the integers they are compared by.
ASSUME NarrowingAssumption ==
    \A policy \in NarrowerPolicies :
        /\ PermitsNoMore(policy, Policy)
        /\ \A f \in BudgetFields :
              {policy.max_resource_budget[f], Policy.max_resource_budget[f]} \subseteq Int
        /\ \A r \in DOMAIN policy.approvals :
              policy.approvals[r].expires_at # None => policy.approvals[r].expires_at \in Int

-----------------------------------------------------------------------------
Init ==
    /\ proposal \in Proposals
    /\ now = 0
    /\ decision = EvaluateProposal(proposal, Policy, now)
    /\ lapsed = FALSE

\* The clock has moved on and the proposal is evaluated again.
Reevaluate ==
    /\ now < MaxTime
    /\ now' = now + 1
    /\ decision' = EvaluateProposal(proposal, Policy, now')
    /\ lapsed' = (lapsed \/ (decision.status = "ACCEPT" /\ decision'.status # "ACCEPT"))
    /\ UNCHANGED proposal

\* The last tick: a proposal that is still there is simply not asked about again.
Expired == now = MaxTime /\ UNCHANGED vars

Next == Reevaluate \/ Expired

Spec == Init /\ [][Next]_vars

-----------------------------------------------------------------------------
\* The times at which a proposal is accepted form one interval: permission
\* that has lapsed (proposal or approval expired) never comes back under the
\* same policy.  The runtime's evaluate-then-claim pair relies on it: accepted
\* at both ends means accepted all along.  Nor does permission outlive what
\* it rests on: an instant that is accepted lies from issued_at on, and
\* strictly before the expiry of the proposal and of the approval it cites.
PermissionNeverReturns ==
    decision.status = "ACCEPT" =>
        /\ ~lapsed
        /\ proposal.issued_at <= now /\ now < proposal.expires_at
        /\ proposal.approval_ref # None => now < Policy.approvals[proposal.approval_ref].expires_at

\* Taking permissions out of a policy never turns a refusal into permission.
NarrowingNeverPermits ==
    \A policy \in NarrowerPolicies :
        EvaluateProposal(proposal, policy, now).status = "ACCEPT" => decision.status = "ACCEPT"

\* HOLD means that an approval is the only thing missing: the same action,
\* bound to a fresh approval of exactly that action, is accepted.
HeldThenApproved(p, t) ==
    LET asked    == BindProposal([p EXCEPT !.approval_ref = "fresh"])
        approval == [f \in BoundFields \cup {"status", "expires_at"} |->
                        CASE f = "status"     -> "ACTIVE"
                          [] f = "expires_at" -> t + 1
                          [] OTHER            -> asked[f]]
    IN  EvaluateProposal(asked, [Policy EXCEPT !.approvals = [r \in {"fresh"} |-> approval]], t)
HoldLacksOnlyApproval ==
    decision.status = "HOLD" => HeldThenApproved(proposal, now).status = "ACCEPT"

\* An approval covers one exact proposal: two different proposals that cite
\* the same approval are never both accepted, however alike they are.
ApprovalCoversOneProposal ==
    decision.status = "ACCEPT" /\ proposal.approval_ref # None =>
        \A other \in Proposals :
            /\ other.approval_ref = proposal.approval_ref
            /\ EvaluateProposal(other, Policy, now).status = "ACCEPT"
            => other = proposal

\* Where a request to this URL really goes, whatever its spelling.
Endpoint(url) ==
    <<url.scheme, CanonicalHost[url.host],
      IF url.port = None THEN [https |-> 443, http |-> 80][url.scheme] ELSE url.port>>
Endpoints(urls) == {Endpoint(u) : u \in urls}

\* An accepted network action goes to an endpoint the policy lists, one it
\* lists for secrets when the data is sensitive, and in clear text only to
\* this machine; an accepted local action goes nowhere.
EgressReachesAllowedEndpoint ==
    decision.status = "ACCEPT" =>
        IF proposal.destination = None THEN ~ScopeIsNetwork(proposal, Policy)
        ELSE /\ Endpoint(proposal.destination) \in Endpoints(Policy.allowed_destinations)
             /\ Sensitive(proposal) =>
                    Endpoint(proposal.destination) \in Endpoints(Policy.allowed_secret_destinations)
             /\ proposal.destination.scheme # "https" =>
                    CanonicalHost[proposal.destination.host] \in LoopbackHosts

-----------------------------------------------------------------------------
(* Why it holds: the inductive invariant.                                  *)

TypeOK == now \in 0..MaxTime /\ proposal \in Proposals /\ lapsed \in BOOLEAN

Accepts(t) == EvaluateProposal(proposal, Policy, t).status = "ACCEPT"

\* Permission that has lapsed was there, and then was not.
LapseIsReal == lapsed => \E t, u \in 0..now : t < u /\ Accepts(t) /\ ~Accepts(u)

AuthorizationInv ==
    /\ TypeOK
    /\ decision = EvaluateProposal(proposal, Policy, now)
    /\ LapseIsReal

=============================================================================
