---------------------------- MODULE MCCausalCell ----------------------------
(***************************************************************************)
(* Small instances of CausalCell.  The clock reads 0 (proposals are not    *)
(* valid yet), 1 (valid) or 2 (expired, or the approval is).               *)
(***************************************************************************)
EXTENDS CausalCell, TLC

CONSTANTS p1, p2

MCDigest(x) == ToString(x)
MCCanonicalHost == [h \in {} |-> None]

Budget == [max_steps |-> 1, max_seconds |-> 1, max_cost |-> 0, max_fan_out |-> 0, max_retries |-> 0]

Baseline ==
    [intent_id |-> "intent", parent_cause |-> "cause", nonce |-> "n1", idempotency_key |-> "k1",
     policy_version |-> "v1", arguments |-> "args", arguments_digest |-> None,
     proposal_digest |-> None, issued_at |-> 1, expires_at |-> 2,
     subject |-> "alice", agent |-> "bot", workload |-> "job",
     action |-> "write", scope |-> "files", tool |-> "tool", delegation_chain |-> <<>>,
     resource_budget |-> Budget, destination |-> None, contains_secret |-> FALSE,
     data_classification |-> "public", reversibility |-> "reversible", risk_tier |-> "low",
     approval_ref |-> None, target |-> "t", target_state_digest |-> "s",
     auth_context_digest |-> "a"]

Approved == BindProposal([Baseline EXCEPT !.approval_ref = "grant", !.risk_tier = "high",
                                          !.nonce = "n2", !.expires_at = 3])

MCPolicy ==
    [policy_version |-> "v1", allowed_subjects |-> {"alice"}, allowed_agents |-> {"bot"},
     allowed_workloads |-> {"job"}, allowed_actions |-> {"write"},
     allowed_action_scopes |-> [a \in {"write"} |-> {"files"}],
     allowed_scopes |-> {"files"}, network_scopes |-> {},
     allowed_destinations |-> {}, allowed_secret_destinations |-> {},
     trusted_tools |-> {"tool"}, allowed_delegation_chains |-> {},
     approval_required_risk_tiers |-> {"high", "critical"},
     require_approval_for_irreversible |-> TRUE, max_resource_budget |-> Budget,
     approvals |-> [r \in {"grant"} |->
        [f \in BoundFields |-> Approved[f]] @@ [status |-> "ACTIVE", expires_at |-> 2]]]

\* The same proposal submitted twice, in two processes, and another nonce for
\* the same idempotency key, whose authority is an approval that expires.
Retries ==
    1 :> BindProposal(Baseline) @@ 2 :> BindProposal(Baseline) @@ 3 :> Approved
RetryProcess == 1 :> p1 @@ 2 :> p2 @@ 3 :> p1

\* The same nonce under two keys in one process, and a proposal that only
\* lacks an approval in another.
Mixed ==
    1 :> BindProposal(Baseline)
    @@ 2 :> BindProposal([Baseline EXCEPT !.idempotency_key = "k2"])
    @@ 3 :> BindProposal([Baseline EXCEPT !.nonce = "n3", !.risk_tier = "high"])
MixedProcess == 1 :> p1 @@ 2 :> p1 @@ 3 :> p2

\* Two that can be accepted, one of them with an expiring approval, and one
\* that is malformed.
Doubtful ==
    1 :> BindProposal(Baseline)
    @@ 2 :> Approved
    @@ 3 :> BindProposal([Baseline EXCEPT !.idempotency_key = ""])

=============================================================================
