-------------------------- MODULE MCAuthorization --------------------------
(***************************************************************************)
(* A small instance of Authorization: two scopes, four hosts, a policy     *)
(* with one live, one short-lived and one revoked approval, and proposals  *)
(* that differ in every field the properties tell apart.                   *)
(***************************************************************************)
EXTENDS Authorization, TLC

MCDigest(x) == ToString(x)

MCCanonicalHost ==
    [h \in {"api", "API.", "sink", "127.0.0.1", "scoped"} |->
        CASE h \in {"api", "API."} -> "api"
          [] h = "scoped" -> None
          [] OTHER -> h]

Url(scheme, host, port) == [scheme |-> scheme, userinfo |-> FALSE, host |-> host, port |-> port]

Urls == {Url(s, h, p) : s \in {"https", "http"}, h \in DOMAIN MCCanonicalHost,
                        p \in {None, 80, 443, 8443, BadPort}}
          \cup {[Url("https", "api", None) EXCEPT !.userinfo = TRUE]}

Budget(steps) == [max_steps |-> steps, max_seconds |-> 1, max_cost |-> 0,
                  max_fan_out |-> 0, max_retries |-> 0]

Tool == [origin |-> "tools", version |-> "1"]

Baseline == BindProposal(
    [intent_id |-> "intent", parent_cause |-> "cause", nonce |-> "n", idempotency_key |-> "k",
     policy_version |-> "v1", arguments |-> "args", arguments_digest |-> None,
     proposal_digest |-> None, issued_at |-> 1, expires_at |-> 4,
     subject |-> "alice", agent |-> "bot", workload |-> "job",
     action |-> "write", scope |-> "files", tool |-> Tool, delegation_chain |-> <<>>,
     resource_budget |-> Budget(1), destination |-> None, contains_secret |-> FALSE,
     data_classification |-> "public", reversibility |-> "reversible", risk_tier |-> "low",
     approval_ref |-> None, target |-> "t", target_state_digest |-> "s",
     auth_context_digest |-> "a"])

\* Proposals about time, risk and approval.
ApprovalProposals ==
    {BindProposal([Baseline EXCEPT !.approval_ref = r, !.expires_at = e, !.risk_tier = k,
                                   !.reversibility = v, !.target = t]) :
        r \in {None, "live", "short", "revoked", "unknown"}, e \in {None, 1, 3, 6},
        k \in {"low", "high"}, v \in {"reversible", "irreversible"}, t \in {"t", "u"}}

\* Proposals about egress.
EgressProposals ==
    {BindProposal([Baseline EXCEPT !.action = "send", !.scope = s, !.destination = u,
                                   !.data_classification = c[1], !.contains_secret = c[2]]) :
        s \in {"files", "network.api", LocalModelScope}, u \in Urls \cup {None},
        c \in {<<"public", FALSE>>, <<"public", TRUE>>, <<"restricted", FALSE>>}}

\* Proposals about authority, and ones altered after they were bound.
AuthorityProposals ==
    {BindProposal([Baseline EXCEPT !.subject = s, !.action = a, !.scope = c, !.tool.version = v,
                                   !.delegation_chain = d, !.resource_budget = Budget(b)]) :
        s \in {"alice", "mallory"}, a \in {"write", "send", "drop"}, c \in {"files", "network.api"},
        v \in {"1", "2"}, d \in {<<>>, <<"alice", "bot">>, <<"bot">>}, b \in 0..2}
    \cup {[Baseline EXCEPT !.target = "altered"], [Baseline EXCEPT !.arguments = "altered"],
          [Baseline EXCEPT !.intent_id = ""], [Baseline EXCEPT !.parent_cause = ""],
          [Baseline EXCEPT !.nonce = ""], BindProposal([Baseline EXCEPT !.policy_version = "v0"])}

MCProposals == ApprovalProposals \cup EgressProposals \cup AuthorityProposals

\* What the "live" approval was given for.
ApprovedProposal ==
    BindProposal([Baseline EXCEPT !.approval_ref = "live", !.expires_at = 6, !.risk_tier = "high"])
ApprovalOf(p, status, expires) ==
    [f \in BoundFields |-> p[f]] @@ [status |-> status, expires_at |-> expires]

MCPolicy ==
    [policy_version |-> "v1", allowed_subjects |-> {"alice"}, allowed_agents |-> {"bot"},
     allowed_workloads |-> {"job"}, allowed_actions |-> {"write", "send"},
     allowed_action_scopes |-> [a \in {"write", "send"} |->
         IF a = "write" THEN {"files"} ELSE {"files", "network.api", LocalModelScope}],
     allowed_scopes |-> {"files", "network.api", LocalModelScope}, network_scopes |-> {"network.api"},
     allowed_destinations |-> {Url("https", "api", None), Url("https", "sink", 8443),
                               Url("http", "127.0.0.1", 80), Url("http", "sink", None)},
     allowed_secret_destinations |-> {Url("https", "sink", 8443)},
     trusted_tools |-> {Tool}, allowed_delegation_chains |-> {<<"alice", "bot">>},
     approval_required_risk_tiers |-> {"high", "critical"},
     require_approval_for_irreversible |-> TRUE, max_resource_budget |-> Budget(1),
     approvals |->
        [r \in {"live", "short", "revoked"} |->
            CASE r = "live"    -> ApprovalOf(ApprovedProposal, "ACTIVE", 7)
              [] r = "short"   -> ApprovalOf(BindProposal([ApprovedProposal EXCEPT !.approval_ref = "short"]),
                                             "ACTIVE", 3)
              [] r = "revoked" -> ApprovalOf(BindProposal([ApprovedProposal EXCEPT !.approval_ref = "revoked"]),
                                             "REVOKED", 7)]]

MCNarrowerPolicies ==
    {[MCPolicy EXCEPT !.allowed_destinations = {Url("https", "api", None)}],
     [MCPolicy EXCEPT !.allowed_secret_destinations = {}],
     [MCPolicy EXCEPT !.allowed_action_scopes["send"] = {"files"}],
     [MCPolicy EXCEPT !.allowed_action_scopes["write"] = {}],
     [MCPolicy EXCEPT !.trusted_tools = {}],
     [MCPolicy EXCEPT !.allowed_delegation_chains = {}],
     [MCPolicy EXCEPT !.approval_required_risk_tiers = RiskLevels],
     [MCPolicy EXCEPT !.approvals["live"].status = "REVOKED"],
     [MCPolicy EXCEPT !.approvals = [r \in {"short"} |-> MCPolicy.approvals["short"]]],
     [MCPolicy EXCEPT !.allowed_subjects = {}]}

=============================================================================
