---------------------------- MODULE MCAdmission ----------------------------
(***************************************************************************)
(* Hosts around the two configurations the repository has: an organism     *)
(* with HTTPS models and a networked action (the tests') and one with a    *)
(* local model and a local report (the repository pilot's).  Each host     *)
(* differs from a sound one in one field, or in how it spells and labels   *)
(* its egress.                                                             *)
(***************************************************************************)
EXTENDS Admission, TLC

\* TLC prints a value in its normal form once it has compared it.
MCDigest(x) == IF x = x THEN ToString(x) ELSE ""

MCCanonicalHost ==
    [h \in {"api", "API.", "sink", "127.0.0.1"} |-> IF h = "API." THEN "api" ELSE h]

Url(scheme, h, port) == [scheme |-> scheme, userinfo |-> FALSE, host |-> h, port |-> port]
Api == Url("https", "api", None)
Sink == Url("https", "sink", None)
SinkSpelled == Url("https", "sink", 443)
ApiSpelled == Url("https", "API.", 443)
Local == Url("http", "127.0.0.1", 11434)
LocalSecure == Url("https", "127.0.0.1", None)

Budget(steps) == [max_steps |-> steps, max_seconds |-> 1, max_cost |-> 0,
                  max_fan_out |-> 0, max_retries |-> 0]

Label(secret, class) == [contains_secret |-> secret, data_classification |-> class]
Public == Label(FALSE, "public")
Restricted == Label(FALSE, "restricted")
MCLabels == {Public, Restricted}
MCContexts ==
    {[subject |-> "alice", intent_id |-> "intent", parent_cause |-> "cause",
      auth_context_digest |-> "auth", issued_at |-> 0, expires_at |-> 2] @@ label :
        label \in {Public, Label(TRUE, "public"), Label(FALSE, "unknown")}}

Adapter(id, destination) ==
    [adapter_id |-> id, model |-> "m", tool |-> <<id, "1">>, destination |-> destination]

Cell(s, destination, scope) ==
    [cell_id |-> s, agent_id |-> s, adapter_id |-> s,
     adapter_identity_digest |-> Digest(Adapter(s, destination)),
     invocation_action |-> s, invocation_scope |-> scope, resource_budget |-> Budget(1)]

Limits == [max_steps |-> 3, max_seconds |-> 1, max_model_calls |-> 2,
           max_output_tokens_per_call |-> 1, max_total_tokens |-> 2,
           max_cost_microunits_per_call |-> 0, max_total_cost_microunits |-> 0,
           max_retries |-> 0, max_fan_out |-> 1]

Policy(version, agents, actions, scope, destinations, secret, tools) ==
    [policy_version |-> version, allowed_subjects |-> {"alice"}, allowed_agents |-> agents,
     allowed_workloads |-> {"organism"}, allowed_actions |-> actions,
     allowed_scopes |-> {scope}, allowed_action_scopes |-> [a \in actions |-> {scope}],
     network_scopes |-> IF destinations = {} THEN {} ELSE {scope},
     allowed_destinations |-> destinations, allowed_secret_destinations |-> secret,
     trusted_tools |-> tools, allowed_delegation_chains |-> {},
     approval_required_risk_tiers |-> {}, require_approval_for_irreversible |-> FALSE,
     max_resource_budget |-> Budget(1), approvals |-> [r \in {} |-> None]]

Name(path) == [url |-> None, fragment |-> FALSE, path |-> path]
At(url, path) == [url |-> url, fragment |-> FALSE, path |-> path]

Capability(scope, destination, prefixes, secret) ==
    [capability_id |-> "cap", action |-> "act", scope |-> scope, executor_id |-> "executor",
     tool |-> <<"tool", "1">>, reversibility |-> "reversible", risk_tier |-> "low",
     allowed_target_prefixes |-> prefixes, allowed_argument_keys |-> {"k", "l"},
     required_argument_keys |-> {"k"}, resource_budget |-> Budget(1),
     contains_secret |-> secret, destination |-> destination, bare |-> TRUE,
     data_classification |-> IF secret THEN "restricted" ELSE "public"]

Host(model, scope, secret, capability, actionDestinations, actionSecret) ==
    [manifest |-> BindOrganismManifest(
        [organism_id |-> "organism", policy_version |-> "o1", manifest_digest |-> None,
         pipeline |-> [observer |-> Cell("observer", model, scope),
                       analyst |-> Cell("analyst", model, scope),
                       executor |-> [cell_id |-> "executor", agent_id |-> "executor",
                                     allowed_capability_ids |-> {"cap"}]],
         limits |-> Limits]),
     organism_policy |-> Limits @@
        [policy_version |-> "o1", allowed_capability_ids |-> {"cap"},
         allowed_adapter_identity_digests |->
             {Digest(Adapter(s, model)) : s \in {"observer", "analyst"}}],
     invocation_policy |-> Policy("i1", {"observer", "analyst"}, {"observer", "analyst"}, scope,
                                  {model}, secret,
                                  {<<"observer", "1">>, <<"analyst", "1">>}),
     action_policy |-> Policy("a1", {"executor"}, {"act"}, capability.scope,
                              actionDestinations, actionSecret, {<<"tool", "1">>}),
     adapters |-> [s \in {"observer", "analyst"} |-> Adapter(s, model)],
     capabilities |-> {capability}, executors |-> {"executor"},
     invocation_policy_version |-> "i1", action_policy_version |-> "a1"]

\* The tests' organism, its destinations spelled one way here and another there.
Networked ==
    {Host(model, "network.model", secret,
          Capability("network.egress", destination, prefixes, FALSE), {place}, actionSecret) :
        model \in {Api, ApiSpelled}, secret \in {{}, {Api}},
        destination \in {Sink, SinkSpelled}, place \in {Sink, Api}, actionSecret \in {{}, {SinkSpelled}},
        prefixes \in {{[At(AnyHttps, <<>>) EXCEPT !.path = <<"">>]}, {At(Sink, <<>>)}}}

\* The pilot: a loopback model by HTTP, data that is restricted, no egress.
Pilot(model, secret, prefixes) ==
    Host(model, LocalModelScope, secret, Capability("local.report", None, prefixes, TRUE), {}, {})
Pilots == {Pilot(model, secret, {Name(<<"report">>)}) :
              model \in {Local, LocalSecure}, secret \in {{}, {Local}}}

Sound == Host(Api, "network.model", {Api},
              Capability("network.egress", Sink, {Name(<<"resource", "">>), At(Sink, <<"a">>)}, FALSE),
              {Sink}, {})

Rebound(h) == [h EXCEPT !.manifest = BindOrganismManifest(@)]

\* One thing wrong with each: every refusal of the constructors, the manifest
\* and the preflight that the grids above do not reach.
Defective ==
    {[Sound EXCEPT !.invocation_policy.allowed_subjects = {}],
     [Sound EXCEPT !.invocation_policy.allowed_agents = {"observer"}],
     [Sound EXCEPT !.action_policy.allowed_workloads = {}],
     [Sound EXCEPT !.action_policy.trusted_tools = {<<"tool", "2">>}],
     [Sound EXCEPT !.invocation_policy.trusted_tools = {<<"observer", "1">>, <<"analyst", "2">>}],
     [Sound EXCEPT !.action_policy.max_resource_budget.max_fan_out = -1],
     [Sound EXCEPT !.invocation_policy.max_resource_budget.max_retries = -1],
     [Sound EXCEPT !.action_policy.allowed_actions = {"act", "other"},
                   !.action_policy.allowed_scopes = {"network.egress", "files"},
                   !.action_policy.allowed_action_scopes =
                        [a \in {"act", "other"} |-> {"files"}]],
     [Sound EXCEPT !.invocation_policy.network_scopes = {}],
     [Sound EXCEPT !.invocation_policy.require_approval_for_irreversible = TRUE],
     [Sound EXCEPT !.action_policy_version = "a2"],
     [Sound EXCEPT !.executors = {}],
     [Sound EXCEPT !.capabilities = {}],
     [Sound EXCEPT !.capabilities = {[c EXCEPT !.destination = Local] : c \in @}],
     [Sound EXCEPT !.capabilities = {[c EXCEPT !.destination = None] : c \in @}],
     [Sound EXCEPT !.capabilities = {[c EXCEPT !.destination = Api] : c \in @}],
     [Sound EXCEPT !.capabilities = @ \cup {[c EXCEPT !.capability_id = "more"] : c \in @}],
     Rebound([Sound EXCEPT !.manifest.pipeline.analyst.cell_id = "observer"]),
     Rebound([Sound EXCEPT !.manifest.limits.max_seconds = 2]),
     Rebound([Sound EXCEPT !.manifest.pipeline.executor.allowed_capability_ids = {"cap", "none"}]),
     Rebound([Sound EXCEPT !.manifest.pipeline.observer.adapter_id = "unknown"]),
     [Sound EXCEPT !.manifest.organism_id = "other"]}

MCHosts == Networked \cup Pilots \cup {Sound} \cup Defective

Draft(target, arguments) ==
    [kind |-> "ACTION", conflict |-> FALSE, capability_id |-> "cap",
     target |-> target, arguments |-> arguments]

MCDrafts ==
    {Draft(Name(<<"report">>), {"k"}), Draft(Name(<<"resource", "r">>), {"k"}),
     Draft(At(Sink, <<>>), {"k"}), Draft(At(SinkSpelled, <<"">>), {"k"}),
     Draft(At(Sink, <<"a">>), {"k"}), Draft(At(Sink, <<"a">>), {"k", "l"}),
     Draft(At(Api, <<"a">>), {"k"}), Draft(At(Local, <<"">>), {"k"}), Draft(At(Sink, <<"a">>), {}),
     [Draft(Name(<<"report">>), {"k"}) EXCEPT !.conflict = TRUE],
     [Draft(Name(<<"report">>), {"k"}) EXCEPT !.capability_id = "more"],
     [Draft(Name(<<"report">>), {"k"}) EXCEPT !.kind = "NO_ACTION"]}

MCVerdicts == {[target |-> TRUE, arguments |-> TRUE, state |-> s] : s \in BOOLEAN}

\* Only the analyst's adapter changes, to another model behind the same door.
MCDrifting(a) ==
    IF a = "analyst" THEN {Adapter(a, Api), [Adapter(a, Api) EXCEPT !.tool = <<a, "2">>]} ELSE {}

=============================================================================
