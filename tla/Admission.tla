----------------------------- MODULE Admission -----------------------------
(***************************************************************************)
(* One run of one host, from the constructors to the guard's answer about  *)
(* its action, as far as authority goes: which configurations are refused  *)
(* when they are built, which before the run claims its semantic key, and  *)
(* what the guard can still refuse once the key is spent.  Deadlines,      *)
(* budgets, replay and evidence are module Organism's, which takes from    *)
(* here that the preflight leaves only time and labels to the guard.       *)
(*                                                                         *)
(*  constructor -> manifest -> preflight -> stage -> call -> guard         *)
(*     -> result (twice) -> draft -> guard -> ended                        *)
(***************************************************************************)
EXTENDS ProposalFactory

CONSTANTS
    Hosts,          \* configurations an application may build
    Contexts,       \* contexts a caller may supply
    Labels,         \* labels a model result may carry
    Drifting(_),    \* adapter id -> identities the adapter may come to report
    Drafts,         \* outputs of the analyst
    Verdicts,       \* answers of a capability's callbacks
    Times           \* readings of the clock

ASSUME HostIsSpelledOnce ==
    \A h \in DOMAIN CanonicalHost : LET c == CanonicalHost[h] IN
        c # None => c \in DOMAIN CanonicalHost /\ CanonicalHost[c] = c

\* Counts are integers, and documents have their fields.
HostFields == {"manifest", "organism_policy", "invocation_policy", "action_policy", "adapters",
               "capabilities", "executors", "invocation_policy_version", "action_policy_version"}
Counts == [BudgetFields -> Int]

ASSUME HostTypes ==
    \A h \in Hosts :
        /\ HostFields \subseteq DOMAIN h
        /\ \A s \in ModelStages : h.manifest.pipeline[s].resource_budget \in Counts
        /\ {h.invocation_policy.max_resource_budget, h.action_policy.max_resource_budget}
              \subseteq Counts
        /\ \A c \in h.capabilities :
              /\ {"reversibility", "risk_tier", "resource_budget", "data_classification",
                  "capability_id", "executor_id", "destination"} \subseteq DOMAIN c
              /\ c.resource_budget \in Counts

\* A context that run does not refuse as CONTEXT_INVALID.
ASSUME ContextTypes ==
    \A c \in Contexts :
        /\ {"intent_id", "parent_cause", "subject", "issued_at", "expires_at", "contains_secret",
            "data_classification"} \subseteq DOMAIN c
        /\ "" \notin {c.intent_id, c.parent_cause} /\ c.issued_at # None
        /\ c.contains_secret \in BOOLEAN
        /\ c.data_classification \in DOMAIN DataClassificationRank

\* Every spelling of a host is parsed; what a URL is written as again is one.
ASSUME UrlTypes ==
    /\ BadPort # 443
    /\ \A h \in Hosts : \A c \in h.capabilities :
          c.destination # None =>
             /\ c.destination.host \in DOMAIN CanonicalHost
             /\ NormalizeHttpsOrigin(c.destination) # None =>
                   OriginUrl(NormalizeHttpsOrigin(c.destination)) # None
    /\ \A d \in Drafts :
          /\ d.target = [url |-> d.target.url, fragment |-> d.target.fragment, path |-> d.target.path]
          /\ d.target.fragment \in BOOLEAN
          /\ TargetOrigin(d.target) # None => OriginUrl(TargetOrigin(d.target)) # None

ASSUME NoneAssumption ==
    /\ None \notin Times
    /\ None \notin
        {"CAPABILITY_UNKNOWN", "NESTED_SPAWN_DENIED", "EXECUTOR_UNKNOWN", "CAPABILITY_DENIED",
         "TARGET_DENIED", "TARGET_DESTINATION_MISMATCH", "ARGUMENTS_DENIED",
         "TARGET_STATE_RESOLUTION_FAILED"}

VARIABLES
    host,           \* the configuration; its capabilities normalized once built
    identity,       \* adapter id -> the identity it reports now
    context,        \* effective_context: the labels grow with the models' results
    clock, pc, stage,
    proposal,       \* the proposal being submitted to the guard
    verdict,        \* how the run ended
    asked,          \* history: context when the preflight was made
    seen            \* history: identities the preflight has read

vars == <<host, identity, context, clock, pc, stage, proposal, verdict, asked, seen>>

Ends(by, status, reasons) ==
    /\ pc' = "ended"
    /\ verdict' = [by |-> by, status |-> status, reasons |-> reasons]

Goes(label) == pc' = label /\ UNCHANGED verdict

Init ==
    /\ host \in Hosts
    /\ identity = host.adapters
    /\ context \in Contexts
    /\ clock \in Times
    /\ pc = "constructor" /\ stage = "observer"
    /\ proposal = None /\ verdict = None /\ asked = None /\ seen = None

\* StaticProposalFactory and OrganismRunner raise ValueError, or are built.
Construct ==
    /\ pc = "constructor"
    /\ IF FactoryAccepts(host) /\ RunnerAccepts(host)
       THEN /\ host' = [host EXCEPT !.capabilities = {NormalizedCapability(c) : c \in @}]
            /\ Goes("manifest")
       ELSE Ends("constructor", "ValueError", {}) /\ UNCHANGED host
    /\ UNCHANGED <<identity, context, clock, stage, proposal, asked, seen>>

ManifestRefuses ==
    /\ ManifestReasons(host, identity) # {}
    /\ Ends("manifest", "BLOCK", ManifestReasons(host, identity))

ManifestAccepts == ManifestReasons(host, identity) = {}

CheckManifest ==
    /\ pc = "manifest"
    /\ IF context.issued_at > clock \/ context.expires_at <= clock
       THEN Ends("context", "BLOCK", {"CONTEXT_TIME_INVALID"})
       ELSE ManifestRefuses \/ (ManifestAccepts /\ Goes("preflight"))
    /\ UNCHANGED <<host, identity, context, clock, stage, proposal, asked, seen>>

\* An adapter that may change may also fail to say what it is: the loop over
\* the stages stops there, with what it has found of the stages before.
IdentityUnreadable ==
    /\ PolicyVersionReasons(host) \cup RegistryReasons(host) = {}
    /\ \E s \in ModelStages :
          /\ Drifting(host.manifest.pipeline[s].adapter_id) # {}
          /\ Ends("preflight", "BLOCK",
                  {"ADAPTER_PROVENANCE_DENIED"} \cup
                     {r \in {"INVOCATION_POLICY_INCOMPATIBLE"} :
                         s = "analyst" /\ ~InvocationAllowed(host, "observer", identity, context)})

RunPreflight ==
    /\ pc = "preflight"
    /\ asked' = context
    /\ seen' = identity
    /\ \/ IdentityUnreadable
       \/ LET reasons == ConfigurationReasons(host, identity, context)
          IN  IF reasons # {} THEN Ends("preflight", "BLOCK", reasons) ELSE Goes("stage")
    /\ UNCHANGED <<host, identity, context, clock, stage, proposal>>

\* From here on the semantic key of the run is spent.
StartStage ==
    /\ pc = "stage"
    /\ ManifestRefuses \/ (ManifestAccepts /\ Goes("call"))
    /\ UNCHANGED <<host, identity, context, clock, stage, proposal, asked, seen>>

\* Any deadline that has not passed: its arithmetic is module Organism's.
Deadlines == {t \in Times : clock < t /\ t <= context.expires_at}

\* The identity is read again, and this reading goes into the proposal.
BuildInvocation ==
    /\ pc = "call"
    /\ LET cell == host.manifest.pipeline[stage]
           adapter == identity[cell.adapter_id]
       IN  IF Digest(adapter) # cell.adapter_identity_digest
           THEN Ends("provenance", "BLOCK", {"ADAPTER_PROVENANCE_DENIED"}) /\ UNCHANGED proposal
           ELSE \E until \in Deadlines :
                   /\ proposal' = ModelInvocation(host, stage, adapter, context, until)
                   /\ Goes("guard")
    /\ UNCHANGED <<host, identity, context, clock, stage, asked, seen>>

SubmitInvocation ==
    /\ pc = "guard" /\ stage \in ModelStages
    /\ LET d == EvaluateProposal(proposal, host.invocation_policy, clock)
       IN  IF d.status = "ACCEPT" THEN Goes("result") ELSE Ends("guard", d.status, d.reasons)
    /\ UNCHANGED <<host, identity, context, clock, stage, proposal, asked, seen>>

\* The result carries a label of its own.
ModelReturns ==
    /\ pc = "result"
    /\ \E label \in Labels : context' = JoinLabel(context, label)
    /\ proposal' = None
    /\ IF stage = "observer" THEN stage' = "analyst" /\ Goes("stage")
                             ELSE stage' = "executor" /\ Goes("draft")
    /\ UNCHANGED <<host, identity, clock, asked, seen>>

CompileDraft ==
    /\ pc = "draft"
    /\ \E draft \in Drafts, answers \in Verdicts, until \in Deadlines :
          LET why == CompilationReason(host, draft, answers)
          IN  IF DraftReasons(draft) # {}
              THEN Ends("draft", "BLOCK", DraftReasons(draft)) /\ UNCHANGED proposal
              ELSE IF draft.kind = "NO_ACTION"
              THEN Ends("draft", "NO_ACTION", {}) /\ UNCHANGED proposal
              ELSE IF why # None
              THEN Ends("draft", "BLOCK", {why}) /\ UNCHANGED proposal
              ELSE /\ proposal' = ActionFromDraft(host, draft, context, "state", "result", until)
                   /\ IF CapabilityOf(host, draft.capability_id).executor_id \in host.executors
                      THEN Goes("guard") ELSE Ends("executor", "BLOCK", {"EXECUTOR_UNKNOWN"})
    /\ UNCHANGED <<host, identity, context, clock, stage, asked, seen>>

SubmitAction ==
    /\ pc = "guard" /\ stage = "executor"
    /\ LET d == EvaluateProposal(proposal, host.action_policy, clock)
       IN  Ends("guard", d.status, d.reasons)
    /\ UNCHANGED <<host, identity, context, clock, stage, proposal, asked, seen>>

-----------------------------------------------------------------------------
(* The surroundings: the clock moves either way, an adapter reports        *)
(* another identity.                                                       *)

AdjustClock ==
    /\ pc # "ended"
    /\ clock' \in Times \ {clock}
    /\ UNCHANGED <<host, identity, context, pc, stage, proposal, verdict, asked, seen>>

DriftAdapter ==
    /\ pc # "ended"
    /\ \E a \in DOMAIN identity : \E i \in Drifting(a) :
          identity' = [identity EXCEPT ![a] = i]
    /\ UNCHANGED <<host, context, clock, pc, stage, proposal, verdict, asked, seen>>

Ended == pc = "ended" /\ UNCHANGED vars

Next ==
    \/ Construct \/ CheckManifest \/ RunPreflight
    \/ StartStage \/ BuildInvocation \/ SubmitInvocation \/ ModelReturns
    \/ CompileDraft \/ SubmitAction
    \/ AdjustClock \/ DriftAdapter \/ Ended

Spec == Init /\ [][Next]_vars

-----------------------------------------------------------------------------
TimeRefusals == {"INVALID_TIME_WINDOW", "PROPOSAL_NOT_YET_VALID", "PROPOSAL_EXPIRED"}

\* The label of the run is worse than the one the preflight was asked about.
LabelRose == Sensitive(context) /\ ~Sensitive(asked)

\* The preflight read an identity that the manifest does not pin: an adapter
\* that changed between two reads of one check.
MisledBy(s) == Digest(seen[host.manifest.pipeline[s].adapter_id])
                 # host.manifest.pipeline[s].adapter_identity_digest

\* Once the preflight has passed, and the run has spent its semantic key, no
\* refusal of the guard is about the trusted configuration: what is left are
\* time and, for data that a model has labelled, a destination that may not
\* have it; nothing is ever held for an approval and the manifest is refused
\* for a changed adapter only.  Both policies and the manifest are judged
\* twice, by code written twice; where the two differ, a retry that corrects
\* the configuration would find its run key spent.
PreflightSettlesAuthority ==
    pc = "ended" /\ asked # None /\ verdict.by # "preflight" =>
        /\ verdict.by = "manifest" => verdict.reasons = {"ADAPTER_PROVENANCE_DENIED"}
        /\ verdict.by # "executor"
        /\ verdict.status # "HOLD"
        /\ verdict.by = "guard" /\ ~(stage \in ModelStages /\ MisledBy(stage)) =>
              verdict.reasons \subseteq
                  TimeRefusals \cup (IF LabelRose THEN {"SECRET_DESTINATION_DENIED"} ELSE {})

CanInvoke(s) ==
    LET adapter == seen[host.manifest.pipeline[s].adapter_id]
    IN  \E until, t \in Times :
            EvaluateProposal(ModelInvocation(host, s, adapter, asked, until),
                             host.invocation_policy, t).status = "ACCEPT"

CanAct(id) ==
    \E draft \in Drafts, answers \in Verdicts, until, t \in Times :
        /\ DraftReasons(draft) = {} /\ draft.kind = "ACTION" /\ draft.capability_id = id
        /\ CompilationReason(host, draft, answers) = None
        /\ EvaluateProposal(ActionFromDraft(host, draft, asked, "state", "result", until),
                            host.action_policy, t).status = "ACCEPT"

\* The preflight never turns away a host that could have worked: a run is
\* refused for its policies only if some model stage, or some capability of
\* the manifest, would be denied by the guard at every time.
PreflightRefusesOnlyTheImpossible ==
    pc = "ended" /\ asked # None /\ verdict.by = "preflight" =>
        /\ verdict.reasons = {"INVOCATION_POLICY_INCOMPATIBLE"} =>
              \E s \in ModelStages : ~CanInvoke(s)
        /\ verdict.reasons = {"ACTION_POLICY_INCOMPATIBLE"} =>
              \E id \in host.manifest.pipeline.executor.allowed_capability_ids : ~CanAct(id)

\* An accepted action whose target is a network locator goes to a place the
\* action policy allows under the proposal's scope, and with sensitive data to
\* one that may have it: the guard only looks at the destination, the prefixes
\* only at the text, and the model writes the target.
TargetIsAtDestination ==
    pc = "ended" /\ stage = "executor" /\ verdict.by = "guard" /\ verdict.status = "ACCEPT"
        /\ LooksLikeNetworkLocator(proposal.target) =>
        LET place == TargetOrigin(proposal.target)
            policy == host.action_policy
        IN  /\ place \in EgressOrigins(policy.allowed_destinations, proposal.scope)
            /\ Sensitive(proposal) =>
                  place \in EgressOrigins(policy.allowed_secret_destinations, proposal.scope)

\* Two spellings of one place: same origin, same path, and an empty path is
\* the root.
SameTarget(t, u) ==
    IF LooksLikeNetworkLocator(t) /\ LooksLikeNetworkLocator(u)
    THEN /\ TargetOrigin(t) = TargetOrigin(u)
         /\ t.path = u.path \/ {t.path, u.path} = {<<>>, <<"">>}
    ELSE t = u

\* The idempotency key of an action names its effect: of two drafts that both
\* compile, the keys agree exactly when what is done, and where, is the same.
\* However the model spells a host, a port or the root, and whatever labels
\* and states came in between, the effect is claimed once; and no other effect
\* is taken for a replay of it.
EffectKeyNamesTheEffect ==
    pc = "draft" =>
        \A d, e \in Drafts : \A answers \in Verdicts :
            (\A x \in {d, e} : /\ DraftReasons(x) = {} /\ x.kind = "ACTION"
                               /\ CompilationReason(host, x, answers) = None) =>
                LET Capability(x) == CapabilityOf(host, x.capability_id)
                    Key(x) == SemanticActionDigest(Capability(x), x, context)
                    Doing(x) == <<Capability(x).action, Capability(x).scope,
                                  Capability(x).destination, x.arguments>>
                IN  Key(d) = Key(e) <=> Doing(d) = Doing(e) /\ SameTarget(d.target, e.target)

=============================================================================
