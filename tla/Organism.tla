------------------------------ MODULE Organism ------------------------------
(***************************************************************************)
(* OrganismRunner.run (organism.py): a fixed pipeline of two model calls,  *)
(* observer and analyst, and one guarded action, run by several callers    *)
(* over shared replay stores while the clock, the activation registry and  *)
(* the identities of the adapters change under it.                         *)
(*                                                                         *)
(*  new -> context -> predispatch -> reserve -> reserved -> claiming       *)
(*  -> stage -> cell -> invoking -> called -> cell_done -> returned        *)
(*     (twice) -> draft -> guard -> compiled -> action_cell -> acting      *)
(*     -> acted -> ended                                                   *)
(*                                                                         *)
(* Every label is a point where the code reads the clock, the registry or  *)
(* the adapters, calls back, or claims; what lies between two of them is   *)
(* one step.  The Causal Cells inside are those of module CausalCell: a    *)
(* claim is one atomic step that decides at the time it is made.           *)
(***************************************************************************)
EXTENDS Integers, FiniteSets

CONSTANTS
    None,
    Runs,             \* calls of OrganismRunner.run
    SemanticKey,      \* run -> digest of organism, manifest, subject, intent, cause and root
    Effects,          \* the semantic effects an analyst's draft can compile to
    Issued, Expires,  \* run -> issued_at and expires_at of its context
    Labelled,         \* runs whose context is labelled sensitive
    Preflight,        \* run -> what the static preflight may find wrong, or None
    AdapterOf,        \* model stage -> the adapter its cell names
    Mutable,          \* adapters whose identity may change while they are used
    Registries,       \* activation registries that may be installed
    Secret,           \* stages whose destination may receive sensitive data
    Usages,           \* [input, output] token counts an adapter can report
    MaxSeconds, CellSeconds, MaxOutput, MaxTotal,   \* limits of the manifest
    Times             \* readings of the clock

\* A context has integer times; so have an activation and the clock.
ASSUME TimesAssumption ==
    /\ Times \subseteq Int
    /\ Issued \in [Runs -> Int] /\ Expires \in [Runs -> Int]
    /\ \A reg \in Registries : IsFiniteSet(reg) /\ reg \subseteq [exact : BOOLEAN, expires : Int]

\* OrganismLimits and AdapterUsage hold natural numbers.
ASSUME LimitsAssumption ==
    /\ {MaxSeconds, CellSeconds, MaxOutput, MaxTotal} \subseteq Nat
    /\ Usages \subseteq [input : Nat, output : Nat]

VARIABLES
    clock, registry,
    pinned,           \* adapter -> its identity is the one the manifest pins
    runKeys,          \* semantic-run keys in the organism store
    effectKeys,       \* idempotency keys of actions in the nonce store
    pc, stage,
    activation,       \* run -> activation expiry found by the reservation check
    deadline,         \* run -> effective_deadline
    cellDeadline,     \* run -> deadline of the current model call
    sensitive,        \* run -> label of effective_context
    tokens,           \* run -> total_tokens
    cells,            \* run -> cell_runs whose executor was invoked
    invoked,          \* run -> stages in invoked_adapter_digests
    call,             \* run -> what the current invoke_adapter has observed
    action,           \* run -> [effect, expires] of the compiled proposal
    result,           \* run -> the OrganismRun it returned
    executed,         \* history: runs whose executor was really called
    claimedAt,        \* history: run -> time of the claim its action went on with
    limit,            \* history: run -> earliest bound any check has shown it
    spent,            \* history: run -> tokens its adapters reported
    tainted,          \* history: run -> sensitive data has entered it
    exposed,          \* history: run -> stages that were given sensitive data
    lateClaims        \* history: runs that claimed their key when already expired

envVars == <<clock, registry, pinned>>
storeVars == <<runKeys, effectKeys>>
timeVars == <<activation, deadline, cellDeadline>>
modelVars == <<stage, sensitive, tokens, cells, invoked, call>>
historyVars == <<executed, claimedAt, limit, spent, tainted, exposed, lateClaims>>
vars == <<envVars, storeVars, pc, timeVars, modelVars, action, result, historyVars>>

ModelStages == {"observer", "analyst"}
Adapters == {AdapterOf[s] : s \in ModelStages}
RunStatuses == {"COMPLETED", "NO_ACTION", "HOLD", "BLOCK", "FAILED", "EFFECT_UNCERTAIN"}
Checkpoints == {"new", "predispatch", "reserve", "reserved", "stage", "returned", "guard", "compiled"}

NoCall == [kind |-> "none", started |-> FALSE, changed |-> FALSE, usage |-> 0,
           output |-> 0, sensitive |-> FALSE]

\* What can be given as the reason of a result, apart from the preflight's.
ControlReasons ==
    {"CLOCK_ERROR", "CONTROL_PLANE_ERROR", "CONTROL_PLANE_UNSTABLE", "CONTEXT_TIME_INVALID",
     "ADAPTER_PROVENANCE_DENIED", "ADAPTER_PROVENANCE_CHANGED_EFFECT_UNCERTAIN",
     "MANIFEST_ACTIVATION_REQUIRED", "MANIFEST_ACTIVATION_MISMATCH", "MANIFEST_ACTIVATION_EXPIRED",
     "SEMANTIC_STORE_ERROR", "ORGANISM_REPLAYED", "ORGANISM_DEADLINE_EXCEEDED"}
CellReasons ==
    {"PROPOSAL_NOT_YET_VALID", "PROPOSAL_EXPIRED", "SECRET_DESTINATION_DENIED", "IDEMPOTENCY_REPLAYED"}
ModelReasons ==
    {"BUDGET_RESERVATION_FAILED", "BUDGET_USAGE_EXCEEDED", "MODEL_CALL_DEADLINE_EXCEEDED",
     "MODEL_CELL_RUNTIME_ERROR", "MODEL_CELL_RUNTIME_ERROR_EFFECT_UNCERTAIN",
     "MODEL_EFFECT_UNCERTAIN", "MODEL_ERROR", "MODEL_REFUSED", "MODEL_RESULT_INVALID"}
ActionReasons ==
    {"NO_ACTION", "ACTION_DRAFT_INVALID", "ACTION_COMPILATION_DENIED",
     "TARGET_STATE_RESOLUTION_FAILED", "ACTION_CELL_RUNTIME_ERROR", "ACTION_EFFECT_UNCERTAIN",
     "ACTION_CELL_RUNTIME_ERROR_EFFECT_UNCERTAIN"}
Reasons == ControlReasons \cup CellReasons \cup ModelReasons \cup ActionReasons
              \cup (UNION {Preflight[r] : r \in Runs}) \cup {None}

Results == [status : RunStatuses, reason : Reasons, calls : Nat, tokens : Nat,
            boundary : BOOLEAN]
CallTypes == [kind : {"none", "raised", "invalid", "RETURNED", "REFUSED", "ERROR"},
          started : BOOLEAN, changed : BOOLEAN, usage : Nat, output : Nat, sensitive : BOOLEAN]
Actions == [effect : Effects, expires : Int]

\* Python's None is no time, no reason of the guard, no result and no action.
ASSUME NoneAssumption ==
    None \notin Int /\ None \notin CellReasons /\ None \notin Results /\ None \notin Actions

Earlier(s, t) == IF s <= t THEN s ELSE t

Init ==
    /\ clock \in Times /\ registry \in Registries
    /\ pinned = [a \in Adapters |-> TRUE]
    /\ runKeys = {} /\ effectKeys = {}
    /\ pc = [r \in Runs |-> "new"]
    /\ stage = [r \in Runs |-> "observer"]
    /\ activation = [r \in Runs |-> None]
    /\ deadline = [r \in Runs |-> Expires[r]]
    /\ cellDeadline = [r \in Runs |-> Expires[r]]
    /\ sensitive = [r \in Runs |-> r \in Labelled]
    /\ tokens = [r \in Runs |-> 0]
    /\ cells = [r \in Runs |-> 0]
    /\ invoked = [r \in Runs |-> {}]
    /\ call = [r \in Runs |-> NoCall]
    /\ action = [r \in Runs |-> None]
    /\ result = [r \in Runs |-> None]
    /\ executed = {} /\ lateClaims = {}
    /\ claimedAt = [r \in Runs |-> None]
    /\ limit = [r \in Runs |-> Expires[r]]
    /\ spent = [r \in Runs |-> 0]
    /\ tainted = [r \in Runs |-> r \in Labelled]
    /\ exposed = [r \in Runs |-> {}]

-----------------------------------------------------------------------------
(* The control plane, as evaluate_organism_manifest and the registry see it *)
(* at one moment.  A registry is a set of activations of this organism,     *)
(* exact for this manifest, subject and policy or not.                      *)

Exact == {a.expires : a \in {b \in registry : b.exact}}
Active(now) == {t \in Exact : t > now}
ActiveUntil(now) == CHOOSE t \in Active(now) : \A u \in Active(now) : u <= t

ActivationDecision(now) ==
    IF registry = {} THEN [status |-> "HOLD", reason |-> "MANIFEST_ACTIVATION_REQUIRED"]
    ELSE IF Exact = {} THEN [status |-> "BLOCK", reason |-> "MANIFEST_ACTIVATION_MISMATCH"]
    ELSE IF Active(now) = {} THEN [status |-> "BLOCK", reason |-> "MANIFEST_ACTIVATION_EXPIRED"]
    ELSE [status |-> "ACCEPT", reason |-> None]

ManifestDecision(now) ==
    IF \E a \in Adapters : ~pinned[a]
    THEN [status |-> "BLOCK", reason |-> "ADAPTER_PROVENANCE_DENIED"]
    ELSE ActivationDecision(now)

\* The identities are read once more when an adapter was refused: what can
\* change may have changed since.
Rereadings == {again \in [Adapters -> BOOLEAN] : \A a \in Adapters \ Mutable : again[a] = pinned[a]}
InvokedAdapterChanged(r, again) == \E s \in invoked[r] : ~again[AdapterOf[s]]

-----------------------------------------------------------------------------
Goto(r, label) == pc' = [pc EXCEPT ![r] = label]

\* Mutant: the result is built, and the method goes on.
ReturnsLater(r, status, reason, calls, reported, boundary) ==
    /\ result' = [result EXCEPT ![r] =
          [status |-> status, reason |-> reason, calls |-> calls, tokens |-> reported,
           boundary |-> boundary]]
    /\ UNCHANGED pc

\* _result: what the run returns.
Returns(r, status, reason, calls, reported, boundary) ==
    /\ result' = [result EXCEPT ![r] =
          [status |-> status, reason |-> reason, calls |-> calls, tokens |-> reported,
           boundary |-> boundary]]
    /\ Goto(r, "ended")

Halt(r, status, reason) == Returns(r, status, reason, cells[r], tokens[r], FALSE)

\* A manifest that is no longer accepted ends the run; an adapter that was
\* called and is no longer what was pinned leaves its effect uncertain.
Refused(r) ==
    LET d == ManifestDecision(clock)
    IN  /\ d.status # "ACCEPT"
        /\ \E again \in Rereadings :
              IF d.reason = "ADAPTER_PROVENANCE_DENIED" /\ InvokedAdapterChanged(r, again)
              THEN Halt(r, "EFFECT_UNCERTAIN", "ADAPTER_PROVENANCE_CHANGED_EFFECT_UNCERTAIN")
              ELSE Halt(r, d.status, d.reason)

Accepted == ManifestDecision(clock).status = "ACCEPT"

\* The clock, or the control plane, raises at a check.
CheckFails(r) ==
    /\ pc[r] \in Checkpoints
    /\ \/ Halt(r, "FAILED", "CLOCK_ERROR")
       \/ pc[r] # "reserved" /\ Halt(r, "FAILED", "CONTROL_PLANE_ERROR")
    /\ UNCHANGED <<envVars, storeVars, timeVars, modelVars, action, historyVars>>

-----------------------------------------------------------------------------
(* Before anything is claimed.                                             *)

CheckContext(r) ==
    /\ pc[r] = "new"
    /\ IF Issued[r] > clock \/ Expires[r] <= clock \/ Expires[r] <= Issued[r]
       THEN Halt(r, "BLOCK", "CONTEXT_TIME_INVALID")
       ELSE \/ Refused(r)
            \/ /\ Accepted
               /\ \E why \in Preflight[r] :
                     IF why # None THEN Halt(r, "BLOCK", why)
                     ELSE Goto(r, "predispatch") /\ UNCHANGED result
    /\ UNCHANGED <<envVars, storeVars, timeVars, modelVars, action, historyVars>>

Predispatch(r) ==
    /\ pc[r] = "predispatch"
    /\ IF clock >= Expires[r] THEN Halt(r, "BLOCK", "CONTEXT_TIME_INVALID")
       ELSE \/ Refused(r)
            \/ Accepted /\ Goto(r, "reserve") /\ UNCHANGED result
    /\ UNCHANGED <<envVars, storeVars, timeVars, modelVars, action, historyVars>>

\* Mutant: a manifest refused at the reservation is looked at again.
ReserveRetries(r) ==
    /\ pc[r] = "reserve"
    /\ IF clock >= Expires[r] THEN Halt(r, "BLOCK", "CONTEXT_TIME_INVALID") /\ UNCHANGED activation
       ELSE \/ ~Accepted /\ Goto(r, "predispatch") /\ UNCHANGED <<activation, result>>
            \/ /\ Accepted
               /\ activation' = [activation EXCEPT ![r] = ActiveUntil(clock)]
               /\ Goto(r, "reserved")
               /\ UNCHANGED result
    /\ UNCHANGED <<envVars, storeVars, deadline, cellDeadline, modelVars, action, historyVars>>

Reserve(r) ==
    /\ pc[r] = "reserve"
    /\ IF clock >= Expires[r] THEN Halt(r, "BLOCK", "CONTEXT_TIME_INVALID") /\ UNCHANGED activation
       ELSE \/ Refused(r) /\ UNCHANGED activation
            \/ /\ Accepted
               /\ activation' = [activation EXCEPT ![r] = ActiveUntil(clock)]
               /\ Goto(r, "reserved")
               /\ UNCHANGED result
    /\ UNCHANGED <<envVars, storeVars, deadline, cellDeadline, modelVars, action, historyVars>>

\* The clock once more: this reading is started_at.
StartRun(r) ==
    /\ pc[r] = "reserved"
    /\ IF clock >= Expires[r]
       THEN Halt(r, "BLOCK", "CONTEXT_TIME_INVALID") /\ UNCHANGED <<deadline, limit>>
       ELSE IF clock >= activation[r]
       THEN Halt(r, "BLOCK", "MANIFEST_ACTIVATION_EXPIRED") /\ UNCHANGED <<deadline, limit>>
       ELSE LET until == Earlier(Expires[r], Earlier(activation[r], clock + MaxSeconds))
            IN  /\ deadline' = [deadline EXCEPT ![r] = until]
                /\ limit' = [limit EXCEPT ![r] = until]
                /\ Goto(r, "claiming")
                /\ UNCHANGED result
    /\ UNCHANGED <<envVars, storeVars, activation, cellDeadline, modelVars, action,
                   executed, claimedAt, spent, tainted, exposed, lateClaims>>

\* Mutant: the answer of the store is not looked at.
ClaimRunUnchecked(r) ==
    /\ pc[r] = "claiming"
    /\ runKeys' = runKeys \cup {SemanticKey[r]}
    /\ lateClaims' = IF clock < deadline[r] THEN lateClaims ELSE lateClaims \cup {r}
    /\ Goto(r, "stage")
    /\ UNCHANGED <<envVars, effectKeys, timeVars, modelVars, action, result,
                   executed, claimedAt, limit, spent, tainted, exposed>>
\* consume_run: no time is looked at, however long the store took.  A store
\* that raises may have done so before its commit or, closing, after it.
ClaimRun(r) ==
    /\ pc[r] = "claiming"
    /\ \/ Halt(r, "FAILED", "SEMANTIC_STORE_ERROR") /\ UNCHANGED <<runKeys, lateClaims>>
       \/ /\ SemanticKey[r] \in runKeys
          /\ Halt(r, "BLOCK", "ORGANISM_REPLAYED")
          /\ UNCHANGED <<runKeys, lateClaims>>
       \/ /\ SemanticKey[r] \notin runKeys
          /\ runKeys' = runKeys \cup {SemanticKey[r]}
          /\ lateClaims' = IF clock < deadline[r] THEN lateClaims ELSE lateClaims \cup {r}
          /\ \/ Goto(r, "stage") /\ UNCHANGED result
             \/ Halt(r, "FAILED", "SEMANTIC_STORE_ERROR")
    /\ UNCHANGED <<envVars, effectKeys, timeVars, modelVars, action,
                   executed, claimedAt, limit, spent, tainted, exposed>>

-----------------------------------------------------------------------------
(* One model call.                                                         *)

\* A check while the run is under way: an accepted manifest never extends
\* the deadline, it can only bring it forward.
Clamp(r) == Earlier(deadline[r], ActiveUntil(clock))
Clamped(r) ==
    /\ Accepted
    /\ deadline' = [deadline EXCEPT ![r] = Clamp(r)]
    /\ limit' = [limit EXCEPT ![r] = Earlier(limit[r], ActiveUntil(clock))]

BudgetLeft(r) == tokens[r] + MaxOutput <= MaxTotal

StartStage(r) ==
    /\ pc[r] = "stage"
    /\ \/ Refused(r) /\ UNCHANGED <<deadline, cellDeadline, limit>>
       \/ /\ Clamped(r)
          /\ IF clock >= Clamp(r)
             THEN Halt(r, "BLOCK", "ORGANISM_DEADLINE_EXCEEDED") /\ UNCHANGED cellDeadline
             ELSE IF ~BudgetLeft(r)
             THEN Halt(r, "BLOCK", "BUDGET_RESERVATION_FAILED") /\ UNCHANGED cellDeadline
             ELSE /\ cellDeadline' = [cellDeadline EXCEPT ![r] = Earlier(Clamp(r), clock + CellSeconds)]
                  /\ Goto(r, "cell")
                  /\ UNCHANGED result
    /\ UNCHANGED <<envVars, storeVars, activation, modelVars, action,
                   executed, claimedAt, spent, tainted, exposed, lateClaims>>

\* The guard's answer at the claim.  The static preflight has settled the
\* rest: only time and sensitivity can still refuse an invocation.
CellReason(s, until, label) ==
    IF clock >= until THEN "PROPOSAL_EXPIRED"
    ELSE IF label /\ s \notin Secret THEN "SECRET_DESTINATION_DENIED"
    ELSE None

\* Nonce and idempotency key of a model call are made of the run id: fresh.
ClaimModelCell(r) ==
    LET why == IF Issued[r] > clock THEN "PROPOSAL_NOT_YET_VALID"
               ELSE CellReason(stage[r], cellDeadline[r], sensitive[r])
    IN  /\ pc[r] = "cell"
        /\ IF ~pinned[AdapterOf[stage[r]]] THEN Halt(r, "BLOCK", "ADAPTER_PROVENANCE_DENIED")
           ELSE \/ Halt(r, "FAILED", "MODEL_CELL_RUNTIME_ERROR")
                \/ why # None /\ Halt(r, "BLOCK", why)
                \/ why = None /\ Goto(r, "invoking") /\ UNCHANGED result
        /\ UNCHANGED <<envVars, storeVars, timeVars, modelVars, action, historyVars>>

\* invoke_adapter looks at the identity once more, then calls.
InvokeAdapter(r) ==
    /\ pc[r] = "invoking"
    /\ IF pinned[AdapterOf[stage[r]]]
       THEN /\ invoked' = [invoked EXCEPT ![r] = @ \cup {stage[r]}]
            /\ call' = [call EXCEPT ![r] = [NoCall EXCEPT !.started = TRUE]]
            /\ exposed' = [exposed EXCEPT ![r] = IF tainted[r] THEN @ \cup {stage[r]} ELSE @]
            /\ Goto(r, "called")
       ELSE /\ call' = [call EXCEPT ![r] = [NoCall EXCEPT !.kind = "raised"]]
            /\ Goto(r, "cell_done")
            /\ UNCHANGED <<invoked, exposed>>
    /\ UNCHANGED <<envVars, storeVars, timeVars, stage, sensitive, tokens, cells, action, result,
                   executed, claimedAt, limit, spent, tainted, lateClaims>>

\* The adapter answers or raises; its usage is noted before its identity is
\* looked at again, and both before its result is validated.
AdapterReturns(r) ==
    /\ pc[r] = "called"
    /\ \E kind \in {"raised", "invalid", "RETURNED", "REFUSED", "ERROR"},
          u \in Usages, label \in BOOLEAN :
          LET changed == kind # "raised" /\ ~pinned[AdapterOf[stage[r]]]
              used    == IF kind = "raised" THEN 0 ELSE u.input + u.output
          IN  /\ call' = [call EXCEPT ![r] =
                    [kind |-> IF changed THEN "raised" ELSE kind, started |-> TRUE,
                     changed |-> changed, usage |-> used, output |-> u.output,
                     sensitive |-> label]]
              /\ spent' = [spent EXCEPT ![r] = @ + used]
              /\ tainted' = [tainted EXCEPT ![r] = @ \/ (label /\ kind = "RETURNED")]
    /\ Goto(r, "cell_done")
    /\ UNCHANGED <<envVars, storeVars, timeVars, stage, sensitive, tokens, cells, invoked, action,
                   result, executed, claimedAt, limit, exposed, lateClaims>>

-----------------------------------------------------------------------------
(* After the call: evidence, usage, label, and the manifest once more.     *)

Count(b) == IF b THEN 1 ELSE 0
Usage(r) == tokens[r] + call[r].usage
Calls(r) == cells[r] + Count(call[r].started)
CallEnds(r, status, reason) == Returns(r, status, reason, Calls(r), Usage(r), FALSE)

UncertainReason(r, otherwise) ==
    IF call[r].changed THEN "ADAPTER_PROVENANCE_CHANGED_EFFECT_UNCERTAIN" ELSE otherwise

\* Mutant: a failure to write the evidence is reported like one before the call.
EvidenceFailsPlainly(r) ==
    /\ pc[r] = "cell_done"
    /\ Returns(r, "FAILED", "MODEL_CELL_RUNTIME_ERROR", Calls(r), Usage(r), FALSE)
    /\ UNCHANGED <<envVars, storeVars, timeVars, modelVars, action, historyVars>>

\* write_bundle raises, whatever the adapter did.
EvidenceFails(r) ==
    /\ pc[r] = "cell_done"
    /\ IF call[r].started
       THEN CallEnds(r, "EFFECT_UNCERTAIN",
                     UncertainReason(r, "MODEL_CELL_RUNTIME_ERROR_EFFECT_UNCERTAIN"))
       ELSE CallEnds(r, "FAILED", "MODEL_CELL_RUNTIME_ERROR")
    /\ UNCHANGED <<envVars, storeVars, timeVars, modelVars, action, historyVars>>

\* Mutant: the usage of a call that gave no result is not reported.
NoResultWithoutUsage(r) ==
    /\ pc[r] = "cell_done"
    /\ call[r].kind \in {"raised", "invalid"}
    /\ IF call[r].kind = "invalid" THEN Returns(r, "BLOCK", "MODEL_RESULT_INVALID", Calls(r), tokens[r], FALSE)
       ELSE IF call[r].started
       THEN Returns(r, "EFFECT_UNCERTAIN", UncertainReason(r, "MODEL_EFFECT_UNCERTAIN"),
                    Calls(r), tokens[r], FALSE)
       ELSE CallEnds(r, "BLOCK", "ADAPTER_PROVENANCE_DENIED")
    /\ UNCHANGED <<envVars, storeVars, timeVars, modelVars, action, historyVars>>

\* The call gave no result to go on with.
NoResult(r) ==
    /\ pc[r] = "cell_done"
    /\ call[r].kind \in {"raised", "invalid"}
    /\ IF call[r].kind = "invalid" THEN CallEnds(r, "BLOCK", "MODEL_RESULT_INVALID")
       ELSE IF call[r].started
       THEN CallEnds(r, "EFFECT_UNCERTAIN", UncertainReason(r, "MODEL_EFFECT_UNCERTAIN"))
       ELSE CallEnds(r, "BLOCK", "ADAPTER_PROVENANCE_DENIED")
    /\ UNCHANGED <<envVars, storeVars, timeVars, modelVars, action, historyVars>>

\* Mutants: only the single call is held against its limit; the label of the
\* last result replaces the label of the context.
OverBudgetOfCallOnly(r) == call[r].output > MaxOutput
LastLabel(r) == call[r].sensitive

OverBudget(r) == call[r].output > MaxOutput \/ Usage(r) > MaxTotal
JoinedLabel(r) == sensitive[r] \/ call[r].sensitive

AcceptResult(r) ==
    /\ pc[r] = "cell_done"
    /\ call[r].kind \in {"RETURNED", "REFUSED", "ERROR"}
    /\ tokens' = [tokens EXCEPT ![r] = Usage(r)]
    /\ cells' = [cells EXCEPT ![r] = Calls(r)]
    /\ IF OverBudget(r)
       THEN CallEnds(r, "BLOCK", "BUDGET_USAGE_EXCEEDED") /\ UNCHANGED sensitive
       ELSE IF call[r].kind # "RETURNED"
       THEN /\ CallEnds(r, "FAILED", IF call[r].kind = "REFUSED" THEN "MODEL_REFUSED" ELSE "MODEL_ERROR")
            /\ UNCHANGED sensitive
       ELSE /\ sensitive' = [sensitive EXCEPT ![r] = JoinedLabel(r)]
            /\ Goto(r, "returned")
            /\ UNCHANGED result
    /\ UNCHANGED <<envVars, storeVars, timeVars, stage, invoked, call, action, historyVars>>

NextStage(r) ==
    IF stage[r] = "observer"
    THEN Goto(r, "stage") /\ stage' = [stage EXCEPT ![r] = "analyst"]
    ELSE Goto(r, "draft") /\ UNCHANGED stage

CheckAfterCall(r) ==
    /\ pc[r] = "returned"
    /\ \/ Refused(r) /\ UNCHANGED <<deadline, cellDeadline, limit, stage, call>>
       \/ LET until == Earlier(cellDeadline[r], Clamp(r))
          IN  /\ Clamped(r)
              /\ cellDeadline' = [cellDeadline EXCEPT ![r] = until]
              /\ call' = [call EXCEPT ![r] = NoCall]
              /\ IF clock >= until
                 THEN /\ Halt(r, "BLOCK", IF until = Clamp(r) THEN "ORGANISM_DEADLINE_EXCEEDED"
                                                             ELSE "MODEL_CALL_DEADLINE_EXCEEDED")
                      /\ UNCHANGED stage
                 ELSE NextStage(r) /\ UNCHANGED result
    /\ UNCHANGED <<envVars, storeVars, activation, sensitive, tokens, cells, invoked, action,
                   executed, claimedAt, spent, tainted, exposed, lateClaims>>

-----------------------------------------------------------------------------
(* The action.                                                             *)

CompilationFails(r) ==
    \/ Halt(r, "BLOCK", "ACTION_COMPILATION_DENIED")
    \/ Halt(r, "FAILED", "TARGET_STATE_RESOLUTION_FAILED")

\* The analyst's output is any draft: invalid, no action, or an effect.
CompileDraft(r) ==
    /\ pc[r] = "draft"
    /\ \/ /\ \/ Halt(r, "BLOCK", "ACTION_DRAFT_INVALID")
             \/ Halt(r, "NO_ACTION", "NO_ACTION")
             \/ CompilationFails(r)
          /\ UNCHANGED action
       \/ \E e \in Effects :
             /\ action' = [action EXCEPT ![r] = [effect |-> e, expires |-> deadline[r]]]
             /\ Goto(r, "guard")
             /\ UNCHANGED result
    /\ UNCHANGED <<envVars, storeVars, timeVars, modelVars, historyVars>>

\* A deadline that moved makes the proposal stale: it is compiled again, and
\* the resolver of the target state runs again.
GuardAction(r) ==
    /\ pc[r] = "guard"
    /\ \/ Refused(r) /\ UNCHANGED <<deadline, limit, action>>
       \/ /\ Clamped(r)
          /\ IF clock >= Clamp(r)
             THEN Halt(r, "BLOCK", "ORGANISM_DEADLINE_EXCEEDED") /\ UNCHANGED action
             ELSE \/ /\ action[r].expires # Clamp(r)
                     /\ CompilationFails(r)
                     /\ UNCHANGED action
                  \/ /\ action' = [action EXCEPT ![r].expires = Clamp(r)]
                     /\ Goto(r, "compiled")
                     /\ UNCHANGED result
    /\ UNCHANGED <<envVars, storeVars, activation, cellDeadline, modelVars,
                   executed, claimedAt, spent, tainted, exposed, lateClaims>>

\* Mutant: the proposal is not compared with the deadline of the last check.
CheckCompiledLoosely(r) ==
    /\ pc[r] = "compiled"
    /\ \/ Refused(r) /\ UNCHANGED <<deadline, limit>>
       \/ /\ Clamped(r)
          /\ IF clock >= Clamp(r) THEN Halt(r, "BLOCK", "ORGANISM_DEADLINE_EXCEEDED")
             ELSE Goto(r, "action_cell") /\ UNCHANGED result
    /\ UNCHANGED <<envVars, storeVars, activation, cellDeadline, modelVars, action,
                   executed, claimedAt, spent, tainted, exposed, lateClaims>>

CheckCompiled(r) ==
    /\ pc[r] = "compiled"
    /\ \/ Refused(r) /\ UNCHANGED <<deadline, limit>>
       \/ /\ Clamped(r)
          /\ IF clock >= Clamp(r) THEN Halt(r, "BLOCK", "ORGANISM_DEADLINE_EXCEEDED")
             ELSE IF action[r].expires # Clamp(r) THEN Halt(r, "FAILED", "CONTROL_PLANE_UNSTABLE")
             ELSE Goto(r, "action_cell") /\ UNCHANGED result
    /\ UNCHANGED <<envVars, storeVars, activation, cellDeadline, modelVars, action,
                   executed, claimedAt, spent, tainted, exposed, lateClaims>>

\* Mutant: the idempotency key is a new one for every run.
EffectTakenNever(r) == FALSE

EffectTaken(r) == action[r].effect \in effectKeys

ClaimActionCell(r) ==
    LET why == IF Issued[r] > clock THEN "PROPOSAL_NOT_YET_VALID"
               ELSE IF CellReason("action", action[r].expires, sensitive[r]) # None
               THEN CellReason("action", action[r].expires, sensitive[r])
               ELSE IF EffectTaken(r) THEN "IDEMPOTENCY_REPLAYED"
               ELSE None
    IN  /\ pc[r] = "action_cell"
        /\ \/ /\ \/ Halt(r, "FAILED", "ACTION_CELL_RUNTIME_ERROR")
                 \/ why # None /\ Halt(r, "BLOCK", why)
              /\ UNCHANGED <<effectKeys, claimedAt>>
           \/ /\ why = None
              /\ effectKeys' = effectKeys \cup {action[r].effect}
              /\ \/ /\ claimedAt' = [claimedAt EXCEPT ![r] = clock]
                    /\ Goto(r, "acting")
                    /\ UNCHANGED result
                 \/ Halt(r, "FAILED", "ACTION_CELL_RUNTIME_ERROR") /\ UNCHANGED claimedAt
        /\ UNCHANGED <<envVars, runKeys, timeVars, modelVars, action,
                       executed, limit, spent, tainted, exposed, lateClaims>>

StartAction(r) ==
    /\ pc[r] = "acting"
    /\ executed' = executed \cup {r}
    /\ exposed' = [exposed EXCEPT ![r] = IF tainted[r] THEN @ \cup {"action"} ELSE @]
    /\ Goto(r, "acted")
    /\ UNCHANGED <<envVars, storeVars, timeVars, modelVars, action, result,
                   claimedAt, limit, spent, tainted, lateClaims>>

\* The executor returned or raised, and its evidence was written or not.
EndAction(r) ==
    /\ pc[r] = "acted"
    /\ \/ Returns(r, "COMPLETED", None, cells[r], tokens[r], TRUE)
       \/ Returns(r, "EFFECT_UNCERTAIN", "ACTION_EFFECT_UNCERTAIN", cells[r], tokens[r], TRUE)
       \/ Returns(r, "EFFECT_UNCERTAIN", "ACTION_CELL_RUNTIME_ERROR_EFFECT_UNCERTAIN",
                  cells[r], tokens[r], TRUE)
    /\ UNCHANGED <<envVars, storeVars, timeVars, modelVars, action, historyVars>>

-----------------------------------------------------------------------------
(* The surroundings.                                                       *)

Crash(r) ==
    /\ pc[r] \notin {"new", "ended", "crashed"}
    /\ Goto(r, "crashed")
    /\ UNCHANGED <<envVars, storeVars, timeVars, modelVars, action, result, historyVars>>

AdjustClock ==
    /\ clock' \in Times \ {clock}
    /\ UNCHANGED <<registry, pinned, storeVars, pc, timeVars, modelVars, action, result, historyVars>>

InstallRegistry ==
    /\ registry' \in Registries \ {registry}
    /\ UNCHANGED <<clock, pinned, storeVars, pc, timeVars, modelVars, action, result, historyVars>>

ChangeAdapter ==
    /\ \E a \in Mutable : pinned' = [pinned EXCEPT ![a] = ~@]
    /\ UNCHANGED <<clock, registry, storeVars, pc, timeVars, modelVars, action, result, historyVars>>

AllEnded ==
    /\ \A r \in Runs : pc[r] \in {"ended", "crashed"}
    /\ UNCHANGED vars

Step(r) ==
    \/ CheckContext(r) \/ Predispatch(r) \/ Reserve(r) \/ StartRun(r) \/ ClaimRun(r) \/ CheckFails(r)
    \/ StartStage(r) \/ ClaimModelCell(r) \/ InvokeAdapter(r) \/ AdapterReturns(r)
    \/ EvidenceFails(r) \/ NoResult(r) \/ AcceptResult(r) \/ CheckAfterCall(r)
    \/ CompileDraft(r) \/ GuardAction(r) \/ CheckCompiled(r)
    \/ ClaimActionCell(r) \/ StartAction(r) \/ EndAction(r)

Next ==
    \/ \E r \in Runs : Step(r) \/ Crash(r)
    \/ AdjustClock \/ InstallRegistry \/ ChangeAdapter
    \/ AllEnded

Spec == Init /\ [][Next]_vars

\* The thread of a run is scheduled, and adapters and executors end.
FairSpec == Spec /\ \A r \in Runs : WF_vars(Step(r))

-----------------------------------------------------------------------------
\* Where a run stands: its key is not claimed yet, it is about to call a
\* model, its models have answered, or it is over.
Unclaimed == {"new", "predispatch", "reserve", "reserved", "claiming"}
BeforeCall == {"stage", "cell", "invoking"}
AfterModels == {"draft", "guard", "compiled", "action_cell", "acting", "acted"}
Over == {"ended", "crashed"}
Labels == Unclaimed \cup BeforeCall \cup {"called", "cell_done", "returned"} \cup AfterModels \cup Over

TypeOK ==
    /\ clock \in Times /\ registry \in Registries
    /\ pinned \in [Adapters -> BOOLEAN]
    /\ runKeys \subseteq {SemanticKey[r] : r \in Runs} /\ effectKeys \subseteq Effects
    /\ pc \in [Runs -> Labels]
    /\ stage \in [Runs -> ModelStages]
    /\ activation \in [Runs -> Int \cup {None}]
    /\ \A r \in Runs : pc[r] = "reserved" => activation[r] # None
    /\ deadline \in [Runs -> Int] /\ cellDeadline \in [Runs -> Int] /\ limit \in [Runs -> Int]
    /\ sensitive \in [Runs -> BOOLEAN] /\ tainted \in [Runs -> BOOLEAN]
    /\ tokens \in [Runs -> Nat] /\ spent \in [Runs -> Nat] /\ cells \in [Runs -> Nat]
    /\ invoked \in [Runs -> SUBSET ModelStages]
    /\ exposed \in [Runs -> SUBSET (ModelStages \cup {"action"})]
    /\ call \in [Runs -> CallTypes]
    /\ action \in [Runs -> Actions \cup {None}]
    /\ \A r \in Runs : pc[r] \in AfterModels \ {"draft"} => action[r] # None
    /\ result \in [Runs -> Results \cup {None}]
    /\ \A r \in Runs : pc[r] = "ended" <=> result[r] # None
    /\ claimedAt \in [Runs -> Times \cup {None}]
    /\ executed \subseteq Runs /\ lateClaims \subseteq Runs

\* Replay control of whole runs: of all runs with one semantic key, crashed
\* ones included, at most one ever calls an adapter.
SemanticRunOnce ==
    \A r, q \in Runs :
        r # q /\ SemanticKey[r] = SemanticKey[q] /\ invoked[r] # {} => invoked[q] = {}

\* Replay control of effects: runs that differ in root, manifest or process,
\* but whose drafts compile to the same semantic effect, execute it once.
SemanticEffectOnce ==
    \A r, q \in executed : r # q => action[r].effect # action[q].effect

\* The action is claimed inside every bound the run was shown from its start
\* on: its context, its maximal duration and the activation each check found,
\* also when the registry was replaced while the action was being compiled.
AuthorityCoversAction ==
    \A r \in Runs : claimedAt[r] # None =>
        Issued[r] <= claimedAt[r] /\ claimedAt[r] < limit[r]

\* A run never denies an effect: HOLD, BLOCK, FAILED and NO_ACTION mean that
\* the executor was not called and that every adapter call that began was
\* observed to the end.
EffectsAreAdmitted ==
    \A r \in Runs : result[r] # None =>
        /\ result[r].boundary = (r \in executed)
        /\ result[r].status = "COMPLETED" => r \in executed
        /\ result[r].status # "EFFECT_UNCERTAIN" =>
              /\ r \in executed => result[r].status = "COMPLETED"
              /\ Cardinality(invoked[r]) = cells[r] \/ call[r].kind = "invalid"

\* Usage is reported in full on every way out: each adapter call that began
\* is counted once and every token an adapter reported is in the total.
UsageIsReported ==
    \A r \in Runs : result[r] # None =>
        result[r].calls = Cardinality(invoked[r]) /\ result[r].tokens = spent[r]

\* Sensitive data, whether it came with the context or with the result of any
\* earlier model, is given only to callbacks whose destination may have it.
SensitiveDataStaysInside == \A r \in Runs : exposed[r] \subseteq Secret

\* Nothing is called once the token budget is spent.
NoWorkBeyondBudget ==
    \A r \in Runs :
        /\ pc[r] = "called" => spent[r] + MaxOutput <= MaxTotal
        /\ r \in executed => spent[r] <= MaxTotal

-----------------------------------------------------------------------------
(* Why these hold: what is true of every run at every label.               *)

\* The stages called before the current one.
EarlierStages(r) == IF stage[r] = "observer" THEN {} ELSE {"observer"}
CalledSoFar(r) == EarlierStages(r) \cup {stage[r]}

CallsAddUp(r) ==
    /\ pc[r] \in Unclaimed => stage[r] = "observer"
    /\ pc[r] \in Unclaimed \cup BeforeCall => invoked[r] = EarlierStages(r) /\ call[r] = NoCall
    /\ pc[r] = "called" => invoked[r] = CalledSoFar(r)
    /\ pc[r] = "cell_done" =>
          /\ invoked[r] = IF call[r].started THEN CalledSoFar(r) ELSE EarlierStages(r)
          /\ ~call[r].started => call[r].kind = "raised" /\ call[r].usage = 0
    /\ pc[r] = "returned" => invoked[r] = CalledSoFar(r)
    /\ pc[r] \in AfterModels => invoked[r] = ModelStages
    /\ pc[r] \in {"called", "cell_done"} => cells[r] = Cardinality(EarlierStages(r))
    /\ pc[r] \notin Over \cup {"called", "cell_done"} => cells[r] = Cardinality(invoked[r])
    /\ pc[r] = "cell_done" => spent[r] = tokens[r] + call[r].usage
    /\ pc[r] \notin Over \cup {"cell_done"} => spent[r] = tokens[r]
    /\ pc[r] = "acted" => r \in executed
    /\ r \in executed => pc[r] \in {"acted"} \cup Over

DeadlineCovers(r) ==
    /\ deadline[r] = limit[r]
    /\ pc[r] = "action_cell" => action[r].expires = deadline[r]
    /\ pc[r] \in {"acting", "acted"} => claimedAt[r] # None
    /\ r \in executed => claimedAt[r] # None
    /\ claimedAt[r] # None => pc[r] \in {"acting", "acted"} \cup Over

LabelsFollowData(r) ==
    /\ pc[r] \notin Over \cup {"cell_done"} /\ tainted[r] => sensitive[r]
    /\ pc[r] = "cell_done" /\ call[r].kind = "RETURNED" /\ tainted[r] => JoinedLabel(r)
    /\ pc[r] = "invoking" /\ sensitive[r] => stage[r] \in Secret
    /\ pc[r] = "acting" /\ sensitive[r] => "action" \in Secret

BudgetHolds(r) ==
    /\ pc[r] \in {"cell", "invoking", "called"} => BudgetLeft(r)
    /\ pc[r] \in {"returned"} \cup AfterModels => tokens[r] <= MaxTotal

\* The run that owns its semantic key, the run that owns its effect.
OwnsRunKey(r) == invoked[r] # {} \/ pc[r] \notin Unclaimed \cup Over
OwnsEffect(r) == claimedAt[r] # None

KeysAreOwned ==
    /\ \A r \in Runs : OwnsRunKey(r) => SemanticKey[r] \in runKeys
    /\ \A r \in Runs : OwnsEffect(r) => action[r].effect \in effectKeys
    /\ \A r, q \in Runs : r # q /\ OwnsRunKey(r) /\ OwnsRunKey(q) => SemanticKey[r] # SemanticKey[q]
    /\ \A r, q \in Runs : r # q /\ OwnsEffect(r) /\ OwnsEffect(q) => action[r].effect # action[q].effect

OrganismInv ==
    /\ TypeOK
    /\ KeysAreOwned
    /\ \A r \in Runs : CallsAddUp(r) /\ DeadlineCovers(r) /\ LabelsFollowData(r) /\ BudgetHolds(r)
    /\ AuthorityCoversAction /\ EffectsAreAdmitted /\ UsageIsReported
    /\ SensitiveDataStaysInside /\ NoWorkBeyondBudget

-----------------------------------------------------------------------------
\* Every run that starts ends.
EveryRunEnds == \A r \in Runs : pc[r] # "new" ~> pc[r] \in {"ended", "crashed"}

\* What docs/ORGANISM_V0_1.md says of the terminal state HOLD: exact manifest
\* activation is absent and nothing was dispatched.
HoldDispatchesNothing ==
    \A r \in Runs : result[r] # None /\ result[r].status = "HOLD" =>
        invoked[r] = {} /\ r \notin executed

\* What docs/DURABLE_OLLAMA_PILOT.md says of replay claims: freshness is
\* rechecked at the claim, after any wait for the store.
RunClaimIsFresh == lateClaims = {}

=============================================================================
