# Causal Cell: a TLA+ model of the runtime, its stores, its evidence, the organism and the pilot

Causal Cell puts a causal proposal, a policy decision, a one-time claim, the call of a host
function and an evidence bundle in one line: nothing may be called that was not decided on
afresh and claimed once, and what is written down afterwards must be what happened. The
organism runner chains two model calls and one action through three such cells. The
repository pilot is its application: two local models look at a directory tree and write a
report. This directory holds TLA+ modules of that code, the TLC configurations that check them on small
instances, and proofs that TLAPS checks.

File and line references are to `src/src/causal_cell/` unless a path is given.

## 1. Inventory

| Component | State it keeps | Operations | Module |
|---|---|---|---|
| guard (`guard.py`, `canonical.py`) | none, a pure function of proposal, policy, time | `evaluate_proposal`, `bind_proposal`, egress normalisation, approval match | `Guard`, `Authorization` |
| Causal Cell (`runtime.py`) | locals of one `execute`: decision, claim decision, evidence time, status | `execute(proposal, executor)` | `CausalCell` |
| in-memory nonce store (`runtime.py:40`) | two dicts under one lock, per process | `consume` | `CausalCell` with `Durable = FALSE` |
| SQLite replay store (`sqlite_store.py`) | meta table and three claim tables, one file | open / initialise, `consume`, `consume_run` | `SQLiteStore`; as one atomic claim in `CausalCell` with `Durable = TRUE` |
| organism runner (`organism.py:1259`) | locals of one `run`: deadline, label, totals, invoked adapters; the shared stores | `run` | `Organism` |
| activation registry (`organism.py:157`) | the activations the host installed | `active_until`, `decision` | `Organism` |
| manifest and policy checks (`organism.py:472`–`:757`, `:963`–`:1015`, `:1260`) | frozen documents | `evaluate_organism_manifest`, the constructors, the preflight | `ProposalFactory`, `Admission`; the activation part in `Organism` |
| proposal factory (`organism.py:810`) | capabilities and policy versions of the host | `model_invocation`, `action_from_draft` | `ProposalFactory`, `Admission` |
| adapters (`adapters.py`) | identity | `invoke`, `validate_model_result` | `Organism` (what the runner sees of them), `OllamaAdapter` (the contract) |
| Ollama adapter (`ollama.py`) | none: one request, no retry | `invoke` | `OllamaAdapter`, called by `RepositoryPilot` |
| evidence (`evidence.py`) | the files of one bundle | `write_bundle`, `verify_bundle` | `Evidence` |
| LTP export (`ltp.py`) | none | request state and outcome of an attempt | `RequestState`, `TerminalStatus` in `CausalCell` |
| repository pilot (`repository_pilot.py`) | report directory; wires a runner to SQLite and Ollama | scan, snapshot, write report | `RepositoryPilot` |
| CLI, span normalisation, schemas, examples, containers | none | – | no |

**How they interact.** `OrganismRunner.run` builds a `CausalCell` per model call and one for
the action, all over one nonce store, and a fourth claim (`consume_run`) in the organism
store. `CausalCell.execute` evaluates, hands the store a validator as a callback, which the
store calls between its look-up and its insert while it holds its lock; the validator reads
the clock and evaluates again. Then the executor is called (in the organism: a closure that
looks at the adapter's identity before and after the call), and the bundle is written.
Shared state is the store alone: a dict under a `threading.Lock`, or one SQLite file between
processes. The clock, the registry and the adapters belong to the host and may differ at
every read. Before it claims anything, the runner works out from its own records whether the
guard would allow what the run may come to submit; the proposals come from the factory later.
A pilot is a process of its own: with others it shares the tree, which anybody may edit, the
SQLite file, and the directory its report goes to.

**What is hard here.** The wait for the store's lock between decision and claim; claims of two
names that must be taken together; exceptions and deaths between claim, call and evidence;
processes that create the same database at once; a registry rotated while the action is being
compiled; adapters that change under the runner; some twenty ways out of `run`, each reporting
counters; reads of a bundle that is being written; authority that is worked out twice, by code
written twice; destinations and targets in several spellings; a tree that changes while it is
scanned; reports several processes write into one directory. `PROJECT.json` lists each at its line with
the property that watches it, or a note why none does.

**What makes each part correct.** *Guard*: a permission that lapsed never comes back, a narrower
policy never permits more, HOLD lacks only an approval, an approval covers one proposal, an
accepted request goes to an allowed endpoint. *Cell and store*: at most one dispatch per nonce
and per idempotency key, on a fresh authorisation, with claims that are whole and answers and
evidence that are true. *Organism*: one run per semantic key, one effect per semantic action,
no action outside any bound the run was shown, no effect denied, usage and labels kept, an
end. *Admission*: what the preflight passes the guard does not refuse for its configuration, and
what it refuses could not have worked; an action goes where its policy allows, and its key names
its effect. *Pilot*: an unchanged tree is shown to a model once, a snapshot is bounded and says
where it is cut, a report is whole and true, the local adapter keeps the adapters' contract.
*Evidence*: only a whole bundle verifies, and a changed record is noticed.

## 2. Plan, and where it stands

1. `Guard`, then `Authorization`, which compares its answers with one another. *Done.*
2. `ReplayClaims`, the abstract promise of replay control; `CausalCell`, its implementation;
   `CausalCellProofs`. *Done.*
3. `ClaimService`, the abstract promise of a store; `SQLiteStore`, its implementation statement
   by statement; `SQLiteStoreProofs`. *Done.*
4. `Organism`; `OrganismProofs`. *Done*, but for liveness.
5. `Evidence`; `EvidenceProofs`. *Done.*
6. `AuthorizationProofs`. *Done.*
7. `OllamaAdapter` and `RepositoryPilot`: the bounded scan, the run, the report writer (temporary
   file and `os.replace`); `RepositoryPilotProofs` for the run and the reports, `SnapshotProofs`
   for the scan. *Done.*
8. `ProposalFactory` and `Admission`; `AdmissionProofs`. *Done.*

Every safety invariant, action property and refinement that a passing run checks is also a
theorem. What is left: that the abstractions of the next paragraph are refinements,
where today the properties named there stand for it, and the cost budget of the organism.

`CausalCell` abstracts the store to one atomic claim under a lock; `SQLiteStore` justifies that
with `ImplementsClaimService`. `Organism` in turn abstracts a cell to one atomic claim that
decides at the time it is made, which `ClaimIsFresh` and `ReplayControl` of `CausalCell`
justify, and static authority to one check before the run is claimed, which
`PreflightSettlesAuthority` of `Admission` justifies. `RepositoryPilot` abstracts a run of the
organism to its two claims, its calls and its action: deadlines, evidence and store faults are
`Organism`'s, and policies are `Admission`'s, where the pilot's own configuration is among the
hosts. The modules are composed by these abstractions and not by one product, which would be
far beyond TLC.

## 3. Modules and the code

**Guard** is `evaluate_proposal` as operators: one operator per group of checks
(`StructuralReasons`, `TimeReasons`, `BindingReasons`, `AuthorityReasons`,
`DestinationReasons`, `ApprovalDecision`), all reasons collected before the answer as in the
code, then approval. URLs are records of scheme, user info, host and port; normalisation does
what the code's does to them. `Digest` is an injective constant operator; formats of strings
are left out.

**Authorization** evaluates one bound proposal at every tick. `lapsed` is a history variable.
`PermissionNeverReturns` says that the accepted instants form one interval and where it ends:
strictly before the proposal and the approval it cites expire.

**CausalCell**: `pc[a]` is where one call of `execute` stands.

| Action | Code |
|---|---|
| `Evaluate` | `runtime.py:119` first evaluation; only ACCEPT goes on to `consume` |
| `Acquire`, `BusyTimeout` | the lock of `runtime.py:60`, `BEGIN IMMEDIATE` of `sqlite_store.py:113` |
| `FindReplay` | the look-ups, under the lock |
| `ValidateClaim` | the `validate_claim` callback, `runtime.py:129` |
| `Commit`, `ConsumeRaises` | insert and commit; rollback, or the lock's `with` |
| `AfterConsume` | `runtime.py:152`, what the runtime makes of the store's answer |
| `NoncompliantConsume` | a store given by the host that breaks the protocol of `runtime.py:25` |
| `Dispatch`, `ExecutorEnds`, `WriteBundle`, `EvidenceFails` | `runtime.py:176` to the end |
| `Crash`, `AdjustClock` | a process dies with its memory; the wall clock moves either way |

The history variables `won`, `lost`, `dispatched` and `seen` record what really happened, which
the code's own state cannot be asked for.

**SQLiteStore** has one action per SQL statement of `_initialize`, `consume` and `consume_run`.
SQLite is external: one writer, a transaction that disappears with its connection, an atomic
durable commit, primary keys. A database starts empty, complete, or of another version.

**Organism** has one action per stretch of `run` between two reads of clock, registry or
adapter, two callbacks, or two claims. The label at which a run stands is `pc`; `Refused`,
`Clamped` and `Halt` are the three fragments the code repeats at each check; the identities of
adapters that a refused run has called are read once more (`Rereadings`), and may have changed
since. A store that raises may have taken the name before it did (`ClaimRun`,
`ClaimActionCell`): the run is over, and the name stays taken. `Preflight` gives
what the static checks of `organism.py:1560-1621` can find. Policies that require approval are
refused by the constructor (`organism.py:1303`), so no cell inside a run answers HOLD. The
latest unexpired exact activation bounds the deadline, which only shrinks. `executed`,
`claimedAt`, `limit`, `spent`, `tainted`, `exposed` and `lateClaims` are history.

**ProposalFactory** is what the trusted host side computes without asking the guard:
`FactoryAccepts` and `RunnerAccepts` are the constructors, `ManifestReasons` the static part of
the manifest check, `ConfigurationReasons` the preflight with `PolicyStaticallyAllows`, and
`ModelInvocation`, `CompilationReason` and `ActionFromDraft` the compilers. A target is its
network location (or none), a fragment mark and a sequence of path segments, so that prefix
matching, canonical spelling and origins are computed and not assumed.

**Admission** takes one host and one context through all of it, the way a run does: `Construct`,
`CheckManifest`, `RunPreflight`, then for each model `StartStage` (the manifest again),
`BuildInvocation`, `SubmitInvocation` and `ModelReturns`, then `CompileDraft` and `SubmitAction`.
`SubmitInvocation` and `SubmitAction` call `EvaluateProposal` of `Guard`. `IdentityUnreadable` is the
exit of the preflight for an adapter that raises instead of saying what it is. The clock moves and
adapters change between any two. `asked` and `seen` remember what the preflight was asked about.

**OllamaAdapter** is two pure functions: `InvokeOllama`, from the transport's reply to a result, and
`ModelResultReasons`, what the runner finds wrong with a result.

**RepositoryPilot**: `pilot[p]` is one process, with the locals of its scan and of its run.

| Action | Code |
|---|---|
| `ScanEnds`, `SkipDirectory`, `ScanDirectory` | one turn of the loop of `repository_pilot.py:174`; the entries come in any order |
| `StatFile`, `ReadFile` | the two looks at a file, `repository_pilot.py:266` |
| `ClaimRun` | the semantic run key, `organism.py:1821` |
| `CallModel`, `Expire` | a call with any reply of the server; a deadline or the token budget |
| `Compile` | the draft, the argument validator and `target_state_digest`, `repository_pilot.py:496` |
| `ClaimEffect` | the idempotency key of the action |
| `StartWrite`, `FinishWrite`, `Publish`, `WriteFails` | the temporary file and `os.replace`, `repository_pilot.py:529` |
| `Settle`, `Crash`, `EditTree` | the action's evidence; a process dies; others edit the tree |

A turn of the loop is a function of what the process holds, the tree and the order of the
entries (`Scanned`, `Skipped`), and so is a file that was read (`Recorded`); `f ++ g` overrides
fields. `saw`, `called`, `refused`, `name` and `status` are history once they are set; a process that
ended keeps nothing else but what its report is compared with.

**Evidence**: `CreateFile`, `FillFile`, `ReadBack` per file, then the manifest, then the
writer's own verification; `verify_bundle` is a loop of single reads, run by any number of
callers at any time. A digest is the content itself (no collisions). Others may change,
remove, add a file, or make a ledger or manifest anew.

## 4. Runs

| Run | Instance | Shows |
|---|---|---|
| `authorization` | some hundreds of proposals, 8 ticks, 10 narrower policies | the relations between answers of the guard |
| `cell_durable` | 3 attempts in 2 processes: one proposal twice, one more nonce for its key with an approval that expires; clock 0, 1, 2 | replay control, freshness, evidence, refinement of `ReplayClaims` |
| `cell_memory` | one nonce under two keys in one process, a HOLD in another | replay control per process life; every call ends; a claim is used |
| `cell_noncompliant` | a store that skips the validator, ignores it, or refuses at will | authorisation does not depend on the store |
| `sqlite_store` | 2 processes; 2 claims that share a key, 2 of one run key; three kinds of file | schema gate, whole claims, refinement of `ClaimService` |
| `organism_authority` | 1 run, clock 0..3 both ways, 4 registries, one adapter that changes, 3 usages | authority, honesty, accounting, labels, budget, termination |
| `organism_replay` | 3 runs, two equivalent, a still clock | one model pipeline per key, one effect per action |
| `organism_hold`, `organism_late_claim` | 1 run | the two findings below |
| `evidence` | 2 records, ledger, manifest; writer and auditor; 3 edits | torn, concurrent and edited bundles |
| `admission` | 91 hosts, 3 contexts, 2 labels, 12 drafts, clock 0..2 both ways, an analyst's adapter that changes | preflight against guard, target against destination, effect keys |
| `repository_pilot` | 2 processes, each with one of 2 models; 6 trees, one edit from any to any | the scan, the snapshot, the report, the adapter's contract |

**Bounds.** Two attempts suffice for a conflict and the third conflicts by the other name; two
processes suffice for a crash that leaves a competitor alive. Three readings of the clock are
*before*, *while* and *after* validity; four in the organism add a deadline inside the
context's. Usages are one within budget, one that spends the total exactly, and one over the
limit of a call. The hosts of `admission` are the tests' networked configuration and the pilot's
local one, with their destinations in several spellings, and a sound host with one field wrong
at a time, so that every refusal of the constructors, the manifest and the preflight occurs. Each
limit of the pilot's scan is exceeded by one of the trees, by one; between them they have
excluded names, secrets, links, closed directories and files longer than each byte limit, and one
edit turns any of them into any other, so that entries, files and directories vanish, appear,
shrink and change kind. It is bounded by `MaxEdits` and made only while somebody still reads. Pilots and
models are model values which are only compared, so the symmetry of the run is sound: its properties
are invariants. `MaxTotal = 5` is not twice the largest usage, so the second reservation can
fail. Three edits are the fewest with which an edited record passes verification. `MaxTime`,
`Times` and `MaxEdits` are the only bounds on counters.

**Mutants.** Each property is paired with a plausible bug, written beside the definition it
changes (`RaiseWithoutRollback`, `CheckCompiledLoosely`, ...), under which TLC finds it violated.

**Deadlock** is checked in every run but `evidence`: a bundle that is written and verified is
simply finished. Where calls can all end (`CausalCell`, `Organism`, `Admission`,
`RepositoryPilot`) or time run out (`Authorization`), that
end is an explicit stuttering step, and `SQLiteStore` has no end at all, so
that any other stop is reported.

**Fairness.** `CausalCell` assumes weak fairness of each call once it has begun: threads are
scheduled, an executor that was called returns or raises, and a waiting call gets the lock or
times out. It is not assumed that the lock is handed out in order, that a caller starts, or
that processes do not crash. `Organism` assumes the same of each run's steps: an adapter that
never returned would hang the program too, which has no timeout of its own around the call
(the deadline is checked after it, `organism.py:2432`). The clock need not advance.

## 5. Proofs

| Theorem | States, for every value of the constants |
|---|---|
| **`CausalCellProofs`** | |
| `TypeCorrect`, `ClaimInvHolds`, `CellInvHolds` | `[]TypeOK`, the invariant that keeps claims apart, the invariant of a whole call |
| `ReplayControl` | with the durable, compliant store `[]AtMostOneDispatch` |
| `ReplayControlPerProcessLife` | with any compliant store `[]AtMostOneDispatchPerProcessLife` |
| `NoStoreBypassesAuthorization` | `[]DispatchIsFreshlyAuthorized`, whatever the store |
| `ClaimsAreFresh` | the action property `ClaimIsFresh` |
| `Refinement` | `CausalCell` with the durable, compliant store implements `ReplayClaims` |
| `StoreIsExact` | `[]StoreHoldsGrantedClaims` |
| `ReplaysAreReal` | with a compliant store `[]ReplayIsNeverFalse` |
| `BundlesAreTrue`, `RecordsReproduce` | `[]BundleTellsTheTruth`, `[]RecordedDecisionIsReproducible` |
| **`SQLiteStoreProofs`** | |
| `StoreInvHolds`, `OnlyKnownSchemas`, `WholeClaims` | `[]StoreInv`, `[]SchemaGate`, `[]ClaimsAreWhole` |
| `StoreImplementsClaimService` | `SQLiteStore` implements `ClaimService` |
| **`OrganismProofs`** | |
| `OrganismInvHolds` | `[]OrganismInv`, `TypeOK` included |
| `RunsOnceHolds`, `EffectsOnceHolds` | `[]SemanticRunOnce`, `[]SemanticEffectOnce` |
| `AuthorityHolds`, `AdmissionHolds` | `[]AuthorityCoversAction`, `[]EffectsAreAdmitted` |
| `UsageHolds`, `BudgetStops`, `ConfinementHolds` | `[]UsageIsReported`, `[]NoWorkBeyondBudget`, `[]SensitiveDataStaysInside` |
| **`EvidenceProofs`** | |
| `EvidenceInvHolds`, `UneditedBundleHolds`, `TamperEvidentHolds` | `[]EvidenceInv`, `[]UneditedBundle`, `[]TamperEvident` |
| **`AuthorizationProofs`** | |
| `AuthorizationInvHolds` | `[]AuthorizationInv` |
| `PermissionNeverReturnsHolds`, `NarrowingHolds` | `[]PermissionNeverReturns`, `[]NarrowingNeverPermits` |
| `ApprovalCoversOneHolds`, `HoldLacksOnlyApprovalHolds` | `[]ApprovalCoversOneProposal`, `[]HoldLacksOnlyApproval` |
| `EgressHolds` | `[]EgressReachesAllowedEndpoint` |
| **`AdmissionProofs`** | |
| `PreflightAgreesWithGuard` | what `PolicyStaticallyAllows`, the guard's checks of authority and destination allow |
| `AdmissionInvHolds`, `PreflightSettles` | `[]AdmissionInv`, `[]PreflightSettlesAuthority` |
| `PreflightRefuses` | `[]PreflightRefusesOnlyTheImpossible` |
| `TargetIsThere`, `EffectKeyNames` | `[]TargetIsAtDestination`, `[]EffectKeyNamesTheEffect` |
| **`RepositoryPilotProofs`** | |
| `PilotInvHolds`, `ReportsAreTrueHolds`, `AdapterKeepsContractHolds` | `[]PilotInv`, `[]ReportsAreTrue`, `[]AdapterKeepsContract` |
| **`SnapshotProofs`** | |
| `SnapshotInvHolds`, `SnapshotTellsTheTruthHolds` | `[]SnapshotInv`, `[]SnapshotTellsTheTruth` |
| `UnchangedTreeIsObservedOnceHolds` | `[]UnchangedTreeIsObservedOnce` |

**Assumptions.** They are the named `ASSUME`s of each module, which TLC evaluates in the module's
runs. Most give documents their fields, counts and times their integers, and keep `None` apart
from the values it stands beside. Those that say more:

* `CausalCell`: each attempt runs in one process. The guard enters by its type only.
* `SQLiteStore`: a call runs in one process; only a `consume_run` has one name, and names of
  different tables never meet.
* `Organism`: a registry is a finite set, so that it has a latest activation.
* `Evidence`: each record has a file of its own, and contents that differ in kind differ (a torn
  file, say, parses as no ledger).
* `Authorization`: digests of different contents differ, and the policies compared are narrower in
  the sense of `PermitsNoMore`, which is the definition of narrower and not an assumption on code:
  permissions taken out, approvals no longer and no wider, the same network scopes.
* `Admission`: a context is one `run` does not refuse as invalid; every spelling of a host parses,
  and what an origin is written as parses again (`UrlTypes`).
* `RepositoryPilot`: trees are finite, a path leads through directories (`TreesAssumption`), and a
  link stays one (`LinksStayLinks`).
* `DigestsAreExact`, in `Admission` and `RepositoryPilot`, is a hypothesis of the theorems, since
  it speaks of all values and TLC cannot evaluate it: digests do not collide and are no `None`.

**The cell.** `AtMostOneDispatch` is not inductive: that two dispatched attempts do not conflict
follows from their claims, that claims do not conflict from the look-up made when each was granted,
and that the look-up still holds at the commit from the lock. `ClaimInv` says these things:
`LockFollowsCall` (a call is past its look-up exactly while it holds its store's lock),
`GrantFollowsCheck` (what a granted call checked is still so), `ClaimsAreKept` and
`ClaimsDoNotConflict` (of the claims that did not die with their store), and
`DispatchFollowsClaim`. The proof has a lemma per conjunct and, within it, a step per action;
frame lemmas (`OnlyCommitWrites`, `OnlyDispatchCalls`, `HeldStoreFrame`) say once what the
other actions leave alone. `CellInv` adds the evidence: what each label says of the call's own
decision, its notes and its bundle (`DecisionFollowsCall`, `NotesFollowCall`,
`BundleFollowsCall`), that a claim is spent once it is won, and the two properties of the
store's content, which need one another. `cell_durable` checks it, and with it `TypeOK`.

**The store.** `SchemaGate` is not inductive either: that the tables are there when a process is
ready follows from the order of its statements (`SchemaFollowsHandle`), and that a claim finds them
from the version, which once it is right never changes, while `Raise` and `Crash` leave statements
undone anywhere. `ClaimsAreWhole` needs that what a transaction read is still so when it commits
(`TransactionIsIsolated`), which follows from `OneWriter`. Only `Commit` changes rows, so the
proof looks at it by itself (`CommitWrites`) and at the one call that moves in every other step.
The refinement maps a commit that writes to `Grant` and each answer to the `Tell` action it is;
`PendingFollowsCall` makes the answers true.

**The organism.** Each action of a run leaves the other runs alone, and does one of a dozen things. A lemma per
action says which (`StopsQuietly`, `ClaimsRun`, `EntersInvoking`, `Answers`, `ClaimsEffect`, ...),
and preservation is proved once per shape; of the other runs it is enough that they are
`Untouched` and that no key they own is claimed. The invariant has four parts per run.
`CallsAddUp` says at every label which stages were called and that the counters passed from exit
to exit are those of the calls. `DeadlineCovers`: the effective deadline is the earliest bound any
check has shown the run; that the runner's `latest` activation is one of them, and that a later
check never widens it, is where a registry replaced during compilation would bite.
`LabelsFollowData` ties the label to what entered the run, `BudgetHolds` the reservation to the
total. `KeysAreOwned` is about all runs: who is past a claim owns its key, alone, also after a
crash, because only a claim takes a key and nothing gives one back.

**Evidence.** A verification may begin before the bundle is written and read while others edit, so
neither property is inductive. `FilesFollowWriter` says what a file nobody touched holds at
each step of the writer. `UneditedCall`: a verification that found a manifest found it
written last, after everything it lists. `QuietCall`: what a verification has compared is still so
as long as nothing changes under it, so that at its end the manifest, the ledger and the files
agree; if a file is then not what the writer bound, neither can be the one the writer made.

**Authorization.** ACCEPT means `Cleared` (every group of reasons is empty) and, where the policy
asks for one, `Covered` (the cited approval matches every bound field and has not expired). Only
`TimeReasons` and the approval's expiry depend on the time, and as an interval each, open where it
ends: with `LapseIsReal` (who lapsed was accepted and then was not) permission cannot return, nor
last until either expiry. Narrowing
and the fresh approval of `HoldLacksOnlyApproval` compare two answers group by group.

**Admission.** `PreflightSettlesAuthority` follows from two facts. A compiled proposal
(`InvocationIsCompiled`, `ActionIsCompiled`) has a right form and binding, no delegation and no
approval, and the fields the preflight asked about, so that `PreflightAgreesWithGuard` applies; a
label that was joined is sensitive only if a part was (`JoinIsSensitive`). And what the preflight
found stays so until the guard is asked (`AdmissionInv`): the host does not change after the
constructor, the manifest can only fail for an adapter (`OnlyProvenanceChanges`), and the proposal
at the guard is compiled from an adapter whose digest is the pinned one, which is the adapter the
preflight saw unless it was misled. `PreflightRefusesOnlyTheImpossible` is the converse:
`GuardAgreesWithPreflight` reads the two pieces of code the other way round, and `RefusalInv` keeps
what was asked. For the target, `TargetInv` remembers which compilation a proposal at the guard
came from; a target that passed has the origin of its destination (`CompiledTargetsAgree`), in
whatever spelling.

**The pilot's reports.** Most steps of a pilot name nothing, claim nothing and write nothing
(`QuietStep`); the others are one shape each (`NamingStep`, `ClaimingStep`, `StartingStep`,
`FinishingStep`, `PublishingStep`). `NamesAreOwn`: a name is the digest of
a proposal that names its pilot's run, so no other pilot has it. `EffectsAreOwned`: of the pilots that
could still write or have written a report, one at most has a given effect, because that key is
claimed before the first write. `FilesAreOwn`: with names apart, a temporary file holds
what its pilot put there from `StartWrite` to `os.replace`. The adapter's contract needs no
induction: it is a fact about `InvokeOllama` (`ResultsAreWellFormed`), whatever the server answers.

**The pilot's snapshot.** One look at the tree is a relation of constants (`Turned`, `After`): what
a process holds, the tree, what it holds then. `ScanIsBounded` holds whatever happens to the
tree. `ScanIsTrue` holds while every look found the same tree: what is pending and what was found
overlap nowhere, and together they cover the tree, unless the scan was cut (`Covers`). A turn
keeps this because it puts the children of a directory in the place of the directory
(`TurnKeeps`), and at the end nothing is pending. The fields of all else that a pilot does are
irrelevant, by step shapes again (`ReadingStep`, `ClaimingRun`, `LeavingStep`).

That an unchanged tree is observed once is about two pilots that never meet but in the table of
run keys. `AscendingOrders` and `ListingIs` say that the order in which entries are listed does
not matter, so a look is a function of the tree (`OneTurn`), and two sequences of looks from
the start of a scan agree as long as both go on (by the least place where they differ). Two
pilots that finished have then the same snapshot, hence the same run key, which one of them
claimed. `ObservedInv` says so of each pilot that reads or has asked, in terms of such sequences
(`Comes`, `Known`).

**What TLC has seen of this.** `CellInv`, `StoreInv` and `OrganismInv` are properties of a run.
`EvidenceInv`, `AuthorizationInv`, `PilotInv`, `SnapshotInv`, `RefusalInv` and `TargetInv` held on the
instances of their modules' runs when they were added there as invariants; no run lists them, for
they cost more than they say beside the properties they prove. `AdmissionInv` and
`ObservedInv` quantify over all values and all sequences of looks, and are only proved.

**Model-checked only.** `EveryCallEnds`, `ClaimIsUsed` and `EveryRunEnds`: liveness under fairness,
with ENABLED, is beyond this prover. Nothing else that a passing run checks. The two documented
statements of section 6 are false, which is TLC's to show. No module uses a RECURSIVE operator,
and no proof an induction over data: where one would have been natural, an invariant walks along
with the loop of the code, or a least counterexample is taken.

## 6. Where code and documents differ

* **HOLD after dispatch** (`organism_hold`). `docs/ORGANISM_V0_1.md:258` says of HOLD that nothing
  was dispatched. The checks between stages return HOLD as well (`organism.py:1944`, `:2392`),
  so a run whose registry was replaced by one without an entry for the organism ends in HOLD
  with `model_calls` 1 or 2.
* **The run claim is not fresh** (`organism_late_claim`). `docs/DURABLE_OLLAMA_PILOT.md:90` says
  freshness is rechecked at the replay claim after any wait for SQLite. `consume` does so;
  `consume_run` (`sqlite_store.py:174`) looks at no time. A run that waited past its deadline
  spends its key, calls nothing, and its retry is `ORGANISM_REPLAYED`.

## 7. What is not modelled

* String formats, sizes, Unicode and JSON encoding; digests are injective. In the pilot this
  leaves out that an excerpt's budget counts bytes of the file, while the document and the test
  (`docs/DURABLE_OLLAMA_PILOT.md`, `tests/test_repository_pilot.py:127`) measure encoded text:
  bytes that are no UTF-8 are replaced by characters of up to three bytes.
* The cost budget of the organism, which the code treats line by line like the token budget.
* The capabilities' callbacks (target and argument validators, resolver) of an organism: any
  answer; those of the pilot are modelled. Its request document, prompts and output schema are not.
* Contexts that `run` refuses as `CONTEXT_INVALID`, times that do not parse among them: it returns
  before anything is claimed or called.
* In the cell, a store that raises although its commit took effect: `SQLiteStore` has a commit
  whose caller never hears of it, `Organism` a store that raises after it.
* `OLLAMA_DEADLINE_INVALID` (`ollama.py:165`): the runner formats the deadline itself, so it parses.
* A directory whose listing breaks off half way, whose entries so far would count towards the
  limit (`repository_pilot.py:189`): it opens and lists whole, or raises at once.
* An adapter whose identity changes between the manifest check and the preflight and back: the
  preflight then judged something else, and `PreflightSettlesAuthority` says so.
* A file or directory that is replaced by a link between the scan and the read (`LinksStayLinks`),
  and bytes that change within one read. A directory that cannot be read is skipped and does not
  set `files_truncated`, which `SnapshotTellsTheTruth` states no more than the code does.
* The HTTP exchange below `InvokeOllama`: its timeout is per socket operation, so a call may
  outlast its deadline; the runner then rejects the late result (`Organism`).
* Power loss, directory fsync, and SQLite's durability settings: a crash is of a process.
* Symlink and path checks of bundles.
* The CLI, span normalisation, schemas, examples, benchmark, containers.

## 8. Running

    tlc -workers 2 -config CellDurable.cfg MCCausalCell.tla
    tlapm CausalCellProofs.tla

and likewise `SQLiteStoreProofs`, `OrganismProofs`, `EvidenceProofs`, `AuthorizationProofs`,
`AdmissionProofs`, `RepositoryPilotProofs` and `SnapshotProofs`.

Every run ends within two minutes on two cores; each proof module takes one to five.
