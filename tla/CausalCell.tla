----------------------------- MODULE CausalCell -----------------------------
(***************************************************************************)
(* CausalCell.execute (runtime.py) run by many threads and processes at    *)
(* once over a replay store, with a clock that moves between any two steps *)
(* and processes that crash and restart.                                   *)
(*                                                                         *)
(* One attempt is one call of execute:                                     *)
(*                                                                         *)
(*   idle -> claiming -> locked -> granted -> dispatching -> executing     *)
(*                                            -> recording -> done         *)
(*                                                                         *)
(* and leaves that path for recording on any refusal, for raised when an   *)
(* exception escapes execute, and for crashed when its process dies.       *)
(* Durable tells the SQLite store, one file that every process shares,     *)
(* from the in-memory store, one per process and lost with it.  A claim is *)
(* one atomic write here; module SQLiteStore has the transaction inside.   *)
(***************************************************************************)
EXTENDS Guard

CONSTANTS
    Attempts, Processes,
    ProcessOf,    \* attempt -> the process that runs it
    Proposal,     \* attempt -> the proposal it was called with
    Policy,       \* the policy every runtime was built with
    Durable,      \* SQLiteReplayStore, or InMemoryNonceStore
    Compliant,    \* the injected store honours the NonceStore protocol
    Times         \* the readings the wall clock can give

ASSUME ConstantsAssumption ==
    /\ ProcessOf \in [Attempts -> Processes]
    /\ Durable \in BOOLEAN /\ Compliant \in BOOLEAN

VARIABLES
    clock,
    consumed,       \* store -> nonce -> digest of the proposal that consumed it
    idempotency,    \* store -> idempotency key -> digest of that proposal
    holder,         \* store -> attempt holding its lock or write transaction
    pc,             \* attempt -> where its call of execute stands
    decision,       \* attempt -> the decision so far
    claim_decision, \* attempt -> the decision of validate_claim; None: not invoked
    evidence_time,  \* attempt -> the last clock reading execute took
    noted,          \* attempt -> nonce_consumed, executor_invoked, status
    bundle,         \* attempt -> what its evidence bundle says, once written
    won,            \* history: attempts whose claim the store committed
    lost,           \* history: those of them whose claim died with its store
    dispatched,     \* history: attempts whose executor was really called
    seen            \* history: store -> clock readings since its lock was taken

cellVars == <<decision, claim_decision, evidence_time, noted, bundle>>
storeVars == <<consumed, idempotency, holder, seen, won, lost>>
vars == <<clock, pc, dispatched, cellVars, storeVars>>

NonceOf(a) == Proposal[a].nonce
KeyOf(a) == Proposal[a].idempotency_key
DigestOf(a) == Proposal[a].proposal_digest
Nonces == {NonceOf(a) : a \in Attempts}
Keys == {KeyOf(a) : a \in Attempts}

File == "file"
Stores == IF Durable THEN {File} ELSE Processes
StoreOf(a) == IF Durable THEN File ELSE ProcessOf[a]

Ended == {"done", "raised", "crashed"}
InFlight == {"claiming", "locked", "granted", "dispatching", "executing", "recording"}

\* The guard is pure, so its answers are one table.
Verdict == [a \in Attempts |-> [t \in Times |-> EvaluateProposal(Proposal[a], Policy, t)]]
Decide(a) == Verdict[a][clock]
ReplayBlock(reason) == Decision("BLOCK", {reason})
Invalidated == "AUTHORIZATION_INVALIDATED"

StoreReasons == {"INTENT_REPLAYED", "IDEMPOTENCY_REPLAYED", Invalidated,
                 "NONCE_STORE_VALIDATION_INVALID", "NONCE_STORE_VALIDATION_SKIPPED"}
CellDecisions == Decisions(GuardReasons \cup StoreReasons)
Notes == [nonce_consumed : BOOLEAN, executor_invoked : BOOLEAN,
          status : {"NOT_INVOKED", "EXECUTOR_RETURNED", "EXECUTOR_ERROR"}]
Digests == {DigestOf(a) : a \in Attempts}
Bundles == [authorization : CellDecisions, result : Notes, captured_at : Times,
            request : {"DEFERRED", "ACCEPTED", "CREATED", None},
            outcome : {"REJECTED", "COMPLETED", "FAILED", None}]

\* Python's None is none of the values it stands beside.
ASSUME NoneAssumption ==
    /\ None \notin Attempts /\ None \notin Times /\ None \notin Digests
    /\ None \notin StoreReasons /\ None \notin CellDecisions /\ None \notin Bundles
    /\ None \notin {"REJECTED", "COMPLETED", "FAILED"}

Init ==
    /\ clock \in Times
    /\ consumed = [s \in Stores |-> [n \in Nonces |-> None]]
    /\ idempotency = [s \in Stores |-> [k \in Keys |-> None]]
    /\ holder = [s \in Stores |-> None]
    /\ pc = [a \in Attempts |-> "idle"]
    /\ decision = [a \in Attempts |-> None]
    /\ claim_decision = [a \in Attempts |-> None]
    /\ evidence_time = [a \in Attempts |-> None]
    /\ noted = [a \in Attempts |-> [nonce_consumed |-> FALSE, executor_invoked |-> FALSE,
                                    status |-> "NOT_INVOKED"]]
    /\ bundle = [a \in Attempts |-> None]
    /\ won = {} /\ lost = {} /\ dispatched = {}
    /\ seen = [s \in Stores |-> {}]

-----------------------------------------------------------------------------
Goto(a, label) == pc' = [pc EXCEPT ![a] = label]
Release(a) ==
    /\ holder' = [holder EXCEPT ![StoreOf(a)] = None]
    /\ seen' = [seen EXCEPT ![StoreOf(a)] = {}]

\* The first evaluation: only ACCEPT goes on to claim the nonce.
Evaluate(a) ==
    /\ pc[a] = "idle"
    /\ evidence_time' = [evidence_time EXCEPT ![a] = clock]
    /\ decision' = [decision EXCEPT ![a] = Decide(a)]
    /\ Goto(a, IF Decide(a).status = "ACCEPT" THEN "claiming" ELSE "recording")
    /\ UNCHANGED <<clock, claim_decision, noted, bundle, dispatched, storeVars>>

\* Mutant: the store's None is taken for permission.
AfterConsumeTrustsStore(a, reason, claim) ==
    /\ noted' = [noted EXCEPT ![a].nonce_consumed = (reason = None)]
    /\ decision' = IF reason = None THEN decision
                   ELSE [decision EXCEPT ![a] = ReplayBlock(reason)]
    /\ Goto(a, IF reason = None THEN "dispatching" ELSE "recording")

\* What execute makes of the store's answer: reason is the string consume
\* returned or None, claim what its own validator decided if it was invoked.
AfterConsume(a, reason, claim) ==
    LET fresh   == claim # None /\ claim.status = "ACCEPT"
        granted == reason = None /\ fresh
    IN  /\ noted' = [noted EXCEPT ![a].nonce_consumed = granted]
        /\ decision' = [decision EXCEPT ![a] =
              IF reason = Invalidated
              THEN IF claim # None /\ ~fresh THEN claim
                   ELSE ReplayBlock("NONCE_STORE_VALIDATION_INVALID")
              ELSE IF reason # None THEN ReplayBlock(reason)
              ELSE IF claim = None THEN ReplayBlock("NONCE_STORE_VALIDATION_SKIPPED")
              ELSE claim]
        /\ Goto(a, IF granted THEN "dispatching" ELSE "recording")

-----------------------------------------------------------------------------
(* consume: threading.Lock or BEGIN IMMEDIATE, then everything under it.   *)

\* Mutant: check and insert without the lock.
AcquireUnlocked(a) ==
    /\ pc[a] = "claiming"
    /\ seen' = [seen EXCEPT ![StoreOf(a)] = @ \cup {clock}]
    /\ Goto(a, "locked")
    /\ UNCHANGED <<clock, consumed, idempotency, holder, won, lost, dispatched, cellVars>>

Acquire(a) ==
    /\ Compliant
    /\ pc[a] = "claiming"
    /\ holder[StoreOf(a)] = None
    /\ holder' = [holder EXCEPT ![StoreOf(a)] = a]
    /\ seen' = [seen EXCEPT ![StoreOf(a)] = {clock}]
    /\ Goto(a, "locked")
    /\ UNCHANGED <<clock, consumed, idempotency, won, lost, dispatched, cellVars>>

\* SQLite gives up after busy_timeout and the exception escapes execute.
BusyTimeout(a) ==
    /\ Compliant /\ Durable
    /\ pc[a] = "claiming"
    /\ holder[StoreOf(a)] # None
    /\ Goto(a, "raised")
    /\ UNCHANGED <<clock, dispatched, cellVars, storeVars>>

\* Mutant: only the nonce is looked up.
ReplayReasonOfNonceOnly(a) ==
    IF consumed[StoreOf(a)][NonceOf(a)] # None THEN "INTENT_REPLAYED" ELSE None

ReplayReason(a) ==
    IF consumed[StoreOf(a)][NonceOf(a)] # None THEN "INTENT_REPLAYED"
    ELSE IF idempotency[StoreOf(a)][KeyOf(a)] # None THEN "IDEMPOTENCY_REPLAYED"
    ELSE None

FindReplay(a) ==
    /\ pc[a] = "locked"
    /\ ReplayReason(a) # None
    /\ AfterConsume(a, ReplayReason(a), None)
    /\ Release(a)
    /\ UNCHANGED <<clock, consumed, idempotency, won, lost, claim_decision, evidence_time,
                   bundle, dispatched>>

\* Mutants: the decision of the first evaluation is taken for the claim; the
\* nonce is marked before it is validated; the time of the claim is not kept.
ClaimWithoutRevalidation(a) ==
    /\ pc[a] = "locked"
    /\ ReplayReason(a) = None
    /\ claim_decision' = [claim_decision EXCEPT ![a] = decision[a]]
    /\ Goto(a, "granted")
    /\ UNCHANGED <<clock, consumed, idempotency, holder, seen, won, lost, decision, noted,
                   evidence_time, bundle, dispatched>>
ConsumeBeforeValidation(a) ==
    /\ pc[a] = "locked"
    /\ ReplayReason(a) = None
    /\ evidence_time' = [evidence_time EXCEPT ![a] = clock]
    /\ claim_decision' = [claim_decision EXCEPT ![a] = Decide(a)]
    /\ consumed' = [consumed EXCEPT ![StoreOf(a)][NonceOf(a)] = DigestOf(a)]
    /\ IF Decide(a).status = "ACCEPT"
       THEN Goto(a, "granted") /\ UNCHANGED <<decision, noted, holder, seen>>
       ELSE AfterConsume(a, Invalidated, Decide(a)) /\ Release(a)
    /\ UNCHANGED <<clock, idempotency, won, lost, bundle, dispatched>>
ValidateAtOldTime(a) ==
    /\ pc[a] = "locked"
    /\ ReplayReason(a) = None
    /\ claim_decision' = [claim_decision EXCEPT ![a] = Decide(a)]
    /\ IF Decide(a).status = "ACCEPT"
       THEN Goto(a, "granted") /\ UNCHANGED <<decision, noted, holder, seen>>
       ELSE AfterConsume(a, Invalidated, Decide(a)) /\ Release(a)
    /\ UNCHANGED <<clock, consumed, idempotency, won, lost, evidence_time, bundle, dispatched>>

\* validate_claim reads the clock again, under the lock.
ValidateClaim(a) ==
    /\ pc[a] = "locked"
    /\ ReplayReason(a) = None
    /\ evidence_time' = [evidence_time EXCEPT ![a] = clock]
    /\ claim_decision' = [claim_decision EXCEPT ![a] = Decide(a)]
    /\ IF Decide(a).status = "ACCEPT"
       THEN /\ Goto(a, "granted")
            /\ UNCHANGED <<decision, noted, holder, seen>>
       ELSE /\ AfterConsume(a, Invalidated, Decide(a))
            /\ Release(a)
    /\ UNCHANGED <<clock, consumed, idempotency, won, lost, bundle, dispatched>>

\* Mutant: the authorization is checked once more when the claim is already there.
CommitThenRecheck(a) ==
    /\ pc[a] = "granted"
    /\ consumed' = [consumed EXCEPT ![StoreOf(a)][NonceOf(a)] = DigestOf(a)]
    /\ idempotency' = [idempotency EXCEPT ![StoreOf(a)][KeyOf(a)] = DigestOf(a)]
    /\ won' = won \cup {a}
    /\ Release(a)
    /\ AfterConsume(a, IF Decide(a).status = "ACCEPT" THEN None ELSE Invalidated, Decide(a))
    /\ UNCHANGED <<clock, lost, claim_decision, evidence_time, bundle, dispatched>>

\* Nonce and key become visible together and consume returns None.
Commit(a) ==
    /\ pc[a] = "granted"
    /\ consumed' = [consumed EXCEPT ![StoreOf(a)][NonceOf(a)] = DigestOf(a)]
    /\ idempotency' = [idempotency EXCEPT ![StoreOf(a)][KeyOf(a)] = DigestOf(a)]
    /\ won' = won \cup {a}
    /\ Release(a)
    /\ AfterConsume(a, None, claim_decision[a])
    /\ UNCHANGED <<clock, lost, claim_decision, evidence_time, bundle, dispatched>>

\* Mutants: no rollback after the first insert; no release on the way out.
RaiseWithoutRollback(a) ==
    /\ pc[a] = "granted" /\ Durable
    /\ consumed' = [consumed EXCEPT ![StoreOf(a)][NonceOf(a)] = DigestOf(a)]
    /\ Release(a)
    /\ Goto(a, "raised")
    /\ UNCHANGED <<clock, idempotency, won, lost, dispatched, cellVars>>
RaiseWithoutRelease(a) ==
    /\ pc[a] \in {"locked", "granted"}
    /\ Goto(a, "raised")
    /\ UNCHANGED <<clock, dispatched, cellVars, storeVars>>

\* A failing clock, or a failing SQLite statement, rolls back and raises.
ConsumeRaises(a) ==
    /\ pc[a] = "locked" \/ (pc[a] = "granted" /\ Durable)
    /\ Release(a)
    /\ Goto(a, "raised")
    /\ UNCHANGED <<clock, consumed, idempotency, won, lost, dispatched, cellVars>>

\* An injected store that breaks the protocol: it may skip the validator, or
\* ignore it, and return anything.
NoncompliantConsume(a) ==
    /\ ~Compliant
    /\ pc[a] = "claiming"
    /\ \E reason \in {None, Invalidated, "INTENT_REPLAYED"}, claim \in {None, Decide(a)} :
          /\ AfterConsume(a, reason, claim)
          /\ claim_decision' = [claim_decision EXCEPT ![a] = claim]
          /\ evidence_time' = IF claim = None THEN evidence_time
                              ELSE [evidence_time EXCEPT ![a] = clock]
    /\ UNCHANGED <<clock, bundle, dispatched, storeVars>>

-----------------------------------------------------------------------------
(* The one dispatch and the evidence.                                      *)

\* Mutant: the executor is called before the claim is committed.
DispatchBeforeCommit(a) ==
    /\ pc[a] \in {"granted", "dispatching"}
    /\ noted' = [noted EXCEPT ![a].executor_invoked = TRUE]
    /\ dispatched' = dispatched \cup {a}
    /\ Goto(a, "executing")
    /\ UNCHANGED <<clock, decision, claim_decision, evidence_time, bundle, storeVars>>

\* The claim is there: the executor is called, once.
Dispatch(a) ==
    /\ pc[a] = "dispatching"
    /\ noted' = [noted EXCEPT ![a].executor_invoked = TRUE]
    /\ dispatched' = dispatched \cup {a}
    /\ Goto(a, "executing")
    /\ UNCHANGED <<clock, decision, claim_decision, evidence_time, bundle, storeVars>>

\* Mutant: an executor that raised is recorded as one that was not invoked.
ErrorMeansNotInvoked(a) ==
    /\ pc[a] = "executing"
    /\ \E status \in {"EXECUTOR_RETURNED", "EXECUTOR_ERROR"} :
          noted' = [noted EXCEPT ![a].status = status,
                                 ![a].executor_invoked = (status = "EXECUTOR_RETURNED")]
    /\ Goto(a, "recording")
    /\ UNCHANGED <<clock, decision, claim_decision, evidence_time, bundle, dispatched, storeVars>>

\* The executor returned a JSON value, or raised (or returned no JSON value).
ExecutorEnds(a) ==
    /\ pc[a] = "executing"
    /\ \E status \in {"EXECUTOR_RETURNED", "EXECUTOR_ERROR"} :
          noted' = [noted EXCEPT ![a].status = status]
    /\ Goto(a, "recording")
    /\ UNCHANGED <<clock, decision, claim_decision, evidence_time, bundle, dispatched, storeVars>>

\* The LTP envelopes: the state of the request, and how its attempt ended.
RequestState(d) ==
    IF "MALFORMED_PROPOSAL" \in d.reasons THEN None
    ELSE [HOLD |-> "DEFERRED", ACCEPT |-> "ACCEPTED", BLOCK |-> "CREATED"][d.status]
TerminalStatus(d, status) ==
    IF "MALFORMED_PROPOSAL" \in d.reasons \/ d.status = "HOLD" THEN None
    ELSE IF d.status = "BLOCK" THEN "REJECTED"
    ELSE IF status = "EXECUTOR_RETURNED" THEN "COMPLETED" ELSE "FAILED"

WriteBundle(a) ==
    /\ pc[a] = "recording"
    /\ bundle' = [bundle EXCEPT ![a] =
          [authorization |-> decision[a], result |-> noted[a], captured_at |-> evidence_time[a],
           request |-> RequestState(decision[a]),
           outcome |-> TerminalStatus(decision[a], noted[a].status)]]
    /\ Goto(a, "done")
    /\ UNCHANGED <<clock, decision, claim_decision, evidence_time, noted, dispatched, storeVars>>

\* The disk is full or the new bundle does not verify: the exception escapes.
EvidenceFails(a) ==
    /\ pc[a] = "recording"
    /\ Goto(a, "raised")
    /\ UNCHANGED <<clock, dispatched, cellVars, storeVars>>

-----------------------------------------------------------------------------
(* The environment.                                                        *)

\* A process dies.  Its locks are released and its open transaction is rolled
\* back; an in-memory store forgets everything.  The process starts again.
Crash(p) ==
    LET victims == {a \in Attempts : ProcessOf[a] = p /\ pc[a] \in InFlight}
        forgets == ~Durable
    IN  /\ victims # {} \/ (forgets /\ \E a \in won \ lost : ProcessOf[a] = p)
        /\ pc' = [a \in Attempts |-> IF a \in victims THEN "crashed" ELSE pc[a]]
        /\ holder' = [s \in Stores |-> IF holder[s] \in victims THEN None ELSE holder[s]]
        /\ seen' = [s \in Stores |-> IF holder[s] \in victims THEN {} ELSE seen[s]]
        /\ IF forgets
           THEN /\ consumed' = [consumed EXCEPT ![p] = [n \in Nonces |-> None]]
                /\ idempotency' = [idempotency EXCEPT ![p] = [k \in Keys |-> None]]
                /\ lost' = lost \cup {a \in won : ProcessOf[a] = p}
           ELSE UNCHANGED <<consumed, idempotency, lost>>
        /\ UNCHANGED <<clock, won, dispatched, cellVars>>

\* A wall clock: it may also be set back.
AdjustClock ==
    /\ clock' \in Times \ {clock}
    /\ seen' = [s \in Stores |-> IF holder[s] = None THEN {} ELSE seen[s] \cup {clock'}]
    /\ UNCHANGED <<pc, consumed, idempotency, holder, won, lost, dispatched, cellVars>>

\* Every call of execute has ended, and nothing is left to happen.
AllEnded ==
    /\ \A a \in Attempts : pc[a] \in Ended
    /\ UNCHANGED vars

Step(a) ==
    \/ Evaluate(a) \/ Acquire(a) \/ BusyTimeout(a) \/ FindReplay(a) \/ ValidateClaim(a)
    \/ Commit(a) \/ ConsumeRaises(a) \/ NoncompliantConsume(a)
    \/ Dispatch(a) \/ ExecutorEnds(a) \/ WriteBundle(a) \/ EvidenceFails(a)

Next ==
    \/ \E a \in Attempts : Step(a)
    \/ \E p \in Processes : Crash(p)
    \/ AdjustClock
    \/ AllEnded

Spec == Init /\ [][Next]_vars

\* Threads are scheduled and an executor that was called ends (it may raise);
\* the lock is not granted in any order.
FairSpec == Spec /\ \A a \in Attempts : WF_vars(Step(a) /\ pc[a] # "idle")

-----------------------------------------------------------------------------
TypeOK ==
    /\ clock \in Times
    /\ consumed \in [Stores -> [Nonces -> Digests \cup {None}]]
    /\ idempotency \in [Stores -> [Keys -> Digests \cup {None}]]
    /\ holder \in [Stores -> Attempts \cup {None}]
    /\ pc \in [Attempts -> {"idle"} \cup InFlight \cup Ended]
    /\ decision \in [Attempts -> CellDecisions \cup {None}]
    /\ \A a \in Attempts : pc[a] # "idle" => decision[a] # None /\ evidence_time[a] # None
    /\ claim_decision \in [Attempts -> CellDecisions \cup {None}]
    /\ evidence_time \in [Attempts -> Times \cup {None}]
    /\ noted \in [Attempts -> Notes]
    /\ bundle \in [Attempts -> Bundles \cup {None}]
    /\ seen \in [Stores -> SUBSET Times]
    /\ won \subseteq Attempts /\ lost \subseteq won /\ dispatched \subseteq Attempts

Conflict(a, b) == NonceOf(a) = NonceOf(b) \/ KeyOf(a) = KeyOf(b)

\* Replay control: of all attempts in all processes that share a nonce or an
\* idempotency key, before and after any crash, at most one reaches its
\* executor (durable store).
AtMostOneDispatch ==
    \A a, b \in dispatched : a # b => ~Conflict(a, b)

\* What the in-memory store gives instead: the same within one process until
\* it dies.
AtMostOneDispatchPerProcessLife ==
    \A a, b \in dispatched \ lost :
        a # b /\ StoreOf(a) = StoreOf(b) => ~Conflict(a, b)

\* An executor runs only on an authorization of its own that the runtime
\* decided while it claimed, whatever the store it was given answers.
DispatchIsFreshlyAuthorized ==
    \A a \in dispatched :
        /\ claim_decision[a] # None
        /\ Verdict[a][evidence_time[a]].status = "ACCEPT"

\* A claim is granted only to a proposal that was acceptable at some moment at
\* which the lock was already held: the wait for the lock never carries an
\* expired proposal, or an expired approval, through.
ClaimIsFresh ==
    [][\A a \in won' \ won : \E t \in seen[StoreOf(a)] : Verdict[a][t].status = "ACCEPT"]_vars

\* The store holds exactly the claims that were granted, each with its nonce
\* and its key bound to the same proposal: an attempt that was refused,
\* raised or crashed in the middle of its claim poisons neither.
StoreHoldsGrantedClaims ==
    \A s \in Stores :
        LET granted == {a \in won \ lost : StoreOf(a) = s}
        IN  /\ {n \in Nonces : consumed[s][n] # None} = {NonceOf(a) : a \in granted}
            /\ {k \in Keys : idempotency[s][k] # None} = {KeyOf(a) : a \in granted}
            /\ \A a \in granted : /\ consumed[s][NonceOf(a)] = DigestOf(a)
                                   /\ idempotency[s][KeyOf(a)] = DigestOf(a)

\* A replay is reported only to an attempt that another attempt forestalled.
ReplayIsNeverFalse ==
    \A a \in Attempts : decision[a] # None =>
        /\ "INTENT_REPLAYED" \in decision[a].reasons =>
              \E b \in won \ {a} : NonceOf(b) = NonceOf(a)
        /\ "IDEMPOTENCY_REPLAYED" \in decision[a].reasons =>
              \E b \in won \ {a} : KeyOf(b) = KeyOf(a) /\ NonceOf(b) # NonceOf(a)

\* A finished bundle says what happened: whether the executor was called,
\* whether the nonce was consumed, and that an LTP outcome of COMPLETED or
\* FAILED is one of a dispatched attempt.
BundleTellsTheTruth ==
    \A a \in Attempts : bundle[a] # None =>
        /\ bundle[a].result.executor_invoked = (a \in dispatched)
        /\ (bundle[a].authorization.status = "ACCEPT") = (a \in dispatched)
        /\ (bundle[a].outcome \in {"COMPLETED", "FAILED"}) = (a \in dispatched)
        /\ (bundle[a].result.status # "NOT_INVOKED") = (a \in dispatched)
        /\ Compliant => bundle[a].result.nonce_consumed = (a \in won)

\* The recorded decision can be reproduced from the bundle: evaluating the
\* recorded proposal at the recorded time gives the recorded authorization,
\* except where the store refused.
RecordedDecisionIsReproducible ==
    \A a \in Attempts : bundle[a] # None =>
        \/ bundle[a].authorization.reasons \cap StoreReasons # {}
        \/ Verdict[a][bundle[a].captured_at] = bundle[a].authorization

\* The durable store implements the replay promise.
Claims == INSTANCE ReplayClaims WITH claimed <- won
ImplementsReplayClaims == Claims!Spec

\* Every call that started ends: no lock is left behind by a refusal, an
\* exception or a dead process.
EveryCallEnds == \A a \in Attempts : pc[a] \in InFlight ~> pc[a] \in Ended

\* A granted claim is used unless the process dies: nothing else stands
\* between the commit and the dispatch.
ClaimIsUsed == \A a \in Attempts : a \in won ~> (a \in dispatched \/ pc[a] = "crashed")

-----------------------------------------------------------------------------
(* Why it holds: the inductive invariant, in named parts.                  *)

LockFollowsCall ==
    \A a \in Attempts : pc[a] \in {"locked", "granted"} <=> holder[StoreOf(a)] = a

SeenContainsClock ==
    \A a \in Attempts : pc[a] \in {"locked", "granted"} => clock \in seen[StoreOf(a)]

\* While a call holds the lock nobody can take away what it has checked.
GrantFollowsCheck ==
    \A a \in Attempts : pc[a] = "granted" =>
        /\ ReplayReason(a) = None
        /\ claim_decision[a] # None /\ claim_decision[a].status = "ACCEPT"
        /\ evidence_time[a] \in seen[StoreOf(a)]
        /\ Verdict[a][evidence_time[a]].status = "ACCEPT"

ClaimsAreKept ==
    /\ Durable => lost = {}
    /\ \A a \in won \ lost : /\ consumed[StoreOf(a)][NonceOf(a)] # None
                             /\ idempotency[StoreOf(a)][KeyOf(a)] # None

ClaimsDoNotConflict ==
    \A a, b \in won \ lost : a # b /\ StoreOf(a) = StoreOf(b) => ~Conflict(a, b)

DispatchFollowsClaim ==
    /\ Compliant => dispatched \subseteq won
    /\ \A a \in Attempts : pc[a] = "dispatching" => a \notin dispatched /\ (Compliant => a \in won)
    /\ \A a \in dispatched : pc[a] \in {"executing", "recording"} \cup Ended
    /\ \A a \in Attempts : a \in dispatched \/ pc[a] = "dispatching" =>
          claim_decision[a] # None /\ Verdict[a][evidence_time[a]].status = "ACCEPT"

\* What keeps the claims apart: each part is preserved only with the others.
ClaimInv ==
    /\ TypeOK
    /\ LockFollowsCall
    /\ SeenContainsClock
    /\ GrantFollowsCheck
    /\ ClaimsAreKept
    /\ ClaimsDoNotConflict
    /\ DispatchFollowsClaim

Called == {"dispatching", "executing", "recording"} \cup Ended

\* A call that won its claim is past consume, so it never claims again.
ClaimsAreSpent == \A a \in won : pc[a] \in Called

\* Every decision is an answer of the guard, or a refusal of the store's.
DecisionsAreComputed ==
    \A a \in Attempts :
        /\ claim_decision[a] = None \/ \E t \in Times : claim_decision[a] = Verdict[a][t]
        /\ \/ decision[a] = None \/ \E t \in Times : decision[a] = Verdict[a][t]
           \/ \E reason \in StoreReasons : decision[a] = ReplayBlock(reason)

NotesFollowCall(a) ==
    /\ noted[a].executor_invoked = (a \in dispatched)
    /\ Compliant => noted[a].nonce_consumed = (a \in won)
    /\ noted[a].status # "NOT_INVOKED" => a \in dispatched
    /\ a \in dispatched /\ pc[a] \in {"recording", "done"} => noted[a].status # "NOT_INVOKED"

DecisionFollowsCall(a) ==
    /\ pc[a] = "granted" => claim_decision[a] = Verdict[a][evidence_time[a]]
    /\ pc[a] = "executing" => a \in dispatched
    /\ pc[a] \in {"dispatching", "executing"} => decision[a].status = "ACCEPT"
    /\ pc[a] \in {"recording", "done"} => (decision[a].status = "ACCEPT") = (a \in dispatched)
    /\ pc[a] \in {"dispatching", "executing", "recording", "done"} =>
          \/ decision[a].reasons \cap StoreReasons # {}
          \/ Verdict[a][evidence_time[a]] = decision[a]

BundleFollowsCall(a) ==
    bundle[a] # None =>
        /\ pc[a] = "done"
        /\ bundle[a].authorization = decision[a] /\ bundle[a].result = noted[a]
        /\ bundle[a].captured_at = evidence_time[a]
        /\ bundle[a].outcome = TerminalStatus(decision[a], noted[a].status)

\* The inductive invariant of a whole call, its evidence included.
CellInv ==
    /\ ClaimInv
    /\ ClaimsAreSpent
    /\ StoreHoldsGrantedClaims
    /\ Compliant => ReplayIsNeverFalse
    /\ DecisionsAreComputed
    /\ \A a \in Attempts : NotesFollowCall(a) /\ DecisionFollowsCall(a) /\ BundleFollowsCall(a)

=============================================================================
