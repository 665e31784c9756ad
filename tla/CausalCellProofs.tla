-------------------------- MODULE CausalCellProofs --------------------------
(***************************************************************************)
(* What holds of CausalCell for every set of attempts and processes, every *)
(* proposal, policy and clock: of claims and calls first, and then of what *)
(* an attempt leaves behind, which is the claims in its store, the replays *)
(* it is told of, and the bundle that records it.                          *)
(***************************************************************************)
EXTENDS CausalCell, TLAPS

-----------------------------------------------------------------------------
(* The guard always answers with one of its three statuses and with        *)
(* reasons it knows.                                                       *)

LEMMA DenialReasonsType ==
    ASSUME NEW p, NEW policy, NEW t
    PROVE  DenialReasons(p, policy, t) \subseteq GuardReasons
<1>1. BindingReasons(p, policy) \subseteq GuardReasons
  BY DEF BindingReasons, GuardReasons
<1>2. TimeReasons(p, t) \subseteq GuardReasons
  BY DEF TimeReasons, GuardReasons
<1>3. AuthorityReasons(p, policy) \subseteq GuardReasons
  BY DEF AuthorityReasons, GuardReasons
<1>4. DestinationReasons(p, policy) \subseteq GuardReasons
  BY DEF DestinationReasons, GuardReasons
<1> QED BY <1>1, <1>2, <1>3, <1>4 DEF DenialReasons

LEMMA DecisionType ==
    ASSUME NEW status \in Statuses, NEW S, NEW reasons \in SUBSET S
    PROVE  Decision(status, reasons) \in Decisions(S)
BY DEF Decision, Decisions

LEMMA ApprovalDecisionType ==
    ASSUME NEW p, NEW policy, NEW t
    PROVE  ApprovalDecision(p, policy, t) \in Decisions(GuardReasons)
<1>1. /\ Decision("HOLD", {"APPROVAL_REQUIRED"}) \in Decisions(GuardReasons)
      /\ Decision("ACCEPT", {}) \in Decisions(GuardReasons)
      /\ Decision("BLOCK", {"APPROVAL_UNKNOWN"}) \in Decisions(GuardReasons)
      /\ Decision("BLOCK", {"APPROVAL_REVOKED"}) \in Decisions(GuardReasons)
      /\ Decision("BLOCK", {"APPROVAL_EXPIRED"}) \in Decisions(GuardReasons)
      /\ Decision("BLOCK", {"APPROVAL_BINDING_MISMATCH"}) \in Decisions(GuardReasons)
  BY DEF Decision, Decisions, Statuses, GuardReasons
<1> QED BY <1>1 DEF ApprovalDecision

LEMMA EvaluateProposalType ==
    ASSUME NEW p, NEW policy, NEW t
    PROVE  EvaluateProposal(p, policy, t) \in Decisions(GuardReasons)
<1>1. StructuralReasons(p) \in SUBSET GuardReasons
  BY DEF StructuralReasons, GuardReasons
<1>2. {"POLICY_INVALID"} \in SUBSET GuardReasons
  BY DEF GuardReasons
<1>3. DenialReasons(p, policy, t) \in SUBSET GuardReasons
  BY DenialReasonsType
<1>4. "BLOCK" \in Statuses
  BY DEF Statuses
<1> QED BY <1>1, <1>2, <1>3, <1>4, DecisionType, ApprovalDecisionType DEF EvaluateProposal

LEMMA VerdictType ==
    ASSUME NEW a \in Attempts, NEW t \in Times
    PROVE  Verdict[a][t] \in CellDecisions
<1>1. Verdict[a][t] \in Decisions(GuardReasons)
  BY EvaluateProposalType DEF Verdict
<1> QED BY <1>1 DEF CellDecisions, Decisions

-----------------------------------------------------------------------------
(* Where an attempt's claim lives.                                         *)

LEMMA ClaimPlace ==
    ASSUME NEW a \in Attempts
    PROVE  /\ StoreOf(a) \in Stores
           /\ NonceOf(a) \in Nonces
           /\ KeyOf(a) \in Keys
           /\ DigestOf(a) \in Digests
           /\ DigestOf(a) # None
BY ConstantsAssumption, NoneAssumption DEF StoreOf, Stores, Nonces, Keys, Digests

-----------------------------------------------------------------------------
(* Type correctness.                                                       *)

\* Whatever a store answers, execute turns it into a decision and either the
\* dispatch or the record.
LEMMA AfterConsumeType ==
    ASSUME NEW a \in Attempts,
           NEW reason \in StoreReasons \cup {None}, NEW claim \in CellDecisions \cup {None},
           TypeOK, AfterConsume(a, reason, claim)
    PROVE  /\ noted' \in [Attempts -> Notes]
           /\ decision' \in [Attempts -> CellDecisions \cup {None}]
           /\ \A b \in Attempts : decision[b] # None => decision'[b] # None
           /\ decision'[a] # None
           /\ \E label \in {"dispatching", "recording"} : pc' = [pc EXCEPT ![a] = label]
<1>1. \A r \in StoreReasons : ReplayBlock(r) \in CellDecisions
  BY DEF ReplayBlock, Decision, CellDecisions, Decisions, Statuses
<1>2. /\ "NONCE_STORE_VALIDATION_INVALID" \in StoreReasons
      /\ "NONCE_STORE_VALIDATION_SKIPPED" \in StoreReasons
  BY DEF StoreReasons
<1>3. PICK d \in CellDecisions : decision' = [decision EXCEPT ![a] = d]
  BY <1>1, <1>2 DEF AfterConsume, Invalidated
<1>4. noted' \in [Attempts -> Notes]
  <2>1. PICK g \in BOOLEAN : noted' = [noted EXCEPT ![a].nonce_consumed = g]
    BY DEF AfterConsume
  <2>2. noted \in [Attempts -> Notes]
    BY DEF TypeOK
  <2>3. [noted[a] EXCEPT !.nonce_consumed = g] \in Notes
    BY <2>2 DEF Notes
  <2> QED BY <2>1, <2>2, <2>3
<1>5. \E label \in {"dispatching", "recording"} : pc' = [pc EXCEPT ![a] = label]
  BY DEF AfterConsume, Goto
<1> QED BY <1>3, <1>4, <1>5, NoneAssumption DEF TypeOK

\* The typing of what most actions leave alone.
LEMMA StepType ==
    ASSUME TypeOK, NEW a \in Attempts, Step(a)
    PROVE  TypeOK'
<1> USE ClaimPlace
<1>0. Decide(a) \in CellDecisions /\ Decide(a) # None
  BY VerdictType, NoneAssumption DEF Decide, TypeOK
<1>1. CASE Evaluate(a)
  <2>1. PICK label \in {"claiming", "recording"} : pc' = [pc EXCEPT ![a] = label]
    BY <1>1 DEF Evaluate, Goto
  <2> QED BY <1>0, <1>1, <2>1, NoneAssumption DEF Evaluate, TypeOK, InFlight, storeVars
<1>2. CASE Acquire(a)
  BY <1>2 DEF Acquire, TypeOK, Goto, InFlight, cellVars
<1>3. CASE BusyTimeout(a)
  BY <1>3 DEF BusyTimeout, TypeOK, Goto, InFlight, Ended, cellVars, storeVars
<1>4. CASE FindReplay(a)
  <2>1. ReplayReason(a) \in StoreReasons \cup {None}
    BY DEF ReplayReason, StoreReasons
  <2>2. AfterConsume(a, ReplayReason(a), None)
    BY <1>4 DEF FindReplay
  <2> QED BY <1>4, <2>1, <2>2, AfterConsumeType, ZenonT(40) DEF FindReplay, Release, TypeOK, InFlight
<1>5. CASE ValidateClaim(a)
  <2>1. CASE Decide(a).status = "ACCEPT"
    BY <1>0, <1>5, <2>1, NoneAssumption, ZenonT(40) DEF ValidateClaim, TypeOK, Goto, InFlight
  <2>2. CASE Decide(a).status # "ACCEPT"
    <3>1. AfterConsume(a, Invalidated, Decide(a)) /\ Release(a)
      BY <1>5, <2>2 DEF ValidateClaim
    <3>2. Invalidated \in StoreReasons
      BY DEF StoreReasons
    <3>3. /\ noted' \in [Attempts -> Notes]
          /\ decision' \in [Attempts -> CellDecisions \cup {None}]
          /\ \A b \in Attempts : decision[b] # None => decision'[b] # None
          /\ decision'[a] # None
          /\ \E label \in {"dispatching", "recording"} : pc' = [pc EXCEPT ![a] = label]
      BY <1>0, <3>1, <3>2, AfterConsumeType
    <3>4. /\ evidence_time' = [evidence_time EXCEPT ![a] = clock]
          /\ claim_decision' = [claim_decision EXCEPT ![a] = Decide(a)]
          /\ UNCHANGED <<clock, consumed, idempotency, won, lost, bundle, dispatched>>
      BY <1>5 DEF ValidateClaim
    <3> QED BY <1>0, <3>1, <3>3, <3>4, NoneAssumption DEF Release, TypeOK, InFlight
  <2> QED BY <2>1, <2>2
<1>6. CASE Commit(a)
  <2>1. claim_decision[a] \in CellDecisions \cup {None} /\ AfterConsume(a, None, claim_decision[a])
    BY <1>6 DEF Commit, TypeOK
  <2> QED BY <1>6, <2>1, AfterConsumeType, ZenonT(40) DEF Commit, Release, TypeOK, InFlight
<1>7. CASE ConsumeRaises(a)
  BY <1>7 DEF ConsumeRaises, Release, TypeOK, Goto, InFlight, Ended, cellVars
<1>8. CASE NoncompliantConsume(a)
  <2>1. PICK reason \in {None, Invalidated, "INTENT_REPLAYED"}, claim \in {None, Decide(a)} :
          /\ AfterConsume(a, reason, claim)
          /\ claim_decision' = [claim_decision EXCEPT ![a] = claim]
          /\ evidence_time' = IF claim = None THEN evidence_time
                              ELSE [evidence_time EXCEPT ![a] = clock]
    BY <1>8 DEF NoncompliantConsume
  <2>2. reason \in StoreReasons \cup {None} /\ claim \in CellDecisions \cup {None}
    BY <1>0 DEF StoreReasons
  <2>3. /\ noted' \in [Attempts -> Notes]
        /\ decision' \in [Attempts -> CellDecisions \cup {None}]
        /\ \A b \in Attempts : decision[b] # None => decision'[b] # None
        /\ decision'[a] # None
        /\ \E label \in {"dispatching", "recording"} : pc' = [pc EXCEPT ![a] = label]
    BY <2>1, <2>2, AfterConsumeType
  <2>4. /\ claim_decision' \in [Attempts -> CellDecisions \cup {None}]
        /\ evidence_time' \in [Attempts -> Times \cup {None}]
        /\ \A b \in Attempts : evidence_time[b] # None => evidence_time'[b] # None
        /\ pc[a] = "claiming"
    BY <1>8, <2>1, <2>2, NoneAssumption DEF NoncompliantConsume, TypeOK
  <2>5. UNCHANGED <<clock, consumed, idempotency, holder, seen, won, lost, bundle, dispatched>>
    BY <1>8 DEF NoncompliantConsume, storeVars
  <2>6. PICK label \in {"dispatching", "recording"} : pc' = [pc EXCEPT ![a] = label]
    BY <2>3
  <2>7. pc' \in [Attempts -> {"idle"} \cup InFlight \cup Ended]
    BY <2>6 DEF TypeOK, InFlight
  <2>8. \A b \in Attempts : pc'[b] # "idle" => decision'[b] # None /\ evidence_time'[b] # None
    BY <2>3, <2>4, <2>6 DEF TypeOK
  <2> QED BY <2>3, <2>4, <2>5, <2>7, <2>8 DEF TypeOK
<1>9. CASE Dispatch(a)
  <2>1. [noted[a] EXCEPT !.executor_invoked = TRUE] \in Notes
    BY ZenonT(40) DEF TypeOK, Notes
  <2> QED BY <1>9, <2>1 DEF Dispatch, TypeOK, Goto, InFlight, storeVars
<1>10. CASE ExecutorEnds(a)
  <2>1. PICK status \in {"EXECUTOR_RETURNED", "EXECUTOR_ERROR"} :
          noted' = [noted EXCEPT ![a].status = status]
    BY <1>10 DEF ExecutorEnds
  <2>2. [noted[a] EXCEPT !.status = status] \in Notes
    BY ZenonT(40) DEF TypeOK, Notes
  <2> QED BY <1>10, <2>1, <2>2 DEF ExecutorEnds, TypeOK, Goto, InFlight, storeVars
<1>11. CASE WriteBundle(a)
  <2>1. decision[a] \in CellDecisions /\ evidence_time[a] \in Times /\ noted[a] \in Notes
    BY <1>11 DEF WriteBundle, TypeOK
  <2>2. decision[a].status \in {"ACCEPT", "HOLD", "BLOCK"}
    BY <2>1 DEF CellDecisions, Decisions, Statuses
  <2>3. RequestState(decision[a]) \in {"DEFERRED", "ACCEPTED", "CREATED", None}
    BY <2>2 DEF RequestState
  <2>4. TerminalStatus(decision[a], noted[a].status) \in {"REJECTED", "COMPLETED", "FAILED", None}
    BY DEF TerminalStatus
  <2>5. bundle'[a] \in Bundles /\ bundle' \in [Attempts -> Bundles \cup {None}]
    BY <1>11, <2>1, <2>3, <2>4 DEF WriteBundle, TypeOK, Bundles
  <2> QED BY <1>11, <2>5 DEF WriteBundle, TypeOK, Goto, InFlight, Ended, storeVars
<1>12. CASE EvidenceFails(a)
  BY <1>12 DEF EvidenceFails, TypeOK, Goto, InFlight, Ended, cellVars, storeVars
<1> QED BY <1>1, <1>2, <1>3, <1>4, <1>5, <1>6, <1>7, <1>8, <1>9, <1>10, <1>11, <1>12 DEF Step

LEMMA EnvironmentType ==
    ASSUME TypeOK, (\E p \in Processes : Crash(p)) \/ AdjustClock \/ UNCHANGED vars
    PROVE  TypeOK'
<1>1. CASE \E p \in Processes : Crash(p)
  <2>1. PICK p \in Processes : Crash(p)
    BY <1>1
  <2>2. /\ pc' \in [Attempts -> {"idle"} \cup InFlight \cup Ended]
        /\ \A a \in Attempts : pc'[a] # "idle" => pc[a] # "idle"
    BY <2>1 DEF Crash, TypeOK, InFlight, Ended
  <2>3. /\ holder' \in [Stores -> Attempts \cup {None}]
        /\ seen' \in [Stores -> SUBSET Times]
    BY <2>1 DEF Crash, TypeOK
  <2>4. /\ consumed' \in [Stores -> [Nonces -> Digests \cup {None}]]
        /\ idempotency' \in [Stores -> [Keys -> Digests \cup {None}]]
    <3>1. CASE Durable
      BY <2>1, <3>1 DEF Crash, TypeOK
    <3>2. CASE ~Durable
      <4>1. /\ consumed' = [consumed EXCEPT ![p] = [n \in Nonces |-> None]]
            /\ idempotency' = [idempotency EXCEPT ![p] = [k \in Keys |-> None]]
        BY <2>1, <3>2 DEF Crash
      <4>2. /\ [n \in Nonces |-> None] \in [Nonces -> Digests \cup {None}]
            /\ [k \in Keys |-> None] \in [Keys -> Digests \cup {None}]
        OBVIOUS
      <4> QED BY <4>1, <4>2 DEF TypeOK
    <3> QED BY <3>1, <3>2
  <2>5. lost' \subseteq won
    BY <2>1 DEF Crash, TypeOK
  <2>6. UNCHANGED <<clock, won, dispatched, decision, claim_decision, evidence_time, noted, bundle>>
    BY <2>1 DEF Crash, cellVars
  <2> QED BY <2>2, <2>3, <2>4, <2>5, <2>6 DEF TypeOK
<1>2. CASE AdjustClock
  BY <1>2 DEF AdjustClock, TypeOK, cellVars
<1>3. CASE UNCHANGED vars
  BY <1>3 DEF TypeOK, vars, cellVars, storeVars
<1> QED BY <1>1, <1>2, <1>3

LEMMA InitType == Init => TypeOK
  BY DEF Init, TypeOK, Notes, InFlight, Ended

\* Every reachable state is well typed: in particular execute never records a
\* decision it does not have, and never leaves an attempt without a time.
THEOREM TypeCorrect == Spec => []TypeOK
<1>1. TypeOK /\ [Next]_vars => TypeOK'
  BY StepType, EnvironmentType DEF Next, AllEnded
<1> QED BY InitType, <1>1, PTL DEF Spec

-----------------------------------------------------------------------------
(* The lock is held by the call that is inside consume.                    *)

LEMMA AfterConsumePc ==
    ASSUME NEW a \in Attempts, NEW reason, NEW claim, AfterConsume(a, reason, claim)
    PROVE  \E label \in {"dispatching", "recording"} : pc' = [pc EXCEPT ![a] = label]
BY DEF AfterConsume, Goto

LEMMA LockStep ==
    ASSUME TypeOK, LockFollowsCall, NEW a \in Attempts, Step(a)
    PROVE  LockFollowsCall'
<1> USE ClaimPlace, NoneAssumption DEF LockFollowsCall, TypeOK
<1>1. CASE Acquire(a)
  BY <1>1 DEF Acquire, Goto
<1>2. ASSUME NEW label, Goto(a, label), label \notin {"locked", "granted"},
             pc[a] \notin {"locked", "granted"}, UNCHANGED holder
      PROVE  LockFollowsCall'
  BY <1>2 DEF Goto
<1>3. ASSUME NEW label, Goto(a, label), label \notin {"locked", "granted"},
             pc[a] \in {"locked", "granted"}, Release(a)
      PROVE  LockFollowsCall'
  BY <1>3 DEF Goto, Release
<1>4. CASE pc[a] = "locked" /\ Goto(a, "granted") /\ UNCHANGED holder
  BY <1>4 DEF Goto
<1>5. CASE Evaluate(a)
  <2>1. CASE Decide(a).status = "ACCEPT"
    BY <1>2, <1>5, <2>1 DEF Evaluate, storeVars
  <2>2. CASE Decide(a).status # "ACCEPT"
    BY <1>2, <1>5, <2>2 DEF Evaluate, storeVars
  <2> QED BY <2>1, <2>2
<1>6. CASE BusyTimeout(a)
  BY <1>2, <1>6 DEF BusyTimeout, storeVars
<1>7. CASE FindReplay(a) \/ Commit(a)
  <2>1. PICK label \in {"dispatching", "recording"} : Goto(a, label)
    BY <1>7, AfterConsumePc DEF FindReplay, Commit, Goto
  <2>2. pc[a] \in {"locked", "granted"} /\ Release(a)
    BY <1>7 DEF FindReplay, Commit
  <2> QED BY <1>3, <2>1, <2>2
<1>8. CASE ConsumeRaises(a)
  BY <1>3, <1>8 DEF ConsumeRaises
<1>9. CASE ValidateClaim(a)
  <2>1. CASE Decide(a).status = "ACCEPT"
    BY <1>4, <1>9, <2>1 DEF ValidateClaim
  <2>2. CASE Decide(a).status # "ACCEPT"
    <3>1. PICK label \in {"dispatching", "recording"} : Goto(a, label)
      BY <1>9, <2>2, AfterConsumePc DEF ValidateClaim, Goto
    <3> QED BY <1>3, <1>9, <2>2, <3>1 DEF ValidateClaim
  <2> QED BY <2>1, <2>2
<1>10. CASE NoncompliantConsume(a)
  <2>1. PICK label \in {"dispatching", "recording"} : Goto(a, label)
    BY <1>10, AfterConsumePc DEF NoncompliantConsume, Goto
  <2> QED BY <1>2, <1>10, <2>1 DEF NoncompliantConsume, storeVars
<1>11. CASE Dispatch(a)
  BY <1>2, <1>11 DEF Dispatch, storeVars
<1>12. CASE ExecutorEnds(a)
  BY <1>2, <1>12 DEF ExecutorEnds, storeVars
<1>13. CASE WriteBundle(a)
  BY <1>2, <1>13 DEF WriteBundle, storeVars
<1>14. CASE EvidenceFails(a)
  BY <1>2, <1>14 DEF EvidenceFails, storeVars
<1> QED BY <1>1, <1>5, <1>6, <1>7, <1>8, <1>9, <1>10, <1>11, <1>12, <1>13, <1>14 DEF Step

LEMMA LockEnvironment ==
    ASSUME TypeOK, LockFollowsCall,
           (\E p \in Processes : Crash(p)) \/ AdjustClock \/ UNCHANGED vars
    PROVE  LockFollowsCall'
<1> USE ClaimPlace, NoneAssumption DEF LockFollowsCall, TypeOK
<1>1. ASSUME NEW p \in Processes, Crash(p) PROVE LockFollowsCall'
  BY <1>1 DEF Crash, InFlight
<1>2. CASE AdjustClock
  BY <1>2 DEF AdjustClock
<1>3. CASE UNCHANGED vars
  BY <1>3 DEF vars, storeVars
<1> QED BY <1>1, <1>2, <1>3

-----------------------------------------------------------------------------
(* What a step of one attempt leaves alone.                                *)

LEMMA StepFrame ==
    ASSUME TypeOK, NEW a \in Attempts, Step(a)
    PROVE  /\ \A b \in Attempts \ {a} : /\ pc'[b] = pc[b]
                                         /\ claim_decision'[b] = claim_decision[b]
                                         /\ evidence_time'[b] = evidence_time[b]
           /\ UNCHANGED <<clock, lost>>
<1> USE DEF TypeOK, Goto
<1>1. CASE FindReplay(a) \/ Commit(a)
  <2>1. PICK label : pc' = [pc EXCEPT ![a] = label]
    BY <1>1, AfterConsumePc DEF FindReplay, Commit
  <2> QED BY <1>1, <2>1 DEF FindReplay, Commit
<1>2. CASE ValidateClaim(a)
  <2>1. PICK label : pc' = [pc EXCEPT ![a] = label]
    BY <1>2, AfterConsumePc DEF ValidateClaim
  <2> QED BY <1>2, <2>1 DEF ValidateClaim
<1>3. CASE NoncompliantConsume(a)
  <2>1. PICK label : pc' = [pc EXCEPT ![a] = label]
    BY <1>3, AfterConsumePc DEF NoncompliantConsume
  <2>2. \A b \in Attempts \ {a} : /\ claim_decision'[b] = claim_decision[b]
                                  /\ evidence_time'[b] = evidence_time[b]
    BY <1>3 DEF NoncompliantConsume
  <2> QED BY <1>3, <2>1, <2>2 DEF NoncompliantConsume, storeVars
<1>4. CASE Evaluate(a)
  BY <1>4 DEF Evaluate, storeVars
<1>5. CASE Acquire(a) \/ BusyTimeout(a) \/ ConsumeRaises(a) \/ EvidenceFails(a)
  BY <1>5 DEF Acquire, BusyTimeout, ConsumeRaises, EvidenceFails, cellVars, storeVars
<1>6. CASE Dispatch(a) \/ ExecutorEnds(a) \/ WriteBundle(a)
  BY <1>6 DEF Dispatch, ExecutorEnds, WriteBundle, storeVars
<1> QED BY <1>1, <1>2, <1>3, <1>4, <1>5, <1>6 DEF Step

\* Only a commit writes the store.
LEMMA OnlyCommitWrites ==
    ASSUME NEW a \in Attempts, Step(a)
    PROVE  Commit(a) \/ UNCHANGED <<consumed, idempotency, won>>
BY DEF Step, Evaluate, Acquire, BusyTimeout, FindReplay, ValidateClaim, ConsumeRaises,
       NoncompliantConsume, Dispatch, ExecutorEnds, WriteBundle, EvidenceFails, storeVars

\* Only a dispatch calls the executor.
LEMMA OnlyDispatchCalls ==
    ASSUME NEW a \in Attempts, Step(a)
    PROVE  Dispatch(a) \/ UNCHANGED dispatched
BY DEF Step, Evaluate, Acquire, BusyTimeout, FindReplay, ValidateClaim, Commit, ConsumeRaises,
       NoncompliantConsume, ExecutorEnds, WriteBundle, EvidenceFails

\* A store whose lock somebody else holds is out of an attempt's reach.
LEMMA HeldStoreFrame ==
    ASSUME TypeOK, LockFollowsCall, NEW a \in Attempts, Step(a),
           NEW b \in Attempts, b # a, pc[b] \in {"locked", "granted"}
    PROVE  /\ seen'[StoreOf(b)] = seen[StoreOf(b)]
           /\ consumed'[StoreOf(b)] = consumed[StoreOf(b)]
           /\ idempotency'[StoreOf(b)] = idempotency[StoreOf(b)]
<1> USE ClaimPlace, NoneAssumption DEF TypeOK
<1>1. holder[StoreOf(b)] = b
  BY DEF LockFollowsCall
<1>2. CASE pc[a] \in {"locked", "granted"}
  <2>1. StoreOf(a) # StoreOf(b)
    BY <1>1, <1>2 DEF LockFollowsCall
  <2>2. seen'[StoreOf(b)] = seen[StoreOf(b)]
    BY <1>2, <2>1 DEF Step, Evaluate, Acquire, BusyTimeout, FindReplay, ValidateClaim, Commit,
         ConsumeRaises, NoncompliantConsume, Dispatch, ExecutorEnds, WriteBundle, EvidenceFails,
         Release
  <2>3. CASE Commit(a)
    BY <2>1, <2>2, <2>3 DEF Commit
  <2> QED BY <2>2, <2>3, OnlyCommitWrites
<1>3. CASE Acquire(a)
  BY <1>1, <1>3 DEF Acquire
<1>4. CASE pc[a] \notin {"locked", "granted"} /\ ~Acquire(a)
  BY <1>4 DEF Step, Evaluate, BusyTimeout, FindReplay, ValidateClaim, Commit, ConsumeRaises,
       NoncompliantConsume, Dispatch, ExecutorEnds, WriteBundle, EvidenceFails, storeVars
<1> QED BY <1>2, <1>3, <1>4

-----------------------------------------------------------------------------
(* What a call has checked under the lock stays true until it commits.     *)

LEMMA ReplayReasonNone ==
    ASSUME NEW a \in Attempts
    PROVE  ReplayReason(a) = None <=> /\ consumed[StoreOf(a)][NonceOf(a)] = None
                                     /\ idempotency[StoreOf(a)][KeyOf(a)] = None
BY NoneAssumption DEF ReplayReason, StoreReasons

LEMMA OnlyValidationGrants ==
    ASSUME TypeOK, NEW a \in Attempts, Step(a), pc'[a] = "granted"
    PROVE  ValidateClaim(a) /\ Decide(a).status = "ACCEPT"
<1> USE DEF TypeOK, Goto
<1>1. ~FindReplay(a) /\ ~Commit(a) /\ ~NoncompliantConsume(a)
  BY AfterConsumePc DEF FindReplay, Commit, NoncompliantConsume
<1>2. CASE ValidateClaim(a)
  BY <1>2, AfterConsumePc DEF ValidateClaim
<1> QED BY <1>1, <1>2 DEF Step, Evaluate, Acquire, BusyTimeout, ConsumeRaises, Dispatch,
         ExecutorEnds, WriteBundle, EvidenceFails

LEMMA GrantStep ==
    ASSUME TypeOK, LockFollowsCall, GrantFollowsCheck, SeenContainsClock, NEW a \in Attempts, Step(a)
    PROVE  GrantFollowsCheck'
<1> SUFFICES ASSUME NEW b \in Attempts, pc'[b] = "granted"
             PROVE  /\ ReplayReason(b)' = None
                    /\ claim_decision'[b] # None /\ claim_decision'[b].status = "ACCEPT"
                    /\ evidence_time'[b] \in seen'[StoreOf(b)]
                    /\ Verdict[b][evidence_time'[b]].status = "ACCEPT"
  BY DEF GrantFollowsCheck
<1>1. CASE b = a
  <2>1. ValidateClaim(a) /\ Decide(a).status = "ACCEPT"
    BY <1>1, OnlyValidationGrants
  <2>2. /\ evidence_time'[a] = clock /\ claim_decision'[a] = Decide(a)
        /\ UNCHANGED <<seen, consumed, idempotency>> /\ ReplayReason(a) = None
        /\ pc[a] = "locked"
    BY <2>1 DEF ValidateClaim, TypeOK
  <2>3. Decide(a) # None
    BY VerdictType, NoneAssumption DEF Decide, TypeOK
  <2>4. clock \in seen[StoreOf(a)]
    BY <2>2 DEF SeenContainsClock
  <2>5. ReplayReason(a)' = None
    BY <2>2 DEF ReplayReason
  <2> QED BY <1>1, <2>1, <2>2, <2>3, <2>4, <2>5 DEF Decide
<1>2. CASE b # a
  <2>1. /\ pc[b] = "granted"
        /\ claim_decision'[b] = claim_decision[b] /\ evidence_time'[b] = evidence_time[b]
    BY <1>2, StepFrame
  <2>2. /\ seen'[StoreOf(b)] = seen[StoreOf(b)]
        /\ consumed'[StoreOf(b)] = consumed[StoreOf(b)]
        /\ idempotency'[StoreOf(b)] = idempotency[StoreOf(b)]
    BY <1>2, <2>1, HeldStoreFrame
  <2>3. ReplayReason(b)' = ReplayReason(b)
    BY <2>2 DEF ReplayReason
  <2> QED BY <2>1, <2>2, <2>3 DEF GrantFollowsCheck
<1> QED BY <1>1, <1>2

LEMMA SeenStep ==
    ASSUME TypeOK, LockFollowsCall, SeenContainsClock, NEW a \in Attempts, Step(a)
    PROVE  SeenContainsClock'
<1> SUFFICES ASSUME NEW b \in Attempts, pc'[b] \in {"locked", "granted"}
             PROVE  clock' \in seen'[StoreOf(b)]
  BY DEF SeenContainsClock
<1>0. clock' = clock
  BY StepFrame
<1>1. CASE b # a
  <2>1. pc[b] \in {"locked", "granted"}
    BY <1>1, StepFrame
  <2> QED BY <1>0, <1>1, <2>1, HeldStoreFrame DEF SeenContainsClock
<1>2. CASE b = a /\ pc'[a] = "granted"
  <2>1. pc[a] = "locked" /\ UNCHANGED seen
    BY <1>2, OnlyValidationGrants DEF ValidateClaim
  <2> QED BY <1>0, <1>2, <2>1 DEF SeenContainsClock
<1>3. CASE b = a /\ pc'[a] = "locked"
  <2> USE DEF TypeOK, Goto
  <2>1. ~FindReplay(a) /\ ~Commit(a) /\ ~NoncompliantConsume(a)
    BY <1>3, AfterConsumePc DEF FindReplay, Commit, NoncompliantConsume
  <2>2. ~ValidateClaim(a)
    BY <1>3, AfterConsumePc DEF ValidateClaim
  <2>3. Acquire(a)
    BY <1>3, <2>1, <2>2 DEF Step, Evaluate, BusyTimeout, ConsumeRaises, Dispatch, ExecutorEnds,
         WriteBundle, EvidenceFails
  <2> QED BY <1>3, <2>3, ClaimPlace DEF Acquire
<1> QED BY <1>1, <1>2, <1>3

LEMMA LockedEnvironment ==
    ASSUME TypeOK, LockFollowsCall, SeenContainsClock, GrantFollowsCheck,
           (\E p \in Processes : Crash(p)) \/ AdjustClock \/ UNCHANGED vars
    PROVE  SeenContainsClock' /\ GrantFollowsCheck'
<1> USE ClaimPlace, NoneAssumption DEF TypeOK
<1>1. ASSUME NEW p \in Processes, Crash(p) PROVE SeenContainsClock' /\ GrantFollowsCheck'
  <2>1. ASSUME NEW b \in Attempts, pc'[b] \in {"locked", "granted"}
        PROVE  /\ pc[b] = pc'[b] /\ seen'[StoreOf(b)] = seen[StoreOf(b)]
               /\ ReplayReason(b) = None => ReplayReason(b)' = None
    <3>1. pc[b] = pc'[b]
      BY <1>1, <2>1 DEF Crash
    <3>2. holder[StoreOf(b)] = b
      BY <2>1, <3>1 DEF LockFollowsCall
    <3>3. seen'[StoreOf(b)] = seen[StoreOf(b)]
      BY <1>1, <2>1, <3>2 DEF Crash, InFlight
    <3>4. CASE Durable
      BY <1>1, <3>1, <3>3, <3>4 DEF Crash, ReplayReason
    <3>5. CASE ~Durable
      <4>1. /\ consumed' = [consumed EXCEPT ![p] = [n \in Nonces |-> None]]
            /\ idempotency' = [idempotency EXCEPT ![p] = [k \in Keys |-> None]]
        BY <1>1, <3>5 DEF Crash
      <4>2. ReplayReason(b) = None => ReplayReason(b)' = None
        BY <4>1, NoneAssumption DEF ReplayReason, StoreReasons
      <4> QED BY <3>1, <3>3, <4>2
    <3> QED BY <3>4, <3>5
  <2>2. UNCHANGED <<clock, claim_decision, evidence_time>>
    BY <1>1 DEF Crash, cellVars
  <2> QED BY <2>1, <2>2 DEF SeenContainsClock, GrantFollowsCheck
<1>2. CASE AdjustClock
  <2>1. ASSUME NEW b \in Attempts, pc'[b] \in {"locked", "granted"}
        PROVE  /\ pc[b] = pc'[b] /\ clock' \in seen'[StoreOf(b)]
               /\ seen[StoreOf(b)] \subseteq seen'[StoreOf(b)]
               /\ ReplayReason(b)' = ReplayReason(b)
    <3>1. pc[b] = pc'[b]
      BY <1>2 DEF AdjustClock
    <3>2. holder[StoreOf(b)] = b
      BY <2>1, <3>1 DEF LockFollowsCall
    <3> QED BY <1>2, <3>1, <3>2 DEF AdjustClock, ReplayReason
  <2>2. UNCHANGED <<claim_decision, evidence_time>>
    BY <1>2 DEF AdjustClock, cellVars
  <2> QED BY <2>1, <2>2 DEF SeenContainsClock, GrantFollowsCheck
<1>3. CASE UNCHANGED vars
  BY <1>3 DEF SeenContainsClock, GrantFollowsCheck, ReplayReason, vars, cellVars, storeVars
<1> QED BY <1>1, <1>2, <1>3

-----------------------------------------------------------------------------
(* Claims: a commit finds its nonce and its key free, so it conflicts with *)
(* no claim the store still knows.                                         *)

LEMMA CommitFindsRoom ==
    ASSUME TypeOK, GrantFollowsCheck, ClaimsAreKept, NEW a \in Attempts, Commit(a),
           NEW b \in won \ lost, StoreOf(a) = StoreOf(b)
    PROVE  ~Conflict(a, b)
<1>1. /\ consumed[StoreOf(a)][NonceOf(a)] = None
      /\ idempotency[StoreOf(a)][KeyOf(a)] = None
  BY ReplayReasonNone DEF Commit, GrantFollowsCheck
<1>2. /\ consumed[StoreOf(a)][NonceOf(b)] # None
      /\ idempotency[StoreOf(a)][KeyOf(b)] # None
  BY DEF ClaimsAreKept
<1> QED BY <1>1, <1>2 DEF Conflict

LEMMA ClaimsStep ==
    ASSUME TypeOK, GrantFollowsCheck, ClaimsAreKept, ClaimsDoNotConflict, NEW a \in Attempts, Step(a)
    PROVE  ClaimsAreKept' /\ ClaimsDoNotConflict'
<1> USE ClaimPlace
<1>0. lost' = lost
  BY StepFrame
<1>1. CASE Commit(a)
  <2>1. /\ consumed' = [consumed EXCEPT ![StoreOf(a)][NonceOf(a)] = DigestOf(a)]
        /\ idempotency' = [idempotency EXCEPT ![StoreOf(a)][KeyOf(a)] = DigestOf(a)]
        /\ won' = won \cup {a}
    BY <1>1 DEF Commit
  <2>2. \A b \in won' \ lost' : /\ consumed'[StoreOf(b)][NonceOf(b)] # None
                                /\ idempotency'[StoreOf(b)][KeyOf(b)] # None
    <3>1. ASSUME NEW b \in Attempts, b \in won' \ lost'
          PROVE  /\ consumed'[StoreOf(b)][NonceOf(b)] # None
                 /\ idempotency'[StoreOf(b)][KeyOf(b)] # None
      <4>1. CASE b = a
        BY <2>1, <4>1 DEF TypeOK
      <4>2. CASE b # a
        BY <1>0, <2>1, <3>1, <4>2 DEF TypeOK, ClaimsAreKept
      <4> QED BY <4>1, <4>2
    <3> QED BY <2>1, <3>1 DEF TypeOK
  <2>3. ClaimsDoNotConflict'
    <3>1. ASSUME NEW b \in won' \ lost', NEW c \in won' \ lost', b # c, StoreOf(b) = StoreOf(c)
          PROVE  ~Conflict(b, c)
      <4>1. CASE b \in won /\ c \in won
        BY <1>0, <3>1, <4>1 DEF ClaimsDoNotConflict
      <4>2. CASE b = a
        BY <1>0, <1>1, <2>1, <3>1, <4>2, CommitFindsRoom
      <4>3. CASE c = a
        BY <1>0, <1>1, <2>1, <3>1, <4>3, CommitFindsRoom DEF Conflict
      <4> QED BY <2>1, <4>1, <4>2, <4>3
    <3> QED BY <3>1 DEF ClaimsDoNotConflict, Conflict
  <2> QED BY <1>0, <2>2, <2>3 DEF ClaimsAreKept
<1>2. CASE UNCHANGED <<consumed, idempotency, won>>
  BY <1>0, <1>2 DEF ClaimsAreKept, ClaimsDoNotConflict, Conflict
<1> QED BY <1>1, <1>2, OnlyCommitWrites

LEMMA ClaimsEnvironment ==
    ASSUME TypeOK, ClaimsAreKept, ClaimsDoNotConflict,
           (\E p \in Processes : Crash(p)) \/ AdjustClock \/ UNCHANGED vars
    PROVE  ClaimsAreKept' /\ ClaimsDoNotConflict'
<1>1. ASSUME NEW p \in Processes, Crash(p) PROVE ClaimsAreKept' /\ ClaimsDoNotConflict'
  <2>0. won' = won /\ lost \subseteq lost'
    BY <1>1 DEF Crash
  <2>1. CASE Durable
    <3>1. UNCHANGED <<consumed, idempotency, lost, won>>
      BY <1>1, <2>1 DEF Crash
    <3> QED BY <3>1 DEF ClaimsAreKept, ClaimsDoNotConflict, Conflict
  <2>2. CASE ~Durable
    <3>1. /\ consumed' = [consumed EXCEPT ![p] = [n \in Nonces |-> None]]
          /\ idempotency' = [idempotency EXCEPT ![p] = [k \in Keys |-> None]]
          /\ lost' = lost \cup {a \in won : ProcessOf[a] = p}
      BY <1>1, <2>2 DEF Crash
    <3>2. ASSUME NEW b \in Attempts, b \in won' \ lost'
          PROVE  /\ consumed'[StoreOf(b)][NonceOf(b)] # None
                 /\ idempotency'[StoreOf(b)][KeyOf(b)] # None
      <4>1. b \in won \ lost /\ StoreOf(b) # p
        BY <2>0, <2>2, <3>1, <3>2 DEF StoreOf
      <4> QED BY <3>1, <4>1, ClaimPlace DEF ClaimsAreKept, TypeOK
    <3>3. ClaimsAreKept'
      BY <2>0, <2>2, <3>2 DEF ClaimsAreKept, TypeOK
    <3> QED BY <2>0, <3>3 DEF ClaimsDoNotConflict, Conflict
  <2> QED BY <2>1, <2>2
<1>2. CASE AdjustClock \/ UNCHANGED vars
  BY <1>2 DEF AdjustClock, vars, storeVars, ClaimsAreKept, ClaimsDoNotConflict, Conflict
<1> QED BY <1>1, <1>2

-----------------------------------------------------------------------------
(* Dispatch: only on one's own fresh claim.                                *)

\* AfterConsume moves to the dispatch only on None and an accepting claim.
LEMMA GrantedMeansFresh ==
    ASSUME TypeOK, NEW a \in Attempts, NEW reason, NEW claim, AfterConsume(a, reason, claim),
           pc'[a] = "dispatching"
    PROVE  reason = None /\ claim # None /\ claim.status = "ACCEPT"
BY DEF AfterConsume, Goto, TypeOK

LEMMA OnlyGrantLeadsToDispatch ==
    ASSUME TypeOK, GrantFollowsCheck, NEW a \in Attempts, Step(a), pc'[a] = "dispatching"
    PROVE  /\ pc[a] \in {"claiming", "granted"}
           /\ Compliant => a \in won'
           /\ claim_decision'[a] # None
           /\ Verdict[a][evidence_time'[a]].status = "ACCEPT"
<1>1. ~FindReplay(a)
  BY GrantedMeansFresh, NoneAssumption DEF FindReplay
<1>2. ~ValidateClaim(a)
  <2>1. Invalidated # None
    BY NoneAssumption DEF StoreReasons
  <2> QED BY <2>1, GrantedMeansFresh DEF ValidateClaim, Goto, TypeOK
<1>3. CASE Commit(a)
  BY <1>3 DEF Commit, GrantFollowsCheck
<1>4. CASE NoncompliantConsume(a)
  <2>1. PICK reason \in {None, Invalidated, "INTENT_REPLAYED"}, claim \in {None, Decide(a)} :
          /\ AfterConsume(a, reason, claim)
          /\ claim_decision' = [claim_decision EXCEPT ![a] = claim]
          /\ evidence_time' = IF claim = None THEN evidence_time
                              ELSE [evidence_time EXCEPT ![a] = clock]
    BY <1>4 DEF NoncompliantConsume
  <2>2. claim # None /\ claim.status = "ACCEPT"
    BY <2>1, GrantedMeansFresh
  <2>3. claim_decision'[a] # None /\ evidence_time'[a] = clock
    BY <2>1, <2>2 DEF TypeOK
  <2>4. Verdict[a][evidence_time'[a]].status = "ACCEPT"
    BY <2>1, <2>2, <2>3 DEF Decide
  <2> QED BY <1>4, <2>3, <2>4 DEF NoncompliantConsume
<1> QED BY <1>1, <1>2, <1>3, <1>4 DEF Step, Evaluate, Acquire, BusyTimeout, ConsumeRaises,
         Dispatch, ExecutorEnds, WriteBundle, EvidenceFails, Goto, TypeOK

\* From the dispatch on an attempt's claim and the time of its claim are fixed.
LEMMA AfterDispatchFrame ==
    ASSUME TypeOK, NEW a \in Attempts, Step(a),
           pc[a] \in {"dispatching", "executing", "recording"} \cup Ended
    PROVE  /\ pc'[a] \in {"executing", "recording"} \cup Ended
           /\ UNCHANGED <<claim_decision, evidence_time>>
BY DEF Step, Evaluate, Acquire, BusyTimeout, FindReplay, ValidateClaim, Commit, ConsumeRaises,
       NoncompliantConsume, Dispatch, ExecutorEnds, WriteBundle, EvidenceFails, Goto, TypeOK,
       Ended, cellVars

LEMMA DispatchStep ==
    ASSUME TypeOK, GrantFollowsCheck, DispatchFollowsClaim, NEW a \in Attempts, Step(a)
    PROVE  DispatchFollowsClaim'
<1>1. won \subseteq won'
  BY OnlyCommitWrites DEF Commit
<1>2. dispatched' \subseteq dispatched \cup {a}
  BY OnlyDispatchCalls DEF Dispatch
<1>3. a \in dispatched' \ dispatched => pc[a] = "dispatching" /\ pc'[a] = "executing"
  BY OnlyDispatchCalls DEF Dispatch, Goto, TypeOK
<1>4. \A b \in Attempts \ {a} : /\ pc'[b] = pc[b] /\ claim_decision'[b] = claim_decision[b]
                                /\ evidence_time'[b] = evidence_time[b]
  BY StepFrame
<1>5. Compliant => dispatched' \subseteq won'
  BY <1>1, <1>2, <1>3 DEF DispatchFollowsClaim
<1>6. ASSUME NEW b \in Attempts, pc'[b] = "dispatching"
      PROVE  b \notin dispatched' /\ (Compliant => b \in won')
  <2>1. CASE b = a
    <3>1. pc[a] \in {"claiming", "granted"} /\ (Compliant => a \in won')
      BY <1>6, <2>1, OnlyGrantLeadsToDispatch
    <3>2. a \notin dispatched
      BY <3>1 DEF DispatchFollowsClaim, Ended
    <3> QED BY <1>3, <2>1, <3>1, <3>2
  <2>2. CASE b # a
    BY <1>1, <1>2, <1>4, <1>6, <2>2 DEF DispatchFollowsClaim
  <2> QED BY <2>1, <2>2
<1>7. ASSUME NEW b \in dispatched'
      PROVE  pc'[b] \in {"executing", "recording"} \cup Ended
  <2>1. CASE b \in dispatched /\ b = a
    BY <2>1, AfterDispatchFrame DEF DispatchFollowsClaim
  <2>2. CASE b \in dispatched /\ b # a
    BY <1>4, <2>2 DEF DispatchFollowsClaim, TypeOK
  <2> QED BY <1>2, <1>3, <1>7, <2>1, <2>2
<1>8. ASSUME NEW b \in Attempts, b \in dispatched' \/ pc'[b] = "dispatching"
      PROVE  claim_decision'[b] # None /\ Verdict[b][evidence_time'[b]].status = "ACCEPT"
  <2>1. CASE b # a
    BY <1>2, <1>4, <1>8, <2>1 DEF DispatchFollowsClaim
  <2>2. CASE b = a /\ pc'[a] = "dispatching"
    BY <2>2, OnlyGrantLeadsToDispatch
  <2>3. CASE b = a /\ a \in dispatched'
    <3>1. /\ pc[a] \in {"dispatching", "executing", "recording"} \cup Ended
          /\ claim_decision[a] # None /\ Verdict[a][evidence_time[a]].status = "ACCEPT"
      BY <1>3, <2>3 DEF DispatchFollowsClaim
    <3> QED BY <2>3, <3>1, AfterDispatchFrame
  <2> QED BY <1>8, <2>1, <2>2, <2>3
<1> QED BY <1>5, <1>6, <1>7, <1>8 DEF DispatchFollowsClaim

LEMMA DispatchEnvironment ==
    ASSUME TypeOK, DispatchFollowsClaim,
           (\E p \in Processes : Crash(p)) \/ AdjustClock \/ UNCHANGED vars
    PROVE  DispatchFollowsClaim'
<1>1. UNCHANGED <<won, dispatched, claim_decision, evidence_time>>
  BY DEF Crash, AdjustClock, vars, cellVars, storeVars
<1>2. \A a \in Attempts : pc'[a] = pc[a] \/ pc'[a] = "crashed"
  BY DEF Crash, AdjustClock, vars, TypeOK
<1>3. \A a \in dispatched' : pc'[a] \in {"executing", "recording"} \cup Ended
  BY <1>1, <1>2 DEF DispatchFollowsClaim, Ended, TypeOK
<1> QED BY <1>1, <1>2, <1>3 DEF DispatchFollowsClaim

-----------------------------------------------------------------------------
(* The theorems.                                                           *)

LEMMA InitInv == Init => ClaimInv
<1> SUFFICES ASSUME Init PROVE ClaimInv
  OBVIOUS
<1>1. TypeOK
  BY InitType
<1>2. LockFollowsCall
  BY ClaimPlace, NoneAssumption DEF Init, LockFollowsCall
<1>3. SeenContainsClock /\ GrantFollowsCheck
  BY DEF Init, SeenContainsClock, GrantFollowsCheck
<1>4. ClaimsAreKept /\ ClaimsDoNotConflict /\ DispatchFollowsClaim
  BY DEF Init, ClaimsAreKept, ClaimsDoNotConflict, DispatchFollowsClaim
<1> QED BY <1>1, <1>2, <1>3, <1>4 DEF ClaimInv

LEMMA InvStep == ClaimInv /\ [Next]_vars => ClaimInv'
<1> SUFFICES ASSUME ClaimInv, [Next]_vars PROVE ClaimInv'
  OBVIOUS
<1> USE DEF ClaimInv
<1>1. ASSUME NEW a \in Attempts, Step(a) PROVE ClaimInv'
  BY <1>1, StepType, LockStep, SeenStep, GrantStep, ClaimsStep, DispatchStep
<1>2. CASE (\E p \in Processes : Crash(p)) \/ AdjustClock \/ UNCHANGED vars
  BY <1>2, EnvironmentType, LockEnvironment, LockedEnvironment, ClaimsEnvironment,
     DispatchEnvironment
<1> QED BY <1>1, <1>2 DEF Next, AllEnded

\* What keeps the claims apart holds of every behaviour of execute.
THEOREM ClaimInvHolds == Spec => []ClaimInv
BY InitInv, InvStep, PTL DEF Spec

\* With a durable store that honours the protocol, at most one of all the
\* attempts that share a nonce or an idempotency key ever calls its executor,
\* in whatever processes they run and however these crash.
THEOREM ReplayControl ==
    ASSUME Durable, Compliant
    PROVE  Spec => []AtMostOneDispatch
<1>1. ClaimInv => AtMostOneDispatch
  <2> SUFFICES ASSUME ClaimInv, NEW a \in dispatched, NEW b \in dispatched, a # b
               PROVE  ~Conflict(a, b)
    BY DEF AtMostOneDispatch
  <2>1. a \in won \ lost /\ b \in won \ lost
    BY DEF ClaimInv, DispatchFollowsClaim, ClaimsAreKept
  <2>2. StoreOf(a) = StoreOf(b)
    BY DEF StoreOf
  <2> QED BY <2>1, <2>2 DEF ClaimInv, ClaimsDoNotConflict
<1> QED BY <1>1, ClaimInvHolds, PTL

\* With any store that honours the protocol the same holds of the attempts of
\* one store until a crash makes that store forget.
THEOREM ReplayControlPerProcessLife ==
    ASSUME Compliant
    PROVE  Spec => []AtMostOneDispatchPerProcessLife
<1>1. ClaimInv => AtMostOneDispatchPerProcessLife
  BY DEF ClaimInv, AtMostOneDispatchPerProcessLife, DispatchFollowsClaim, ClaimsDoNotConflict
<1> QED BY <1>1, ClaimInvHolds, PTL

\* No store, not even one that breaks the protocol, makes execute dispatch a
\* proposal its own validator did not accept while it claimed.
THEOREM NoStoreBypassesAuthorization == Spec => []DispatchIsFreshlyAuthorized
<1>1. ClaimInv => DispatchIsFreshlyAuthorized
  BY DEF ClaimInv, TypeOK, DispatchFollowsClaim, DispatchIsFreshlyAuthorized
<1> QED BY <1>1, ClaimInvHolds, PTL

\* A claim is committed only for a proposal that was acceptable at a moment at
\* which the lock was already held.
THEOREM ClaimsAreFresh == Spec => ClaimIsFresh
<1>1. ClaimInv /\ [Next]_vars
        => [\A a \in won' \ won : \E t \in seen[StoreOf(a)] : Verdict[a][t].status = "ACCEPT"]_vars
  <2> SUFFICES ASSUME ClaimInv, Next, NEW a \in won' \ won
               PROVE  \E t \in seen[StoreOf(a)] : Verdict[a][t].status = "ACCEPT"
    OBVIOUS
  <2>1. PICK c \in Attempts : Step(c)
    BY DEF Next, Crash, AdjustClock, AllEnded, vars, storeVars
  <2>2. Commit(c) /\ c = a
    BY <2>1, OnlyCommitWrites DEF Commit
  <2> QED BY <2>2 DEF Commit, ClaimInv, GrantFollowsCheck
<1> QED BY <1>1, ClaimInvHolds, PTL DEF Spec, ClaimIsFresh

\* With a durable, compliant store CausalCell implements ReplayClaims: every
\* step claims without conflict, dispatches a claim once, or stutters.
THEOREM Refinement ==
    ASSUME Durable, Compliant
    PROVE  Spec => ImplementsReplayClaims
<1>1. Init => Claims!Init
  BY DEF Init, Claims!Init
<1>2. ClaimInv /\ [Next]_vars => [Claims!Next]_<<won, dispatched>>
  <2> SUFFICES ASSUME ClaimInv, [Next]_vars
               PROVE  [Claims!Next]_<<won, dispatched>>
    OBVIOUS
  <2>1. ASSUME NEW a \in Attempts, Commit(a) PROVE Claims!Claim(a)
    <3>1. \A b \in won : StoreOf(a) = StoreOf(b) /\ b \in won \ lost
      BY DEF ClaimInv, ClaimsAreKept, StoreOf
    <3>2. \A b \in won : ~Conflict(a, b)
      BY <2>1, <3>1, CommitFindsRoom DEF ClaimInv
    <3> QED BY <2>1, <3>2 DEF Commit, Claims!Claim, Claims!Conflict, Conflict
  <2>2. ASSUME NEW a \in Attempts, Dispatch(a) PROVE Claims!Dispatch(a)
    BY <2>2 DEF Dispatch, storeVars, Claims!Dispatch, ClaimInv, DispatchFollowsClaim
  <2>3. ASSUME NEW a \in Attempts, Step(a) PROVE [Claims!Next]_<<won, dispatched>>
    BY <2>1, <2>2, <2>3, OnlyCommitWrites, OnlyDispatchCalls DEF Claims!Next
  <2>4. CASE (\E p \in Processes : Crash(p)) \/ AdjustClock \/ UNCHANGED vars
    BY <2>4 DEF Crash, AdjustClock, vars, storeVars
  <2> QED BY <2>3, <2>4 DEF Next, AllEnded
<1> QED BY <1>1, <1>2, ClaimInvHolds, PTL DEF Spec, Claims!Spec, ImplementsReplayClaims

-----------------------------------------------------------------------------
(* What the guard's answers are.                                           *)

\* The store's refusals are not the guard's.
LEMMA ReasonsApart == GuardReasons \cap StoreReasons = {}
BY DEF GuardReasons, StoreReasons, Invalidated

LEMMA AcceptHasNoReasons ==
    ASSUME NEW p, NEW policy, NEW t, EvaluateProposal(p, policy, t).status = "ACCEPT"
    PROVE  EvaluateProposal(p, policy, t).reasons = {}
<1>1. ASSUME NEW S PROVE Decision("BLOCK", S).status # "ACCEPT" /\ Decision("HOLD", S).status # "ACCEPT"
  BY DEF Decision
<1>2. Decision("ACCEPT", {}).reasons = {}
  BY DEF Decision
<1>3. ApprovalDecision(p, policy, t).status = "ACCEPT" => ApprovalDecision(p, policy, t).reasons = {}
  BY <1>1, <1>2 DEF ApprovalDecision
<1> QED BY <1>1, <1>3 DEF EvaluateProposal

LEMMA VerdictFacts ==
    ASSUME NEW a \in Attempts, NEW t \in Times
    PROVE  /\ Verdict[a][t] # None
           /\ Verdict[a][t].status \in Statuses
           /\ Verdict[a][t].reasons \cap StoreReasons = {}
           /\ Verdict[a][t].status = "ACCEPT" => Verdict[a][t].reasons = {}
<1>1. Verdict[a][t] = EvaluateProposal(Proposal[a], Policy, t)
  BY DEF Verdict
<1>2. Verdict[a][t] \in Decisions(GuardReasons)
  BY <1>1, EvaluateProposalType
<1>3. Verdict[a][t].status \in Statuses /\ Verdict[a][t].reasons \subseteq GuardReasons
  BY <1>2 DEF Decisions
<1>4. Verdict[a][t] # None
  BY VerdictType, NoneAssumption
<1> QED BY <1>1, <1>3, <1>4, ReasonsApart, AcceptHasNoReasons

LEMMA ReplayBlockFacts ==
    ASSUME NEW reason \in StoreReasons
    PROVE  /\ ReplayBlock(reason) # None
           /\ ReplayBlock(reason).status = "BLOCK"
           /\ ReplayBlock(reason).reasons = {reason}
           /\ ReplayBlock(reason).reasons \cap StoreReasons # {}
<1>1. ReplayBlock(reason) \in CellDecisions
  BY DEF ReplayBlock, Decision, CellDecisions, Decisions, Statuses
<1> QED BY <1>1, NoneAssumption DEF ReplayBlock, Decision

\* A decision to accept carries no reasons, so an export has an outcome.
LEMMA AcceptedDecision ==
    ASSUME TypeOK, DecisionsAreComputed, NEW a \in Attempts, decision[a] # None
    PROVE  /\ decision[a].status \in Statuses
           /\ decision[a].status = "ACCEPT" => decision[a].reasons = {}
<1>1. CASE \E t \in Times : decision[a] = Verdict[a][t]
  BY <1>1, VerdictFacts
<1>2. CASE \E reason \in StoreReasons : decision[a] = ReplayBlock(reason)
  BY <1>2, ReplayBlockFacts DEF Statuses
<1> QED BY <1>1, <1>2 DEF DecisionsAreComputed

-----------------------------------------------------------------------------
(* The shape of a step: what the store's answer makes of an attempt, and   *)
(* what a step of one attempt leaves alone.                                *)

LEMMA AfterConsumeShape ==
    ASSUME TypeOK, NEW a \in Attempts,
           NEW reason \in StoreReasons \cup {None}, NEW claim \in CellDecisions \cup {None},
           AfterConsume(a, reason, claim)
    PROVE  /\ pc'[a] \in {"dispatching", "recording"}
           /\ pc'[a] = "dispatching" <=> reason = None /\ claim # None /\ claim.status = "ACCEPT"
           /\ noted'[a].nonce_consumed = (pc'[a] = "dispatching")
           /\ noted'[a].executor_invoked = noted[a].executor_invoked
           /\ noted'[a].status = noted[a].status
           /\ pc'[a] = "dispatching" => decision'[a] = claim
           /\ pc'[a] = "recording" =>
                 \/ claim # None /\ claim.status # "ACCEPT" /\ decision'[a] = claim
                    /\ (reason = Invalidated \/ reason = None)
                 \/ \E r \in StoreReasons : decision'[a] = ReplayBlock(r)
                                            /\ (reason = r \/ r = "NONCE_STORE_VALIDATION_INVALID"
                                                \/ r = "NONCE_STORE_VALIDATION_SKIPPED")
<1> DEFINE granted == reason = None /\ claim # None /\ claim.status = "ACCEPT"
<1>1. /\ noted' = [noted EXCEPT ![a].nonce_consumed = granted]
      /\ pc' = [pc EXCEPT ![a] = IF granted THEN "dispatching" ELSE "recording"]
  BY DEF AfterConsume, Goto
<1>2. noted[a] \in Notes /\ noted'[a] = [noted[a] EXCEPT !.nonce_consumed = granted]
  BY <1>1 DEF TypeOK
<1>3. /\ noted'[a].nonce_consumed = granted
      /\ noted'[a].executor_invoked = noted[a].executor_invoked
      /\ noted'[a].status = noted[a].status
  BY <1>2 DEF Notes
<1>4. pc'[a] = IF granted THEN "dispatching" ELSE "recording"
  BY <1>1 DEF TypeOK
<1>5. (pc'[a] = "dispatching") = granted
  BY <1>4
<1>6. granted => reason # Invalidated
  BY NoneAssumption DEF StoreReasons
<1>7. decision'[a] = IF reason = Invalidated
              THEN IF claim # None /\ claim.status # "ACCEPT" THEN claim
                   ELSE ReplayBlock("NONCE_STORE_VALIDATION_INVALID")
              ELSE IF reason # None THEN ReplayBlock(reason)
              ELSE IF claim = None THEN ReplayBlock("NONCE_STORE_VALIDATION_SKIPPED")
              ELSE claim
  BY DEF AfterConsume, TypeOK
<1>8. /\ "NONCE_STORE_VALIDATION_INVALID" \in StoreReasons
      /\ "NONCE_STORE_VALIDATION_SKIPPED" \in StoreReasons
  BY DEF StoreReasons
<1>9. granted => decision'[a] = claim
  BY <1>6, <1>7
<1>10. ~granted =>
                 \/ claim # None /\ claim.status # "ACCEPT" /\ decision'[a] = claim
                    /\ (reason = Invalidated \/ reason = None)
                 \/ \E r \in StoreReasons : decision'[a] = ReplayBlock(r)
                                            /\ (reason = r \/ r = "NONCE_STORE_VALIDATION_INVALID"
                                                \/ r = "NONCE_STORE_VALIDATION_SKIPPED")
  BY <1>7, <1>8
<1> QED BY <1>3, <1>4, <1>5, <1>9, <1>10

\* What a step of one attempt leaves of another's record alone.
LEMMA RecordFrame ==
    ASSUME TypeOK, NEW a \in Attempts, Step(a), NEW b \in Attempts, b # a
    PROVE  /\ decision'[b] = decision[b] /\ noted'[b] = noted[b] /\ bundle'[b] = bundle[b]
           /\ b \in won' <=> b \in won
           /\ b \in dispatched' <=> b \in dispatched
<1>1. b \in won' <=> b \in won
  BY OnlyCommitWrites DEF Commit
<1>2. b \in dispatched' <=> b \in dispatched
  BY OnlyDispatchCalls DEF Dispatch
<1>3. ASSUME NEW reason, NEW claim, AfterConsume(a, reason, claim)
      PROVE  decision'[b] = decision[b] /\ noted'[b] = noted[b]
  BY <1>3 DEF AfterConsume, TypeOK
<1>4. CASE FindReplay(a) \/ ValidateClaim(a) \/ Commit(a) \/ NoncompliantConsume(a)
  <2>1. decision'[b] = decision[b] /\ noted'[b] = noted[b]
    BY <1>3, <1>4 DEF FindReplay, ValidateClaim, Commit, NoncompliantConsume
  <2>2. bundle' = bundle
    BY <1>4 DEF FindReplay, ValidateClaim, Commit, NoncompliantConsume
  <2> QED BY <1>1, <1>2, <2>1, <2>2
<1>5. CASE Evaluate(a) \/ Acquire(a) \/ BusyTimeout(a) \/ ConsumeRaises(a) \/ EvidenceFails(a)
  BY <1>1, <1>2, <1>5 DEF Evaluate, Acquire, BusyTimeout, ConsumeRaises, EvidenceFails, TypeOK, cellVars
<1>6. CASE Dispatch(a) \/ ExecutorEnds(a) \/ WriteBundle(a)
  BY <1>1, <1>2, <1>6 DEF Dispatch, ExecutorEnds, WriteBundle, TypeOK
<1> QED BY <1>4, <1>5, <1>6 DEF Step

\* The environment takes calls off their path and writes nothing down.
LEMMA EnvironmentFrame ==
    ASSUME TypeOK, (\E p \in Processes : Crash(p)) \/ AdjustClock \/ UNCHANGED vars
    PROVE  /\ UNCHANGED <<decision, claim_decision, evidence_time, noted, bundle, won, dispatched>>
           /\ \A a \in Attempts : pc'[a] = pc[a] \/ (pc[a] \in InFlight /\ pc'[a] = "crashed")
BY DEF Crash, AdjustClock, vars, cellVars, storeVars, TypeOK

-----------------------------------------------------------------------------
(* The store's answer, and everything execute makes of it.                 *)

Answers(a) ==
    \/ FindReplay(a) \/ Commit(a) \/ NoncompliantConsume(a)
    \/ ValidateClaim(a) /\ Decide(a).status # "ACCEPT"

\* What was answered, and what the validator had decided.
LEMMA AnswerGiven ==
    ASSUME ClaimInv, NEW a \in Attempts, DecisionFollowsCall(a), Answers(a)
    PROVE  \E reason \in StoreReasons \cup {None}, claim \in CellDecisions \cup {None} :
              /\ AfterConsume(a, reason, claim)
              /\ claim # None => evidence_time'[a] \in Times /\ claim = Verdict[a][evidence_time'[a]]
              /\ Compliant => \/ Commit(a) /\ reason = None /\ claim # None /\ claim.status = "ACCEPT"
                              \/ ~Commit(a) /\ reason # None
                                 /\ ((FindReplay(a) /\ reason = ReplayReason(a)) \/ reason = Invalidated)
<1> USE NoneAssumption, VerdictType DEF ClaimInv, TypeOK
<1>0. Decide(a) \in CellDecisions /\ Decide(a) # None /\ Decide(a) = Verdict[a][clock]
  BY DEF Decide
<1>1. CASE FindReplay(a)
  <2>1. ReplayReason(a) \in StoreReasons
    BY <1>1 DEF FindReplay, ReplayReason, StoreReasons
  <2>2. ~Commit(a)
    BY <1>1 DEF FindReplay, Commit
  <2> QED BY <1>1, <2>1, <2>2 DEF FindReplay
<1>2. CASE Commit(a)
  <2>1. /\ claim_decision[a] \in CellDecisions /\ claim_decision[a].status = "ACCEPT"
        /\ claim_decision[a] = Verdict[a][evidence_time[a]]
        /\ evidence_time[a] \in Times
    BY <1>2 DEF Commit, GrantFollowsCheck, DecisionFollowsCall
  <2>2. evidence_time' = evidence_time /\ AfterConsume(a, None, claim_decision[a])
    BY <1>2 DEF Commit
  <2> QED BY <1>2, <2>1, <2>2
<1>3. CASE NoncompliantConsume(a)
  <2>1. PICK reason \in {None, Invalidated, "INTENT_REPLAYED"}, claim \in {None, Decide(a)} :
          /\ AfterConsume(a, reason, claim)
          /\ evidence_time' = IF claim = None THEN evidence_time
                              ELSE [evidence_time EXCEPT ![a] = clock]
    BY <1>3 DEF NoncompliantConsume
  <2>2. reason \in StoreReasons \cup {None} /\ claim \in CellDecisions \cup {None}
    BY <1>0 DEF StoreReasons
  <2>3. claim # None => evidence_time'[a] = clock /\ claim = Verdict[a][clock]
    BY <1>0, <2>1
  <2>4. ~Compliant
    BY <1>3 DEF NoncompliantConsume
  <2> QED BY <2>1, <2>2, <2>3, <2>4
<1>4. CASE ValidateClaim(a) /\ Decide(a).status # "ACCEPT"
  <2>1. AfterConsume(a, Invalidated, Decide(a)) /\ evidence_time'[a] = clock
    BY <1>4 DEF ValidateClaim
  <2>2. Invalidated \in StoreReasons /\ Invalidated # None
    BY DEF StoreReasons
  <2>3. ~Commit(a)
    BY <1>4 DEF ValidateClaim, Commit
  <2> QED BY <1>0, <2>1, <2>2, <2>3
<1> QED BY <1>1, <1>2, <1>3, <1>4 DEF Answers

LEMMA AnswerFrame ==
    ASSUME TypeOK, NEW a \in Attempts, Answers(a)
    PROVE  /\ pc[a] \in {"claiming", "locked", "granted"}
           /\ Step(a)
           /\ UNCHANGED <<bundle, dispatched>>
           /\ a \in won' <=> a \in won \/ Commit(a)
BY DEF Answers, Step, FindReplay, Commit, NoncompliantConsume, ValidateClaim, storeVars

\* The answer is recorded as what it is.
LEMMA AnswerShape ==
    ASSUME ClaimInv, ClaimsAreSpent, NEW a \in Attempts, DecisionFollowsCall(a), Answers(a)
    PROVE  /\ pc'[a] \in {"dispatching", "recording"}
           /\ a \notin won /\ a \notin dispatched /\ a \notin dispatched'
           /\ noted'[a].executor_invoked = noted[a].executor_invoked
           /\ noted'[a].status = noted[a].status
           /\ noted'[a].nonce_consumed = (pc'[a] = "dispatching")
           /\ Compliant => (a \in won' <=> pc'[a] = "dispatching")
           /\ decision'[a].status = "ACCEPT" <=> pc'[a] = "dispatching"
           /\ \/ decision'[a] = Verdict[a][evidence_time'[a]] /\ evidence_time'[a] \in Times
              \/ \E r \in StoreReasons :
                    /\ decision'[a] = ReplayBlock(r)
                    /\ Compliant => \/ FindReplay(a) /\ r = ReplayReason(a)
                                    \/ r \in StoreReasons \ {"INTENT_REPLAYED", "IDEMPOTENCY_REPLAYED"}
<1>1. PICK reason \in StoreReasons \cup {None}, claim \in CellDecisions \cup {None} :
              /\ AfterConsume(a, reason, claim)
              /\ claim # None => evidence_time'[a] \in Times /\ claim = Verdict[a][evidence_time'[a]]
              /\ Compliant => \/ Commit(a) /\ reason = None /\ claim # None /\ claim.status = "ACCEPT"
                              \/ ~Commit(a) /\ reason # None
                                 /\ ((FindReplay(a) /\ reason = ReplayReason(a)) \/ reason = Invalidated)
  BY AnswerGiven
<1>2. /\ pc'[a] \in {"dispatching", "recording"}
      /\ pc'[a] = "dispatching" <=> reason = None /\ claim # None /\ claim.status = "ACCEPT"
      /\ noted'[a].nonce_consumed = (pc'[a] = "dispatching")
      /\ noted'[a].executor_invoked = noted[a].executor_invoked
      /\ noted'[a].status = noted[a].status
      /\ pc'[a] = "dispatching" => decision'[a] = claim
      /\ pc'[a] = "recording" =>
            \/ claim # None /\ claim.status # "ACCEPT" /\ decision'[a] = claim
               /\ (reason = Invalidated \/ reason = None)
            \/ \E r \in StoreReasons : decision'[a] = ReplayBlock(r)
                                       /\ (reason = r \/ r = "NONCE_STORE_VALIDATION_INVALID"
                                           \/ r = "NONCE_STORE_VALIDATION_SKIPPED")
  BY <1>1, AfterConsumeShape DEF ClaimInv
<1>3. a \notin won /\ a \notin dispatched /\ a \notin dispatched'
  BY AnswerFrame DEF ClaimInv, ClaimsAreSpent, DispatchFollowsClaim, Called, Ended
<1>4. Compliant => (a \in won' <=> pc'[a] = "dispatching")
  BY <1>1, <1>2, <1>3, AnswerFrame DEF ClaimInv
<1>5. CASE pc'[a] = "dispatching"
  BY <1>1, <1>2, <1>3, <1>4, <1>5
<1>6. CASE pc'[a] = "recording" /\ claim # None /\ claim.status # "ACCEPT" /\ decision'[a] = claim
  BY <1>1, <1>2, <1>3, <1>4, <1>6
<1>7. ASSUME pc'[a] = "recording", NEW r \in StoreReasons, decision'[a] = ReplayBlock(r),
             reason = r \/ r = "NONCE_STORE_VALIDATION_INVALID" \/ r = "NONCE_STORE_VALIDATION_SKIPPED"
      PROVE  /\ decision'[a].status # "ACCEPT"
             /\ Compliant => \/ FindReplay(a) /\ r = ReplayReason(a)
                             \/ r \in StoreReasons \ {"INTENT_REPLAYED", "IDEMPOTENCY_REPLAYED"}
  BY <1>1, <1>2, <1>7, ReplayBlockFacts, NoneAssumption DEF StoreReasons, Invalidated
<1> QED BY <1>2, <1>3, <1>4, <1>5, <1>6, <1>7

-----------------------------------------------------------------------------
(* The record of one attempt follows its call.                             *)

Leaves(a) == Acquire(a) \/ BusyTimeout(a) \/ ConsumeRaises(a) \/ EvidenceFails(a)

\* A call that waits, or that an exception ends, writes nothing down.
LEMMA LeavesShape ==
    ASSUME TypeOK, NEW a \in Attempts, Leaves(a)
    PROVE  /\ pc[a] \in {"claiming", "locked", "granted", "recording"}
           /\ pc'[a] \in {"locked", "raised"}
           /\ UNCHANGED <<won, dispatched, cellVars>>
BY DEF Leaves, Acquire, BusyTimeout, ConsumeRaises, EvidenceFails, Goto, TypeOK, storeVars

LEMMA StepCases ==
    ASSUME NEW a \in Attempts, Step(a)
    PROVE  \/ Answers(a) \/ Leaves(a) \/ Evaluate(a) \/ Dispatch(a) \/ ExecutorEnds(a)
           \/ WriteBundle(a) \/ (ValidateClaim(a) /\ Decide(a).status = "ACCEPT")
BY DEF Step, Answers, Leaves

LEMMA NotesStep ==
    ASSUME ClaimInv, ClaimsAreSpent, NEW a \in Attempts, Step(a),
           NotesFollowCall(a), DecisionFollowsCall(a)
    PROVE  NotesFollowCall(a)'
<1> USE DEF ClaimInv
<1>1. CASE Answers(a)
  BY <1>1, AnswerShape DEF NotesFollowCall
<1>2. CASE Leaves(a)
  BY <1>2, LeavesShape DEF NotesFollowCall, cellVars
<1>3. CASE Evaluate(a)
  <2>1. a \notin dispatched /\ UNCHANGED <<won, dispatched, noted>>
    BY <1>3 DEF Evaluate, DispatchFollowsClaim, Ended, storeVars
  <2> QED BY <2>1 DEF NotesFollowCall
<1>4. CASE ValidateClaim(a) /\ Decide(a).status = "ACCEPT"
  <2>1. pc'[a] = "granted" /\ UNCHANGED <<won, dispatched, noted>>
    BY <1>4 DEF ValidateClaim, Goto, TypeOK
  <2> QED BY <2>1 DEF NotesFollowCall
<1>5. CASE Dispatch(a)
  <2>1. /\ noted'[a] = [noted[a] EXCEPT !.executor_invoked = TRUE] /\ noted[a] \in Notes
        /\ dispatched' = dispatched \cup {a} /\ won' = won /\ pc'[a] = "executing"
    BY <1>5 DEF Dispatch, Goto, TypeOK, storeVars
  <2>2. /\ noted'[a].executor_invoked = TRUE /\ noted'[a].status = noted[a].status
        /\ noted'[a].nonce_consumed = noted[a].nonce_consumed
    BY <2>1 DEF Notes
  <2>3. a \in dispatched'
    BY <2>1
  <2> QED BY <2>1, <2>2, <2>3 DEF NotesFollowCall
<1>6. CASE ExecutorEnds(a)
  <2>1. PICK status \in {"EXECUTOR_RETURNED", "EXECUTOR_ERROR"} :
            noted' = [noted EXCEPT ![a].status = status]
    BY <1>6 DEF ExecutorEnds
  <2>2. noted'[a] = [noted[a] EXCEPT !.status = status] /\ noted[a] \in Notes
    BY <2>1 DEF TypeOK
  <2>3. /\ noted'[a].executor_invoked = noted[a].executor_invoked /\ noted'[a].status = status
        /\ noted'[a].nonce_consumed = noted[a].nonce_consumed
    BY <2>2 DEF Notes
  <2>4. a \in dispatched /\ UNCHANGED <<won, dispatched>>
    BY <1>6 DEF ExecutorEnds, DecisionFollowsCall, storeVars
  <2> QED BY <2>3, <2>4 DEF NotesFollowCall
<1>7. CASE WriteBundle(a)
  <2>1. pc[a] = "recording" /\ pc'[a] = "done" /\ UNCHANGED <<won, dispatched, noted>>
    BY <1>7 DEF WriteBundle, Goto, TypeOK, storeVars
  <2> QED BY <2>1 DEF NotesFollowCall
<1> QED BY <1>1, <1>2, <1>3, <1>4, <1>5, <1>6, <1>7, StepCases

LEMMA DecisionStep ==
    ASSUME ClaimInv, ClaimsAreSpent, NEW a \in Attempts, Step(a), DecisionFollowsCall(a)
    PROVE  DecisionFollowsCall(a)'
<1> USE DEF ClaimInv
<1>1. CASE Answers(a)
  <2>1. \/ decision'[a].reasons \cap StoreReasons # {}
        \/ Verdict[a][evidence_time'[a]] = decision'[a]
    BY <1>1, AnswerShape, ReplayBlockFacts
  <2> QED BY <1>1, <2>1, AnswerShape DEF DecisionFollowsCall
<1>2. CASE Leaves(a)
  BY <1>2, LeavesShape DEF DecisionFollowsCall
<1>3. CASE Evaluate(a)
  <2>1. a \notin dispatched /\ UNCHANGED dispatched
    BY <1>3 DEF Evaluate, DispatchFollowsClaim, Ended
  <2>2. /\ decision'[a] = Decide(a) /\ evidence_time'[a] = clock
        /\ pc'[a] = IF Decide(a).status = "ACCEPT" THEN "claiming" ELSE "recording"
    BY <1>3 DEF Evaluate, Goto, TypeOK
  <2> QED BY <2>1, <2>2 DEF DecisionFollowsCall, Decide
<1>4. CASE ValidateClaim(a) /\ Decide(a).status = "ACCEPT"
  <2>1. /\ pc'[a] = "granted" /\ claim_decision'[a] = Decide(a) /\ evidence_time'[a] = clock
    BY <1>4 DEF ValidateClaim, Goto, TypeOK
  <2> QED BY <2>1 DEF DecisionFollowsCall, Decide
<1>5. CASE Dispatch(a)
  <2>1. /\ a \in dispatched' /\ pc[a] = "dispatching" /\ pc'[a] = "executing"
        /\ UNCHANGED <<decision, evidence_time>>
    BY <1>5 DEF Dispatch, Goto, TypeOK
  <2> QED BY <2>1 DEF DecisionFollowsCall
<1>6. CASE ExecutorEnds(a)
  <2>1. /\ pc[a] = "executing" /\ pc'[a] = "recording"
        /\ UNCHANGED <<decision, evidence_time, dispatched>>
    BY <1>6 DEF ExecutorEnds, Goto, TypeOK
  <2>2. (decision'[a].status = "ACCEPT") = (a \in dispatched')
    BY <2>1 DEF DecisionFollowsCall
  <2> QED BY <2>1, <2>2 DEF DecisionFollowsCall
<1>7. CASE WriteBundle(a)
  <2>1. /\ pc[a] = "recording" /\ pc'[a] = "done"
        /\ UNCHANGED <<decision, evidence_time, dispatched>>
    BY <1>7 DEF WriteBundle, Goto, TypeOK
  <2> QED BY <2>1 DEF DecisionFollowsCall
<1> QED BY <1>1, <1>2, <1>3, <1>4, <1>5, <1>6, <1>7, StepCases

\* A bundle is written once, as the last thing, and nothing it says changes.
LEMMA BundleStep ==
    ASSUME TypeOK, NEW a \in Attempts, Step(a), BundleFollowsCall(a)
    PROVE  BundleFollowsCall(a)'
<1>1. CASE WriteBundle(a)
  BY <1>1 DEF WriteBundle, Goto, TypeOK, BundleFollowsCall
<1>2. CASE bundle[a] = None /\ ~WriteBundle(a)
  <2>1. bundle' = bundle
    BY <1>2 DEF Step, Evaluate, Acquire, BusyTimeout, FindReplay, ValidateClaim, Commit,
         ConsumeRaises, NoncompliantConsume, Dispatch, ExecutorEnds, EvidenceFails, cellVars
  <2> QED BY <1>2, <2>1 DEF BundleFollowsCall
<1>3. CASE bundle[a] # None
  BY <1>3 DEF BundleFollowsCall, Step, Evaluate, Acquire, BusyTimeout, FindReplay, ValidateClaim,
       Commit, ConsumeRaises, NoncompliantConsume, Dispatch, ExecutorEnds, WriteBundle, EvidenceFails
<1> QED BY <1>1, <1>2, <1>3

\* Another attempt's step leaves the record alone.
LEMMA BystanderRecord ==
    ASSUME TypeOK, NEW a \in Attempts, Step(a), NEW b \in Attempts, b # a,
           NotesFollowCall(b), DecisionFollowsCall(b), BundleFollowsCall(b)
    PROVE  NotesFollowCall(b)' /\ DecisionFollowsCall(b)' /\ BundleFollowsCall(b)'
<1>1. /\ decision'[b] = decision[b] /\ noted'[b] = noted[b] /\ bundle'[b] = bundle[b]
      /\ (b \in won') = (b \in won)
      /\ (b \in dispatched') = (b \in dispatched)
      /\ pc'[b] = pc[b] /\ claim_decision'[b] = claim_decision[b]
      /\ evidence_time'[b] = evidence_time[b]
  BY StepFrame, RecordFrame
<1> QED BY <1>1 DEF NotesFollowCall, DecisionFollowsCall, BundleFollowsCall

\* So does the environment, but that a call may end where it stands.
LEMMA EnvironmentRecord ==
    ASSUME TypeOK, (\E p \in Processes : Crash(p)) \/ AdjustClock \/ UNCHANGED vars,
           NEW b \in Attempts,
           NotesFollowCall(b), DecisionFollowsCall(b), BundleFollowsCall(b)
    PROVE  NotesFollowCall(b)' /\ DecisionFollowsCall(b)' /\ BundleFollowsCall(b)'
<1>1. /\ UNCHANGED <<decision, claim_decision, evidence_time, noted, bundle, won, dispatched>>
      /\ pc'[b] = pc[b] \/ (pc[b] \in InFlight /\ pc'[b] = "crashed")
  BY EnvironmentFrame
<1>2. CASE pc'[b] = pc[b]
  BY <1>1, <1>2 DEF NotesFollowCall, DecisionFollowsCall, BundleFollowsCall
<1>3. CASE pc[b] \in InFlight /\ pc'[b] = "crashed"
  BY <1>1, <1>3 DEF NotesFollowCall, DecisionFollowsCall, BundleFollowsCall, InFlight
<1> QED BY <1>1, <1>2, <1>3

LEMMA SpentStep ==
    ASSUME ClaimInv, ClaimsAreSpent, NEW a \in Attempts, Step(a), DecisionFollowsCall(a)
    PROVE  ClaimsAreSpent'
<1> SUFFICES ASSUME NEW b \in Attempts, b \in won' PROVE pc'[b] \in Called
  <2>1. won' \subseteq Attempts
    BY StepType DEF ClaimInv, TypeOK
  <2> QED BY <2>1 DEF ClaimsAreSpent
<1>1. CASE b # a
  BY <1>1, StepFrame, RecordFrame DEF ClaimInv, ClaimsAreSpent
<1>2. CASE b = a /\ a \in won
  <2>1. pc[a] \in {"dispatching", "executing", "recording"} \cup Ended
    BY <1>2 DEF ClaimsAreSpent, Called
  <2> QED BY <1>2, <2>1, AfterDispatchFrame DEF ClaimInv, Called
<1>3. CASE b = a /\ a \notin won
  <2>1. Commit(a)
    BY <1>3, OnlyCommitWrites
  <2> QED BY <1>3, <2>1, AnswerShape DEF Answers, Called
<1> QED BY <1>1, <1>2, <1>3

-----------------------------------------------------------------------------
(* Every decision is an answer of the guard or a refusal of the store's.   *)

LEMMA ComputedStep ==
    ASSUME ClaimInv, ClaimsAreSpent, DecisionsAreComputed, NEW a \in Attempts, Step(a),
           DecisionFollowsCall(a)
    PROVE  DecisionsAreComputed'
<1> DEFINE Told(b) == /\ claim_decision[b] = None \/ \E t \in Times : claim_decision[b] = Verdict[b][t]
                      /\ \/ decision[b] = None \/ \E t \in Times : decision[b] = Verdict[b][t]
                         \/ \E reason \in StoreReasons : decision[b] = ReplayBlock(reason)
<1> SUFFICES ASSUME NEW b \in Attempts PROVE Told(b)'
  BY DEF DecisionsAreComputed
<1>0. Told(b)
  BY DEF DecisionsAreComputed
<1>1. CASE b # a
  <2>1. decision'[b] = decision[b] /\ claim_decision'[b] = claim_decision[b]
    BY <1>1, StepFrame, RecordFrame DEF ClaimInv
  <2> QED BY <1>0, <2>1
<1>2. CASE b = a
  <2>0. clock \in Times /\ Decide(a) = Verdict[a][clock]
    BY DEF ClaimInv, TypeOK, Decide
  <2>1. claim_decision'[a] \in {claim_decision[a], None, Decide(a)}
    BY DEF ClaimInv, TypeOK, Step, Evaluate, Acquire, BusyTimeout, FindReplay, ValidateClaim, Commit,
         ConsumeRaises, NoncompliantConsume, Dispatch, ExecutorEnds, WriteBundle, EvidenceFails, cellVars
  <2>2. claim_decision'[a] = None \/ \E t \in Times : claim_decision'[a] = Verdict[a][t]
    BY <1>0, <1>2, <2>0, <2>1
  <2>3. CASE Answers(a)
    <3>1. \/ \E t \in Times : decision'[a] = Verdict[a][t]
          \/ \E reason \in StoreReasons : decision'[a] = ReplayBlock(reason)
      BY <2>3, AnswerShape
    <3> QED BY <1>2, <2>2, <3>1
  <2>4. CASE Evaluate(a)
    BY <1>2, <2>0, <2>2, <2>4 DEF Evaluate, ClaimInv, TypeOK
  <2>5. CASE ~Answers(a) /\ ~Evaluate(a)
    <3>1. decision' = decision
      BY <2>5, StepCases DEF Leaves, Acquire, BusyTimeout, ConsumeRaises, EvidenceFails, Dispatch,
           ExecutorEnds, WriteBundle, ValidateClaim, cellVars
    <3> QED BY <1>0, <1>2, <2>2, <3>1
  <2> QED BY <2>3, <2>4, <2>5
<1> QED BY <1>1, <1>2

-----------------------------------------------------------------------------
(* What a store holds is what was granted.                                 *)

Granted(s) == {a \in won \ lost : StoreOf(a) = s}

\* A name is taken exactly when a granted claim has it.
LEMMA StoreHolds ==
    ASSUME StoreHoldsGrantedClaims, NEW a \in Attempts
    PROVE  /\ consumed[StoreOf(a)][NonceOf(a)] # None =>
                 \E b \in Granted(StoreOf(a)) : NonceOf(b) = NonceOf(a)
           /\ idempotency[StoreOf(a)][KeyOf(a)] # None =>
                 \E b \in Granted(StoreOf(a)) : KeyOf(b) = KeyOf(a)
           /\ \A b \in Granted(StoreOf(a)) : consumed[StoreOf(a)][NonceOf(b)] # None
<1>1. StoreOf(a) \in Stores /\ NonceOf(a) \in Nonces /\ KeyOf(a) \in Keys
  BY ClaimPlace
<1>2. /\ {n \in Nonces : consumed[StoreOf(a)][n] # None} = {NonceOf(b) : b \in Granted(StoreOf(a))}
      /\ {k \in Keys : idempotency[StoreOf(a)][k] # None} = {KeyOf(b) : b \in Granted(StoreOf(a))}
  BY <1>1 DEF StoreHoldsGrantedClaims, Granted
<1> QED BY <1>1, <1>2

LEMMA StoreStep ==
    ASSUME ClaimInv, ClaimsAreSpent, StoreHoldsGrantedClaims, NEW a \in Attempts, Step(a)
    PROVE  StoreHoldsGrantedClaims'
<1> USE ClaimPlace DEF ClaimInv
<1>0. lost' = lost
  BY StepFrame
<1>1. CASE Commit(a)
  <2>1. /\ consumed' = [consumed EXCEPT ![StoreOf(a)][NonceOf(a)] = DigestOf(a)]
        /\ idempotency' = [idempotency EXCEPT ![StoreOf(a)][KeyOf(a)] = DigestOf(a)]
        /\ won' = won \cup {a} /\ pc[a] = "granted"
    BY <1>1 DEF Commit
  <2>2. a \notin won /\ a \notin lost
    BY <2>1 DEF ClaimsAreSpent, Called, Ended, TypeOK
  <2>3. \A s \in Stores : Granted(s)' = IF s = StoreOf(a) THEN Granted(s) \cup {a} ELSE Granted(s)
    BY <1>0, <2>1, <2>2 DEF Granted
  <2>4. ASSUME NEW s \in Stores
        PROVE  /\ {n \in Nonces : consumed'[s][n] # None} = {NonceOf(b) : b \in Granted(s)'}
               /\ {k \in Keys : idempotency'[s][k] # None} = {KeyOf(b) : b \in Granted(s)'}
               /\ \A b \in Granted(s)' : /\ consumed'[s][NonceOf(b)] = DigestOf(b)
                                         /\ idempotency'[s][KeyOf(b)] = DigestOf(b)
    <3>0. /\ {n \in Nonces : consumed[s][n] # None} = {NonceOf(b) : b \in Granted(s)}
          /\ {k \in Keys : idempotency[s][k] # None} = {KeyOf(b) : b \in Granted(s)}
          /\ \A b \in Granted(s) : /\ consumed[s][NonceOf(b)] = DigestOf(b)
                                   /\ idempotency[s][KeyOf(b)] = DigestOf(b)
      BY DEF StoreHoldsGrantedClaims, Granted
    <3>1. CASE s # StoreOf(a)
      <4>1. Granted(s)' = Granted(s) /\ consumed'[s] = consumed[s] /\ idempotency'[s] = idempotency[s]
        BY <2>1, <2>3, <3>1 DEF TypeOK
      <4> QED BY <3>0, <4>1
    <3>2. CASE s = StoreOf(a)
      <4>1. /\ Granted(s)' = Granted(s) \cup {a}
            /\ \A n \in Nonces : consumed'[s][n] = IF n = NonceOf(a) THEN DigestOf(a) ELSE consumed[s][n]
            /\ \A k \in Keys : idempotency'[s][k] = IF k = KeyOf(a) THEN DigestOf(a) ELSE idempotency[s][k]
        BY <2>1, <2>3, <3>2 DEF TypeOK
      <4>2. \A b \in Granted(s) : /\ b \in Attempts /\ NonceOf(b) # NonceOf(a) /\ KeyOf(b) # KeyOf(a)
        BY <1>1, <3>2, CommitFindsRoom DEF Granted, Conflict, TypeOK
      <4>3. \A b \in Attempts : NonceOf(b) \in Nonces /\ KeyOf(b) \in Keys
        OBVIOUS
      <4>4. {n \in Nonces : consumed'[s][n] # None} = {NonceOf(b) : b \in Granted(s)} \cup {NonceOf(a)}
        BY <3>0, <4>1
      <4>5. {k \in Keys : idempotency'[s][k] # None} = {KeyOf(b) : b \in Granted(s)} \cup {KeyOf(a)}
        BY <3>0, <4>1
      <4> HIDE DEF Granted
      <4>6. /\ {NonceOf(b) : b \in Granted(s)'} = {NonceOf(b) : b \in Granted(s)} \cup {NonceOf(a)}
            /\ {KeyOf(b) : b \in Granted(s)'} = {KeyOf(b) : b \in Granted(s)} \cup {KeyOf(a)}
        BY <4>1
      <4>7. \A b \in Granted(s)' : /\ consumed'[s][NonceOf(b)] = DigestOf(b)
                                   /\ idempotency'[s][KeyOf(b)] = DigestOf(b)
        BY <3>0, <4>1, <4>2, <4>3
      <4> QED BY <4>4, <4>5, <4>6, <4>7
    <3> QED BY <3>1, <3>2
  <2> QED BY <2>4 DEF StoreHoldsGrantedClaims, Granted
<1>2. CASE UNCHANGED <<consumed, idempotency, won>>
  BY <1>0, <1>2 DEF StoreHoldsGrantedClaims
<1> QED BY <1>1, <1>2, OnlyCommitWrites

\* A crash empties a store in memory, and with it goes every claim in it.
LEMMA StoreEnvironment ==
    ASSUME TypeOK, StoreHoldsGrantedClaims,
           (\E p \in Processes : Crash(p)) \/ AdjustClock \/ UNCHANGED vars
    PROVE  StoreHoldsGrantedClaims'
<1>1. ASSUME NEW p \in Processes, Crash(p), ~Durable PROVE StoreHoldsGrantedClaims'
  <2>1. /\ consumed' = [consumed EXCEPT ![p] = [n \in Nonces |-> None]]
        /\ idempotency' = [idempotency EXCEPT ![p] = [k \in Keys |-> None]]
        /\ lost' = lost \cup {a \in won : ProcessOf[a] = p} /\ won' = won
    BY <1>1 DEF Crash
  <2>2. \A s \in Stores : Granted(s)' = IF s = p THEN {} ELSE Granted(s)
    BY <1>1, <2>1 DEF Granted, StoreOf
  <2>3. ASSUME NEW s \in Stores
        PROVE  /\ {n \in Nonces : consumed'[s][n] # None} = {NonceOf(b) : b \in Granted(s)'}
               /\ {k \in Keys : idempotency'[s][k] # None} = {KeyOf(b) : b \in Granted(s)'}
               /\ \A b \in Granted(s)' : /\ consumed'[s][NonceOf(b)] = DigestOf(b)
                                         /\ idempotency'[s][KeyOf(b)] = DigestOf(b)
    <3>1. CASE s = p
      <4>1. Granted(s)' = {}
        BY <2>2, <3>1
      <4>2. (\A n \in Nonces : consumed'[s][n] = None) /\ (\A k \in Keys : idempotency'[s][k] = None)
        BY <2>1, <3>1 DEF TypeOK
      <4> QED BY <4>1, <4>2
    <3>2. CASE s # p
      <4>1. Granted(s)' = Granted(s) /\ consumed'[s] = consumed[s] /\ idempotency'[s] = idempotency[s]
        BY <2>1, <2>2, <3>2 DEF TypeOK
      <4> QED BY <4>1 DEF StoreHoldsGrantedClaims, Granted
    <3> QED BY <3>1, <3>2
  <2> QED BY <2>3 DEF StoreHoldsGrantedClaims, Granted
<1>2. ASSUME NEW p \in Processes, Crash(p), Durable PROVE StoreHoldsGrantedClaims'
  BY <1>2 DEF Crash, StoreHoldsGrantedClaims
<1>3. CASE AdjustClock \/ UNCHANGED vars
  BY <1>3 DEF AdjustClock, vars, storeVars, StoreHoldsGrantedClaims
<1> QED BY <1>1, <1>2, <1>3

-----------------------------------------------------------------------------
(* A replay that is reported happened.                                     *)

LEMMA ReplayStep ==
    ASSUME ClaimInv, ClaimsAreSpent, StoreHoldsGrantedClaims, ReplayIsNeverFalse, Compliant,
           NEW a \in Attempts, Step(a), DecisionFollowsCall(a)
    PROVE  ReplayIsNeverFalse'
<1>0. won \subseteq won'
  BY OnlyCommitWrites DEF Commit
<1>1. {"INTENT_REPLAYED", "IDEMPOTENCY_REPLAYED"} \subseteq StoreReasons
  BY DEF StoreReasons
<1> DEFINE Forestalled(b, d, w) ==
            /\ "INTENT_REPLAYED" \in d.reasons => \E c \in w \ {b} : NonceOf(c) = NonceOf(b)
            /\ "IDEMPOTENCY_REPLAYED" \in d.reasons =>
                  \E c \in w \ {b} : KeyOf(c) = KeyOf(b) /\ NonceOf(c) # NonceOf(b)
<1> SUFFICES ASSUME NEW b \in Attempts, decision'[b] # None PROVE Forestalled(b, decision'[b], won')
  BY DEF ReplayIsNeverFalse
<1>2. CASE decision'[b] = decision[b]
  BY <1>0, <1>2 DEF ReplayIsNeverFalse
<1>3. ASSUME NEW t \in Times, decision'[b] = Verdict[b][t] PROVE Forestalled(b, decision'[b], won')
  BY <1>1, <1>3, VerdictFacts
<1>4. CASE b = a /\ Answers(a)
  <2>1. CASE decision'[a] = Verdict[a][evidence_time'[a]] /\ evidence_time'[a] \in Times
    BY <1>3, <1>4, <2>1
  <2>2. ASSUME NEW r \in StoreReasons, decision'[a] = ReplayBlock(r),
               \/ FindReplay(a) /\ r = ReplayReason(a)
               \/ r \in StoreReasons \ {"INTENT_REPLAYED", "IDEMPOTENCY_REPLAYED"}
        PROVE  Forestalled(a, decision'[a], won')
    <3>1. decision'[a].reasons = {r}
      BY <2>2, ReplayBlockFacts
    <3>2. CASE r \notin {"INTENT_REPLAYED", "IDEMPOTENCY_REPLAYED"}
      BY <3>1, <3>2
    <3>3. CASE FindReplay(a) /\ r = ReplayReason(a)
      <4>1. a \notin won
        BY <1>4, AnswerShape
      <4>2. \A c \in Granted(StoreOf(a)) : c \in won' \ {a}
        BY <1>0, <4>1 DEF Granted
      <4>3. CASE consumed[StoreOf(a)][NonceOf(a)] # None
        <5>1. r = "INTENT_REPLAYED"
          BY <3>3, <4>3 DEF ReplayReason
        <5> QED BY <3>1, <4>2, <4>3, <5>1, StoreHolds
      <4>4. CASE consumed[StoreOf(a)][NonceOf(a)] = None
        <5>1. r = "IDEMPOTENCY_REPLAYED" /\ idempotency[StoreOf(a)][KeyOf(a)] # None
          BY <3>3, <4>4, NoneAssumption DEF ReplayReason, FindReplay
        <5>2. PICK c \in Granted(StoreOf(a)) : KeyOf(c) = KeyOf(a)
          BY <5>1, StoreHolds
        <5>3. NonceOf(c) # NonceOf(a)
          BY <4>4, <5>2, StoreHolds
        <5> QED BY <3>1, <4>2, <5>1, <5>2, <5>3
      <4> QED BY <4>3, <4>4
    <3> QED BY <2>2, <3>2, <3>3
  <2> QED BY <1>4, <2>1, <2>2, AnswerShape
<1>5. CASE b = a /\ ~Answers(a)
  <2>1. decision'[a] \in {decision[a], Verdict[a][clock]}
    BY <1>5, StepCases DEF Leaves, Acquire, BusyTimeout, ConsumeRaises, EvidenceFails, Dispatch,
         ExecutorEnds, WriteBundle, ValidateClaim, Evaluate, Decide, cellVars, ClaimInv, TypeOK
  <2> QED BY <1>2, <1>3, <1>5, <2>1 DEF ClaimInv, TypeOK
<1>6. CASE b # a
  BY <1>2, <1>6, RecordFrame DEF ClaimInv
<1> QED BY <1>4, <1>5, <1>6

-----------------------------------------------------------------------------
(* The theorems.                                                           *)

LEMMA InitCellInv == Init => CellInv
<1> SUFFICES ASSUME Init PROVE CellInv
  OBVIOUS
<1>1. ClaimInv
  BY InitInv
<1>2. ClaimsAreSpent /\ StoreHoldsGrantedClaims
  BY DEF Init, ClaimsAreSpent, StoreHoldsGrantedClaims
<1>3. ReplayIsNeverFalse /\ DecisionsAreComputed
  BY DEF Init, ReplayIsNeverFalse, DecisionsAreComputed
<1>4. ASSUME NEW a \in Attempts PROVE NotesFollowCall(a) /\ DecisionFollowsCall(a) /\ BundleFollowsCall(a)
  <2>1. /\ pc[a] = "idle" /\ bundle[a] = None /\ a \notin won /\ a \notin dispatched
        /\ noted[a].nonce_consumed = FALSE /\ noted[a].executor_invoked = FALSE
        /\ noted[a].status = "NOT_INVOKED"
    BY <1>4 DEF Init
  <2>2. (a \in won) = FALSE /\ (a \in dispatched) = FALSE
    BY <2>1
  <2>3. NotesFollowCall(a)
    BY <2>1, <2>2 DEF NotesFollowCall
  <2> QED BY <2>1, <2>3 DEF DecisionFollowsCall, BundleFollowsCall
<1> QED BY <1>1, <1>2, <1>3, <1>4 DEF CellInv

LEMMA CellInvStep == CellInv /\ [Next]_vars => CellInv'
<1> SUFFICES ASSUME CellInv, [Next]_vars PROVE CellInv'
  OBVIOUS
<1>0. ClaimInv'
  BY InvStep DEF CellInv
<1>1. ASSUME NEW a \in Attempts, Step(a) PROVE CellInv'
  <2>1. ClaimsAreSpent' /\ StoreHoldsGrantedClaims' /\ DecisionsAreComputed'
    BY <1>1, SpentStep, StoreStep, ComputedStep DEF CellInv
  <2>2. Compliant => ReplayIsNeverFalse'
    BY <1>1, ReplayStep DEF CellInv
  <2>3. ASSUME NEW b \in Attempts
        PROVE  NotesFollowCall(b)' /\ DecisionFollowsCall(b)' /\ BundleFollowsCall(b)'
    <3>1. CASE b = a
      BY <1>1, <3>1, NotesStep, DecisionStep, BundleStep DEF CellInv, ClaimInv
    <3>2. CASE b # a
      BY <1>1, <3>2, BystanderRecord DEF CellInv, ClaimInv
    <3> QED BY <3>1, <3>2
  <2> QED BY <1>0, <2>1, <2>2, <2>3 DEF CellInv
<1>2. CASE (\E p \in Processes : Crash(p)) \/ AdjustClock \/ UNCHANGED vars
  <2>1. /\ UNCHANGED <<decision, claim_decision, evidence_time, noted, bundle, won, dispatched>>
        /\ \A a \in Attempts : pc'[a] = pc[a] \/ (pc[a] \in InFlight /\ pc'[a] = "crashed")
    BY <1>2, EnvironmentFrame DEF CellInv, ClaimInv
  <2>2. ClaimsAreSpent' /\ DecisionsAreComputed'
    BY <2>1 DEF CellInv, ClaimInv, TypeOK, ClaimsAreSpent, DecisionsAreComputed, Called, Ended
  <2>3. Compliant => ReplayIsNeverFalse'
    BY <2>1 DEF CellInv, ReplayIsNeverFalse
  <2>4. StoreHoldsGrantedClaims'
    BY <1>2, StoreEnvironment DEF CellInv, ClaimInv
  <2>5. \A b \in Attempts : NotesFollowCall(b)' /\ DecisionFollowsCall(b)' /\ BundleFollowsCall(b)'
    BY <1>2, EnvironmentRecord DEF CellInv, ClaimInv
  <2> QED BY <1>0, <2>2, <2>3, <2>4, <2>5 DEF CellInv
<1> QED BY <1>1, <1>2 DEF Next, AllEnded

\* The inductive invariant of a whole call holds of every behaviour of
\* execute: its claim, its decision, its notes and its bundle agree.
THEOREM CellInvHolds == Spec => []CellInv
BY InitCellInv, CellInvStep, PTL DEF Spec

\* A store holds exactly the claims it granted, whatever refusals, exceptions
\* and crashes interrupt a claim: nothing is poisoned and nothing forgotten.
THEOREM StoreIsExact == Spec => []StoreHoldsGrantedClaims
<1>1. CellInv => StoreHoldsGrantedClaims
  BY DEF CellInv
<1> QED BY <1>1, CellInvHolds, PTL

\* With a store that honours the protocol, a replay is reported only to an
\* attempt that another one, with the same nonce or key, really forestalled.
THEOREM ReplaysAreReal ==
    ASSUME Compliant
    PROVE  Spec => []ReplayIsNeverFalse
<1>1. CellInv => ReplayIsNeverFalse
  BY DEF CellInv
<1> QED BY <1>1, CellInvHolds, PTL

\* A finished bundle says of its attempt what happened to it.
THEOREM BundlesAreTrue == Spec => []BundleTellsTheTruth
<1>1. CellInv => BundleTellsTheTruth
  <2> SUFFICES ASSUME CellInv, NEW a \in Attempts, bundle[a] # None
               PROVE  /\ bundle[a].result.executor_invoked = (a \in dispatched)
                      /\ (bundle[a].authorization.status = "ACCEPT") = (a \in dispatched)
                      /\ (bundle[a].outcome \in {"COMPLETED", "FAILED"}) = (a \in dispatched)
                      /\ (bundle[a].result.status # "NOT_INVOKED") = (a \in dispatched)
                      /\ Compliant => bundle[a].result.nonce_consumed = (a \in won)
    BY DEF BundleTellsTheTruth
  <2>1. /\ pc[a] = "done"
        /\ bundle[a].authorization = decision[a] /\ bundle[a].result = noted[a]
        /\ bundle[a].outcome = TerminalStatus(decision[a], noted[a].status)
    BY DEF CellInv, BundleFollowsCall
  <2>2. /\ noted[a].executor_invoked = (a \in dispatched)
        /\ Compliant => noted[a].nonce_consumed = (a \in won)
        /\ (noted[a].status # "NOT_INVOKED") = (a \in dispatched)
    BY <2>1 DEF CellInv, NotesFollowCall
  <2>3. (decision[a].status = "ACCEPT") = (a \in dispatched)
    BY <2>1 DEF CellInv, DecisionFollowsCall
  <2>4. /\ decision[a].status \in {"ACCEPT", "HOLD", "BLOCK"}
        /\ decision[a].status = "ACCEPT" => decision[a].reasons = {}
    BY <2>1, AcceptedDecision DEF CellInv, ClaimInv, TypeOK, Statuses
  <2>5. TerminalStatus(decision[a], noted[a].status) \in {"COMPLETED", "FAILED"}
          <=> decision[a].status = "ACCEPT"
    BY <2>4, NoneAssumption DEF TerminalStatus
  <2> QED BY <2>1, <2>2, <2>3, <2>5
<1> QED BY <1>1, CellInvHolds, PTL

\* What a bundle records as authorized can be recomputed from it.
THEOREM RecordsReproduce == Spec => []RecordedDecisionIsReproducible
<1>1. CellInv => RecordedDecisionIsReproducible
  BY DEF CellInv, BundleFollowsCall, DecisionFollowsCall, RecordedDecisionIsReproducible
<1> QED BY <1>1, CellInvHolds, PTL

=============================================================================
