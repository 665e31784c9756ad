--------------------------- MODULE OrganismProofs ---------------------------
(***************************************************************************)
(* What holds of OrganismRunner.run for every set of runs, every registry, *)
(* every clock and every identity the adapters may take.                   *)
(***************************************************************************)
EXTENDS Organism, FiniteSetTheorems, WellFoundedInduction, TLAPS

-----------------------------------------------------------------------------
(* The latest activation exists: a registry is finite.                     *)

LEMMA Smallest ==
    ASSUME NEW T \in SUBSET Nat, T # {}
    PROVE  \E n \in T : \A m \in T : n <= m
<1> DEFINE R == OpToRel(<, Nat)
<1>1. IsWellFoundedOn(R, Nat)
  BY NatLessThanWellFounded
<1>2. \E x \in T : \A y \in T : ~ (<<y, x>> \in R)
  BY <1>1, WFMin
<1>3. \A x, y \in Nat : <<y, x>> \in R <=> y < x
  BY DEF OpToRel
<1>4. PICK n \in T : \A y \in T : ~ (<<y, n>> \in R)
  BY <1>2
<1>5. \A y \in T : ~ (y < n)
  <2> HIDE DEF R
  <2> QED BY <1>3, <1>4
<1> QED BY <1>5

\* The latest of a finite set is the one the fewest others exceed.
LEMMA Latest ==
    ASSUME NEW S \in SUBSET Int, S # {}, IsFiniteSet(S)
    PROVE  \E t \in S : \A u \in S : u <= t
<1> DEFINE After(t) == {u \in S : u > t}
<1>1. \A t \in S : IsFiniteSet(After(t)) /\ Cardinality(After(t)) \in Nat
  BY FS_Subset, FS_CardinalityType
<1>2. PICK t \in S : \A u \in S : Cardinality(After(t)) <= Cardinality(After(u))
  <2> DEFINE Counts == {Cardinality(After(u)) : u \in S}
  <2>1. Counts \in SUBSET Nat /\ Counts # {}
    BY <1>1
  <2>2. PICK n \in Counts : \A m \in Counts : n <= m
    <3> HIDE DEF Counts
    <3> QED BY <2>1, Smallest
  <2> QED BY <2>2
<1>3. ASSUME NEW u \in S, u > t PROVE FALSE
  <2>1. After(u) \in SUBSET After(t) /\ After(u) # After(t)
    <3>1. u \in After(t) /\ u \notin After(u)
      BY <1>3
    <3>2. \A v \in S : v > u => v > t
      BY <1>3
    <3> QED BY <3>1, <3>2
  <2>2. Cardinality(After(u)) < Cardinality(After(t))
    <3> HIDE DEF After
    <3>1. Cardinality(After(u)) <= Cardinality(After(t)) /\ Cardinality(After(t)) # Cardinality(After(u))
      BY <1>1, <2>1, FS_Subset
    <3> QED BY <1>1, <3>1
  <2> QED BY <2>2, <1>1, <1>2
<1> QED BY <1>3

\* An accepted manifest is active until the latest exact activation, which
\* is still to come.
LEMMA ActivationAhead ==
    ASSUME registry \in Registries, Accepted
    PROVE  /\ ActiveUntil(clock) \in Int
           /\ ActiveUntil(clock) > clock
           /\ \A t \in Active(clock) : t <= ActiveUntil(clock)
<1>1. Active(clock) # {}
  BY DEF Accepted, ManifestDecision, ActivationDecision
<1>2. Exact \in SUBSET Int
  BY TimesAssumption DEF Exact
<1>3. IsFiniteSet(Exact)
  <2> DEFINE Chosen == {b \in registry : b.exact}
             ExpiryOf == [b \in Chosen |-> b.expires]
  <2>1. IsFiniteSet(Chosen)
    BY TimesAssumption, FS_Subset
  <2>2. ExpiryOf \in Surjection(Chosen, Exact)
    BY DEF Exact, Surjection
  <2> QED BY <2>1, <2>2, FS_Surjection
<1>4. IsFiniteSet(Active(clock)) /\ Active(clock) \in SUBSET Int
  BY <1>2, <1>3, FS_Subset DEF Active
<1>5. \E t \in Active(clock) : \A u \in Active(clock) : u <= t
  BY <1>1, <1>4, Latest
<1>6. ActiveUntil(clock) \in Active(clock) /\ \A t \in Active(clock) : t <= ActiveUntil(clock)
  BY <1>5 DEF ActiveUntil
<1> QED BY <1>4, <1>6 DEF Active

-----------------------------------------------------------------------------
(* Type correctness.                                                       *)

LEMMA RefusalIsKnown ==
    ASSUME NEW r \in Runs, Refused(r)
    PROVE  \E status \in RunStatuses \ {"COMPLETED"}, reason \in Reasons :
              Halt(r, status, reason)
<1> DEFINE d == ManifestDecision(clock)
<1>1. d.status # "ACCEPT"
  BY DEF Refused
<1>2. d \in [status : {"HOLD", "BLOCK"}, reason : ControlReasons]
  <2>1. CASE \E a \in Adapters : ~pinned[a]
    BY <2>1 DEF ManifestDecision, ControlReasons
  <2>2. CASE \A a \in Adapters : pinned[a]
    <3>1. d = ActivationDecision(clock)
      BY <2>2 DEF ManifestDecision
    <3> QED BY <1>1, <3>1 DEF ActivationDecision, ControlReasons
  <2> QED BY <2>1, <2>2
<1>3. \/ Halt(r, "EFFECT_UNCERTAIN", "ADAPTER_PROVENANCE_CHANGED_EFFECT_UNCERTAIN")
      \/ Halt(r, d.status, d.reason)
  BY DEF Refused
<1>4. /\ {"HOLD", "BLOCK", "EFFECT_UNCERTAIN"} \subseteq RunStatuses \ {"COMPLETED"}
      /\ ControlReasons \subseteq Reasons
      /\ "ADAPTER_PROVENANCE_CHANGED_EFFECT_UNCERTAIN" \in ControlReasons
  BY DEF RunStatuses, Reasons, ControlReasons
<1> HIDE DEF d
<1>5. /\ d.status \in {"HOLD", "BLOCK"} /\ d.reason \in ControlReasons
  BY <1>2
<1>6. CASE Halt(r, "EFFECT_UNCERTAIN", "ADAPTER_PROVENANCE_CHANGED_EFFECT_UNCERTAIN")
  BY <1>4, <1>6
<1>7. CASE Halt(r, d.status, d.reason)
  BY <1>4, <1>5, <1>7
<1> QED BY <1>3, <1>6, <1>7

\* A run that returns is over, and its result is one.
LEMMA ReturnsType ==
    ASSUME TypeOK, NEW r \in Runs,
           NEW status \in RunStatuses, NEW reason \in Reasons,
           NEW calls \in Nat, NEW total \in Nat, NEW boundary \in BOOLEAN,
           Returns(r, status, reason, calls, total, boundary)
    PROVE  /\ pc' = [pc EXCEPT ![r] = "ended"]
           /\ pc' \in [Runs -> Labels]
           /\ result' \in [Runs -> Results \cup {None}]
           /\ result'[r] = [status |-> status, reason |-> reason, calls |-> calls,
                            tokens |-> total, boundary |-> boundary]
           /\ \A q \in Runs : pc'[q] = "ended" <=> result'[q] # None
<1> DEFINE new == [status |-> status, reason |-> reason, calls |-> calls,
                   tokens |-> total, boundary |-> boundary]
<1>1. new \in Results /\ new # None
  BY NoneAssumption DEF Results
<1>2. result' = [result EXCEPT ![r] = new] /\ pc' = [pc EXCEPT ![r] = "ended"]
  BY DEF Returns, Goto
<1> HIDE DEF new
<1>3. pc' \in [Runs -> Labels] /\ result' \in [Runs -> Results \cup {None}] /\ result'[r] = new
  BY <1>1, <1>2 DEF TypeOK, Labels, Over
<1>4. \A q \in Runs : pc'[q] = "ended" <=> result'[q] # None
  BY <1>1, <1>2 DEF TypeOK
<1> QED BY <1>2, <1>3, <1>4 DEF new

LEMMA HaltType ==
    ASSUME TypeOK, NEW r \in Runs,
           NEW status \in RunStatuses, NEW reason \in Reasons,
           Halt(r, status, reason)
    PROVE  /\ pc' = [pc EXCEPT ![r] = "ended"]
           /\ pc' \in [Runs -> Labels]
           /\ result' \in [Runs -> Results \cup {None}]
           /\ result'[r] = [status |-> status, reason |-> reason, calls |-> cells[r],
                            tokens |-> tokens[r], boundary |-> FALSE]
           /\ \A q \in Runs : pc'[q] = "ended" <=> result'[q] # None
<1>1. cells[r] \in Nat /\ tokens[r] \in Nat
  BY DEF TypeOK
<1> QED BY <1>1, ReturnsType DEF Halt

-----------------------------------------------------------------------------
(* What a step of a run does to the others, and what a run does when it    *)
(* stops with no call under way.                                           *)

\* The bounds of one run may move; its deadline and the earliest bound it was
\* shown move together.
BoundsMove(r) ==
    \E t \in Int, c \in Int, a \in Int \cup {None} :
        /\ deadline' = [deadline EXCEPT ![r] = t]
        /\ limit' = [limit EXCEPT ![r] = t]
        /\ cellDeadline' = [cellDeadline EXCEPT ![r] = c]
        /\ activation' = [activation EXCEPT ![r] = a]

\* A store may have taken the name a run asked for and raised all the same.
NamesStayTaken(r) ==
    /\ runKeys \subseteq runKeys' /\ runKeys' \subseteq runKeys \cup {SemanticKey[r]}
    /\ effectKeys \subseteq effectKeys' /\ effectKeys' \subseteq Effects
    /\ lateClaims' \subseteq lateClaims \cup {r}

StopsQuietly(r) ==
    /\ pc[r] \notin Over \cup {"called", "cell_done", "acting", "acted"}
    /\ \E status \in RunStatuses \ {"COMPLETED"}, reason \in Reasons :
          Halt(r, status, reason)
    /\ BoundsMove(r)
    /\ call' = call \/ call' = [call EXCEPT ![r] = NoCall]
    /\ NamesStayTaken(r)
    /\ UNCHANGED <<envVars, stage, sensitive, tokens, cells, invoked, action,
                   executed, claimedAt, spent, tainted, exposed>>

LEMMA NamesStay ==
    ASSUME TypeOK, NEW r \in Runs, UNCHANGED <<storeVars, lateClaims>>
    PROVE  NamesStayTaken(r)
BY DEF NamesStayTaken, TypeOK, storeVars

LEMMA BoundsStay ==
    ASSUME TypeOK, NEW r \in Runs, DeadlineCovers(r), UNCHANGED <<timeVars, limit>>
    PROVE  BoundsMove(r)
<1>1. deadline[r] \in Int /\ cellDeadline[r] \in Int /\ activation[r] \in Int \cup {None}
  BY DEF TypeOK
<1>2. deadline[r] = limit[r]
  BY DEF DeadlineCovers
<1>3. /\ deadline' = [deadline EXCEPT ![r] = deadline[r]]
      /\ limit' = [limit EXCEPT ![r] = deadline[r]]
      /\ cellDeadline' = [cellDeadline EXCEPT ![r] = cellDeadline[r]]
      /\ activation' = [activation EXCEPT ![r] = activation[r]]
  BY <1>2 DEF TypeOK, timeVars
<1> QED BY <1>1, <1>3 DEF BoundsMove

\* A check that accepts the manifest brings the deadline forward, never back.
LEMMA ClampMoves ==
    ASSUME TypeOK, NEW r \in Runs, DeadlineCovers(r), Clamped(r)
    PROVE  /\ Clamp(r) \in Int
           /\ Clamp(r) <= deadline[r]
           /\ deadline' = [deadline EXCEPT ![r] = Clamp(r)]
           /\ limit' = [limit EXCEPT ![r] = Clamp(r)]
<1>1. ActiveUntil(clock) \in Int
  BY ActivationAhead DEF Clamped, TypeOK
<1>2. deadline[r] \in Int /\ deadline[r] = limit[r]
  BY DEF TypeOK, DeadlineCovers
<1> QED BY <1>1, <1>2 DEF Clamped, Clamp, Earlier

LEMMA ClampBounds ==
    ASSUME TypeOK, NEW r \in Runs, DeadlineCovers(r), Clamped(r), UNCHANGED activation,
           NEW c \in Int, cellDeadline' = [cellDeadline EXCEPT ![r] = c]
    PROVE  BoundsMove(r)
<1>1. activation[r] \in Int \cup {None} /\ activation' = [activation EXCEPT ![r] = activation[r]]
  BY DEF TypeOK
<1> QED BY <1>1, ClampMoves DEF BoundsMove

LEMMA StopsQuietlyType ==
    ASSUME TypeOK, NEW r \in Runs, StopsQuietly(r)
    PROVE  TypeOK'
<1>1. PICK status \in RunStatuses, reason \in Reasons : Halt(r, status, reason)
  BY DEF StopsQuietly
<1>2. /\ pc' = [pc EXCEPT ![r] = "ended"] /\ pc' \in [Runs -> Labels]
      /\ result' \in [Runs -> Results \cup {None}]
      /\ \A q \in Runs : pc'[q] = "ended" <=> result'[q] # None
  BY <1>1, HaltType
<1>3. call' \in [Runs -> CallTypes]
  <2>1. NoCall \in CallTypes
    BY DEF NoCall, CallTypes
  <2> QED BY <2>1 DEF StopsQuietly, TypeOK
<1>4. /\ activation' \in [Runs -> Int \cup {None}] /\ deadline' \in [Runs -> Int]
      /\ cellDeadline' \in [Runs -> Int] /\ limit' \in [Runs -> Int]
      /\ \A q \in Runs \ {r} : activation'[q] = activation[q]
  BY DEF StopsQuietly, BoundsMove, TypeOK
<1>5. \A q \in Runs : pc'[q] = "reserved" => activation'[q] # None
  BY <1>2, <1>4 DEF TypeOK
<1>6. \A q \in Runs : pc'[q] \in AfterModels \ {"draft"} => action'[q] # None
  BY <1>2 DEF TypeOK, StopsQuietly, AfterModels
<1>7. runKeys' \subseteq {SemanticKey[q] : q \in Runs} /\ effectKeys' \subseteq Effects
      /\ lateClaims' \subseteq Runs
  BY DEF StopsQuietly, NamesStayTaken, TypeOK
<1> QED BY <1>2, <1>3, <1>4, <1>5, <1>6, <1>7 DEF TypeOK, StopsQuietly, envVars

-----------------------------------------------------------------------------
(* Every step of a run stops it quietly or takes it on.                    *)

LEMMA KnownReasons ==
    /\ ControlReasons \subseteq Reasons /\ CellReasons \subseteq Reasons
    /\ ModelReasons \subseteq Reasons /\ ActionReasons \subseteq Reasons
    /\ None \in Reasons /\ \A r \in Runs : Preflight[r] \subseteq Reasons
    /\ RunStatuses \ {"COMPLETED"} = {"NO_ACTION", "HOLD", "BLOCK", "FAILED", "EFFECT_UNCERTAIN"}
BY DEF Reasons, RunStatuses

LEMMA QuietHalt ==
    ASSUME TypeOK, NEW r \in Runs, DeadlineCovers(r),
           pc[r] \notin Over \cup {"called", "cell_done", "acting", "acted"},
           NEW status \in {"NO_ACTION", "HOLD", "BLOCK", "FAILED", "EFFECT_UNCERTAIN"},
           NEW reason \in ControlReasons \cup CellReasons \cup ModelReasons \cup ActionReasons
                             \cup Preflight[r],
           Halt(r, status, reason),
           UNCHANGED <<envVars, storeVars, timeVars, modelVars, action, historyVars>>
    PROVE  StopsQuietly(r)
<1>1. status \in RunStatuses \ {"COMPLETED"} /\ reason \in Reasons
  BY KnownReasons
<1>2. BoundsMove(r)
  BY BoundsStay DEF historyVars
<1> QED BY <1>1, <1>2, NamesStay DEF StopsQuietly, historyVars, modelVars

LEMMA QuietRefusal ==
    ASSUME TypeOK, NEW r \in Runs, DeadlineCovers(r),
           pc[r] \notin Over \cup {"called", "cell_done", "acting", "acted"},
           Refused(r),
           UNCHANGED <<envVars, storeVars, timeVars, modelVars, action, historyVars>>
    PROVE  StopsQuietly(r)
<1>1. BoundsMove(r)
  BY BoundsStay DEF historyVars
<1> QED BY <1>1, NamesStay, RefusalIsKnown DEF StopsQuietly, historyVars, modelVars

LEMMA CheckFailsStep ==
    ASSUME TypeOK, NEW r \in Runs, DeadlineCovers(r), CheckFails(r)
    PROVE  StopsQuietly(r)
<1>1. PICK reason \in {"CLOCK_ERROR", "CONTROL_PLANE_ERROR"} : Halt(r, "FAILED", reason)
  BY DEF CheckFails
<1>2. reason \in ControlReasons
  BY DEF ControlReasons
<1>3. pc[r] \notin Over \cup {"called", "cell_done", "acting", "acted"}
  BY DEF CheckFails, Checkpoints, Over
<1> QED BY <1>1, <1>2, <1>3, QuietHalt DEF CheckFails

\* On to the claim of the key: nothing but the bounds of the run moves.
Prepares(r) ==
    /\ pc[r] \in {"new", "predispatch", "reserve", "reserved"}
    /\ \E label \in {"predispatch", "reserve", "reserved", "claiming"} :
          /\ Goto(r, label)
          /\ label = "reserved" => activation'[r] # None
    /\ BoundsMove(r)
    /\ UNCHANGED <<envVars, storeVars, modelVars, action, result, executed, claimedAt,
                   spent, tainted, exposed, lateClaims>>

LEMMA CheckContextStep ==
    ASSUME TypeOK, NEW r \in Runs, DeadlineCovers(r), CheckContext(r)
    PROVE  StopsQuietly(r) \/ Prepares(r)
<1>1. pc[r] = "new" /\ UNCHANGED <<envVars, storeVars, timeVars, modelVars, action, historyVars>>
  BY DEF CheckContext
<1>2. pc[r] \notin Over \cup {"called", "cell_done", "acting", "acted"}
  BY <1>1 DEF Over
<1>3. \/ Halt(r, "BLOCK", "CONTEXT_TIME_INVALID")
      \/ Refused(r)
      \/ \E why \in Preflight[r] : Halt(r, "BLOCK", why)
      \/ Goto(r, "predispatch") /\ UNCHANGED result
  BY DEF CheckContext
<1>4. CASE Halt(r, "BLOCK", "CONTEXT_TIME_INVALID")
  <2>1. "CONTEXT_TIME_INVALID" \in ControlReasons
    BY DEF ControlReasons
  <2> QED BY <1>1, <1>2, <1>4, <2>1, QuietHalt
<1>5. CASE Refused(r)
  BY <1>1, <1>2, <1>5, QuietRefusal
<1>6. CASE \E why \in Preflight[r] : Halt(r, "BLOCK", why)
  BY <1>1, <1>2, <1>6, QuietHalt
<1>7. CASE Goto(r, "predispatch") /\ UNCHANGED result
  <2>1. BoundsMove(r)
    BY <1>1, BoundsStay DEF historyVars
  <2> QED BY <1>1, <1>7, <2>1 DEF Prepares, historyVars
<1> QED BY <1>3, <1>4, <1>5, <1>6, <1>7

LEMMA PredispatchStep ==
    ASSUME TypeOK, NEW r \in Runs, DeadlineCovers(r), Predispatch(r)
    PROVE  StopsQuietly(r) \/ Prepares(r)
<1>1. /\ pc[r] = "predispatch"
      /\ UNCHANGED <<envVars, storeVars, timeVars, modelVars, action, historyVars>>
  BY DEF Predispatch
<1>2. pc[r] \notin Over \cup {"called", "cell_done", "acting", "acted"}
  BY <1>1 DEF Over
<1>3. CASE Halt(r, "BLOCK", "CONTEXT_TIME_INVALID")
  <2>1. "CONTEXT_TIME_INVALID" \in ControlReasons
    BY DEF ControlReasons
  <2> QED BY <1>1, <1>2, <1>3, <2>1, QuietHalt
<1>4. CASE Refused(r)
  BY <1>1, <1>2, <1>4, QuietRefusal
<1>5. CASE Goto(r, "reserve") /\ UNCHANGED result
  <2>1. BoundsMove(r)
    BY <1>1, BoundsStay DEF historyVars
  <2> QED BY <1>1, <1>5, <2>1 DEF Prepares, historyVars
<1> QED BY <1>3, <1>4, <1>5 DEF Predispatch

LEMMA ReserveStep ==
    ASSUME TypeOK, NEW r \in Runs, DeadlineCovers(r), Reserve(r)
    PROVE  StopsQuietly(r) \/ Prepares(r)
<1>1. /\ pc[r] = "reserve"
      /\ UNCHANGED <<envVars, storeVars, deadline, cellDeadline, modelVars, action, historyVars>>
  BY DEF Reserve
<1>2. pc[r] \notin Over \cup {"called", "cell_done", "acting", "acted"}
  BY <1>1 DEF Over
<1>3. CASE Halt(r, "BLOCK", "CONTEXT_TIME_INVALID") /\ UNCHANGED activation
  <2>1. "CONTEXT_TIME_INVALID" \in ControlReasons
    BY DEF ControlReasons
  <2> QED BY <1>1, <1>2, <1>3, <2>1, QuietHalt DEF timeVars
<1>4. CASE Refused(r) /\ UNCHANGED activation
  BY <1>1, <1>2, <1>4, QuietRefusal DEF timeVars
<1>5. CASE /\ Accepted
           /\ activation' = [activation EXCEPT ![r] = ActiveUntil(clock)]
           /\ Goto(r, "reserved") /\ UNCHANGED result
  <2>1. ActiveUntil(clock) \in Int
    BY <1>5, ActivationAhead DEF TypeOK
  <2>2. BoundsMove(r)
    <3>1. deadline[r] \in Int /\ cellDeadline[r] \in Int /\ deadline[r] = limit[r]
      BY DEF TypeOK, DeadlineCovers
    <3>2. /\ deadline' = [deadline EXCEPT ![r] = deadline[r]]
          /\ limit' = [limit EXCEPT ![r] = deadline[r]]
          /\ cellDeadline' = [cellDeadline EXCEPT ![r] = cellDeadline[r]]
      BY <1>1, <3>1 DEF TypeOK, historyVars
    <3> QED BY <1>5, <2>1, <3>1, <3>2 DEF BoundsMove
  <2>3. activation'[r] # None
    BY <1>5, <2>1, NoneAssumption DEF TypeOK
  <2> QED BY <1>1, <1>5, <2>2, <2>3 DEF Prepares, historyVars
<1> QED BY <1>3, <1>4, <1>5 DEF Reserve

LEMMA StartRunStep ==
    ASSUME TypeOK, NEW r \in Runs, DeadlineCovers(r), StartRun(r)
    PROVE  StopsQuietly(r) \/ Prepares(r)
<1>1. /\ pc[r] = "reserved"
      /\ UNCHANGED <<envVars, storeVars, activation, cellDeadline, modelVars, action,
                     executed, claimedAt, spent, tainted, exposed, lateClaims>>
  BY DEF StartRun
<1>2. pc[r] \notin Over \cup {"called", "cell_done", "acting", "acted"}
  BY <1>1 DEF Over
<1>3. ASSUME NEW reason \in {"CONTEXT_TIME_INVALID", "MANIFEST_ACTIVATION_EXPIRED"},
             Halt(r, "BLOCK", reason), UNCHANGED <<deadline, limit>>
      PROVE  StopsQuietly(r)
  <2>1. reason \in ControlReasons
    BY DEF ControlReasons
  <2> QED BY <1>1, <1>2, <1>3, <2>1, QuietHalt DEF timeVars, historyVars
<1>4. CASE /\ deadline' = [deadline EXCEPT ![r] =
                  Earlier(Expires[r], Earlier(activation[r], clock + MaxSeconds))]
           /\ limit' = [limit EXCEPT ![r] =
                  Earlier(Expires[r], Earlier(activation[r], clock + MaxSeconds))]
           /\ Goto(r, "claiming") /\ UNCHANGED result
  <2>1. activation[r] \in Int /\ cellDeadline[r] \in Int /\ clock \in Int
    BY <1>1, TimesAssumption DEF TypeOK
  <2>2. Earlier(Expires[r], Earlier(activation[r], clock + MaxSeconds)) \in Int
    BY <2>1, TimesAssumption, LimitsAssumption DEF Earlier
  <2>3. /\ activation' = [activation EXCEPT ![r] = activation[r]]
        /\ cellDeadline' = [cellDeadline EXCEPT ![r] = cellDeadline[r]]
    BY <1>1 DEF TypeOK
  <2>4. BoundsMove(r)
    BY <1>4, <2>1, <2>2, <2>3 DEF BoundsMove
  <2> QED BY <1>1, <1>4, <2>4 DEF Prepares
<1> QED BY <1>3, <1>4 DEF StartRun

ClaimsRun(r) ==
    /\ pc[r] = "claiming" /\ SemanticKey[r] \notin runKeys
    /\ runKeys' = runKeys \cup {SemanticKey[r]}
    /\ lateClaims' \subseteq lateClaims \cup {r}
    /\ Goto(r, "stage")
    /\ BoundsMove(r)
    /\ UNCHANGED <<envVars, effectKeys, modelVars, action, result, executed, claimedAt,
                   spent, tainted, exposed>>

LEMMA ClaimRunStep ==
    ASSUME TypeOK, NEW r \in Runs, DeadlineCovers(r), ClaimRun(r)
    PROVE  StopsQuietly(r) \/ ClaimsRun(r)
<1>1. /\ pc[r] = "claiming"
      /\ UNCHANGED <<envVars, effectKeys, timeVars, modelVars, action,
                     executed, claimedAt, limit, spent, tainted, exposed>>
  BY DEF ClaimRun
<1>2. pc[r] \notin Over \cup {"called", "cell_done", "acting", "acted"}
  BY <1>1 DEF Over
<1>3. ASSUME NEW status \in {"FAILED", "BLOCK"}, NEW reason \in {"SEMANTIC_STORE_ERROR", "ORGANISM_REPLAYED"},
             Halt(r, status, reason), UNCHANGED <<runKeys, lateClaims>>
      PROVE  StopsQuietly(r)
  <2>1. reason \in ControlReasons
    BY DEF ControlReasons
  <2>2. UNCHANGED <<envVars, storeVars, timeVars, modelVars, action, historyVars>>
    BY <1>1, <1>3 DEF storeVars, historyVars
  <2> QED BY <1>2, <1>3, <2>1, <2>2, QuietHalt
<1>4. CASE /\ SemanticKey[r] \notin runKeys
           /\ runKeys' = runKeys \cup {SemanticKey[r]}
           /\ lateClaims' = IF clock < deadline[r] THEN lateClaims ELSE lateClaims \cup {r}
           /\ \/ Goto(r, "stage") /\ UNCHANGED result
              \/ Halt(r, "FAILED", "SEMANTIC_STORE_ERROR")
  <2>1. BoundsMove(r)
    BY <1>1, BoundsStay
  <2>2. CASE Goto(r, "stage") /\ UNCHANGED result
    BY <1>1, <1>4, <2>1, <2>2 DEF ClaimsRun
  <2>3. CASE Halt(r, "FAILED", "SEMANTIC_STORE_ERROR")
    <3>1. "SEMANTIC_STORE_ERROR" \in Reasons /\ "FAILED" \in RunStatuses \ {"COMPLETED"}
      BY KnownReasons DEF ControlReasons
    <3>2. NamesStayTaken(r)
      BY <1>1, <1>4 DEF NamesStayTaken, TypeOK
    <3> QED BY <1>1, <1>2, <2>1, <2>3, <3>1, <3>2 DEF StopsQuietly, modelVars
  <2> QED BY <1>4, <2>2, <2>3
<1> QED BY <1>3, <1>4 DEF ClaimRun

EntersCell(r) ==
    /\ pc[r] = "stage" /\ BudgetLeft(r)
    /\ Goto(r, "cell")
    /\ BoundsMove(r)
    /\ UNCHANGED <<envVars, storeVars, modelVars, action, result, executed, claimedAt,
                   spent, tainted, exposed, lateClaims>>

LEMMA StartStageStep ==
    ASSUME TypeOK, NEW r \in Runs, DeadlineCovers(r), StartStage(r)
    PROVE  StopsQuietly(r) \/ EntersCell(r)
<1>1. /\ pc[r] = "stage"
      /\ UNCHANGED <<envVars, storeVars, activation, modelVars, action,
                     executed, claimedAt, spent, tainted, exposed, lateClaims>>
  BY DEF StartStage
<1>2. pc[r] \notin Over \cup {"called", "cell_done", "acting", "acted"}
  BY <1>1 DEF Over
<1>3. CASE Refused(r) /\ UNCHANGED <<deadline, cellDeadline, limit>>
  BY <1>1, <1>2, <1>3, QuietRefusal DEF timeVars, historyVars
<1>4. ASSUME NEW reason \in {"ORGANISM_DEADLINE_EXCEEDED", "BUDGET_RESERVATION_FAILED"},
             Clamped(r), Halt(r, "BLOCK", reason), UNCHANGED cellDeadline
      PROVE  StopsQuietly(r)
  <2>1. cellDeadline[r] \in Int /\ cellDeadline' = [cellDeadline EXCEPT ![r] = cellDeadline[r]]
    BY <1>4 DEF TypeOK
  <2>2. BoundsMove(r)
    BY <1>1, <1>4, <2>1, ClampBounds
  <2>3. reason \in Reasons /\ "BLOCK" \in RunStatuses \ {"COMPLETED"}
    BY KnownReasons DEF ControlReasons, ModelReasons
  <2> QED BY <1>1, <1>2, <1>4, <2>2, <2>3, NamesStay DEF StopsQuietly, modelVars
<1>5. CASE /\ Clamped(r) /\ BudgetLeft(r)
           /\ cellDeadline' = [cellDeadline EXCEPT ![r] = Earlier(Clamp(r), clock + CellSeconds)]
           /\ Goto(r, "cell") /\ UNCHANGED result
  <2>1. Clamp(r) \in Int
    BY <1>5, ClampMoves
  <2>2. Earlier(Clamp(r), clock + CellSeconds) \in Int
    BY <2>1, TimesAssumption, LimitsAssumption DEF Earlier, TypeOK
  <2>3. BoundsMove(r)
    BY <1>1, <1>5, <2>2, ClampBounds
  <2> QED BY <1>1, <1>5, <2>3 DEF EntersCell
<1> QED BY <1>3, <1>4, <1>5 DEF StartStage

EntersInvoking(r) ==
    /\ pc[r] = "cell" /\ (sensitive[r] => stage[r] \in Secret)
    /\ Goto(r, "invoking")
    /\ BoundsMove(r)
    /\ UNCHANGED <<envVars, storeVars, modelVars, action, result, executed, claimedAt,
                   spent, tainted, exposed, lateClaims>>

LEMMA ClaimModelCellStep ==
    ASSUME TypeOK, NEW r \in Runs, DeadlineCovers(r), ClaimModelCell(r)
    PROVE  StopsQuietly(r) \/ EntersInvoking(r)
<1> DEFINE why == IF Issued[r] > clock THEN "PROPOSAL_NOT_YET_VALID"
                  ELSE CellReason(stage[r], cellDeadline[r], sensitive[r])
<1>1. /\ pc[r] = "cell"
      /\ UNCHANGED <<envVars, storeVars, timeVars, modelVars, action, historyVars>>
  BY DEF ClaimModelCell
<1>2. pc[r] \notin Over \cup {"called", "cell_done", "acting", "acted"}
  BY <1>1 DEF Over
<1>3. \/ Halt(r, "BLOCK", "ADAPTER_PROVENANCE_DENIED")
      \/ Halt(r, "FAILED", "MODEL_CELL_RUNTIME_ERROR")
      \/ why # None /\ Halt(r, "BLOCK", why)
      \/ why = None /\ Goto(r, "invoking") /\ UNCHANGED result
  BY DEF ClaimModelCell
<1>4. "ADAPTER_PROVENANCE_DENIED" \in ControlReasons /\ "MODEL_CELL_RUNTIME_ERROR" \in ModelReasons
  BY DEF ControlReasons, ModelReasons
<1>5. CASE Halt(r, "BLOCK", "ADAPTER_PROVENANCE_DENIED")
  BY <1>1, <1>2, <1>4, <1>5, QuietHalt
<1>6. CASE Halt(r, "FAILED", "MODEL_CELL_RUNTIME_ERROR")
  BY <1>1, <1>2, <1>4, <1>6, QuietHalt
<1>7. CASE why # None /\ Halt(r, "BLOCK", why)
  <2>1. why \in CellReasons
    BY <1>7 DEF CellReason, CellReasons
  <2> HIDE DEF why
  <2> QED BY <1>1, <1>2, <1>7, <2>1, QuietHalt
<1>8. CASE why = None /\ Goto(r, "invoking") /\ UNCHANGED result
  <2>1. sensitive[r] => stage[r] \in Secret
    BY <1>8, NoneAssumption DEF CellReason, CellReasons
  <2>2. BoundsMove(r)
    BY <1>1, BoundsStay DEF historyVars
  <2> QED BY <1>1, <1>8, <2>1, <2>2 DEF EntersInvoking, historyVars
<1> QED BY <1>3, <1>5, <1>6, <1>7, <1>8

\* Between two calls, or on to the action.
GoesOn(r) ==
    /\ pc[r] = "returned"
    /\ NextStage(r)
    /\ call' = [call EXCEPT ![r] = NoCall]
    /\ BoundsMove(r)
    /\ UNCHANGED <<envVars, storeVars, sensitive, tokens, cells, invoked, action, result,
                   executed, claimedAt, spent, tainted, exposed, lateClaims>>

LEMMA CheckAfterCallStep ==
    ASSUME TypeOK, NEW r \in Runs, DeadlineCovers(r), CheckAfterCall(r)
    PROVE  StopsQuietly(r) \/ GoesOn(r)
<1> DEFINE until == Earlier(cellDeadline[r], Clamp(r))
<1>1. /\ pc[r] = "returned"
      /\ UNCHANGED <<envVars, storeVars, activation, sensitive, tokens, cells, invoked, action,
                     executed, claimedAt, spent, tainted, exposed, lateClaims>>
  BY DEF CheckAfterCall
<1>2. pc[r] \notin Over \cup {"called", "cell_done", "acting", "acted"}
  BY <1>1 DEF Over
<1>3. CASE Refused(r) /\ UNCHANGED <<deadline, cellDeadline, limit, stage, call>>
  BY <1>1, <1>2, <1>3, QuietRefusal DEF timeVars, historyVars, modelVars
<1>4. CASE /\ Clamped(r)
           /\ cellDeadline' = [cellDeadline EXCEPT ![r] = until]
           /\ call' = [call EXCEPT ![r] = NoCall]
           /\ IF clock >= until
              THEN /\ Halt(r, "BLOCK", IF until = Clamp(r) THEN "ORGANISM_DEADLINE_EXCEEDED"
                                                          ELSE "MODEL_CALL_DEADLINE_EXCEEDED")
                   /\ UNCHANGED stage
              ELSE NextStage(r) /\ UNCHANGED result
  <2>1. until \in Int
    BY <1>4, ClampMoves DEF Earlier, TypeOK
  <2>2. BoundsMove(r)
    <3> HIDE DEF until
    <3> QED BY <1>1, <1>4, <2>1, ClampBounds
  <2>3. ASSUME NEW reason \in {"ORGANISM_DEADLINE_EXCEEDED", "MODEL_CALL_DEADLINE_EXCEEDED"},
               Halt(r, "BLOCK", reason), UNCHANGED stage
        PROVE  StopsQuietly(r)
    <3>1. reason \in Reasons /\ "BLOCK" \in RunStatuses \ {"COMPLETED"}
      BY KnownReasons DEF ControlReasons, ModelReasons
    <3> QED BY <1>1, <1>2, <1>4, <2>2, <2>3, <3>1, NamesStay DEF StopsQuietly
  <2>4. CASE NextStage(r) /\ UNCHANGED result
    BY <1>1, <1>4, <2>2, <2>4 DEF GoesOn
  <2> HIDE DEF until
  <2> QED BY <1>4, <2>3, <2>4
<1> QED BY <1>3, <1>4 DEF CheckAfterCall

CompilesTo(r) ==
    /\ pc[r] = "draft"
    /\ \E e \in Effects : action' = [action EXCEPT ![r] = [effect |-> e, expires |-> deadline[r]]]
    /\ Goto(r, "guard")
    /\ BoundsMove(r)
    /\ UNCHANGED <<envVars, storeVars, modelVars, result, executed, claimedAt,
                   spent, tainted, exposed, lateClaims>>

LEMMA CompilationFailsStep ==
    ASSUME NEW r, CompilationFails(r)
    PROVE  \E status \in RunStatuses \ {"COMPLETED"}, reason \in ActionReasons :
              Halt(r, status, reason)
<1>1. /\ "BLOCK" \in RunStatuses \ {"COMPLETED"} /\ "FAILED" \in RunStatuses \ {"COMPLETED"}
      /\ "ACTION_COMPILATION_DENIED" \in ActionReasons
      /\ "TARGET_STATE_RESOLUTION_FAILED" \in ActionReasons
  BY DEF RunStatuses, ActionReasons
<1> QED BY <1>1 DEF CompilationFails

LEMMA CompileDraftStep ==
    ASSUME TypeOK, NEW r \in Runs, DeadlineCovers(r), CompileDraft(r)
    PROVE  StopsQuietly(r) \/ CompilesTo(r)
<1>1. pc[r] = "draft" /\ UNCHANGED <<envVars, storeVars, timeVars, modelVars, historyVars>>
  BY DEF CompileDraft
<1>2. pc[r] \notin Over \cup {"called", "cell_done", "acting", "acted"}
  BY <1>1 DEF Over
<1>3. BoundsMove(r)
  BY <1>1, BoundsStay DEF historyVars
<1>4. CASE /\ \/ Halt(r, "BLOCK", "ACTION_DRAFT_INVALID")
              \/ Halt(r, "NO_ACTION", "NO_ACTION")
              \/ CompilationFails(r)
           /\ UNCHANGED action
  <2>1. \E status \in RunStatuses \ {"COMPLETED"}, reason \in ActionReasons :
            Halt(r, status, reason)
    <3>1. /\ "BLOCK" \in RunStatuses \ {"COMPLETED"} /\ "NO_ACTION" \in RunStatuses \ {"COMPLETED"}
          /\ "ACTION_DRAFT_INVALID" \in ActionReasons /\ "NO_ACTION" \in ActionReasons
      BY DEF RunStatuses, ActionReasons
    <3> QED BY <1>4, <3>1, CompilationFailsStep
  <2>2. \E status \in RunStatuses \ {"COMPLETED"}, reason \in Reasons : Halt(r, status, reason)
    BY <2>1, KnownReasons
  <2> QED BY <1>1, <1>2, <1>3, <1>4, <2>2, NamesStay DEF StopsQuietly, modelVars, historyVars
<1>5. CASE \E e \in Effects :
             /\ action' = [action EXCEPT ![r] = [effect |-> e, expires |-> deadline[r]]]
             /\ Goto(r, "guard") /\ UNCHANGED result
  BY <1>1, <1>3, <1>5 DEF CompilesTo, historyVars
<1> QED BY <1>4, <1>5 DEF CompileDraft

\* The action is compiled for the deadline of the last check.
Recompiles(r) ==
    /\ pc[r] = "guard"
    /\ action' = [action EXCEPT ![r].expires = deadline'[r]]
    /\ Goto(r, "compiled")
    /\ BoundsMove(r)
    /\ UNCHANGED <<envVars, storeVars, modelVars, result, executed, claimedAt,
                   spent, tainted, exposed, lateClaims>>

LEMMA GuardActionStep ==
    ASSUME TypeOK, NEW r \in Runs, DeadlineCovers(r), GuardAction(r)
    PROVE  StopsQuietly(r) \/ Recompiles(r)
<1>1. /\ pc[r] = "guard"
      /\ UNCHANGED <<envVars, storeVars, activation, cellDeadline, modelVars,
                     executed, claimedAt, spent, tainted, exposed, lateClaims>>
  BY DEF GuardAction
<1>2. pc[r] \notin Over \cup {"called", "cell_done", "acting", "acted"}
  BY <1>1 DEF Over
<1>3. CASE Refused(r) /\ UNCHANGED <<deadline, limit, action>>
  BY <1>1, <1>2, <1>3, QuietRefusal DEF timeVars, historyVars
<1>4. CASE Clamped(r)
  <2>1. cellDeadline[r] \in Int /\ cellDeadline' = [cellDeadline EXCEPT ![r] = cellDeadline[r]]
    BY <1>1 DEF TypeOK
  <2>2. BoundsMove(r)
    BY <1>1, <1>4, <2>1, ClampBounds
  <2>3. CASE \E status \in RunStatuses \ {"COMPLETED"}, reason \in Reasons :
                 Halt(r, status, reason) /\ UNCHANGED action
    BY <1>1, <1>2, <2>2, <2>3, NamesStay DEF StopsQuietly, modelVars
  <2>4. CASE /\ action' = [action EXCEPT ![r].expires = Clamp(r)]
             /\ Goto(r, "compiled") /\ UNCHANGED result
    <3>1. deadline'[r] = Clamp(r)
      BY <1>4, ClampMoves DEF TypeOK
    <3> QED BY <1>1, <2>2, <2>4, <3>1 DEF Recompiles
  <2>5. "ORGANISM_DEADLINE_EXCEEDED" \in Reasons /\ "BLOCK" \in RunStatuses \ {"COMPLETED"}
    BY KnownReasons DEF ControlReasons
  <2>6. CompilationFails(r) => \E status \in RunStatuses \ {"COMPLETED"}, reason \in Reasons :
                                   Halt(r, status, reason)
    BY CompilationFailsStep, KnownReasons
  <2>7. \/ Halt(r, "BLOCK", "ORGANISM_DEADLINE_EXCEEDED") /\ UNCHANGED action
        \/ CompilationFails(r) /\ UNCHANGED action
        \/ /\ action' = [action EXCEPT ![r].expires = Clamp(r)]
           /\ Goto(r, "compiled") /\ UNCHANGED result
        \/ Refused(r) /\ UNCHANGED <<deadline, limit, action>>
    BY DEF GuardAction
  <2> QED BY <1>3, <2>3, <2>4, <2>5, <2>6, <2>7
<1> QED BY <1>3, <1>4 DEF GuardAction

EntersActionCell(r) ==
    /\ pc[r] = "compiled" /\ action[r].expires = deadline'[r]
    /\ Goto(r, "action_cell")
    /\ BoundsMove(r)
    /\ UNCHANGED <<envVars, storeVars, modelVars, action, result, executed, claimedAt,
                   spent, tainted, exposed, lateClaims>>

LEMMA CheckCompiledStep ==
    ASSUME TypeOK, NEW r \in Runs, DeadlineCovers(r), CheckCompiled(r)
    PROVE  StopsQuietly(r) \/ EntersActionCell(r)
<1>1. /\ pc[r] = "compiled"
      /\ UNCHANGED <<envVars, storeVars, activation, cellDeadline, modelVars, action,
                     executed, claimedAt, spent, tainted, exposed, lateClaims>>
  BY DEF CheckCompiled
<1>2. pc[r] \notin Over \cup {"called", "cell_done", "acting", "acted"}
  BY <1>1 DEF Over
<1>3. CASE Refused(r) /\ UNCHANGED <<deadline, limit>>
  BY <1>1, <1>2, <1>3, QuietRefusal DEF timeVars, historyVars
<1>4. CASE /\ Clamped(r)
           /\ \/ Halt(r, "BLOCK", "ORGANISM_DEADLINE_EXCEEDED")
              \/ Halt(r, "FAILED", "CONTROL_PLANE_UNSTABLE")
              \/ action[r].expires = Clamp(r) /\ Goto(r, "action_cell") /\ UNCHANGED result
  <2>1. cellDeadline[r] \in Int /\ cellDeadline' = [cellDeadline EXCEPT ![r] = cellDeadline[r]]
    BY <1>1 DEF TypeOK
  <2>2. BoundsMove(r)
    BY <1>1, <1>4, <2>1, ClampBounds
  <2>3. CASE \E status \in RunStatuses \ {"COMPLETED"}, reason \in Reasons : Halt(r, status, reason)
    BY <1>1, <1>2, <2>2, <2>3, NamesStay DEF StopsQuietly, modelVars
  <2>4. CASE action[r].expires = Clamp(r) /\ Goto(r, "action_cell") /\ UNCHANGED result
    <3>1. deadline'[r] = Clamp(r)
      BY <1>4, ClampMoves DEF TypeOK
    <3> QED BY <1>1, <2>2, <2>4, <3>1 DEF EntersActionCell
  <2>5. /\ "ORGANISM_DEADLINE_EXCEEDED" \in Reasons /\ "CONTROL_PLANE_UNSTABLE" \in Reasons
        /\ "BLOCK" \in RunStatuses \ {"COMPLETED"} /\ "FAILED" \in RunStatuses \ {"COMPLETED"}
    BY KnownReasons DEF ControlReasons
  <2> QED BY <1>4, <2>3, <2>4, <2>5
<1> QED BY <1>3, <1>4 DEF CheckCompiled

ClaimsEffect(r) ==
    /\ pc[r] = "action_cell"
    /\ Issued[r] <= clock /\ clock < action[r].expires
    /\ sensitive[r] => "action" \in Secret
    /\ action[r].effect \notin effectKeys
    /\ effectKeys' = effectKeys \cup {action[r].effect}
    /\ claimedAt' = [claimedAt EXCEPT ![r] = clock]
    /\ Goto(r, "acting")
    /\ BoundsMove(r)
    /\ UNCHANGED <<envVars, runKeys, modelVars, action, result, executed, limit,
                   spent, tainted, exposed, lateClaims>>

LEMMA ClaimActionCellStep ==
    ASSUME TypeOK, NEW r \in Runs, DeadlineCovers(r), ClaimActionCell(r)
    PROVE  StopsQuietly(r) \/ ClaimsEffect(r)
<1> DEFINE refusal == CellReason("action", action[r].expires, sensitive[r])
           why == IF Issued[r] > clock THEN "PROPOSAL_NOT_YET_VALID"
                  ELSE IF refusal # None THEN refusal
                  ELSE IF EffectTaken(r) THEN "IDEMPOTENCY_REPLAYED"
                  ELSE None
<1>1. /\ pc[r] = "action_cell"
      /\ UNCHANGED <<envVars, runKeys, timeVars, modelVars, action,
                     executed, limit, spent, tainted, exposed, lateClaims>>
  BY DEF ClaimActionCell
<1>2. pc[r] \notin Over \cup {"called", "cell_done", "acting", "acted"}
  BY <1>1 DEF Over
<1>3. \/ /\ \/ Halt(r, "FAILED", "ACTION_CELL_RUNTIME_ERROR")
            \/ why # None /\ Halt(r, "BLOCK", why)
         /\ UNCHANGED <<effectKeys, claimedAt>>
      \/ /\ why = None
         /\ effectKeys' = effectKeys \cup {action[r].effect}
         /\ \/ /\ claimedAt' = [claimedAt EXCEPT ![r] = clock]
               /\ Goto(r, "acting") /\ UNCHANGED result
            \/ Halt(r, "FAILED", "ACTION_CELL_RUNTIME_ERROR") /\ UNCHANGED claimedAt
  BY DEF ClaimActionCell
<1>4. why # None => why \in CellReasons
  BY DEF CellReason, CellReasons
<1>5. "ACTION_CELL_RUNTIME_ERROR" \in ActionReasons
  BY DEF ActionReasons
<1>6. why = None => /\ ~(Issued[r] > clock) /\ ~(clock >= action[r].expires)
                    /\ (sensitive[r] => "action" \in Secret) /\ ~EffectTaken(r)
  BY NoneAssumption DEF CellReason, CellReasons
<1> HIDE DEF why
<1>7. CASE /\ \/ Halt(r, "FAILED", "ACTION_CELL_RUNTIME_ERROR")
              \/ why # None /\ Halt(r, "BLOCK", why)
           /\ UNCHANGED <<effectKeys, claimedAt>>
  <2>1. UNCHANGED <<envVars, storeVars, timeVars, modelVars, action, historyVars>>
    BY <1>1, <1>7 DEF storeVars, historyVars
  <2>2. CASE Halt(r, "FAILED", "ACTION_CELL_RUNTIME_ERROR")
    BY <1>2, <1>5, <2>1, <2>2, QuietHalt
  <2>3. CASE why # None /\ Halt(r, "BLOCK", why)
    BY <1>2, <1>4, <2>1, <2>3, QuietHalt
  <2> QED BY <1>7, <2>2, <2>3
<1>8. CASE /\ why = None
           /\ effectKeys' = effectKeys \cup {action[r].effect}
           /\ claimedAt' = [claimedAt EXCEPT ![r] = clock]
           /\ Goto(r, "acting") /\ UNCHANGED result
  <2>1. Issued[r] <= clock /\ clock < action[r].expires
    <3>1. Issued[r] \in Int /\ clock \in Int /\ action[r].expires \in Int
      BY <1>1, TimesAssumption DEF TypeOK, Actions, AfterModels
    <3> QED BY <1>6, <1>8, <3>1
  <2>2. (sensitive[r] => "action" \in Secret) /\ action[r].effect \notin effectKeys
    BY <1>6, <1>8 DEF EffectTaken
  <2>3. BoundsMove(r)
    BY <1>1, BoundsStay
  <2> QED BY <1>1, <1>8, <2>1, <2>2, <2>3 DEF ClaimsEffect
<1>9. CASE /\ effectKeys' = effectKeys \cup {action[r].effect}
           /\ Halt(r, "FAILED", "ACTION_CELL_RUNTIME_ERROR") /\ UNCHANGED claimedAt
  <2>1. "ACTION_CELL_RUNTIME_ERROR" \in Reasons /\ "FAILED" \in RunStatuses \ {"COMPLETED"}
    BY <1>5, KnownReasons
  <2>2. BoundsMove(r)
    BY <1>1, BoundsStay
  <2>3. NamesStayTaken(r)
    <3>1. action[r].effect \in Effects
      BY <1>1 DEF TypeOK, Actions, AfterModels
    <3> QED BY <1>1, <1>9, <3>1 DEF NamesStayTaken, TypeOK
  <2> QED BY <1>1, <1>2, <1>9, <2>1, <2>2, <2>3 DEF StopsQuietly, modelVars
<1> QED BY <1>3, <1>7, <1>8, <1>9

-----------------------------------------------------------------------------
(* Type correctness, step by step.                                         *)

\* A run that goes on to a label other than "ended" returns nothing.
LEMMA GotoType ==
    ASSUME TypeOK, NEW r \in Runs, NEW label \in Labels \ {"ended"},
           pc[r] # "ended", Goto(r, label), UNCHANGED result
    PROVE  /\ pc' \in [Runs -> Labels] /\ pc'[r] = label
           /\ result' \in [Runs -> Results \cup {None}]
           /\ \A q \in Runs : pc'[q] = "ended" <=> result'[q] # None
           /\ \A q \in Runs \ {r} : pc'[q] = pc[q]
BY DEF TypeOK, Goto

LEMMA BoundsType ==
    ASSUME TypeOK, NEW r \in Runs, BoundsMove(r)
    PROVE  /\ activation' \in [Runs -> Int \cup {None}] /\ deadline' \in [Runs -> Int]
           /\ cellDeadline' \in [Runs -> Int] /\ limit' \in [Runs -> Int]
           /\ limit'[r] = deadline'[r]
           /\ \A q \in Runs \ {r} : /\ activation'[q] = activation[q]
                                    /\ deadline'[q] = deadline[q] /\ limit'[q] = limit[q]
BY DEF TypeOK, BoundsMove

LEMMA CallEndsType ==
    ASSUME TypeOK, NEW r \in Runs
    PROVE  Calls(r) \in Nat /\ Usage(r) \in Nat
BY DEF TypeOK, CallTypes, Calls, Usage, Count

LEMMA PrepareType ==
    ASSUME TypeOK, NEW r \in Runs, Prepares(r)
    PROVE  TypeOK'
<1>1. PICK label \in {"predispatch", "reserve", "reserved", "claiming"} :
         Goto(r, label) /\ (label = "reserved" => activation'[r] # None)
  BY DEF Prepares
<1>2. label \in Labels \ {"ended"} /\ pc[r] # "ended" /\ label \notin AfterModels
  BY DEF Prepares, Labels, Unclaimed, AfterModels
<1>3. UNCHANGED result
  BY DEF Prepares
<1> QED BY <1>1, <1>2, <1>3, GotoType, BoundsType DEF Prepares, TypeOK, envVars, storeVars, modelVars

LEMMA ClaimsRunType ==
    ASSUME TypeOK, NEW r \in Runs, ClaimsRun(r)
    PROVE  TypeOK'
<1>1. "stage" \in Labels \ {"ended"} /\ "stage" \notin AfterModels
  BY DEF Labels, BeforeCall, AfterModels
<1> QED BY <1>1, GotoType, BoundsType, SMTT(40) DEF ClaimsRun, TypeOK, envVars, modelVars

LEMMA CellStepType ==
    ASSUME TypeOK, NEW r \in Runs, EntersCell(r) \/ EntersInvoking(r)
    PROVE  TypeOK'
<1>1. PICK label \in {"cell", "invoking"} : Goto(r, label)
  BY DEF EntersCell, EntersInvoking
<1>2. label \in Labels \ {"ended"} /\ label \notin AfterModels /\ label # "reserved"
  BY DEF Labels, BeforeCall, AfterModels
<1>3. pc[r] # "ended" /\ UNCHANGED result /\ BoundsMove(r)
  BY DEF EntersCell, EntersInvoking
<1>4. UNCHANGED <<envVars, storeVars, modelVars, action, executed, claimedAt,
                  spent, tainted, exposed, lateClaims>>
  BY DEF EntersCell, EntersInvoking
<1> QED BY <1>1, <1>2, <1>3, <1>4, GotoType, BoundsType, SMTT(40) DEF TypeOK, envVars, storeVars, modelVars

LEMMA InvokeAdapterType ==
    ASSUME TypeOK, NEW r \in Runs, InvokeAdapter(r)
    PROVE  TypeOK'
<1>1. PICK label \in {"called", "cell_done"} : Goto(r, label)
  BY DEF InvokeAdapter
<1>2. label \in Labels \ {"ended"} /\ label \notin AfterModels /\ label # "reserved"
  BY DEF Labels, AfterModels
<1>3. call' \in [Runs -> CallTypes]
  <2>1. [NoCall EXCEPT !.started = TRUE] \in CallTypes /\ [NoCall EXCEPT !.kind = "raised"] \in CallTypes
    BY DEF NoCall, CallTypes
  <2> QED BY <2>1, ZenonT(40) DEF InvokeAdapter, TypeOK
<1>4. invoked' \in [Runs -> SUBSET ModelStages]
  BY DEF InvokeAdapter, TypeOK
<1>5. exposed' \in [Runs -> SUBSET (ModelStages \cup {"action"})]
  BY DEF InvokeAdapter, TypeOK
<1>6. pc[r] # "ended" /\ UNCHANGED result
  BY DEF InvokeAdapter
<1>7. UNCHANGED <<envVars, storeVars, timeVars, stage, sensitive, tokens, cells, action,
                  executed, claimedAt, limit, spent, tainted, lateClaims>>
  BY DEF InvokeAdapter
<1> QED BY <1>1, <1>2, <1>3, <1>4, <1>5, <1>6, <1>7, GotoType DEF TypeOK, envVars, storeVars, timeVars

\* What the call is noted as: of the answer, a change of identity seen after
\* it and the tokens used.
Noted(kind, u, label, changed, used) ==
    [kind |-> IF changed THEN "raised" ELSE kind, started |-> TRUE, changed |-> changed,
     usage |-> used, output |-> u.output, sensitive |-> label]

Answers(r, kind, u, label, changed, used) ==
    /\ call' = [call EXCEPT ![r] = Noted(kind, u, label, changed, used)]
    /\ spent' = [spent EXCEPT ![r] = @ + used]
    /\ tainted' = [tainted EXCEPT ![r] = @ \/ (label /\ kind = "RETURNED")]

LEMMA AdapterReturnsStep ==
    ASSUME TypeOK, NEW r \in Runs, AdapterReturns(r)
    PROVE  \E kind \in {"raised", "invalid", "RETURNED", "REFUSED", "ERROR"},
              u \in Usages, label \in BOOLEAN, changed \in BOOLEAN, used \in Nat :
              Answers(r, kind, u, label, changed, used)
<1> DEFINE Changed(kind) == kind # "raised" /\ ~pinned[AdapterOf[stage[r]]]
           Used(kind, u) == IF kind = "raised" THEN 0 ELSE u.input + u.output
<1>1. PICK kind \in {"raised", "invalid", "RETURNED", "REFUSED", "ERROR"},
           u \in Usages, label \in BOOLEAN :
              Answers(r, kind, u, label, Changed(kind), Used(kind, u))
  BY DEF AdapterReturns, Answers, Noted
<1>2. Changed(kind) \in BOOLEAN
  BY DEF TypeOK, Adapters
<1>3. Used(kind, u) \in Nat
  <2>1. u.input \in Nat /\ u.output \in Nat
    BY LimitsAssumption
  <2> QED BY <2>1
<1> HIDE DEF Changed, Used
<1> QED BY <1>1, <1>2, <1>3

LEMMA AdapterReturnsType ==
    ASSUME TypeOK, NEW r \in Runs, AdapterReturns(r)
    PROVE  TypeOK'
<1>1. PICK kind \in {"raised", "invalid", "RETURNED", "REFUSED", "ERROR"},
           u \in Usages, label \in BOOLEAN, changed \in BOOLEAN, used \in Nat :
              Answers(r, kind, u, label, changed, used)
  BY AdapterReturnsStep
<1>2. call' \in [Runs -> CallTypes]
  <2>1. u.output \in Nat
    BY LimitsAssumption
  <2>2. Noted(kind, u, label, changed, used) \in CallTypes
    BY <2>1 DEF CallTypes, Noted
  <2> QED BY <1>1, <2>2 DEF TypeOK, Answers
<1>3. spent' \in [Runs -> Nat] /\ tainted' \in [Runs -> BOOLEAN]
  BY <1>1 DEF TypeOK, Answers
<1>4. "cell_done" \in Labels \ {"ended"} /\ "cell_done" \notin AfterModels
  BY DEF Labels, AfterModels
<1>5. /\ pc[r] = "called" /\ Goto(r, "cell_done") /\ UNCHANGED result
      /\ UNCHANGED <<envVars, storeVars, timeVars, stage, sensitive, tokens, cells, invoked, action,
                     executed, claimedAt, limit, exposed, lateClaims>>
  BY DEF AdapterReturns
<1> QED BY <1>2, <1>3, <1>4, <1>5, GotoType DEF TypeOK, envVars, storeVars, timeVars

LEMMA CallFailsType ==
    ASSUME TypeOK, NEW r \in Runs, EvidenceFails(r) \/ NoResult(r)
    PROVE  /\ TypeOK'
           /\ \E status \in {"EFFECT_UNCERTAIN", "FAILED", "BLOCK"}, reason \in Reasons :
                 Returns(r, status, reason, Calls(r), Usage(r), FALSE)
<1>1. Calls(r) \in Nat /\ Usage(r) \in Nat
  BY CallEndsType
<1>2. PICK status \in {"EFFECT_UNCERTAIN", "FAILED", "BLOCK"},
           reason \in {"MODEL_CELL_RUNTIME_ERROR_EFFECT_UNCERTAIN", "MODEL_EFFECT_UNCERTAIN",
                       "ADAPTER_PROVENANCE_CHANGED_EFFECT_UNCERTAIN", "MODEL_CELL_RUNTIME_ERROR",
                       "MODEL_RESULT_INVALID", "ADAPTER_PROVENANCE_DENIED"} :
         CallEnds(r, status, reason)
  BY DEF EvidenceFails, NoResult, UncertainReason
<1>3. status \in RunStatuses /\ reason \in Reasons
  BY KnownReasons DEF RunStatuses, ControlReasons, ModelReasons
<1>4. Returns(r, status, reason, Calls(r), Usage(r), FALSE)
  BY <1>2 DEF CallEnds
<1>5. /\ pc' = [pc EXCEPT ![r] = "ended"] /\ pc' \in [Runs -> Labels]
      /\ result' \in [Runs -> Results \cup {None}]
      /\ \A q \in Runs : pc'[q] = "ended" <=> result'[q] # None
  BY <1>1, <1>3, <1>4, ReturnsType
<1>6. UNCHANGED <<envVars, storeVars, timeVars, modelVars, action, historyVars>>
  BY DEF EvidenceFails, NoResult
<1>7. TypeOK'
  BY <1>5, <1>6 DEF TypeOK, envVars, storeVars, timeVars, modelVars, historyVars, AfterModels
<1> QED BY <1>3, <1>4, <1>7

LEMMA AcceptResultType ==
    ASSUME TypeOK, NEW r \in Runs, AcceptResult(r)
    PROVE  /\ TypeOK'
           /\ \/ /\ ~OverBudget(r) /\ call[r].kind = "RETURNED"
                 /\ sensitive' = [sensitive EXCEPT ![r] = JoinedLabel(r)]
                 /\ Goto(r, "returned") /\ UNCHANGED result
              \/ /\ \E status \in {"FAILED", "BLOCK"}, reason \in Reasons :
                       Returns(r, status, reason, Calls(r), Usage(r), FALSE)
                 /\ UNCHANGED sensitive
<1>1. Calls(r) \in Nat /\ Usage(r) \in Nat
  BY CallEndsType
<1>2. /\ pc[r] = "cell_done"
      /\ tokens' = [tokens EXCEPT ![r] = Usage(r)] /\ cells' = [cells EXCEPT ![r] = Calls(r)]
      /\ UNCHANGED <<envVars, storeVars, timeVars, stage, invoked, call, action, historyVars>>
  BY DEF AcceptResult
<1>3. tokens' \in [Runs -> Nat] /\ cells' \in [Runs -> Nat]
  BY <1>1, <1>2 DEF TypeOK
<1>4. \/ /\ ~OverBudget(r) /\ call[r].kind = "RETURNED"
         /\ sensitive' = [sensitive EXCEPT ![r] = JoinedLabel(r)]
         /\ Goto(r, "returned") /\ UNCHANGED result
      \/ /\ \E status \in {"FAILED", "BLOCK"},
               reason \in {"BUDGET_USAGE_EXCEEDED", "MODEL_REFUSED", "MODEL_ERROR"} :
               CallEnds(r, status, reason)
         /\ UNCHANGED sensitive
  BY DEF AcceptResult
<1>5. CASE /\ ~OverBudget(r) /\ call[r].kind = "RETURNED"
           /\ sensitive' = [sensitive EXCEPT ![r] = JoinedLabel(r)]
           /\ Goto(r, "returned") /\ UNCHANGED result
  <2>1. JoinedLabel(r) \in BOOLEAN
    BY DEF TypeOK, CallTypes, JoinedLabel
  <2>2. sensitive' \in [Runs -> BOOLEAN]
    BY <1>5, <2>1 DEF TypeOK
  <2>3. "returned" \in Labels \ {"ended"} /\ "returned" \notin AfterModels
    BY DEF Labels, AfterModels
  <2>4. TypeOK'
    BY <1>2, <1>3, <1>5, <2>2, <2>3, GotoType, SMTT(40)
    DEF TypeOK, envVars, storeVars, timeVars, historyVars
  <2> QED BY <1>5, <2>4
<1>6. ASSUME NEW status \in {"FAILED", "BLOCK"},
             NEW reason \in {"BUDGET_USAGE_EXCEEDED", "MODEL_REFUSED", "MODEL_ERROR"},
             CallEnds(r, status, reason), UNCHANGED sensitive
      PROVE  /\ TypeOK' /\ reason \in Reasons
             /\ Returns(r, status, reason, Calls(r), Usage(r), FALSE)
  <2>1. status \in RunStatuses /\ reason \in Reasons
    BY KnownReasons DEF RunStatuses, ModelReasons
  <2>2. Returns(r, status, reason, Calls(r), Usage(r), FALSE)
    BY <1>6 DEF CallEnds
  <2>3. /\ pc' = [pc EXCEPT ![r] = "ended"] /\ pc' \in [Runs -> Labels]
        /\ result' \in [Runs -> Results \cup {None}]
        /\ \A q \in Runs : pc'[q] = "ended" <=> result'[q] # None
    BY <1>1, <2>1, <2>2, ReturnsType
  <2>4. TypeOK'
    BY <1>2, <1>3, <1>6, <2>3 DEF TypeOK, envVars, storeVars, timeVars, historyVars, AfterModels
  <2> QED BY <2>1, <2>2, <2>4
<1> QED BY <1>4, <1>5, <1>6

LEMMA GoesOnType ==
    ASSUME TypeOK, NEW r \in Runs, GoesOn(r)
    PROVE  TypeOK'
<1>1. PICK label \in {"stage", "draft"} : Goto(r, label)
  BY DEF GoesOn, NextStage
<1>2. label \in Labels \ {"ended"} /\ label \notin AfterModels \ {"draft"} /\ label # "reserved"
  BY DEF Labels, BeforeCall, AfterModels
<1>3. stage' \in [Runs -> ModelStages]
  BY DEF GoesOn, NextStage, TypeOK, ModelStages
<1>4. call' \in [Runs -> CallTypes]
  <2>1. NoCall \in CallTypes
    BY DEF NoCall, CallTypes
  <2> QED BY <2>1 DEF GoesOn, TypeOK
<1>5. pc[r] # "ended" /\ UNCHANGED result /\ BoundsMove(r)
  BY DEF GoesOn
<1>6. UNCHANGED <<envVars, storeVars, sensitive, tokens, cells, invoked, action,
                  executed, claimedAt, spent, tainted, exposed, lateClaims>>
  BY DEF GoesOn
<1>7. /\ pc' \in [Runs -> Labels] /\ pc'[r] = label
      /\ result' \in [Runs -> Results \cup {None}]
      /\ \A q \in Runs : pc'[q] = "ended" <=> result'[q] # None
      /\ \A q \in Runs \ {r} : pc'[q] = pc[q]
  BY <1>1, <1>2, <1>5, GotoType
<1>8. \A q \in Runs : pc'[q] \in AfterModels \ {"draft"} => action'[q] # None
  BY <1>2, <1>6, <1>7 DEF TypeOK
<1>9. \A q \in Runs : pc'[q] = "reserved" => activation'[q] # None
  BY <1>2, <1>5, <1>7, BoundsType DEF TypeOK
<1> QED BY <1>3, <1>4, <1>5, <1>6, <1>7, <1>8, <1>9, BoundsType DEF TypeOK, envVars, storeVars

LEMMA CompilesToType ==
    ASSUME TypeOK, NEW r \in Runs, CompilesTo(r) \/ Recompiles(r)
    PROVE  TypeOK'
<1>1. PICK label \in {"guard", "compiled"} : Goto(r, label)
  BY DEF CompilesTo, Recompiles
<1>2. label \in Labels \ {"ended"} /\ label # "reserved"
  BY DEF Labels, AfterModels
<1>3. pc[r] # "ended" /\ UNCHANGED result /\ BoundsMove(r)
  BY DEF CompilesTo, Recompiles
<1>4. action' \in [Runs -> Actions \cup {None}] /\ action'[r] # None
      /\ \A q \in Runs \ {r} : action'[q] = action[q]
  <2>1. CASE CompilesTo(r)
    <3>1. PICK e \in Effects : action' = [action EXCEPT ![r] = [effect |-> e, expires |-> deadline[r]]]
      BY <2>1 DEF CompilesTo
    <3>2. [effect |-> e, expires |-> deadline[r]] \in Actions
      BY DEF TypeOK, Actions
    <3> QED BY <3>1, <3>2, NoneAssumption DEF TypeOK
  <2>2. CASE Recompiles(r)
    <3>1. action[r] \in Actions /\ deadline'[r] \in Int
      BY <1>3, <2>2, BoundsType DEF TypeOK, Recompiles, AfterModels
    <3>2. [action[r] EXCEPT !.expires = deadline'[r]] \in Actions
      BY <3>1 DEF Actions
    <3> QED BY <2>2, <3>2, NoneAssumption DEF TypeOK, Recompiles
  <2> QED BY <2>1, <2>2
<1>5. UNCHANGED <<envVars, storeVars, modelVars, executed, claimedAt,
                  spent, tainted, exposed, lateClaims>>
  BY DEF CompilesTo, Recompiles
<1>6. /\ pc' \in [Runs -> Labels] /\ pc'[r] = label
      /\ result' \in [Runs -> Results \cup {None}]
      /\ \A q \in Runs : pc'[q] = "ended" <=> result'[q] # None
      /\ \A q \in Runs \ {r} : pc'[q] = pc[q]
  BY <1>1, <1>2, <1>3, GotoType
<1>7. \A q \in Runs : pc'[q] \in AfterModels \ {"draft"} => action'[q] # None
  BY <1>4, <1>6 DEF TypeOK
<1>8. \A q \in Runs : pc'[q] = "reserved" => activation'[q] # None
  BY <1>2, <1>3, <1>6, BoundsType DEF TypeOK
<1> QED BY <1>3, <1>4, <1>5, <1>6, <1>7, <1>8, BoundsType DEF TypeOK, envVars, storeVars, modelVars

LEMMA ActionStepType ==
    ASSUME TypeOK, NEW r \in Runs, EntersActionCell(r) \/ ClaimsEffect(r) \/ StartAction(r)
    PROVE  TypeOK'
<1>1. PICK label \in {"action_cell", "acting", "acted"} : Goto(r, label)
  BY DEF EntersActionCell, ClaimsEffect, StartAction
<1>2. label \in Labels \ {"ended"} /\ label # "reserved"
  BY DEF Labels, AfterModels
<1>3. pc[r] \in AfterModels \ {"draft"} /\ pc[r] # "ended" /\ UNCHANGED <<action, result>>
  BY DEF EntersActionCell, ClaimsEffect, StartAction, AfterModels
<1>4. /\ activation' \in [Runs -> Int \cup {None}] /\ deadline' \in [Runs -> Int]
      /\ cellDeadline' \in [Runs -> Int] /\ limit' \in [Runs -> Int]
      /\ \A q \in Runs \ {r} : activation'[q] = activation[q]
  BY BoundsType DEF EntersActionCell, ClaimsEffect, StartAction, TypeOK, timeVars
<1>5. effectKeys' \subseteq Effects /\ claimedAt' \in [Runs -> Times \cup {None}]
  BY <1>3 DEF EntersActionCell, ClaimsEffect, StartAction, TypeOK, Actions, storeVars
<1>6. executed' \subseteq Runs /\ exposed' \in [Runs -> SUBSET (ModelStages \cup {"action"})]
  BY DEF EntersActionCell, ClaimsEffect, StartAction, TypeOK
<1>7. UNCHANGED <<envVars, runKeys, modelVars, spent, tainted, lateClaims>>
  BY DEF EntersActionCell, ClaimsEffect, StartAction, storeVars
<1>8. /\ pc' \in [Runs -> Labels] /\ pc'[r] = label
      /\ result' \in [Runs -> Results \cup {None}]
      /\ \A q \in Runs : pc'[q] = "ended" <=> result'[q] # None
      /\ \A q \in Runs \ {r} : pc'[q] = pc[q]
  BY <1>1, <1>2, <1>3, GotoType
<1>9. \A q \in Runs : pc'[q] \in AfterModels \ {"draft"} => action'[q] # None
  BY <1>3, <1>8 DEF TypeOK
<1>10. \A q \in Runs : pc'[q] = "reserved" => activation'[q] # None
  BY <1>2, <1>4, <1>8 DEF TypeOK
<1> QED BY <1>3, <1>4, <1>5, <1>6, <1>7, <1>8, <1>9, <1>10 DEF TypeOK, envVars, modelVars

LEMMA EndActionType ==
    ASSUME TypeOK, NEW r \in Runs, EndAction(r)
    PROVE  /\ TypeOK'
           /\ \E status \in {"COMPLETED", "EFFECT_UNCERTAIN"}, reason \in Reasons :
                 Returns(r, status, reason, cells[r], tokens[r], TRUE)
<1>1. cells[r] \in Nat /\ tokens[r] \in Nat
  BY DEF TypeOK
<1>2. PICK status \in {"COMPLETED", "EFFECT_UNCERTAIN"},
           reason \in {None, "ACTION_EFFECT_UNCERTAIN", "ACTION_CELL_RUNTIME_ERROR_EFFECT_UNCERTAIN"} :
         Returns(r, status, reason, cells[r], tokens[r], TRUE)
  BY DEF EndAction
<1>3. status \in RunStatuses /\ reason \in Reasons
  BY KnownReasons DEF RunStatuses, ActionReasons
<1>4. /\ pc' = [pc EXCEPT ![r] = "ended"] /\ pc' \in [Runs -> Labels]
      /\ result' \in [Runs -> Results \cup {None}]
      /\ \A q \in Runs : pc'[q] = "ended" <=> result'[q] # None
  BY <1>1, <1>2, <1>3, ReturnsType
<1>5. UNCHANGED <<envVars, storeVars, timeVars, modelVars, action, historyVars>>
  BY DEF EndAction
<1>6. TypeOK'
  BY <1>4, <1>5 DEF TypeOK, envVars, storeVars, timeVars, modelVars, historyVars, AfterModels
<1> QED BY <1>2, <1>3, <1>6

LEMMA CrashType ==
    ASSUME TypeOK, NEW r \in Runs, Crash(r)
    PROVE  TypeOK'
<1>1. "crashed" \in Labels \ {"ended"} /\ "crashed" \notin AfterModels
  BY DEF Labels, Over, AfterModels
<1> QED BY <1>1, GotoType DEF Crash, TypeOK, envVars, storeVars, timeVars, modelVars, historyVars

LEMMA SurroundingsType ==
    ASSUME TypeOK, AdjustClock \/ InstallRegistry \/ ChangeAdapter
    PROVE  TypeOK'
<1>1. UNCHANGED <<storeVars, pc, timeVars, modelVars, action, result, historyVars>>
  BY DEF AdjustClock, InstallRegistry, ChangeAdapter
<1>2. clock' \in Times /\ registry' \in Registries
  BY DEF AdjustClock, InstallRegistry, ChangeAdapter, TypeOK
<1>3. pinned' \in [Adapters -> BOOLEAN]
  BY DEF AdjustClock, InstallRegistry, ChangeAdapter, TypeOK
<1> QED BY <1>1, <1>2, <1>3 DEF TypeOK, storeVars, timeVars, modelVars, historyVars

-----------------------------------------------------------------------------
(* A step of a run has one of these shapes.                                *)

LEMMA StepShapes ==
    ASSUME TypeOK, NEW r \in Runs, DeadlineCovers(r), Step(r) \/ Crash(r)
    PROVE  \/ StopsQuietly(r) \/ Prepares(r) \/ ClaimsRun(r) \/ EntersCell(r) \/ EntersInvoking(r)
           \/ InvokeAdapter(r) \/ AdapterReturns(r) \/ EvidenceFails(r) \/ NoResult(r)
           \/ AcceptResult(r) \/ GoesOn(r) \/ CompilesTo(r) \/ Recompiles(r)
           \/ EntersActionCell(r) \/ ClaimsEffect(r) \/ StartAction(r) \/ EndAction(r) \/ Crash(r)
BY CheckFailsStep, CheckContextStep, PredispatchStep, ReserveStep, StartRunStep, ClaimRunStep,
   StartStageStep, ClaimModelCellStep, CheckAfterCallStep, CompileDraftStep, GuardActionStep,
   CheckCompiledStep, ClaimActionCellStep DEF Step

LEMMA StepType ==
    ASSUME TypeOK, NEW r \in Runs, DeadlineCovers(r), Step(r) \/ Crash(r)
    PROVE  TypeOK'
BY StepShapes, StopsQuietlyType, PrepareType, ClaimsRunType, CellStepType, InvokeAdapterType,
   AdapterReturnsType, CallFailsType, AcceptResultType, GoesOnType, CompilesToType, ActionStepType,
   EndActionType, CrashType

-----------------------------------------------------------------------------
(* The inductive invariant, run by run.                                    *)

\* What the properties say of one run.
Truthful(r) ==
    /\ claimedAt[r] # None => Issued[r] <= claimedAt[r] /\ claimedAt[r] < limit[r]
    /\ result[r] # None =>
          /\ result[r].boundary = (r \in executed)
          /\ result[r].status = "COMPLETED" => r \in executed
          /\ result[r].status # "EFFECT_UNCERTAIN" =>
                /\ r \in executed => result[r].status = "COMPLETED"
                /\ Cardinality(invoked[r]) = cells[r] \/ call[r].kind = "invalid"
          /\ result[r].calls = Cardinality(invoked[r]) /\ result[r].tokens = spent[r]
    /\ exposed[r] \subseteq Secret
    /\ pc[r] = "called" => spent[r] + MaxOutput <= MaxTotal
    /\ r \in executed => spent[r] <= MaxTotal

RunInv(r) ==
    CallsAddUp(r) /\ DeadlineCovers(r) /\ LabelsFollowData(r) /\ BudgetHolds(r) /\ Truthful(r)

LEMMA InvariantByRun ==
    OrganismInv <=> TypeOK /\ KeysAreOwned /\ \A r \in Runs : RunInv(r)
BY DEF OrganismInv, RunInv, Truthful, AuthorityCoversAction, EffectsAreAdmitted, UsageIsReported,
       SensitiveDataStaysInside, NoWorkBeyondBudget

\* What a run keeps to itself.
Untouched(q) ==
    /\ pc'[q] = pc[q] /\ stage'[q] = stage[q] /\ deadline'[q] = deadline[q] /\ limit'[q] = limit[q]
    /\ sensitive'[q] = sensitive[q] /\ tokens'[q] = tokens[q] /\ cells'[q] = cells[q]
    /\ invoked'[q] = invoked[q] /\ call'[q] = call[q] /\ action'[q] = action[q]
    /\ result'[q] = result[q] /\ (q \in executed' <=> q \in executed)
    /\ claimedAt'[q] = claimedAt[q] /\ spent'[q] = spent[q] /\ tainted'[q] = tainted[q]
    /\ exposed'[q] = exposed[q]

LEMMA UntouchedRunInv ==
    ASSUME NEW q \in Runs, Untouched(q), RunInv(q)
    PROVE  RunInv(q)'
<1>1. CallsAddUp(q)'
  BY DEF Untouched, RunInv, CallsAddUp, EarlierStages, CalledSoFar
<1>2. DeadlineCovers(q)' /\ BudgetHolds(q)'
  BY DEF Untouched, RunInv, DeadlineCovers, BudgetHolds, BudgetLeft
<1>3. LabelsFollowData(q)'
  BY DEF Untouched, RunInv, LabelsFollowData, JoinedLabel
<1>4. Truthful(q)'
  BY DEF Untouched, RunInv, Truthful
<1> QED BY <1>1, <1>2, <1>3, <1>4 DEF RunInv

LEMMA StageCounts ==
    /\ Cardinality({}) = 0 /\ Cardinality({"observer"}) = 1 /\ Cardinality(ModelStages) = 2
    /\ \A r \in Runs : TypeOK =>
          /\ Cardinality(CalledSoFar(r)) = Cardinality(EarlierStages(r)) + 1
          /\ Cardinality(EarlierStages(r)) \in Nat
          /\ stage[r] = "analyst" => CalledSoFar(r) = ModelStages
          /\ stage[r] = "observer" => EarlierStages(r) = {} /\ CalledSoFar(r) = {"observer"}
<1>1. Cardinality({}) = 0 /\ IsFiniteSet({})
  BY FS_EmptySet
<1>2. Cardinality({"observer"}) = 1 /\ IsFiniteSet({"observer"})
  BY FS_Singleton
<1>3. Cardinality({"observer"} \cup {"analyst"}) = 2
  BY <1>2, FS_AddElement
<1>4. ModelStages = {"observer"} \cup {"analyst"}
  BY DEF ModelStages
<1>5. ASSUME NEW r \in Runs, TypeOK
      PROVE  /\ Cardinality(CalledSoFar(r)) = Cardinality(EarlierStages(r)) + 1
             /\ Cardinality(EarlierStages(r)) \in Nat
             /\ stage[r] = "analyst" => CalledSoFar(r) = ModelStages
             /\ stage[r] = "observer" => EarlierStages(r) = {} /\ CalledSoFar(r) = {"observer"}
  <2>1. CASE stage[r] = "observer"
    <3>1. EarlierStages(r) = {} /\ CalledSoFar(r) = {"observer"}
      BY <2>1 DEF EarlierStages, CalledSoFar
    <3> QED BY <1>1, <1>2, <2>1, <3>1
  <2>2. CASE stage[r] = "analyst"
    <3>1. EarlierStages(r) = {"observer"} /\ CalledSoFar(r) = {"observer"} \cup {"analyst"}
      BY <2>2 DEF EarlierStages, CalledSoFar
    <3> QED BY <1>2, <1>3, <1>4, <2>2, <3>1
  <2> QED BY <2>1, <2>2, <1>5 DEF TypeOK, ModelStages
<1> QED BY <1>1, <1>2, <1>3, <1>4, <1>5

LEMMA BystandersUntouched ==
    ASSUME TypeOK, NEW r \in Runs, NEW q \in Runs \ {r}, DeadlineCovers(r),
           Step(r) \/ Crash(r)
    PROVE  Untouched(q)
<1>1. CASE StopsQuietly(r)
  <2>1. pc' = [pc EXCEPT ![r] = "ended"] /\ \E x : result' = [result EXCEPT ![r] = x]
    BY <1>1 DEF StopsQuietly, Halt, Returns, Goto
  <2> QED BY <1>1, <2>1, BoundsType DEF StopsQuietly, Untouched, TypeOK
<1>2. CASE Prepares(r)
  BY <1>2, BoundsType DEF Prepares, Goto, Untouched, TypeOK, modelVars
<1>3. CASE ClaimsRun(r)
  BY <1>3, BoundsType DEF ClaimsRun, Goto, Untouched, TypeOK, modelVars
<1>4. CASE EntersCell(r) \/ EntersInvoking(r)
  BY <1>4, BoundsType DEF EntersCell, EntersInvoking, Goto, Untouched, TypeOK, modelVars
<1>5. CASE InvokeAdapter(r)
  BY <1>5 DEF InvokeAdapter, Goto, Untouched, TypeOK, timeVars
<1>6. CASE AdapterReturns(r)
  <2>1. \E x, y, z : /\ call' = [call EXCEPT ![r] = x] /\ spent' = [spent EXCEPT ![r] = y]
                     /\ tainted' = [tainted EXCEPT ![r] = z]
    BY <1>6, AdapterReturnsStep DEF Answers
  <2> QED BY <1>6, <2>1 DEF AdapterReturns, Goto, Untouched, TypeOK, timeVars
<1>7. CASE EvidenceFails(r) \/ NoResult(r)
  <2>1. pc' = [pc EXCEPT ![r] = "ended"] /\ \E x : result' = [result EXCEPT ![r] = x]
    BY <1>7, CallFailsType DEF Returns, Goto
  <2> QED BY <1>7, <2>1 DEF EvidenceFails, NoResult, Untouched, TypeOK, timeVars, modelVars, historyVars
<1>8. CASE AcceptResult(r)
  <2>1. \/ Goto(r, "returned") /\ UNCHANGED result
        \/ pc' = [pc EXCEPT ![r] = "ended"] /\ \E x : result' = [result EXCEPT ![r] = x]
    BY <1>8, AcceptResultType DEF Returns, Goto
  <2>2. /\ \E x, y : tokens' = [tokens EXCEPT ![r] = x] /\ cells' = [cells EXCEPT ![r] = y]
        /\ sensitive' = sensitive \/ \E x : sensitive' = [sensitive EXCEPT ![r] = x]
        /\ UNCHANGED <<timeVars, stage, invoked, call, action, historyVars>>
    BY <1>8 DEF AcceptResult
  <2> QED BY <2>1, <2>2 DEF Goto, Untouched, TypeOK, timeVars, historyVars
<1>9. CASE GoesOn(r)
  BY <1>9, BoundsType DEF GoesOn, NextStage, Goto, Untouched, TypeOK
<1>10. CASE CompilesTo(r) \/ Recompiles(r)
  <2>1. \E x : action' = [action EXCEPT ![r] = x]
    BY <1>10 DEF CompilesTo, Recompiles
  <2> QED BY <1>10, <2>1, BoundsType DEF CompilesTo, Recompiles, Goto, Untouched, TypeOK, modelVars
<1>11. CASE EntersActionCell(r) \/ ClaimsEffect(r)
  BY <1>11, BoundsType DEF EntersActionCell, ClaimsEffect, Goto, Untouched, TypeOK, modelVars
<1>12. CASE StartAction(r)
  BY <1>12 DEF StartAction, Goto, Untouched, TypeOK, timeVars, modelVars
<1>13. CASE EndAction(r)
  <2>1. pc' = [pc EXCEPT ![r] = "ended"] /\ \E x : result' = [result EXCEPT ![r] = x]
    BY <1>13, EndActionType DEF Returns, Goto
  <2> QED BY <1>13, <2>1 DEF EndAction, Untouched, TypeOK, timeVars, modelVars, historyVars
<1>14. CASE Crash(r)
  BY <1>14 DEF Crash, Goto, Untouched, TypeOK, timeVars, modelVars, historyVars
<1> QED BY <1>1, <1>2, <1>3, <1>4, <1>5, <1>6, <1>7, <1>8, <1>9, <1>10, <1>11, <1>12, <1>13, <1>14,
           StepShapes

-----------------------------------------------------------------------------
(* The step of a run keeps its own part of the invariant.                  *)

\* A run that returns with no call under way reports what it has done.
LEMMA StopsQuietlyInv ==
    ASSUME TypeOK, NEW r \in Runs, RunInv(r), StopsQuietly(r)
    PROVE  RunInv(r)'
<1>1. PICK status \in RunStatuses \ {"COMPLETED"}, reason \in Reasons : Halt(r, status, reason)
  BY DEF StopsQuietly
<1>2. /\ pc'[r] = "ended"
      /\ result'[r] = [status |-> status, reason |-> reason, calls |-> cells[r],
                       tokens |-> tokens[r], boundary |-> FALSE]
  BY <1>1, HaltType DEF TypeOK
<1>3. /\ r \notin executed /\ claimedAt[r] = None
      /\ cells[r] = Cardinality(invoked[r]) /\ spent[r] = tokens[r]
  BY DEF StopsQuietly, RunInv, CallsAddUp, DeadlineCovers, Over
<1>4. /\ executed' = executed /\ claimedAt' = claimedAt /\ cells' = cells /\ invoked' = invoked
      /\ spent' = spent /\ tokens' = tokens /\ exposed' = exposed /\ tainted' = tainted
      /\ sensitive' = sensitive
  BY DEF StopsQuietly
<1>5. deadline'[r] = limit'[r]
  BY BoundsType DEF StopsQuietly
<1>6. CallsAddUp(r)'
  BY <1>2, <1>3, <1>4 DEF CallsAddUp, Unclaimed, BeforeCall, AfterModels, Over
<1>7. DeadlineCovers(r)' /\ LabelsFollowData(r)' /\ BudgetHolds(r)'
  BY <1>2, <1>3, <1>4, <1>5 DEF DeadlineCovers, LabelsFollowData, BudgetHolds, AfterModels, Over
<1>8. /\ result'[r].boundary = FALSE /\ result'[r].status # "COMPLETED"
      /\ result'[r].calls = Cardinality(invoked'[r]) /\ result'[r].tokens = spent'[r]
      /\ Cardinality(invoked'[r]) = cells'[r]
  BY <1>2, <1>3, <1>4
<1>9. (r \in executed') = FALSE /\ claimedAt'[r] = None
  BY <1>3, <1>4
<1>10. Truthful(r)'
  BY <1>2, <1>4, <1>8, <1>9 DEF Truthful, RunInv
<1> QED BY <1>6, <1>7, <1>10 DEF RunInv

\* A step that only takes the run from one label to another, with no call
\* under way and nothing returned.
LEMMA PrepareInv ==
    ASSUME TypeOK, NEW r \in Runs, RunInv(r), Prepares(r) \/ ClaimsRun(r)
    PROVE  RunInv(r)'
<1>1. pc'[r] \in {"predispatch", "reserve", "reserved", "claiming", "stage"}
  BY DEF Prepares, ClaimsRun, Goto, TypeOK
<1>2. pc[r] \in Unclaimed
  BY DEF Prepares, ClaimsRun, Unclaimed
<1>3. deadline'[r] = limit'[r]
  BY BoundsType DEF Prepares, ClaimsRun
<1>4. UNCHANGED <<modelVars, action, result, executed, claimedAt, spent, tainted, exposed>>
  BY DEF Prepares, ClaimsRun
<1>5. CallsAddUp(r)'
  BY <1>1, <1>2, <1>4
  DEF RunInv, CallsAddUp, EarlierStages, modelVars, Unclaimed, BeforeCall, AfterModels, Over
<1>6. claimedAt[r] = None /\ r \notin executed /\ result[r] = None
  BY <1>2 DEF RunInv, CallsAddUp, DeadlineCovers, TypeOK, Unclaimed, Over
<1>7. DeadlineCovers(r)'
  BY <1>1, <1>3, <1>4, <1>6 DEF DeadlineCovers
<1>8. LabelsFollowData(r)' /\ BudgetHolds(r)'
  BY <1>1, <1>2, <1>4 DEF RunInv, LabelsFollowData, BudgetHolds, modelVars, Unclaimed, AfterModels, Over
<1>9. Truthful(r)'
  BY <1>1, <1>4, <1>6 DEF RunInv, Truthful
<1> QED BY <1>5, <1>7, <1>8, <1>9 DEF RunInv

LEMMA CellStepInv ==
    ASSUME TypeOK, NEW r \in Runs, RunInv(r), EntersCell(r) \/ EntersInvoking(r)
    PROVE  RunInv(r)'
<1>1. /\ pc[r] \in {"stage", "cell"} /\ pc'[r] \in {"cell", "invoking"}
      /\ BudgetLeft(r)
      /\ pc'[r] = "invoking" /\ sensitive[r] => stage[r] \in Secret
  BY DEF EntersCell, EntersInvoking, Goto, TypeOK, RunInv, BudgetHolds
<1>2. deadline'[r] = limit'[r]
  BY BoundsType DEF EntersCell, EntersInvoking
<1>3. UNCHANGED <<modelVars, action, result, executed, claimedAt, spent, tainted, exposed>>
  BY DEF EntersCell, EntersInvoking
<1>4. CallsAddUp(r)'
  BY <1>1, <1>3
  DEF RunInv, CallsAddUp, EarlierStages, modelVars, Unclaimed, BeforeCall, AfterModels, Over
<1>5. claimedAt[r] = None /\ r \notin executed /\ result[r] = None
  BY <1>1 DEF RunInv, CallsAddUp, DeadlineCovers, TypeOK, Over
<1>6. DeadlineCovers(r)'
  BY <1>1, <1>2, <1>3, <1>5 DEF DeadlineCovers
<1>7. LabelsFollowData(r)' /\ BudgetHolds(r)'
  BY <1>1, <1>3 DEF RunInv, LabelsFollowData, BudgetHolds, BudgetLeft, modelVars, AfterModels, Over
<1>8. Truthful(r)'
  BY <1>1, <1>3, <1>5 DEF RunInv, Truthful
<1> QED BY <1>4, <1>6, <1>7, <1>8 DEF RunInv

LEMMA InvokeAdapterInv ==
    ASSUME TypeOK, NEW r \in Runs, RunInv(r), InvokeAdapter(r)
    PROVE  RunInv(r)'
<1>1. /\ pc[r] = "invoking"
      /\ UNCHANGED <<timeVars, stage, sensitive, tokens, cells, action, result,
                     executed, claimedAt, limit, spent, tainted>>
  BY DEF InvokeAdapter
<1>2. /\ invoked[r] = EarlierStages(r) /\ call[r] = NoCall
      /\ cells[r] = Cardinality(EarlierStages(r)) /\ spent[r] = tokens[r]
      /\ claimedAt[r] = None /\ r \notin executed /\ result[r] = None
      /\ BudgetLeft(r) /\ (sensitive[r] => stage[r] \in Secret) /\ (tainted[r] => sensitive[r])
      /\ exposed[r] \subseteq Secret
  BY <1>1 DEF RunInv, CallsAddUp, DeadlineCovers, LabelsFollowData, BudgetHolds, Truthful, TypeOK,
              BeforeCall, Over
<1>3. CASE /\ pc' = [pc EXCEPT ![r] = "called"]
           /\ invoked' = [invoked EXCEPT ![r] = @ \cup {stage[r]}]
           /\ call' = [call EXCEPT ![r] = [NoCall EXCEPT !.started = TRUE]]
           /\ exposed' = [exposed EXCEPT ![r] = IF tainted[r] THEN @ \cup {stage[r]} ELSE @]
  <2>1. pc'[r] = "called" /\ invoked'[r] = CalledSoFar(r) /\ exposed'[r] \subseteq Secret
    BY <1>2, <1>3 DEF TypeOK, CalledSoFar
  <2>2. CallsAddUp(r)'
    BY <1>1, <1>2, <2>1
    DEF CallsAddUp, CalledSoFar, EarlierStages, Unclaimed, BeforeCall, AfterModels, Over
  <2>3. DeadlineCovers(r)' /\ LabelsFollowData(r)'
    BY <1>1, <1>2, <2>1 DEF RunInv, DeadlineCovers, LabelsFollowData, timeVars, Over
  <2>4. BudgetHolds(r)' /\ Truthful(r)'
    BY <1>1, <1>2, <2>1 DEF BudgetHolds, BudgetLeft, Truthful, AfterModels
  <2> QED BY <2>2, <2>3, <2>4 DEF RunInv
<1>4. CASE /\ pc' = [pc EXCEPT ![r] = "cell_done"]
           /\ call' = [call EXCEPT ![r] = [NoCall EXCEPT !.kind = "raised"]]
           /\ UNCHANGED <<invoked, exposed>>
  <2>1. /\ pc'[r] = "cell_done" /\ call'[r].kind = "raised" /\ call'[r].usage = 0
        /\ call'[r].started = FALSE
    BY <1>4 DEF TypeOK, NoCall
  <2>2. CallsAddUp(r)'
    BY <1>1, <1>2, <1>4, <2>1
    DEF CallsAddUp, CalledSoFar, EarlierStages, Unclaimed, BeforeCall, AfterModels, Over, TypeOK
  <2>3. DeadlineCovers(r)' /\ LabelsFollowData(r)'
    BY <1>1, <1>2, <2>1 DEF RunInv, DeadlineCovers, LabelsFollowData, timeVars, Over
  <2>4. BudgetHolds(r)' /\ Truthful(r)'
    BY <1>1, <1>2, <1>4, <2>1 DEF BudgetHolds, BudgetLeft, Truthful, AfterModels
  <2> QED BY <2>2, <2>3, <2>4 DEF RunInv
<1> QED BY <1>3, <1>4 DEF InvokeAdapter, Goto

LEMMA AdapterReturnsInv ==
    ASSUME TypeOK, NEW r \in Runs, RunInv(r), AdapterReturns(r)
    PROVE  RunInv(r)'
<1>1. /\ pc[r] = "called" /\ pc'[r] = "cell_done"
      /\ UNCHANGED <<timeVars, stage, sensitive, tokens, cells, invoked, action, result,
                     executed, claimedAt, limit, exposed>>
  BY DEF AdapterReturns, Goto, TypeOK
<1>2. PICK kind \in {"raised", "invalid", "RETURNED", "REFUSED", "ERROR"},
           u \in Usages, label \in BOOLEAN, changed \in BOOLEAN, used \in Nat :
              Answers(r, kind, u, label, changed, used)
  BY AdapterReturnsStep
<1>3. /\ call'[r].started = TRUE /\ call'[r].usage = used /\ call'[r].sensitive = label
      /\ call'[r].kind = IF changed THEN "raised" ELSE kind
      /\ spent'[r] = spent[r] + used
      /\ tainted'[r] = (tainted[r] \/ (label /\ kind = "RETURNED"))
  BY <1>2 DEF Answers, Noted, TypeOK
<1>4. /\ invoked[r] = CalledSoFar(r) /\ cells[r] = Cardinality(EarlierStages(r))
      /\ spent[r] = tokens[r] /\ claimedAt[r] = None /\ r \notin executed /\ result[r] = None
      /\ (tainted[r] => sensitive[r])
  BY <1>1 DEF RunInv, CallsAddUp, DeadlineCovers, LabelsFollowData, TypeOK, Over
<1>5. CallsAddUp(r)'
  BY <1>1, <1>3, <1>4
  DEF CallsAddUp, CalledSoFar, EarlierStages, Unclaimed, BeforeCall, AfterModels, Over
<1>6. DeadlineCovers(r)'
  BY <1>1, <1>4 DEF RunInv, DeadlineCovers, timeVars
<1>7. LabelsFollowData(r)'
  BY <1>1, <1>3, <1>4 DEF LabelsFollowData, JoinedLabel
<1>8. BudgetHolds(r)' /\ Truthful(r)'
  BY <1>1, <1>4 DEF RunInv, BudgetHolds, Truthful, AfterModels
<1> QED BY <1>5, <1>6, <1>7, <1>8 DEF RunInv

\* The call is counted and its tokens are in the total, whatever came of it.
LEMMA AfterCallCounts ==
    ASSUME TypeOK, NEW r \in Runs, RunInv(r), pc[r] = "cell_done"
    PROVE  /\ Calls(r) = Cardinality(invoked[r]) /\ Usage(r) = spent[r]
           /\ claimedAt[r] = None /\ r \notin executed
           /\ call[r].started => invoked[r] = CalledSoFar(r)
           /\ ~call[r].started => call[r].kind = "raised" /\ cells[r] = Cardinality(invoked[r])
<1>1. /\ cells[r] = Cardinality(EarlierStages(r)) /\ spent[r] = tokens[r] + call[r].usage
      /\ claimedAt[r] = None /\ r \notin executed
      /\ invoked[r] = IF call[r].started THEN CalledSoFar(r) ELSE EarlierStages(r)
      /\ ~call[r].started => call[r].kind = "raised"
  BY DEF RunInv, CallsAddUp, DeadlineCovers, Over
<1>2. call[r].started \in BOOLEAN
  BY DEF TypeOK, CallTypes
<1>3. CASE call[r].started = TRUE
  <2>1. Calls(r) = cells[r] + 1
    BY <1>3 DEF Calls, Count
  <2> QED BY <1>1, <1>3, <2>1, StageCounts DEF Usage
<1>4. CASE call[r].started = FALSE
  <2>1. Calls(r) = cells[r]
    BY <1>1, <1>4, StageCounts DEF Calls, Count
  <2> QED BY <1>1, <1>4, <2>1 DEF Usage
<1> QED BY <1>2, <1>3, <1>4

LEMMA CallFailsInv ==
    ASSUME TypeOK, NEW r \in Runs, RunInv(r), EvidenceFails(r) \/ NoResult(r)
    PROVE  RunInv(r)'
<1>1. /\ pc[r] = "cell_done"
      /\ UNCHANGED <<envVars, storeVars, timeVars, modelVars, action, historyVars>>
  BY DEF EvidenceFails, NoResult
<1>2. /\ Calls(r) = Cardinality(invoked[r]) /\ Usage(r) = spent[r]
      /\ claimedAt[r] = None /\ (r \in executed) = FALSE
      /\ ~call[r].started => cells[r] = Cardinality(invoked[r])
  BY <1>1, AfterCallCounts
<1>3. PICK status \in {"EFFECT_UNCERTAIN", "FAILED", "BLOCK"}, reason \in Reasons :
         Returns(r, status, reason, Calls(r), Usage(r), FALSE)
  BY CallFailsType
<1>4. /\ pc'[r] = "ended"
      /\ result'[r] = [status |-> status, reason |-> reason, calls |-> Calls(r),
                       tokens |-> Usage(r), boundary |-> FALSE]
  BY <1>3 DEF Returns, Goto, TypeOK
<1>5. status # "EFFECT_UNCERTAIN" => ~call[r].started \/ call[r].kind = "invalid"
  <2>1. call[r].started /\ call[r].kind # "invalid" => result'[r].status = "EFFECT_UNCERTAIN"
    BY DEF EvidenceFails, NoResult, CallEnds, Returns, TypeOK
  <2> QED BY <1>4, <2>1
<1>6. CallsAddUp(r)' /\ DeadlineCovers(r)'
  BY <1>1, <1>2, <1>4
  DEF RunInv, CallsAddUp, DeadlineCovers, historyVars, timeVars, Unclaimed, BeforeCall, AfterModels, Over
<1>7. LabelsFollowData(r)' /\ BudgetHolds(r)'
  BY <1>4 DEF LabelsFollowData, BudgetHolds, AfterModels, Over
<1>8. /\ result'[r].boundary = FALSE /\ result'[r].status = status
      /\ result'[r].calls = Cardinality(invoked[r]) /\ result'[r].tokens = spent[r]
  BY <1>2, <1>4
<1>9. Truthful(r)'
  BY <1>1, <1>2, <1>4, <1>5, <1>8 DEF RunInv, Truthful, modelVars, historyVars
<1> QED BY <1>6, <1>7, <1>9 DEF RunInv

LEMMA AcceptResultInv ==
    ASSUME TypeOK, NEW r \in Runs, RunInv(r), AcceptResult(r)
    PROVE  RunInv(r)'
<1>1. /\ pc[r] = "cell_done" /\ call[r].kind \in {"RETURNED", "REFUSED", "ERROR"}
      /\ tokens'[r] = Usage(r) /\ cells'[r] = Calls(r)
      /\ UNCHANGED <<timeVars, stage, invoked, call, action, historyVars>>
  BY DEF AcceptResult, TypeOK
<1>2. /\ Calls(r) = Cardinality(invoked[r]) /\ Usage(r) = spent[r]
      /\ claimedAt[r] = None /\ (r \in executed) = FALSE
      /\ invoked[r] = CalledSoFar(r)
  BY <1>1, AfterCallCounts
<1>3. CASE /\ ~OverBudget(r) /\ call[r].kind = "RETURNED"
           /\ sensitive' = [sensitive EXCEPT ![r] = JoinedLabel(r)]
           /\ Goto(r, "returned") /\ UNCHANGED result
  <2>1. pc'[r] = "returned" /\ (sensitive'[r] <=> JoinedLabel(r)) /\ result'[r] = None
    BY <1>1, <1>3 DEF Goto, TypeOK
  <2>2. CallsAddUp(r)'
    BY <1>1, <1>2, <2>1
    DEF CallsAddUp, CalledSoFar, EarlierStages, historyVars, Unclaimed, BeforeCall, AfterModels, Over
  <2>3. DeadlineCovers(r)'
    BY <1>1, <1>2, <2>1 DEF RunInv, DeadlineCovers, historyVars, timeVars
  <2>4. LabelsFollowData(r)'
    BY <1>1, <1>3, <2>1 DEF RunInv, LabelsFollowData, historyVars
  <2>5. BudgetHolds(r)'
    <3>1. Usage(r) <= MaxTotal
      BY <1>3, CallEndsType, LimitsAssumption DEF OverBudget
    <3> QED BY <1>1, <2>1, <3>1 DEF BudgetHolds
  <2>6. Truthful(r)'
    BY <1>1, <1>2, <2>1 DEF RunInv, Truthful, historyVars
  <2> QED BY <2>2, <2>3, <2>4, <2>5, <2>6 DEF RunInv
<1>4. ASSUME NEW status \in {"FAILED", "BLOCK"}, NEW reason \in Reasons,
             Returns(r, status, reason, Calls(r), Usage(r), FALSE)
      PROVE  RunInv(r)'
  <2>1. /\ pc'[r] = "ended"
        /\ result'[r] = [status |-> status, reason |-> reason, calls |-> Calls(r),
                         tokens |-> Usage(r), boundary |-> FALSE]
    BY <1>4 DEF Returns, Goto, TypeOK
  <2>2. CallsAddUp(r)' /\ DeadlineCovers(r)'
    BY <1>1, <1>2, <2>1
    DEF RunInv, CallsAddUp, DeadlineCovers, historyVars, timeVars, Unclaimed, BeforeCall, AfterModels, Over
  <2>3. LabelsFollowData(r)' /\ BudgetHolds(r)'
    BY <2>1 DEF LabelsFollowData, BudgetHolds, AfterModels, Over
  <2>4. /\ result'[r].boundary = FALSE /\ result'[r].status # "COMPLETED"
        /\ result'[r].calls = Cardinality(invoked[r]) /\ result'[r].tokens = spent[r]
        /\ cells'[r] = Cardinality(invoked[r])
    BY <1>1, <1>2, <2>1
  <2>5. Truthful(r)'
    BY <1>1, <1>2, <2>1, <2>4 DEF RunInv, Truthful, historyVars
  <2> QED BY <2>2, <2>3, <2>5 DEF RunInv
<1> QED BY <1>3, <1>4, AcceptResultType

LEMMA GoesOnInv ==
    ASSUME TypeOK, NEW r \in Runs, RunInv(r), GoesOn(r)
    PROVE  RunInv(r)'
<1>1. /\ pc[r] = "returned" /\ call'[r] = NoCall
      /\ UNCHANGED <<sensitive, tokens, cells, invoked, action, result,
                     executed, claimedAt, spent, tainted, exposed>>
  BY DEF GoesOn, TypeOK
<1>2. /\ invoked[r] = CalledSoFar(r) /\ cells[r] = Cardinality(invoked[r]) /\ spent[r] = tokens[r]
      /\ claimedAt[r] = None /\ r \notin executed /\ result[r] = None
      /\ (tainted[r] => sensitive[r]) /\ tokens[r] <= MaxTotal
  BY <1>1 DEF RunInv, CallsAddUp, DeadlineCovers, LabelsFollowData, BudgetHolds, TypeOK, Over
<1>3. deadline'[r] = limit'[r]
  BY BoundsType DEF GoesOn
<1>4. CASE stage[r] = "observer"
  <2>1. pc'[r] = "stage" /\ stage'[r] = "analyst"
    BY <1>4 DEF GoesOn, NextStage, Goto, TypeOK
  <2>2. EarlierStages(r)' = {"observer"} /\ CalledSoFar(r) = {"observer"}
    BY <1>4, <2>1 DEF EarlierStages, CalledSoFar
  <2>3. CallsAddUp(r)'
    BY <1>1, <1>2, <2>1, <2>2 DEF CallsAddUp, Unclaimed, BeforeCall, AfterModels, Over
  <2>4. DeadlineCovers(r)' /\ LabelsFollowData(r)' /\ BudgetHolds(r)' /\ Truthful(r)'
    BY <1>1, <1>2, <1>3, <2>1
    DEF RunInv, DeadlineCovers, LabelsFollowData, BudgetHolds, Truthful, AfterModels, Over
  <2> QED BY <2>3, <2>4 DEF RunInv
<1>5. CASE stage[r] # "observer"
  <2>1. pc'[r] = "draft" /\ stage'[r] = "analyst"
    BY <1>5 DEF GoesOn, NextStage, Goto, TypeOK, ModelStages
  <2>2. CalledSoFar(r) = ModelStages
    BY <1>5, StageCounts DEF TypeOK, ModelStages
  <2>3. CallsAddUp(r)'
    BY <1>1, <1>2, <2>1, <2>2 DEF CallsAddUp, Unclaimed, BeforeCall, AfterModels, Over
  <2>4. DeadlineCovers(r)' /\ LabelsFollowData(r)' /\ BudgetHolds(r)' /\ Truthful(r)'
    BY <1>1, <1>2, <1>3, <2>1
    DEF RunInv, DeadlineCovers, LabelsFollowData, BudgetHolds, Truthful, AfterModels, Over
  <2> QED BY <2>3, <2>4 DEF RunInv
<1> QED BY <1>4, <1>5

\* With both models called, the run only compiles, checks and claims.
LEMMA ActionStepInv ==
    ASSUME TypeOK, NEW r \in Runs, RunInv(r),
           CompilesTo(r) \/ Recompiles(r) \/ EntersActionCell(r) \/ ClaimsEffect(r)
    PROVE  RunInv(r)'
<1>1. /\ pc[r] \in {"draft", "guard", "compiled", "action_cell"}
      /\ pc'[r] \in {"guard", "compiled", "action_cell", "acting"}
      /\ pc'[r] = "acting" <=> ClaimsEffect(r)
      /\ pc'[r] = "action_cell" => action'[r].expires = deadline'[r]
  BY DEF CompilesTo, Recompiles, EntersActionCell, ClaimsEffect, Goto, TypeOK
<1>2. deadline'[r] = limit'[r]
  BY BoundsType DEF CompilesTo, Recompiles, EntersActionCell, ClaimsEffect
<1>3. UNCHANGED <<modelVars, result, executed, spent, tainted, exposed>>
  BY DEF CompilesTo, Recompiles, EntersActionCell, ClaimsEffect
<1>4. /\ invoked[r] = ModelStages /\ cells[r] = Cardinality(invoked[r]) /\ spent[r] = tokens[r]
      /\ claimedAt[r] = None /\ r \notin executed /\ result[r] = None
      /\ (tainted[r] => sensitive[r]) /\ tokens[r] <= MaxTotal /\ deadline[r] = limit[r]
      /\ pc[r] = "action_cell" => action[r].expires = deadline[r]
  BY <1>1 DEF RunInv, CallsAddUp, DeadlineCovers, LabelsFollowData, BudgetHolds, TypeOK,
              AfterModels, Over
<1>5. CallsAddUp(r)'
  BY <1>1, <1>3, <1>4 DEF CallsAddUp, modelVars, Unclaimed, BeforeCall, AfterModels, Over
<1>6. /\ ~ClaimsEffect(r) => claimedAt'[r] = None
      /\ ClaimsEffect(r) => /\ claimedAt'[r] = clock /\ clock # None /\ Issued[r] <= clock
                            /\ clock < action[r].expires /\ (sensitive[r] => "action" \in Secret)
                            /\ pc[r] = "action_cell"
  BY <1>4, NoneAssumption, TimesAssumption
  DEF CompilesTo, Recompiles, EntersActionCell, ClaimsEffect, TypeOK
<1>7. DeadlineCovers(r)'
  BY <1>1, <1>2, <1>3, <1>4, <1>6 DEF DeadlineCovers
<1>8. LabelsFollowData(r)' /\ BudgetHolds(r)'
  BY <1>1, <1>3, <1>4, <1>6 DEF LabelsFollowData, BudgetHolds, modelVars, AfterModels, Over
<1>9. ClaimsEffect(r) => clock < limit'[r]
  <2>1. SUFFICES ASSUME ClaimsEffect(r) PROVE clock < limit'[r]
    OBVIOUS
  <2>2. clock < limit[r]
    BY <1>4, <1>6, <2>1
  <2>3. limit'[r] = limit[r]
    BY <2>1 DEF ClaimsEffect
  <2> QED BY <2>2, <2>3
<1>10. Truthful(r)'
  BY <1>1, <1>3, <1>4, <1>6, <1>9 DEF RunInv, Truthful, modelVars
<1> QED BY <1>5, <1>7, <1>8, <1>10 DEF RunInv

LEMMA StartActionInv ==
    ASSUME TypeOK, NEW r \in Runs, RunInv(r), StartAction(r)
    PROVE  RunInv(r)'
<1>1. /\ pc[r] = "acting" /\ pc'[r] = "acted" /\ r \in executed'
      /\ UNCHANGED <<timeVars, modelVars, action, result, claimedAt, limit, spent, tainted>>
  BY DEF StartAction, Goto, TypeOK
<1>2. /\ invoked[r] = ModelStages /\ cells[r] = Cardinality(invoked[r]) /\ spent[r] = tokens[r]
      /\ claimedAt[r] # None /\ result[r] = None /\ (tainted[r] => sensitive[r])
      /\ (sensitive[r] => "action" \in Secret) /\ tokens[r] <= MaxTotal /\ exposed[r] \subseteq Secret
  BY <1>1 DEF RunInv, CallsAddUp, DeadlineCovers, LabelsFollowData, BudgetHolds, Truthful, TypeOK,
              AfterModels, Over
<1>3. exposed'[r] \subseteq Secret
  BY <1>2 DEF StartAction, TypeOK
<1>4. CallsAddUp(r)' /\ DeadlineCovers(r)'
  BY <1>1, <1>2
  DEF RunInv, CallsAddUp, DeadlineCovers, modelVars, timeVars, Unclaimed, BeforeCall, AfterModels, Over
<1>5. LabelsFollowData(r)' /\ BudgetHolds(r)'
  BY <1>1, <1>2 DEF LabelsFollowData, BudgetHolds, modelVars, AfterModels, Over
<1>6. Truthful(r)'
  BY <1>1, <1>2, <1>3 DEF RunInv, Truthful
<1> QED BY <1>4, <1>5, <1>6 DEF RunInv

LEMMA EndActionInv ==
    ASSUME TypeOK, NEW r \in Runs, RunInv(r), EndAction(r)
    PROVE  RunInv(r)'
<1>1. /\ pc[r] = "acted"
      /\ UNCHANGED <<timeVars, modelVars, action, historyVars>>
  BY DEF EndAction
<1>2. PICK status \in {"COMPLETED", "EFFECT_UNCERTAIN"}, reason \in Reasons :
         Returns(r, status, reason, cells[r], tokens[r], TRUE)
  BY EndActionType
<1>3. /\ pc'[r] = "ended"
      /\ result'[r] = [status |-> status, reason |-> reason, calls |-> cells[r],
                       tokens |-> tokens[r], boundary |-> TRUE]
  BY <1>2 DEF Returns, Goto, TypeOK
<1>4. /\ (r \in executed) = TRUE /\ claimedAt[r] # None
      /\ cells[r] = Cardinality(invoked[r]) /\ spent[r] = tokens[r]
  BY <1>1 DEF RunInv, CallsAddUp, DeadlineCovers, Over
<1>5. CallsAddUp(r)' /\ DeadlineCovers(r)'
  BY <1>1, <1>3, <1>4
  DEF RunInv, CallsAddUp, DeadlineCovers, historyVars, timeVars, Unclaimed, BeforeCall, AfterModels, Over
<1>6. LabelsFollowData(r)' /\ BudgetHolds(r)'
  BY <1>3 DEF LabelsFollowData, BudgetHolds, AfterModels, Over
<1>7. /\ result'[r].boundary = TRUE /\ result'[r].status \in {"COMPLETED", "EFFECT_UNCERTAIN"}
      /\ result'[r].calls = Cardinality(invoked[r]) /\ result'[r].tokens = spent[r]
  BY <1>3, <1>4
<1>8. Truthful(r)'
  BY <1>1, <1>3, <1>4, <1>7 DEF RunInv, Truthful, modelVars, historyVars
<1> QED BY <1>5, <1>6, <1>8 DEF RunInv

LEMMA CrashInv ==
    ASSUME TypeOK, NEW r \in Runs, RunInv(r), Crash(r)
    PROVE  RunInv(r)'
<1>1. /\ pc'[r] = "crashed"
      /\ UNCHANGED <<timeVars, modelVars, action, result, historyVars>>
  BY DEF Crash, Goto, TypeOK
<1>2. CallsAddUp(r)' /\ DeadlineCovers(r)'
  BY <1>1 DEF RunInv, CallsAddUp, DeadlineCovers, historyVars, timeVars,
              Unclaimed, BeforeCall, AfterModels, Over
<1>3. LabelsFollowData(r)' /\ BudgetHolds(r)'
  BY <1>1 DEF LabelsFollowData, BudgetHolds, AfterModels, Over
<1>4. Truthful(r)'
  BY <1>1 DEF RunInv, Truthful, modelVars, historyVars
<1> QED BY <1>2, <1>3, <1>4 DEF RunInv

LEMMA StepInv ==
    ASSUME TypeOK, NEW r \in Runs, \A q \in Runs : RunInv(q), Step(r) \/ Crash(r)
    PROVE  \A q \in Runs : RunInv(q)'
<1>1. DeadlineCovers(r) /\ RunInv(r)
  BY DEF RunInv
<1>2. RunInv(r)'
  BY <1>1, StepShapes, StopsQuietlyInv, PrepareInv, CellStepInv, InvokeAdapterInv, AdapterReturnsInv,
     CallFailsInv, AcceptResultInv, GoesOnInv, ActionStepInv, StartActionInv, EndActionInv, CrashInv
<1>3. ASSUME NEW q \in Runs \ {r} PROVE RunInv(q)'
  BY <1>1, BystandersUntouched, UntouchedRunInv
<1> QED BY <1>2, <1>3

-----------------------------------------------------------------------------
(* Keys and effects have one owner.                                        *)

\* A step that gives a run no key and no effect leaves the owners as they are.
LEMMA OwnersStay ==
    ASSUME KeysAreOwned, NEW r \in Runs,
           \A q \in Runs \ {r} : Untouched(q),
           runKeys \subseteq runKeys', effectKeys \subseteq effectKeys',
           OwnsRunKey(r)' => OwnsRunKey(r),
           OwnsEffect(r)' => OwnsEffect(r) /\ action'[r].effect = action[r].effect
    PROVE  KeysAreOwned'
<1>1. \A q \in Runs : OwnsRunKey(q)' => OwnsRunKey(q)
  BY DEF Untouched, OwnsRunKey
<1>2. \A q \in Runs : OwnsEffect(q)' => OwnsEffect(q) /\ action'[q].effect = action[q].effect
  BY DEF Untouched, OwnsEffect
<1> HIDE DEF OwnsRunKey, OwnsEffect
<1> QED BY <1>1, <1>2 DEF KeysAreOwned

LEMMA StepKeys ==
    ASSUME TypeOK, KeysAreOwned, NEW r \in Runs, \A q \in Runs : RunInv(q), Step(r) \/ Crash(r)
    PROVE  KeysAreOwned'
<1>1. DeadlineCovers(r) /\ RunInv(r) /\ \A q \in Runs \ {r} : Untouched(q)
  BY BystandersUntouched DEF RunInv
<1>2. CASE ClaimsRun(r)
  <2>1. /\ pc[r] = "claiming" /\ SemanticKey[r] \notin runKeys
        /\ runKeys' = runKeys \cup {SemanticKey[r]}
        /\ UNCHANGED <<effectKeys, action, claimedAt, invoked>>
    BY <1>2 DEF ClaimsRun, modelVars
  <2>2. \A q \in Runs \ {r} : (OwnsRunKey(q)' <=> OwnsRunKey(q))
    BY <1>1 DEF Untouched, OwnsRunKey
  <2>3. \A q \in Runs \ {r} : OwnsRunKey(q) => SemanticKey[q] # SemanticKey[r]
    BY <2>1 DEF KeysAreOwned
  <2>4. \A q \in Runs : OwnsEffect(q)' <=> OwnsEffect(q)
    BY <2>1 DEF OwnsEffect
  <2> QED BY <2>1, <2>2, <2>3, <2>4 DEF KeysAreOwned
<1>3. CASE ClaimsEffect(r)
  <2>1. /\ action[r].effect \notin effectKeys
        /\ effectKeys' = effectKeys \cup {action[r].effect}
        /\ UNCHANGED <<runKeys, action, invoked>>
    BY <1>3 DEF ClaimsEffect, modelVars
  <2>2. \A q \in Runs \ {r} : (OwnsEffect(q)' <=> OwnsEffect(q))
    BY <1>1 DEF Untouched, OwnsEffect
  <2>3. \A q \in Runs \ {r} : OwnsEffect(q) => action[q].effect # action[r].effect
    BY <2>1 DEF KeysAreOwned
  <2>4. \A q \in Runs : OwnsRunKey(q)' => OwnsRunKey(q)
    <3>1. OwnsRunKey(r)
      BY <1>3 DEF ClaimsEffect, OwnsRunKey, Unclaimed, Over
    <3> QED BY <1>1, <3>1 DEF Untouched, OwnsRunKey
  <2> QED BY <2>1, <2>2, <2>3, <2>4 DEF KeysAreOwned
<1>4. ASSUME ~ClaimsRun(r), ~ClaimsEffect(r)
      PROVE  KeysAreOwned'
  <2>1. /\ runKeys \subseteq runKeys' /\ effectKeys \subseteq effectKeys'
    BY <1>1, <1>4, StepShapes
    DEF StopsQuietly, NamesStayTaken, Prepares, EntersCell, EntersInvoking, InvokeAdapter, AdapterReturns, EvidenceFails,
        NoResult, AcceptResult, GoesOn, CompilesTo, Recompiles, EntersActionCell, StartAction,
        EndAction, Crash, storeVars
  <2>2. claimedAt' = claimedAt
    BY <1>1, <1>4, StepShapes
    DEF StopsQuietly, Prepares, EntersCell, EntersInvoking, InvokeAdapter, AdapterReturns, EvidenceFails,
        NoResult, AcceptResult, GoesOn, CompilesTo, Recompiles, EntersActionCell, StartAction,
        EndAction, Crash, historyVars
  <2>3. OwnsEffect(r)' => OwnsEffect(r) /\ action'[r].effect = action[r].effect
    <3>1. CASE CompilesTo(r) \/ Recompiles(r)
      BY <1>1, <2>2, <3>1 DEF RunInv, DeadlineCovers, CompilesTo, Recompiles, OwnsEffect, Over
    <3>2. CASE ~(CompilesTo(r) \/ Recompiles(r))
      <4>1. action' = action
        BY <1>1, <1>4, <3>2, StepShapes
        DEF StopsQuietly, Prepares, EntersCell, EntersInvoking, InvokeAdapter, AdapterReturns,
            EvidenceFails, NoResult, AcceptResult, GoesOn, EntersActionCell, StartAction,
            EndAction, Crash
      <4> QED BY <2>2, <4>1 DEF OwnsEffect
    <3> QED BY <3>1, <3>2
  <2>4. OwnsRunKey(r)' => OwnsRunKey(r)
    <3>1. CASE pc[r] \notin Unclaimed \cup Over
      BY <3>1 DEF OwnsRunKey
    <3>2. CASE pc[r] \in Over
      BY <1>1, <1>4, <3>2, StepShapes
      DEF StopsQuietly, Prepares, EntersCell, EntersInvoking, InvokeAdapter, AdapterReturns, EvidenceFails,
          NoResult, AcceptResult, GoesOn, CompilesTo, Recompiles, EntersActionCell, StartAction,
          EndAction, Crash, Over
    <3>3. CASE pc[r] \in Unclaimed
      <4>1. StopsQuietly(r) \/ Prepares(r) \/ Crash(r)
        BY <1>1, <1>4, <3>3, StepShapes
        DEF EntersCell, EntersInvoking, InvokeAdapter, AdapterReturns, EvidenceFails,
            NoResult, AcceptResult, GoesOn, CompilesTo, Recompiles, EntersActionCell, StartAction,
            EndAction, Unclaimed
      <4>2. invoked' = invoked
        BY <4>1 DEF StopsQuietly, Prepares, Crash, modelVars
      <4>3. pc'[r] \in Unclaimed \cup Over
        BY <4>1 DEF StopsQuietly, Prepares, Crash, Halt, Returns, Goto, TypeOK, Unclaimed, Over
      <4> QED BY <4>2, <4>3 DEF OwnsRunKey
    <3> QED BY <3>1, <3>2, <3>3
  <2> QED BY <1>1, <2>1, <2>3, <2>4, OwnersStay
<1> QED BY <1>2, <1>3, <1>4

-----------------------------------------------------------------------------
(* The theorems.                                                           *)

LEMMA InitInv == Init => OrganismInv
<1> SUFFICES ASSUME Init PROVE OrganismInv
  OBVIOUS
<1>1. NoCall \in CallTypes
  BY DEF NoCall, CallTypes
<1>2. TypeOK
  BY <1>1, TimesAssumption
  DEF Init, TypeOK, Labels, Unclaimed, AfterModels, ModelStages
<1>3. ASSUME NEW r \in Runs PROVE RunInv(r)
  <2>1. /\ pc[r] = "new" /\ stage[r] = "observer" /\ invoked[r] = {} /\ call[r] = NoCall
        /\ cells[r] = 0 /\ tokens[r] = 0 /\ spent[r] = 0 /\ deadline[r] = limit[r]
        /\ claimedAt[r] = None /\ result[r] = None /\ r \notin executed /\ exposed[r] = {}
        /\ tainted[r] = sensitive[r]
    BY DEF Init
  <2>2. CallsAddUp(r)
    BY <2>1, StageCounts DEF CallsAddUp, EarlierStages, Unclaimed, BeforeCall, AfterModels, Over
  <2>3. DeadlineCovers(r) /\ LabelsFollowData(r) /\ BudgetHolds(r) /\ Truthful(r)
    BY <2>1 DEF DeadlineCovers, LabelsFollowData, BudgetHolds, Truthful, AfterModels
  <2> QED BY <2>2, <2>3 DEF RunInv
<1>4. KeysAreOwned
  BY DEF Init, KeysAreOwned, OwnsRunKey, OwnsEffect, Unclaimed
<1> QED BY <1>2, <1>3, <1>4, InvariantByRun

LEMMA SurroundingsInv ==
    ASSUME OrganismInv, AdjustClock \/ InstallRegistry \/ ChangeAdapter
    PROVE  OrganismInv'
<1>1. TypeOK /\ KeysAreOwned /\ \A r \in Runs : RunInv(r)
  BY InvariantByRun
<1>2. UNCHANGED <<storeVars, pc, timeVars, modelVars, action, result, historyVars>>
  BY DEF AdjustClock, InstallRegistry, ChangeAdapter
<1>3. \A r \in Runs : Untouched(r)
  BY <1>2 DEF Untouched, timeVars, modelVars, historyVars
<1>4. \A r \in Runs : RunInv(r)'
  BY <1>1, <1>3, UntouchedRunInv
<1>5. KeysAreOwned'
  BY <1>1, <1>2 DEF KeysAreOwned, OwnsRunKey, OwnsEffect, storeVars, modelVars, historyVars
<1>6. TypeOK'
  BY <1>1, SurroundingsType
<1>7. (TypeOK /\ KeysAreOwned /\ \A r \in Runs : RunInv(r))'
  BY <1>4, <1>5, <1>6
<1>8. OrganismInv' <=> (TypeOK /\ KeysAreOwned /\ \A r \in Runs : RunInv(r))'
  BY DEF OrganismInv, RunInv, Truthful, AuthorityCoversAction, EffectsAreAdmitted, UsageIsReported,
         SensitiveDataStaysInside, NoWorkBeyondBudget
<1> QED BY <1>7, <1>8

LEMMA NextInv == OrganismInv /\ [Next]_vars => OrganismInv'
<1> SUFFICES ASSUME OrganismInv, [Next]_vars PROVE OrganismInv'
  OBVIOUS
<1>1. TypeOK /\ KeysAreOwned /\ \A r \in Runs : RunInv(r)
  BY InvariantByRun
<1>2. ASSUME NEW r \in Runs, Step(r) \/ Crash(r)
      PROVE  OrganismInv'
  <2>1. TypeOK'
    BY <1>1, <1>2, StepType DEF RunInv
  <2>2. KeysAreOwned' /\ \A q \in Runs : RunInv(q)'
    BY <1>1, <1>2, StepKeys, StepInv
  <2>3. OrganismInv' <=> (TypeOK /\ KeysAreOwned /\ \A q \in Runs : RunInv(q))'
    BY DEF OrganismInv, RunInv, Truthful, AuthorityCoversAction, EffectsAreAdmitted, UsageIsReported,
           SensitiveDataStaysInside, NoWorkBeyondBudget
  <2> QED BY <2>1, <2>2, <2>3
<1>3. CASE AdjustClock \/ InstallRegistry \/ ChangeAdapter
  BY <1>3, SurroundingsInv
<1>4. CASE UNCHANGED vars
  <2>1. UNCHANGED <<envVars, storeVars, pc, timeVars, modelVars, action, result, historyVars>>
    BY <1>4 DEF vars
  <2>2. \A r \in Runs : Untouched(r)
    BY <2>1 DEF Untouched, timeVars, modelVars, historyVars
  <2>3. \A r \in Runs : RunInv(r)'
    BY <1>1, <2>2, UntouchedRunInv
  <2>4. KeysAreOwned'
    BY <1>1, <2>1 DEF KeysAreOwned, OwnsRunKey, OwnsEffect, storeVars, modelVars, historyVars
  <2>5. TypeOK'
    BY <1>1, <2>1 DEF TypeOK, envVars, storeVars, timeVars, modelVars, historyVars
  <2>6. OrganismInv' <=> (TypeOK /\ KeysAreOwned /\ \A r \in Runs : RunInv(r))'
    BY DEF OrganismInv, RunInv, Truthful, AuthorityCoversAction, EffectsAreAdmitted, UsageIsReported,
           SensitiveDataStaysInside, NoWorkBeyondBudget
  <2> QED BY <2>3, <2>4, <2>5, <2>6
<1> QED BY <1>2, <1>3, <1>4 DEF Next, AllEnded

\* The invariant of the pipeline: every run is where its calls, bounds, labels
\* and budget say it is, and every key and effect has one owner.
THEOREM OrganismInvHolds == Spec => []OrganismInv
<1>1. Init => OrganismInv
  BY InitInv
<1>2. OrganismInv /\ [Next]_vars => OrganismInv'
  BY NextInv
<1> QED BY <1>1, <1>2, PTL DEF Spec

\* However many callers run one organism for one cause, whether they crash or
\* not, only one of them ever calls an adapter.
THEOREM RunsOnceHolds == Spec => []SemanticRunOnce
<1>1. OrganismInv => SemanticRunOnce
  BY DEF OrganismInv, KeysAreOwned, OwnsRunKey, SemanticRunOnce
<1> QED BY <1>1, OrganismInvHolds, PTL

\* One semantic effect is executed once, whichever runs compile to it.
THEOREM EffectsOnceHolds == Spec => []SemanticEffectOnce
<1>1. OrganismInv => SemanticEffectOnce
  BY DEF OrganismInv, TypeOK, KeysAreOwned, OwnsEffect, DeadlineCovers, SemanticEffectOnce
<1> QED BY <1>1, OrganismInvHolds, PTL

\* The action is claimed inside its context's, its activation's and its own
\* time limits, however the clock and the registry move.
THEOREM AuthorityHolds == Spec => []AuthorityCoversAction
<1>1. OrganismInv => AuthorityCoversAction
  BY DEF OrganismInv
<1> QED BY <1>1, OrganismInvHolds, PTL

\* A run admits every effect it may have had.
THEOREM AdmissionHolds == Spec => []EffectsAreAdmitted
<1>1. OrganismInv => EffectsAreAdmitted
  BY DEF OrganismInv
<1> QED BY <1>1, OrganismInvHolds, PTL

\* Every call and every token is in the result, on every way out.
THEOREM UsageHolds == Spec => []UsageIsReported
<1>1. OrganismInv => UsageIsReported
  BY DEF OrganismInv
<1> QED BY <1>1, OrganismInvHolds, PTL

\* Sensitive data reaches no destination that may not have it.
THEOREM ConfinementHolds == Spec => []SensitiveDataStaysInside
<1>1. OrganismInv => SensitiveDataStaysInside
  BY DEF OrganismInv
<1> QED BY <1>1, OrganismInvHolds, PTL

\* No adapter and no executor is called beyond the token budget.
THEOREM BudgetStops == Spec => []NoWorkBeyondBudget
<1>1. OrganismInv => NoWorkBeyondBudget
  BY DEF OrganismInv
<1> QED BY <1>1, OrganismInvHolds, PTL

=============================================================================
