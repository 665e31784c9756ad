-------------------------- MODULE SQLiteStoreProofs --------------------------
(***************************************************************************)
(* What holds of SQLiteStore for every number of processes and calls, and  *)
(* whatever names the calls share.                                         *)
(***************************************************************************)
EXTENDS SQLiteStore, TLAPS

LEMMA CallNames ==
    ASSUME NEW c \in Calls
    PROVE  /\ ProcessOf[c] \in Processes
           /\ c # None
           /\ FirstName[c] \in Names
           /\ SecondName[c] \in Names
           /\ NamesOf(c) = {FirstName[c], SecondName[c]}
           /\ NamesOf(c) \subseteq Names
           /\ c \in RunCalls => NamesOf(c) = {FirstName[c]}
BY StoreAssumption, NamesAssumption DEF Names, NamesOf

\* The actions of calls, with what every one of them leaves alone.
LEMMA StepFrame ==
    ASSUME NEW c \in Calls, Step(c)
    PROVE  /\ UNCHANGED schemaVars
           /\ \A d \in Calls : d # c /\ TypeOK =>
                 pc'[d] = pc[d] /\ pending'[d] = pending[d] /\ answer'[d] = answer[d]
           /\ ~Commit(c) => UNCHANGED rows
BY DEF Step, Consume, Begin, BusyTimeout, FindReplay, FindFree, Validate, InsertNonce, InsertKey,
       InsertRun, Commit, Return, Raise, RollBackAnd, Goto, schemaVars, TypeOK

-----------------------------------------------------------------------------
(* Type correctness.                                                       *)

LEMMA OpenType ==
    ASSUME TypeOK, NEW p \in Processes, OpenStep(p) \/ OpenFails(p)
    PROVE  TypeOK'
<1>1. UNCHANGED callVars => /\ rows' \in [Names -> Calls \cup {None}]
                            /\ writer' \in Calls \cup {None}
                            /\ pc' \in [Calls -> {"idle", "committed"} \cup InTransaction \cup Ended]
                            /\ pending' \in [Calls -> SUBSET Names]
                            /\ answer' \in [Calls -> {None, "granted", "replayed", "invalid"}]
  BY DEF callVars, TypeOK
<1>2. \A s \in ClaimTables : NextStage[s] \in ClaimTables \cup {"ready"}
  BY DEF ClaimTables, NextStage
<1>3. CASE Open(p)
  BY <1>1, <1>3 DEF Open, Stage, TypeOK, Opening
<1>4. CASE CreateMeta(p)
  BY <1>1, <1>4 DEF CreateMeta, Stage, TypeOK, Opening
<1>5. CASE InsertVersion(p)
  BY <1>1, <1>5 DEF InsertVersion, Stage, TypeOK, Opening
<1>6. CASE CheckVersion(p)
  BY <1>1, <1>6 DEF CheckVersion, Stage, TypeOK, Opening, ClaimTables
<1>7. CASE CreateTable(p)
  BY <1>1, <1>2, <1>7 DEF CreateTable, Stage, TypeOK, Opening
<1>8. CASE OpenFails(p)
  BY <1>1, <1>8 DEF OpenFails, Stage, TypeOK
<1> QED BY <1>3, <1>4, <1>5, <1>6, <1>7, <1>8 DEF OpenStep

LEMMA StepType ==
    ASSUME TypeOK, NEW c \in Calls, Step(c)
    PROVE  TypeOK'
<1> USE CallNames DEF TypeOK, Goto, InTransaction, Ended
<1>0. UNCHANGED schemaVars BY StepFrame
<1>1. CASE Begin(c) BY <1>0, <1>1 DEF Begin, schemaVars
<1>2. CASE BusyTimeout(c) BY <1>0, <1>2 DEF BusyTimeout, schemaVars
<1>3. CASE FindReplay(c) BY <1>0, <1>3 DEF FindReplay, RollBackAnd, schemaVars
<1>4. CASE FindFree(c) BY <1>0, <1>4 DEF FindFree, schemaVars
<1>5. CASE Validate(c) BY <1>0, <1>5 DEF Validate, RollBackAnd, schemaVars
<1>6. CASE InsertNonce(c) BY <1>0, <1>6 DEF InsertNonce, schemaVars
<1>7. CASE InsertKey(c) BY <1>0, <1>7 DEF InsertKey, schemaVars
<1>8. CASE InsertRun(c) BY <1>0, <1>8 DEF InsertRun, schemaVars
<1>9. CASE Commit(c) BY <1>0, <1>9 DEF Commit, schemaVars
<1>10. CASE Return(c) BY <1>0, <1>10 DEF Return, schemaVars
<1>11. CASE Raise(c) BY <1>0, <1>11 DEF Raise, schemaVars
<1> QED BY <1>1, <1>2, <1>3, <1>4, <1>5, <1>6, <1>7, <1>8, <1>9, <1>10, <1>11 DEF Step, Consume

LEMMA CrashType ==
    ASSUME TypeOK, NEW p \in Processes, Crash(p)
    PROVE  TypeOK'
BY DEF Crash, TypeOK, Ended

LEMMA Type ==
    ASSUME TypeOK, [Next]_vars
    PROVE  TypeOK'
<1>1. CASE UNCHANGED vars BY <1>1 DEF vars, TypeOK
<1> QED BY <1>1, OpenType, StepType, CrashType DEF Next

-----------------------------------------------------------------------------
(* The schema.                                                             *)

\* A statement of _initialize by one process: the others' tables stay, and the
\* version changes only while there is none.
LEMMA OpenSchema ==
    ASSUME StoreInv, NEW p \in Processes, OpenStep(p) \/ OpenFails(p)
    PROVE  SchemaFollowsHandle'
<1> USE DEF StoreInv, TypeOK, SchemaFollowsHandle
<1>1. UNCHANGED <<rows, writer>>
  BY DEF OpenStep, OpenFails, Open, CreateMeta, InsertVersion, CheckVersion, CreateTable, callVars
<1>2. tables \subseteq tables' /\ (version = SCHEMA_VERSION => version' = SCHEMA_VERSION)
  BY DEF OpenStep, OpenFails, Open, CreateMeta, InsertVersion, CheckVersion, CreateTable, SCHEMA_VERSION
<1>3. \A q \in Processes : q # p => handle'[q] = handle[q]
  BY DEF OpenStep, OpenFails, Open, CreateMeta, InsertVersion, CheckVersion, CreateTable, Stage
<1>4. CASE handle'[p] \notin ClaimTables \cup {"ready"} /\ tables' \ tables \subseteq {Meta}
  <2>1. TablesBefore(handle'[p]) \subseteq tables'
    BY <1>4 DEF OpenStep, OpenFails, Open, CreateMeta, InsertVersion, CheckVersion, CreateTable,
                Stage, TablesBefore, Meta, ClaimTables, NextStage, Opening
  <2>2. version' # SCHEMA_VERSION => tables' \cap ClaimTables = {}
    BY <1>2, <1>4 DEF Meta, ClaimTables
  <2> QED BY <1>1, <1>2, <1>3, <1>4, <2>1, <2>2
<1>5. CASE version' = SCHEMA_VERSION
  <2>1. TablesBefore(handle'[p]) \subseteq tables'
    BY DEF OpenStep, OpenFails, Open, CreateMeta, InsertVersion, CheckVersion, CreateTable,
           Stage, TablesBefore, Meta, ClaimTables, NextStage, Opening
  <2> QED BY <1>1, <1>2, <1>3, <1>5, <2>1
<1>6. \/ handle'[p] \notin ClaimTables \cup {"ready"} /\ tables' \ tables \subseteq {Meta}
      \/ version' = SCHEMA_VERSION
  BY DEF OpenStep, OpenFails, Open, CreateMeta, InsertVersion, CheckVersion, CreateTable, Stage, ClaimTables
<1> QED BY <1>4, <1>5, <1>6

LEMMA StepSchema ==
    ASSUME StoreInv, NEW c \in Calls, Step(c)
    PROVE  SchemaFollowsHandle'
<1> USE DEF StoreInv, TypeOK, SchemaFollowsHandle
<1>1. UNCHANGED <<version, tables, handle>>
  BY StepFrame DEF schemaVars
<1>2. version = SCHEMA_VERSION
  <2>1. CASE pc[c] \in InTransaction
    BY <2>1, CallNames DEF OneWriter
  <2>2. CASE Begin(c) \/ BusyTimeout(c)
    BY <2>2, CallNames DEF Begin, BusyTimeout
  <2>3. CASE Return(c)
    <3>1. \E n \in Names : rows[n] # None
      BY <2>3, CallNames DEF Return, PendingFollowsCall
    <3> QED BY <3>1
  <2> QED BY <2>1, <2>2, <2>3 DEF Step, Consume, FindReplay, FindFree, Validate, InsertNonce,
                                  InsertKey, InsertRun, Commit, Raise, InTransaction
<1> QED BY <1>1, <1>2

LEMMA CrashSchema ==
    ASSUME StoreInv, NEW p \in Processes, Crash(p)
    PROVE  SchemaFollowsHandle'
<1>1. TablesBefore("closed") = {}
  BY DEF TablesBefore
<1> QED BY <1>1 DEF StoreInv, TypeOK, SchemaFollowsHandle, Crash, ClaimTables

-----------------------------------------------------------------------------
(* The transactions.                                                       *)

TransactionInv ==
    OneWriter /\ TransactionIsIsolated /\ PendingFollowsCall /\ NoEarlyClaim /\ ClaimsAreWhole

\* Of what these invariants say of a call nothing changes while it, the
\* writer and the rows stay as they are.
LEMMA OpenTransaction ==
    ASSUME TransactionInv, UNCHANGED callVars
    PROVE  TransactionInv'
BY DEF callVars, TransactionInv, OneWriter, TransactionIsIsolated, PendingFollowsCall, NoEarlyClaim,
       ClaimsAreWhole

\* One call at a time holds the lock, from its BEGIN to its end.
LEMMA StepOneWriter ==
    ASSUME StoreInv, NEW c \in Calls, Step(c)
    PROVE  OneWriter'
<1> USE CallNames DEF StoreInv, TypeOK, OneWriter, InTransaction, Goto
<1>1. CASE Begin(c) BY <1>1 DEF Begin
<1>2. CASE BusyTimeout(c) BY <1>2 DEF BusyTimeout
<1>3. CASE FindReplay(c) BY <1>3 DEF FindReplay, RollBackAnd
<1>4. CASE FindFree(c) BY <1>4 DEF FindFree
<1>5. CASE Validate(c) BY <1>5 DEF Validate, RollBackAnd
<1>6. CASE InsertNonce(c) BY <1>6 DEF InsertNonce
<1>7. CASE InsertKey(c) BY <1>7 DEF InsertKey
<1>8. CASE InsertRun(c) BY <1>8 DEF InsertRun
<1>9. CASE Commit(c) BY <1>9 DEF Commit
<1>10. CASE Return(c) BY <1>10 DEF Return
<1>11. CASE Raise(c) BY <1>11 DEF Raise
<1> QED BY <1>1, <1>2, <1>3, <1>4, <1>5, <1>6, <1>7, <1>8, <1>9, <1>10, <1>11 DEF Step, Consume

\* Every step but a commit leaves the rows alone, so that only the call that
\* takes it has to be looked at.
LEMMA StepWithoutCommit ==
    ASSUME StoreInv, NEW c \in Calls, Step(c), ~Commit(c)
    PROVE  TransactionInv'
<1> USE CallNames DEF StoreInv, TypeOK
<1>0. UNCHANGED rows
  BY StepFrame
<1>1. OneWriter'
  BY StepOneWriter
<1>2. \A d \in Calls : d # c =>
         pc'[d] = pc[d] /\ pending'[d] = pending[d] /\ answer'[d] = answer[d]
  BY StepFrame
<1>3. TransactionIsIsolated'
  <2> SUFFICES
        /\ pc'[c] \in {"free", "valid", "half"} \/ (pc'[c] = "inserted" /\ c \notin RunCalls) =>
              \A n \in NamesOf(c) : rows[n] = None
        /\ pc'[c] = "inserted" => pending'[c] = {n \in NamesOf(c) : rows[n] = None}
    BY <1>0, <1>2 DEF TransactionIsIsolated
  <2> USE DEF TransactionIsIsolated, PendingFollowsCall, Goto, RollBackAnd
  <2>1. CASE FindFree(c) BY <2>1 DEF FindFree
  <2>2. CASE Validate(c) BY <2>2 DEF Validate
  <2>3. CASE InsertNonce(c) BY <2>3 DEF InsertNonce
  <2>4. CASE InsertKey(c) BY <2>4 DEF InsertKey
  <2>5. CASE InsertRun(c) BY <2>5 DEF InsertRun
  <2>6. CASE Begin(c) \/ BusyTimeout(c) \/ FindReplay(c) \/ Return(c) \/ Raise(c)
    BY <2>6 DEF Begin, BusyTimeout, FindReplay, Return, Raise
  <2> QED BY <2>1, <2>2, <2>3, <2>4, <2>5, <2>6 DEF Step, Consume
<1>4. PendingFollowsCall'
  <2> SUFFICES
        /\ pc'[c] \in {"idle", "begun", "free", "valid", "raised", "crashed"} => pending'[c] = {}
        /\ pc'[c] = "half" => pending'[c] = {FirstName[c]}
        /\ pc'[c] # "committed"
    BY <1>0, <1>2 DEF PendingFollowsCall
  <2> QED BY DEF Step, Consume, Begin, BusyTimeout, FindReplay, FindFree, Validate, InsertNonce,
                 InsertKey, InsertRun, Return, Raise, RollBackAnd, Goto, PendingFollowsCall
<1>5. NoEarlyClaim'
  <2> SUFFICES /\ pc'[c] \in {"idle", "raised"} \cup InTransaction => \A n \in Names : rows[n] # c
               /\ pc'[c] # "answered" => answer'[c] = None
    BY <1>0, <1>2 DEF NoEarlyClaim
  <2> QED BY DEF Step, Consume, Begin, BusyTimeout, FindReplay, FindFree, Validate, InsertNonce,
                 InsertKey, InsertRun, Return, Raise, RollBackAnd, Goto, NoEarlyClaim, InTransaction
<1>6. ClaimsAreWhole'
  BY <1>0 DEF ClaimsAreWhole
<1> QED BY <1>1, <1>3, <1>4, <1>5, <1>6 DEF TransactionInv

\* What a commit writes: all the names of a consume, or of a consume_run the
\* key if nobody has it; rows that are there stay.
LEMMA CommitWrites ==
    ASSUME StoreInv, NEW c \in Calls, Commit(c)
    PROVE  /\ \A n \in Names : rows'[n] = IF n \in NamesOf(c) /\ rows[n] = None THEN c ELSE rows[n]
           /\ \A n \in Names : rows[n] # c
           /\ \/ \A n \in NamesOf(c) : rows[n] = None /\ n \in pending[c]
              \/ c \in RunCalls /\ pending[c] = {} /\ rows' = rows
                 /\ \A n \in NamesOf(c) : rows[n] # None
<1> USE CallNames DEF StoreInv, TypeOK, Commit, InTransaction
<1>1. pending[c] = {n \in NamesOf(c) : rows[n] = None}
  BY DEF TransactionIsIsolated
<1>2. \A n \in Names : rows[n] # c
  BY DEF NoEarlyClaim
<1>3. rows' = [n \in Names |-> IF n \in pending[c] THEN c ELSE rows[n]]
  OBVIOUS
<1>4. CASE \A n \in NamesOf(c) : rows[n] = None
  BY <1>1, <1>2, <1>3, <1>4
<1>5. CASE \E n \in NamesOf(c) : rows[n] # None
  <2>1. c \in RunCalls /\ \A n \in NamesOf(c) : rows[n] # None
    BY <1>5 DEF TransactionIsIsolated
  <2>2. pending[c] = {}
    BY <1>1, <2>1
  <2>3. rows' = rows
    BY <1>3, <2>2
  <2> QED BY <1>2, <2>1, <2>2, <2>3
<1> QED BY <1>4, <1>5

LEMMA CommitTransaction ==
    ASSUME StoreInv, NEW c \in Calls, Commit(c)
    PROVE  TransactionInv'
<1> USE CallNames DEF StoreInv, TypeOK
<1>0. /\ \A n \in Names : rows'[n] = IF n \in NamesOf(c) /\ rows[n] = None THEN c ELSE rows[n]
      /\ \A n \in Names : rows[n] # c
      /\ \/ \A n \in NamesOf(c) : rows[n] = None /\ n \in pending[c]
         \/ c \in RunCalls /\ pending[c] = {} /\ rows' = rows
            /\ \A n \in NamesOf(c) : rows[n] # None
  BY CommitWrites
<1>1. OneWriter'
  BY StepOneWriter DEF Step
<1>2. \A d \in Calls : pc'[d] = (IF d = c THEN "committed" ELSE pc[d])
  BY DEF Commit, Goto
<1>3. pending' = pending /\ answer' = answer /\ writer' = None
  BY DEF Commit
<1>4. TransactionIsIsolated'
  BY <1>1, <1>2, <1>3 DEF TransactionIsIsolated, OneWriter, InTransaction
<1>5. PendingFollowsCall'
  <2> SUFFICES ASSUME NEW d \in Calls
               PROVE  /\ pc'[d] \in {"idle", "begun", "free", "valid", "raised", "crashed"} =>
                            pending[d] = {}
                      /\ pc'[d] = "half" => pending[d] = {FirstName[d]}
                      /\ pc'[d] = "committed" =>
                            /\ pending[d] # {} => \A n \in NamesOf(d) : rows'[n] = d
                            /\ pending[d] = {} => \A n \in NamesOf(d) : rows'[n] \notin {None, d}
                      /\ d \notin RunCalls /\ pc'[d] = "committed" => pending[d] # {}
    BY <1>3 DEF PendingFollowsCall
  <2>1. CASE d = c
    BY <1>0, <1>2, <2>1
  <2>2. CASE d # c
    BY <1>0, <1>2, <2>2 DEF PendingFollowsCall
  <2> QED BY <2>1, <2>2
<1>6. NoEarlyClaim'
  <2>1. pc[c] = "inserted"
    BY DEF Commit
  <2> QED BY <1>0, <1>2, <1>3, <2>1 DEF NoEarlyClaim, InTransaction
<1>7. ClaimsAreWhole'
  <2> SUFFICES ASSUME NEW n \in Names, rows'[n] # None
               PROVE  /\ n \in NamesOf(rows'[n])
                      /\ \A m \in NamesOf(rows'[n]) : rows'[m] = rows'[n]
    BY DEF ClaimsAreWhole
  <2>1. CASE rows[n] = None
    BY <1>0, <2>1
  <2>2. CASE rows[n] # None
    <3>1. rows'[n] = rows[n] /\ rows[n] \in Calls
      BY <1>0, <2>2
    <3>2. n \in NamesOf(rows[n]) /\ \A m \in NamesOf(rows[n]) : rows[m] = rows[n]
      BY <2>2 DEF ClaimsAreWhole
    <3>3. \A m \in NamesOf(rows[n]) : rows'[m] = rows[m]
      BY <1>0, <2>2, <3>1, <3>2
    <3> QED BY <3>1, <3>2, <3>3
  <2> QED BY <2>1, <2>2
<1> QED BY <1>1, <1>4, <1>5, <1>6, <1>7 DEF TransactionInv

LEMMA CrashTransaction ==
    ASSUME StoreInv, NEW p \in Processes, Crash(p)
    PROVE  TransactionInv'
<1> USE DEF StoreInv, TypeOK, Crash
<1>1. OneWriter'
  BY CallNames DEF OneWriter, InTransaction
<1>2. TransactionIsIsolated'
  BY DEF TransactionIsIsolated
<1>3. PendingFollowsCall'
  BY DEF PendingFollowsCall
<1>4. NoEarlyClaim'
  BY DEF NoEarlyClaim, InTransaction
<1>5. ClaimsAreWhole'
  BY DEF ClaimsAreWhole
<1> QED BY <1>1, <1>2, <1>3, <1>4, <1>5 DEF TransactionInv

-----------------------------------------------------------------------------
LEMMA InitInv == Init => StoreInv
<1> SUFFICES ASSUME Init PROVE StoreInv
  OBVIOUS
<1> USE DEF Init
<1>1. TypeOK
  BY DEF TypeOK
<1>2. SchemaFollowsHandle
  BY DEF SchemaFollowsHandle, TablesBefore, ClaimTables, Meta, SCHEMA_VERSION
<1>3. OneWriter
  BY StoreAssumption DEF OneWriter, InTransaction
<1>4. TransactionIsIsolated /\ PendingFollowsCall /\ NoEarlyClaim /\ ClaimsAreWhole
  BY StoreAssumption
     DEF TransactionIsIsolated, PendingFollowsCall, NoEarlyClaim, ClaimsAreWhole, InTransaction
<1> QED BY <1>1, <1>2, <1>3, <1>4 DEF StoreInv

LEMMA NextInv ==
    ASSUME StoreInv, [Next]_vars
    PROVE  StoreInv'
<1>1. TypeOK'
  BY Type DEF StoreInv
<1>2. CASE UNCHANGED vars
  BY <1>2 DEF vars, StoreInv, TypeOK, SchemaFollowsHandle, OneWriter, TransactionIsIsolated,
              PendingFollowsCall, NoEarlyClaim, ClaimsAreWhole
<1>3. ASSUME NEW p \in Processes, OpenStep(p) \/ OpenFails(p) PROVE StoreInv'
  <2>1. UNCHANGED callVars
    BY <1>3 DEF OpenStep, OpenFails, Open, CreateMeta, InsertVersion, CheckVersion, CreateTable
  <2>2. TransactionInv
    BY DEF StoreInv, TransactionInv
  <2> QED BY <1>1, <1>3, <2>1, <2>2, OpenSchema, OpenTransaction DEF StoreInv, TransactionInv
<1>4. ASSUME NEW p \in Processes, Crash(p) PROVE StoreInv'
  BY <1>1, <1>4, CrashSchema, CrashTransaction DEF StoreInv, TransactionInv
<1>5. ASSUME NEW c \in Calls, Step(c) PROVE StoreInv'
  BY <1>1, <1>5, StepSchema, StepWithoutCommit, CommitTransaction DEF StoreInv, TransactionInv
<1> QED BY <1>2, <1>3, <1>4, <1>5 DEF Next

\* The store keeps its invariant for any processes and calls: one writer, whose
\* reading of the rows stays true until it commits or is rolled back, and a
\* schema that is complete wherever a claim is made.
THEOREM StoreInvHolds == Spec => []StoreInv
<1> QED BY InitInv, NextInv, PTL DEF Spec

\* Whatever number of processes open a file at once, fail and die, a store is
\* used only with the schema this program knows, and a file with another one
\* gets no claim tables.
THEOREM OnlyKnownSchemas == Spec => []SchemaGate
<1>1. StoreInv => SchemaGate
  BY DEF StoreInv, TypeOK, SchemaFollowsHandle, SchemaGate, TablesBefore, ClaimTables
<1> QED BY <1>1, StoreInvHolds, PTL

\* Nonce and idempotency key are claimed together or not at all.
THEOREM WholeClaims == Spec => []ClaimsAreWhole
<1>1. StoreInv => ClaimsAreWhole
  BY DEF StoreInv
<1> QED BY <1>1, StoreInvHolds, PTL

-----------------------------------------------------------------------------
(* Refinement.                                                             *)

LEMMA GrantedHoldsAllNames ==
    ASSUME StoreInv, NEW d \in Calls, NEW n \in Names, rows[n] = d
    PROVE  d \in Granted /\ n \in NamesOf(d)
BY CallNames DEF StoreInv, ClaimsAreWhole, Granted, NamesOf

LEMMA CommitGrants ==
    ASSUME StoreInv, NEW c \in Calls, Commit(c)
    PROVE  Service!Grant(c) \/ UNCHANGED <<Granted, answer>>
<1> USE CallNames
<1>1. UNCHANGED answer /\ answer[c] = None
  BY DEF Commit, StoreInv, NoEarlyClaim
<1>2. CASE rows' = rows
  BY <1>1, <1>2 DEF Granted
<1>3. CASE \A n \in NamesOf(c) : rows[n] = None
  <2>1. \A n \in Names : rows'[n] = IF n \in NamesOf(c) THEN c ELSE rows[n]
    BY <1>3, CommitWrites
  <2>2. \A d \in Granted : d \in Calls /\ NamesOf(d) \subseteq Names
                          /\ \A n \in NamesOf(d) : rows[n] = d
    BY DEF Granted, StoreInv, ClaimsAreWhole
  <2>3. \A d \in Granted : NamesOf(c) \cap NamesOf(d) = {}
    BY <1>3, <2>2
  <2>4. Granted' = Granted \cup {c}
    BY <2>1, <2>2, <2>3 DEF Granted
  <2> QED BY <1>1, <2>3, <2>4 DEF Service!Grant, Service!Conflict
<1> QED BY <1>2, <1>3, CommitWrites

LEMMA AnswersAreTrue ==
    ASSUME StoreInv, NEW c \in Calls, FindReplay(c) \/ Validate(c) \/ Return(c)
    PROVE  Service!TellGranted(c) \/ Service!TellReplayed(c) \/ Service!TellInvalid(c)
              \/ UNCHANGED <<Granted, answer>>
<1> USE CallNames
<1>0. UNCHANGED Granted
  BY DEF FindReplay, Validate, Return, Granted
<1>1. ASSUME NEW n \in NamesOf(c), rows[n] \notin {None, c}
      PROVE  \E d \in Granted : NamesOf(c) \cap NamesOf(d) # {}
  <2>1. rows[n] \in Calls
    BY <1>1 DEF StoreInv, TypeOK
  <2> QED BY <1>1, <2>1, GrantedHoldsAllNames
<1>2. CASE FindReplay(c)
  <2>1. \A n \in Names : rows[n] # c
    BY <1>2 DEF FindReplay, StoreInv, NoEarlyClaim, InTransaction
  <2>2. c \notin Granted
    BY <2>1 DEF Granted
  <2>3. \E d \in Granted : NamesOf(c) \cap NamesOf(d) # {}
    BY <1>1, <1>2, <2>1 DEF FindReplay
  <2> QED BY <1>0, <1>2, <2>2, <2>3
          DEF FindReplay, RollBackAnd, Service!TellReplayed, Service!Conflict
<1>3. CASE Validate(c)
  <2>1. c \notin Granted
    BY <1>3 DEF Validate, StoreInv, NoEarlyClaim, InTransaction, Granted
  <2> QED BY <1>0, <1>3, <2>1 DEF Validate, RollBackAnd, Service!TellInvalid
<1>4. CASE Return(c) /\ pending[c] # {}
  <2>1. c \in Granted
    BY <1>4 DEF Return, StoreInv, PendingFollowsCall, Granted
  <2> QED BY <1>0, <1>4, <2>1 DEF Return, Service!TellGranted
<1>5. CASE Return(c) /\ pending[c] = {}
  <2>1. \A n \in NamesOf(c) : rows[n] \notin {None, c}
    BY <1>5 DEF Return, StoreInv, PendingFollowsCall
  <2>2. c \notin Granted /\ \E d \in Granted : NamesOf(c) \cap NamesOf(d) # {}
    BY <1>1, <2>1 DEF Granted
  <2> QED BY <1>0, <1>5, <2>2 DEF Return, Service!TellReplayed, Service!Conflict
<1> QED BY <1>2, <1>3, <1>4, <1>5

\* Statement by statement, with timeouts, errors and deaths between any two,
\* the store is the atomic claim service the runtime takes it for.
THEOREM StoreImplementsClaimService == Spec => ImplementsClaimService
<1>1. Init => Service!Init
  BY CallNames DEF Init, Service!Init, Granted
<1>2. StoreInv /\ [Next]_vars => [Service!Next]_<<Granted, answer>>
  <2> SUFFICES ASSUME StoreInv, [Next]_vars
               PROVE  [Service!Next]_<<Granted, answer>>
    OBVIOUS
  <2>1. ASSUME NEW c \in Calls, Step(c) PROVE [Service!Next]_<<Granted, answer>>
    <3>1. CASE Commit(c)
      BY <3>1, CommitGrants DEF Service!Next
    <3>2. CASE FindReplay(c) \/ Validate(c) \/ Return(c)
      BY <3>2, AnswersAreTrue DEF Service!Next
    <3>3. CASE UNCHANGED <<rows, answer>>
      BY <3>3 DEF Granted
    <3> QED BY <2>1, <3>1, <3>2, <3>3 DEF Step, Consume, Begin, BusyTimeout, FindFree, InsertNonce,
                                          InsertKey, InsertRun, Raise
  <2>2. ASSUME NEW p \in Processes, OpenStep(p) \/ OpenFails(p) \/ Crash(p)
        PROVE  UNCHANGED <<rows, answer>>
    BY <2>2 DEF OpenStep, OpenFails, Open, CreateMeta, InsertVersion, CheckVersion, CreateTable,
                Crash, callVars
  <2> QED BY <2>1, <2>2 DEF Next, Granted, vars
<1> QED BY <1>1, <1>2, StoreInvHolds, PTL DEF Spec, Service!Spec, ImplementsClaimService

=============================================================================
