---------------------------- MODULE SQLiteStore ----------------------------
(***************************************************************************)
(* SQLiteReplayStore (sqlite_store.py): processes open one database file,  *)
(* create or check its schema statement by statement, and claim nonces,    *)
(* idempotency keys and semantic-run keys in transactions opened by BEGIN  *)
(* IMMEDIATE.  Any statement may raise, the wait for the writer may time   *)
(* out, and a process may die between any two statements.                  *)
(*                                                                         *)
(* SQLite itself is external: one writer at a time, an uncommitted         *)
(* transaction disappears with its connection, a commit is one step and    *)
(* survives, and a primary key admits one row.                             *)
(***************************************************************************)
EXTENDS Naturals, FiniteSets

CONSTANTS
    None,
    Processes,
    Calls,        \* one call of consume or of consume_run
    ProcessOf,    \* call -> process
    RunCalls,     \* the calls of consume_run; the others are of consume
    FirstName,    \* call -> the nonce, or the semantic-run key
    SecondName    \* call -> the idempotency key; the run key again for consume_run

ASSUME StoreAssumption ==
    /\ ProcessOf \in [Calls -> Processes]
    /\ RunCalls \subseteq Calls
    /\ None \notin Calls

Names == {FirstName[c] : c \in Calls} \cup {SecondName[c] : c \in Calls}

\* Rows of different tables never meet, and only consume has two names.
ASSUME NamesAssumption ==
    /\ \A c \in Calls : FirstName[c] = SecondName[c] <=> c \in RunCalls
    /\ \A c, d \in Calls : FirstName[c] = SecondName[d] => c \in RunCalls /\ d \in RunCalls

VARIABLES
    version,      \* the schema_version row of causal_cell_meta
    tables,       \* the tables that exist
    handle,       \* process -> how far its SQLiteReplayStore has been built
    rows,         \* name -> the call whose committed row holds it
    writer,       \* the call whose transaction holds the write lock
    pc,           \* call -> where it stands
    pending,      \* call -> the names its transaction has inserted
    answer        \* call -> what it returned

vars == <<version, tables, handle, rows, writer, pc, pending, answer>>

SCHEMA_VERSION == "1"
ClaimTables == {"nonce_consumptions", "idempotency_consumptions", "organism_runs"}
Meta == "causal_cell_meta"

\* The statements of _initialize, each named by what it is about to do.
NextStage ==
    [nonce_consumptions |-> "idempotency_consumptions",
     idempotency_consumptions |-> "organism_runs",
     organism_runs |-> "ready"]
Opening == {"create_meta", "insert_version", "check_version"} \cup ClaimTables

InTransaction == {"begun", "free", "valid", "half", "inserted"}
Ended == {"answered", "raised", "crashed"}

NamesOf(c) == {FirstName[c], SecondName[c]}

Init ==
    /\ \/ version = None /\ tables = {}
       \/ version = SCHEMA_VERSION /\ tables = {Meta} \cup ClaimTables
       \/ version = "999" /\ tables = {Meta}
    /\ handle = [p \in Processes |-> "closed"]
    /\ rows = [n \in Names |-> None]
    /\ writer = None
    /\ pc = [c \in Calls |-> "idle"]
    /\ pending = [c \in Calls |-> {}]
    /\ answer = [c \in Calls |-> None]

callVars == <<rows, writer, pc, pending, answer>>
schemaVars == <<version, tables, handle>>

-----------------------------------------------------------------------------
(* Opening the store: every statement commits on its own.                  *)

Stage(p, stage) == handle' = [handle EXCEPT ![p] = stage]

\* A new SQLiteReplayStore, also after one that failed.
Open(p) ==
    /\ handle[p] \in {"closed", "failed"}
    /\ Stage(p, "create_meta")
    /\ UNCHANGED <<version, tables, callVars>>

CreateMeta(p) ==
    /\ handle[p] = "create_meta"
    /\ Meta \in tables \/ writer = None
    /\ tables' = tables \cup {Meta}
    /\ Stage(p, "insert_version")
    /\ UNCHANGED <<version, callVars>>

\* INSERT OR IGNORE.
InsertVersion(p) ==
    /\ handle[p] = "insert_version"
    /\ writer = None
    /\ version' = IF version = None THEN SCHEMA_VERSION ELSE version
    /\ Stage(p, "check_version")
    /\ UNCHANGED <<tables, callVars>>

\* Mutant: a version that is there is good enough.
CheckVersionExists(p) ==
    /\ handle[p] = "check_version"
    /\ Stage(p, IF version # None THEN "nonce_consumptions" ELSE "unsupported")
    /\ UNCHANGED <<version, tables, callVars>>

CheckVersion(p) ==
    /\ handle[p] = "check_version"
    /\ Stage(p, IF version = SCHEMA_VERSION THEN "nonce_consumptions" ELSE "unsupported")
    /\ UNCHANGED <<version, tables, callVars>>

\* CREATE TABLE IF NOT EXISTS, in the order of the code.
CreateTable(p) ==
    /\ handle[p] \in ClaimTables
    /\ handle[p] \in tables \/ writer = None
    /\ tables' = tables \cup {handle[p]}
    /\ Stage(p, NextStage[handle[p]])
    /\ UNCHANGED <<version, callVars>>

\* A lock that is not released in time, or a failing disk.
OpenFails(p) ==
    /\ handle[p] \in Opening
    /\ Stage(p, "failed")
    /\ UNCHANGED <<version, tables, callVars>>

-----------------------------------------------------------------------------
(* consume and consume_run.                                                *)

Goto(c, label) == pc' = [pc EXCEPT ![c] = label]

Begin(c) ==
    /\ handle[ProcessOf[c]] = "ready"
    /\ pc[c] = "idle"
    /\ writer = None
    /\ writer' = c
    /\ Goto(c, "begun")
    /\ UNCHANGED <<schemaVars, rows, pending, answer>>

BusyTimeout(c) ==
    /\ handle[ProcessOf[c]] = "ready"
    /\ pc[c] = "idle"
    /\ writer # None
    /\ Goto(c, "raised")
    /\ UNCHANGED <<schemaVars, rows, writer, pending, answer>>

\* ROLLBACK, then an answer.
RollBackAnd(c, reply) ==
    /\ writer' = None
    /\ pending' = [pending EXCEPT ![c] = {}]
    /\ answer' = [answer EXCEPT ![c] = reply]
    /\ Goto(c, "answered")

FindReplay(c) ==
    /\ pc[c] = "begun" /\ c \notin RunCalls
    /\ \E n \in NamesOf(c) : rows[n] # None
    /\ RollBackAnd(c, "replayed")
    /\ UNCHANGED <<schemaVars, rows>>

FindFree(c) ==
    /\ pc[c] = "begun" /\ c \notin RunCalls
    /\ \A n \in NamesOf(c) : rows[n] = None
    /\ Goto(c, "free")
    /\ UNCHANGED <<schemaVars, rows, writer, pending, answer>>

\* The caller's validator, inside the transaction.
Validate(c) ==
    /\ pc[c] = "free"
    /\ \/ Goto(c, "valid") /\ UNCHANGED <<writer, pending, answer>>
       \/ RollBackAnd(c, "invalid")
    /\ UNCHANGED <<schemaVars, rows>>

\* Mutant: no transaction is open, every insert commits on its own.
InsertNonceAutocommit(c) ==
    /\ pc[c] = "valid"
    /\ pending' = [pending EXCEPT ![c] = {FirstName[c]}]
    /\ rows' = [rows EXCEPT ![FirstName[c]] = c]
    /\ Goto(c, "half")
    /\ UNCHANGED <<schemaVars, writer, answer>>

InsertNonce(c) ==
    /\ pc[c] = "valid"
    /\ rows[FirstName[c]] = None
    /\ pending' = [pending EXCEPT ![c] = @ \cup {FirstName[c]}]
    /\ Goto(c, "half")
    /\ UNCHANGED <<schemaVars, rows, writer, answer>>

InsertKey(c) ==
    /\ pc[c] = "half"
    /\ rows[SecondName[c]] = None
    /\ pending' = [pending EXCEPT ![c] = @ \cup {SecondName[c]}]
    /\ Goto(c, "inserted")
    /\ UNCHANGED <<schemaVars, rows, writer, answer>>

\* INSERT OR IGNORE: the row count says whether it was ignored.
InsertRun(c) ==
    /\ pc[c] = "begun" /\ c \in RunCalls
    /\ pending' = [pending EXCEPT ![c] = {n \in {FirstName[c]} : rows[n] = None}]
    /\ Goto(c, "inserted")
    /\ UNCHANGED <<schemaVars, rows, writer, answer>>

Commit(c) ==
    /\ pc[c] = "inserted"
    /\ rows' = [n \in Names |-> IF n \in pending[c] THEN c ELSE rows[n]]
    /\ writer' = None
    /\ Goto(c, "committed")
    /\ UNCHANGED <<schemaVars, pending, answer>>

\* Mutant: the row count is not looked at.
ReturnGranted(c) ==
    /\ pc[c] = "committed"
    /\ answer' = [answer EXCEPT ![c] = "granted"]
    /\ Goto(c, "answered")
    /\ UNCHANGED <<schemaVars, rows, writer, pending>>

\* consume returns None; consume_run returns whether its row was new.
Return(c) ==
    /\ pc[c] = "committed"
    /\ answer' = [answer EXCEPT ![c] = IF pending[c] # {} THEN "granted" ELSE "replayed"]
    /\ Goto(c, "answered")
    /\ UNCHANGED <<schemaVars, rows, writer, pending>>

\* Mutant: the exception leaves the transaction as it is.
RaiseKeepsPending(c) ==
    /\ pc[c] \in InTransaction
    /\ writer' = None
    /\ Goto(c, "raised")
    /\ UNCHANGED <<schemaVars, rows, pending, answer>>

\* A failing statement, validator or commit: rollback, then raise.
Raise(c) ==
    /\ pc[c] \in InTransaction
    /\ writer' = None
    /\ pending' = [pending EXCEPT ![c] = {}]
    /\ Goto(c, "raised")
    /\ UNCHANGED <<schemaVars, rows, answer>>

-----------------------------------------------------------------------------
\* A process dies; its open transaction dies with its connection.
Crash(p) ==
    LET victims == {c \in Calls : ProcessOf[c] = p /\ pc[c] \in InTransaction \cup {"committed"}}
    IN  /\ handle[p] # "closed"
        /\ handle' = [handle EXCEPT ![p] = "closed"]
        /\ pc' = [c \in Calls |-> IF c \in victims THEN "crashed" ELSE pc[c]]
        /\ pending' = [c \in Calls |-> IF c \in victims THEN {} ELSE pending[c]]
        /\ writer' = IF writer \in victims THEN None ELSE writer
        /\ UNCHANGED <<version, tables, rows, answer>>

OpenStep(p) == Open(p) \/ CreateMeta(p) \/ InsertVersion(p) \/ CheckVersion(p) \/ CreateTable(p)
Consume(c) == FindReplay(c) \/ FindFree(c) \/ Validate(c) \/ InsertNonce(c) \/ InsertKey(c)
Step(c) == Begin(c) \/ BusyTimeout(c) \/ Consume(c) \/ InsertRun(c) \/ Commit(c) \/ Return(c) \/ Raise(c)

Next ==
    \/ \E p \in Processes : OpenStep(p) \/ OpenFails(p) \/ Crash(p)
    \/ \E c \in Calls : Step(c)

Spec == Init /\ [][Next]_vars

-----------------------------------------------------------------------------
TypeOK ==
    /\ version \in {None, SCHEMA_VERSION, "999"}
    /\ tables \subseteq {Meta} \cup ClaimTables
    /\ handle \in [Processes -> {"closed", "failed", "unsupported", "ready"} \cup Opening]
    /\ rows \in [Names -> Calls \cup {None}]
    /\ writer \in Calls \cup {None}
    /\ pc \in [Calls -> {"idle", "committed"} \cup InTransaction \cup Ended]
    /\ pending \in [Calls -> SUBSET Names]
    /\ answer \in [Calls -> {None, "granted", "replayed", "invalid"}]

\* A store is never used on a database whose schema this program does not
\* know, and such a database gets none of its claim tables, whatever number of
\* processes open it at once and wherever one of them died half-way.
SchemaGate ==
    /\ \A p \in Processes : handle[p] = "ready" =>
          version = SCHEMA_VERSION /\ tables = {Meta} \cup ClaimTables
    /\ version \notin {None, SCHEMA_VERSION} =>
          tables \cap ClaimTables = {} /\ \A n \in Names : rows[n] = None

\* A committed claim is whole: a row is one of the names of the call that
\* wrote it, and nonce and idempotency key belong to the same call, whichever
\* statement failed and whenever a process died.
ClaimsAreWhole ==
    \A n \in Names : rows[n] # None =>
        /\ n \in NamesOf(rows[n])
        /\ \A m \in NamesOf(rows[n]) : rows[m] = rows[n]

\* The calls whose claim is in the store.
Granted == {c \in Calls : rows[FirstName[c]] = c}

\* The transactions, seen from outside, are single atomic claims with true
\* answers.
Service == INSTANCE ClaimService WITH granted <- Granted, told <- answer
ImplementsClaimService == Service!Spec

-----------------------------------------------------------------------------
(* Why it holds.                                                           *)

OneWriter == \A c \in Calls : pc[c] \in InTransaction <=> writer = c

\* What a transaction has seen or inserted is still so: nobody else writes.
TransactionIsIsolated ==
    \A c \in Calls :
        /\ pc[c] \in {"free", "valid", "half"} \/ (pc[c] = "inserted" /\ c \notin RunCalls) =>
              \A n \in NamesOf(c) : rows[n] = None
        /\ pc[c] = "inserted" =>
              pending[c] = {n \in NamesOf(c) : rows[n] = None}

PendingFollowsCall ==
    \A c \in Calls :
        /\ pc[c] \in {"idle", "begun", "free", "valid", "raised", "crashed"} => pending[c] = {}
        /\ pc[c] = "half" => pending[c] = {FirstName[c]}
        /\ pc[c] = "committed" =>
              /\ pending[c] # {} => \A n \in NamesOf(c) : rows[n] = c
              /\ pending[c] = {} => \A n \in NamesOf(c) : rows[n] \notin {None, c}
        /\ c \notin RunCalls /\ pc[c] = "committed" => pending[c] # {}

NoEarlyClaim ==
    \A c \in Calls :
        /\ pc[c] \in {"idle", "raised"} \cup InTransaction =>
              \A n \in Names : rows[n] # c
        /\ pc[c] # "answered" => answer[c] = None

\* The tables that exist before a process gets to a statement of _initialize.
TablesBefore(stage) ==
    CASE stage \in {"insert_version", "check_version", "nonce_consumptions"} -> {Meta}
      [] stage = "idempotency_consumptions" -> {Meta, "nonce_consumptions"}
      [] stage = "organism_runs" -> {Meta, "nonce_consumptions", "idempotency_consumptions"}
      [] stage = "ready" -> {Meta} \cup ClaimTables
      [] OTHER -> {}

\* The order of the statements: nobody gets past the version's check, nor into
\* a transaction, on a database of another version.
SchemaFollowsHandle ==
    /\ \A p \in Processes : TablesBefore(handle[p]) \subseteq tables
    /\ (\E p \in Processes : handle[p] \in ClaimTables \cup {"ready"}) => version = SCHEMA_VERSION
    /\ writer # None => version = SCHEMA_VERSION
    /\ version # SCHEMA_VERSION => tables \cap ClaimTables = {} /\ \A n \in Names : rows[n] = None

\* The inductive invariant.
StoreInv ==
    /\ TypeOK
    /\ SchemaFollowsHandle
    /\ OneWriter
    /\ TransactionIsIsolated
    /\ PendingFollowsCall
    /\ NoEarlyClaim
    /\ ClaimsAreWhole

=============================================================================
