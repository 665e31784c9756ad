------------------------------ MODULE Evidence ------------------------------
(***************************************************************************)
(* One evidence bundle (evidence.py): write_bundle creates its files one   *)
(* after the other, reads each back and lists what it read in the ledger   *)
(* and the manifest; verify_bundle reopens them, one read at a time, while *)
(* the writer may still be at work or dead, and while something else edits *)
(* the directory.                                                          *)
(*                                                                         *)
(* Digests do not collide, so a digest is the content it is taken of.      *)
(***************************************************************************)
EXTENDS Integers, Sequences, Functions

CONSTANTS
    None, Partial, Edited, Written,   \* contents: no file, a torn one, a changed one, a record
    Records,        \* RECORD_ORDER: the roles of the records, in their order
    Verifiers,      \* calls of verify_bundle
    Own,            \* the one among them that write_bundle makes
    MaxEdits        \* edits of the directory by others

VARIABLES
    disk,           \* file -> its content, None when there is none
    pc,             \* of the writer, one of WriterStates
    next,           \* index in FileOrder of the file at hand
    bound,          \* role -> content read back, to be listed
    vpc,            \* of each verifier: idle, artifacts, ledger, done
    listed,         \* the manifest each verifier has loaded
    checked,        \* the artifacts each verifier has compared
    valid,          \* no error so far
    edits, touched, \* edits made, and the files they changed
    quiet,          \* history: the directory has not changed since the call began
    late            \* history: the call began after write_bundle had returned

vars == <<disk, pc, next, bound, vpc, listed, checked, valid, edits, touched, quiet, late>>
writerVars == <<pc, next, bound>>
verifierVars == <<vpc, listed, checked, valid, late>>

Roles == Range(Records)
FileOrder == Records \o <<"ledger", "manifest">>
Files == Range(FileOrder)
Stray == "stray"
Names == Files \cup {Stray}
Artifacts == Files \ {"manifest"}
WriterStates == {"writing", "filling", "reading", "verifying", "returned", "raised", "crashed"}

Plain == {None, Partial, Edited, Written}
Ledgers == [links : BOOLEAN, payload : [Roles -> Plain]]

\* Each record has a file of its own, beside the ledger and the manifest.
ASSUME RecordsAssumption ==
    /\ Records \in Seq(Roles) /\ IsInjective(Records)
    /\ Roles \cap {"ledger", "manifest", Stray} = {}
    /\ Own \in Verifiers

\* Contents that differ in kind differ: a torn file, say, parses as no ledger.
ASSUME ContentsAssumption ==
    /\ None # Partial /\ None # Edited /\ None # Written
    /\ Partial # Edited /\ Partial # Written /\ Edited # Written
    /\ Plain \cap Ledgers = {}
    /\ \A files \in [Artifacts -> Plain \cup Ledgers] : [files |-> files] \notin Plain

Init ==
    /\ disk = [f \in Names |-> None]
    /\ pc = "writing" /\ next = 1
    /\ bound = [a \in Artifacts |-> None]
    /\ vpc = [v \in Verifiers |-> "idle"]
    /\ listed = [v \in Verifiers |-> None]
    /\ checked = [v \in Verifiers |-> {}]
    /\ valid = [v \in Verifiers |-> TRUE]
    /\ edits = 0 /\ touched = {}
    /\ quiet = [v \in Verifiers |-> TRUE]
    /\ late = [v \in Verifiers |-> FALSE]

\* Every change of the directory, whoever makes it.
Put(f, content) ==
    /\ disk' = [disk EXCEPT ![f] = content]
    /\ quiet' = [v \in Verifiers |-> quiet[v] /\ (vpc[v] = "idle" \/ disk[f] = content)]

-----------------------------------------------------------------------------
(* write_bundle                                                            *)

Current == FileOrder[next]

\* What is written: the record, the chain of all digests read back, the list
\* of all artifacts.
PayloadOf(f) ==
    CASE f \in Roles      -> Written
      [] f = "ledger"     -> [links |-> TRUE, payload |-> [r \in Roles |-> bound[r]]]
      [] f = "manifest"   -> [files |-> bound]

Payload == PayloadOf(Current)

\* O_EXCL: a file that is there already is an error.
CreateFile ==
    /\ pc = "writing" /\ next <= Len(FileOrder)
    /\ IF disk[Current] # None
       THEN pc' = "raised" /\ UNCHANGED <<disk, quiet>>
       ELSE Put(Current, Partial) /\ pc' = "filling"
    /\ UNCHANGED <<next, bound, verifierVars, edits, touched>>

\* Through the open descriptor: a file put in its place keeps its content.
FillFile ==
    /\ pc = "filling"
    /\ IF disk[Current] = Partial THEN Put(Current, Payload) ELSE UNCHANGED <<disk, quiet>>
    /\ pc' = IF Current = "manifest" THEN "verifying" ELSE "reading"
    /\ UNCHANGED <<next, bound, verifierVars, edits, touched>>

\* _artifact: size and digest are those of the bytes on disk.
ReadBack ==
    /\ pc = "reading"
    /\ IF disk[Current] = None
       THEN pc' = "raised" /\ UNCHANGED <<next, bound>>
       ELSE /\ bound' = [bound EXCEPT ![Current] = disk[Current]]
            /\ next' = next + 1
            /\ pc' = "writing"
    /\ UNCHANGED <<disk, verifierVars, edits, touched, quiet>>

WriteFails ==
    /\ pc \in {"writing", "filling", "reading"}
    /\ pc' = "raised"
    /\ UNCHANGED <<disk, next, bound, verifierVars, edits, touched, quiet>>

Crash ==
    /\ pc \notin {"returned", "raised", "crashed"}
    /\ pc' = "crashed"
    /\ UNCHANGED <<disk, next, bound, verifierVars, edits, touched, quiet>>

WriterReturns ==
    /\ pc = "verifying" /\ vpc[Own] = "done"
    /\ pc' = IF valid[Own] THEN "returned" ELSE "raised"
    /\ UNCHANGED <<disk, next, bound, verifierVars, edits, touched, quiet>>

-----------------------------------------------------------------------------
(* verify_bundle                                                           *)

Verdict(v, ok) == vpc' = [vpc EXCEPT ![v] = "done"] /\ valid' = [valid EXCEPT ![v] = ok]
Proceed(v, label, ok) == vpc' = [vpc EXCEPT ![v] = label] /\ valid' = [valid EXCEPT ![v] = @ /\ ok]

Readable(content) == content \notin {None, Partial, Edited}

LoadManifest(v) ==
    /\ vpc[v] = "idle" /\ (v = Own => pc = "verifying")
    /\ late' = [late EXCEPT ![v] = pc = "returned"]
    /\ IF Readable(disk["manifest"])
       THEN /\ listed' = [listed EXCEPT ![v] = disk["manifest"].files]
            /\ Proceed(v, "artifacts", TRUE)
       ELSE Verdict(v, FALSE) /\ UNCHANGED listed
    /\ UNCHANGED <<disk, writerVars, checked, edits, touched, quiet>>

CheckArtifact(v) ==
    /\ vpc[v] = "artifacts"
    /\ \E f \in DOMAIN listed[v] \ checked[v] :
          /\ checked' = [checked EXCEPT ![v] = @ \cup {f}]
          /\ valid' = [valid EXCEPT ![v] = @ /\ disk[f] # None /\ disk[f] = listed[v][f]]
    /\ UNCHANGED <<disk, writerVars, vpc, listed, edits, touched, quiet, late>>

\* Mutants: the manifest is not expected in its own directory; the files are
\* not compared with the ledger.
ExpectedNamesOfArtifacts(v) == DOMAIN listed[v]
LedgerErrorsOfChain(v) == ~Readable(disk["ledger"]) \/ ~disk["ledger"].links

ExpectedNames(v) == DOMAIN listed[v] \cup {"manifest"}

\* Directory entries and roles must be exactly the expected ones.
CheckInventory(v) ==
    /\ vpc[v] = "artifacts" /\ checked[v] = DOMAIN listed[v]
    /\ Proceed(v, "ledger", {f \in Names : disk[f] # None} = ExpectedNames(v)
                            /\ DOMAIN listed[v] = Artifacts)
    /\ UNCHANGED <<disk, writerVars, listed, checked, edits, touched, quiet, late>>

LedgerErrors(v) ==
    \/ ~Readable(disk["ledger"])
    \/ ~disk["ledger"].links
    \/ \E r \in Roles : r \notin DOMAIN listed[v] \/ disk["ledger"].payload[r] # listed[v][r]

\* The ledger is opened once more, after its own digest was compared.
VerifyLedger(v) ==
    /\ vpc[v] = "ledger"
    /\ Verdict(v, valid[v] /\ "ledger" \in DOMAIN listed[v] /\ ~LedgerErrors(v))
    /\ UNCHANGED <<disk, writerVars, listed, checked, edits, touched, quiet, late>>

-----------------------------------------------------------------------------
(* Others: an operator, a tool, a failing disk.                            *)

Present == {f \in Names : disk[f] # None}

Edit(f, content) ==
    /\ edits < MaxEdits
    /\ Put(f, content)
    /\ edits' = edits + 1
    /\ touched' = touched \cup {f}
    /\ UNCHANGED <<writerVars, verifierVars>>

EditFile == \E f \in Present \ {Stray} : disk[f] # Edited /\ Edit(f, Edited)
RemoveFile == \E f \in Present \ {Stray} : Edit(f, None)
AddFile == disk[Stray] = None /\ Edit(Stray, Edited)
\* The ledger or the manifest is made anew, of what is on disk.
RebuildLedger ==
    \E linked \in BOOLEAN :
        Edit("ledger", [links |-> linked, payload |-> [r \in Roles |-> disk[r]]])
RebuildManifest == Edit("manifest", [files |-> [f \in Present \ {"manifest"} |-> disk[f]]])

Verify(v) == LoadManifest(v) \/ CheckArtifact(v) \/ CheckInventory(v) \/ VerifyLedger(v)

Next ==
    \/ CreateFile \/ FillFile \/ ReadBack \/ WriteFails \/ Crash \/ WriterReturns
    \/ \E v \in Verifiers : Verify(v)
    \/ EditFile \/ RemoveFile \/ AddFile \/ RebuildLedger \/ RebuildManifest

Spec == Init /\ [][Next]_vars

-----------------------------------------------------------------------------
Whole == /\ \A a \in Artifacts : disk[a] # None /\ disk[a] = bound[a]
         /\ \A r \in Roles : disk[r] = Written
         /\ disk["manifest"] = [files |-> bound]

\* Nobody edits: a verification that passes, also one that ran while the
\* bundle was being written, saw a whole bundle, whatever became of the
\* writer; and the writer's own verification passes, as does every one made
\* once write_bundle has returned.
UneditedBundle ==
    touched = {} => \A v \in Verifiers : vpc[v] = "done" =>
        /\ valid[v] => Whole
        /\ v = Own \/ late[v] => valid[v]

\* A record that is not what the writer bound passes a verification, made
\* while nothing changes, only if both the ledger and the manifest were made
\* to agree with it.
TamperEvident ==
    \A v \in Verifiers :
        /\ vpc[v] = "done" /\ valid[v] /\ quiet[v]
        /\ \E r \in Roles : disk[r] # bound[r]
        => {"ledger", "manifest"} \subseteq touched

-----------------------------------------------------------------------------
(* Why it holds: the inductive invariant, in named parts.                  *)

TypeOK ==
    /\ disk = [f \in Names |-> disk[f]]
    /\ pc \in WriterStates /\ next \in 1..Len(FileOrder)
    /\ bound \in [Artifacts -> Plain \cup Ledgers] /\ \A r \in Roles : bound[r] \in Plain
    /\ \A r \in Roles : disk[r] \in Plain
    /\ \A f \in Names \ {"manifest"} : disk[f] \in Plain \cup Ledgers
    /\ vpc \in [Verifiers -> {"idle", "artifacts", "ledger", "done"}]
    /\ valid \in [Verifiers -> BOOLEAN]
    /\ quiet \in [Verifiers -> BOOLEAN] /\ late \in [Verifiers -> BOOLEAN]
    /\ listed = [v \in Verifiers |-> listed[v]]
    /\ checked \in [Verifiers -> SUBSET Names]
    /\ Readable(disk["manifest"]) => DOMAIN disk["manifest"].files \subseteq Names
    /\ \A v \in Verifiers : vpc[v] \in {"artifacts", "ledger"} => DOMAIN listed[v] \subseteq Names
    /\ touched \subseteq Names

\* A file that nobody else touched is what the writer made of it.
Follows(i) ==
    LET f == FileOrder[i]
    IN  f \notin touched =>
            /\ i < next => disk[f] = PayloadOf(f) /\ bound[f] = disk[f]
            /\ i > next => disk[f] = None
            /\ i = next =>
                  /\ disk[f] \in {None, Partial, PayloadOf(f)}
                  /\ pc = "writing" => disk[f] = None
                  /\ pc = "filling" => disk[f] = Partial
                  /\ pc \in {"reading", "verifying", "returned"} => disk[f] = PayloadOf(f)

FilesFollowWriter == \A i \in 1..Len(FileOrder) : Follows(i)

WriterKnowsItsPlace ==
    /\ pc = "reading" => Current # "manifest"
    /\ pc \in {"verifying", "returned"} => Current = "manifest"
    /\ pc = "returned" => vpc[Own] = "done" /\ valid[Own]

BundleIsThere ==
    /\ Current = "manifest" /\ disk["manifest"] = PayloadOf("manifest")
    /\ pc \in {"verifying", "returned", "raised", "crashed"}

\* Nobody edits: a verification that found a manifest found the whole bundle.
UneditedCall(v) ==
    /\ vpc[v] \in {"artifacts", "ledger"} => BundleIsThere /\ listed[v] = bound /\ valid[v]
    /\ vpc[v] = "done" /\ valid[v] => BundleIsThere
    /\ vpc[v] = "done" /\ ~valid[v] => v # Own /\ ~late[v]

UneditedVerification ==
    touched = {} => disk[Stray] = None /\ \A v \in Verifiers : UneditedCall(v)

\* What a verification has compared is still so while nothing changes.
QuietCall(v) ==
    /\ vpc[v] = "idle" => valid[v] /\ checked[v] = {}
    /\ quiet[v] /\ valid[v] /\ vpc[v] # "idle" =>
          /\ Readable(disk["manifest"]) /\ listed[v] = disk["manifest"].files
          /\ \A f \in checked[v] : disk[f] = listed[v][f]
          /\ vpc[v] \in {"ledger", "done"} => checked[v] = Artifacts /\ DOMAIN listed[v] = Artifacts
          /\ vpc[v] = "done" => /\ Readable(disk["ledger"])
                                /\ \A r \in Roles : disk["ledger"].payload[r] = listed[v][r]

QuietVerification == \A v \in Verifiers : QuietCall(v)

EvidenceInv ==
    /\ TypeOK /\ FilesFollowWriter /\ WriterKnowsItsPlace
    /\ UneditedVerification /\ QuietVerification

=============================================================================
