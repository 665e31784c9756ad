-------------------------- MODULE RepositoryPilot --------------------------
(***************************************************************************)
(* The repository pilot (repository_pilot.py): each pilot is one process   *)
(* that scans a directory tree, reads the files it selected, and runs an   *)
(* organism of two local models whose only action writes a report.  The    *)
(* pilots share the tree, which others edit while it is read, the durable  *)
(* claims and the report directory.                                        *)
(*                                                                         *)
(*  scan -> stat <-> read -> claim -> observer -> analyst -> compile       *)
(*     -> act -> write -> writing -> replace -> settle -> ended            *)
(*                                                                         *)
(* A path is the sequence of its names and names are numbers, in their     *)
(* sorting order.  A node of the tree is [kind, bytes], with bytes a       *)
(* sequence; only what a file is at the moment it is read matters.  The    *)
(* organism's deadlines, evidence and store faults are module Organism's;  *)
(* that this configuration passes its own policies is module Admission's.  *)
(***************************************************************************)
EXTENDS OllamaAdapter, Sequences, SequencesExt

CONSTANTS
    Pilots, Models, Replies,
    Trees, MaxEdits,                         \* MaxEdits bounds EditTree only
    ExcludedNames, SecretNames, TextNames,   \* _EXCLUDED_PARTS, _SECRET_NAMES, _TEXT_SUFFIXES
    MaxDirectories, MaxEntries, MaxDirectoryEntries, MaxFiles,
    MaxHashBytes, MaxExcerptBytes, MaxTotalExcerptBytes,
    MaxOutputTokens, MaxTotalTokens

\* Nothing that may be selected is replaced by a link, which open would follow.
ASSUME LinksStayLinks ==
    \A t, u \in Trees : \A path \in DOMAIN t \cap DOMAIN u :
        t[path].kind = "link" => u[path].kind = "link"

\* A path leads through directories only.
ASSUME TreesAssumption ==
    \A t \in Trees :
        /\ IsFiniteSet(DOMAIN t)
        /\ \A path \in DOMAIN t :
              /\ path \in Seq(Nat) /\ t[path].bytes \in Seq(ToSet(t[path].bytes))
              /\ path = <<>> => t[path].kind \in {"dir", "closed"}
              /\ \A n \in 0..(Len(path) - 1) : /\ SubSeq(path, 1, n) \in DOMAIN t
                                              /\ t[SubSeq(path, 1, n)].kind \in {"dir", "closed"}

ASSUME LimitsAssumption ==
    {MaxDirectories, MaxEntries, MaxDirectoryEntries, MaxFiles, MaxHashBytes, MaxExcerptBytes,
     MaxTotalExcerptBytes} \subseteq Nat

\* No error, digest or status is the absence of one.
ASSUME NoneAssumption ==
    None \notin {"OLLAMA_DEADLINE_EXCEEDED", "OLLAMA_MODEL_NOT_FOUND", "OLLAMA_HTTP_ERROR",
               "OLLAMA_TIMEOUT", "OLLAMA_UNAVAILABLE", "OLLAMA_TRANSPORT_ERROR",
               "OLLAMA_RESPONSE_INVALID", "OLLAMA_RESPONSE_TOO_LARGE", "COMPLETED"}

VARIABLES
    tree, edits,
    pilot,          \* what each process holds, and has done
    runKeys,        \* semantic run keys claimed
    effectKeys,     \* idempotency keys claimed
    temporaries,    \* name -> content of the files being written
    reports         \* name -> content of the *.json files

vars == <<tree, edits, pilot, runKeys, effectKeys, temporaries, reports>>

\* A function overrides another.
f ++ g == [x \in DOMAIN f \cup DOMAIN g |-> IF x \in DOMAIN f THEN f[x] ELSE g[x]]

Init ==
    /\ tree \in Trees /\ edits = 0
    /\ \E model \in [Pilots -> Models] :
          pilot = [p \in Pilots |->
                     [pc |-> "scan", model |-> model[p], pending |-> << <<>> >>, files |-> <<>>,
                      visited |-> 0, scanned |-> 0, files_truncated |-> FALSE, size |-> 0,
                      remaining |-> MaxTotalExcerptBytes, records |-> <<>>, tokens |-> 0,
                      draft |-> None, name |-> None, status |-> None,
                      saw |-> {}, called |-> FALSE, refused |-> {}]]
    /\ runKeys = {} /\ effectKeys = {}
    /\ temporaries = <<>> /\ reports = <<>>

Sets(p, fields) == pilot' = [pilot EXCEPT ![p] = fields ++ @]

\* _safe_regular_files returns; the process is over.  What was in memory is
\* gone, but for what the properties ask of a process that called a model or
\* of one that was about to report.
ScanReturned(fields) == fields ++ [pc |-> "stat", pending |-> <<>>, visited |-> 0, scanned |-> 0]
EndsWith(p, status, fields) ==
    Sets(p, fields ++
            [pc |-> "ended", status |-> status, pending |-> <<>>, files |-> <<>>,
             visited |-> 0, scanned |-> 0, size |-> 0, remaining |-> 0, tokens |-> 0,
             saw |-> IF pilot[p].called THEN pilot[p].saw ELSE {},
             files_truncated |-> pilot[p].files_truncated /\ pilot[p].name # None,
             records |-> IF pilot[p].name = None THEN <<>> ELSE pilot[p].records,
             draft |-> IF pilot[p].name = None THEN None ELSE pilot[p].draft])
Ends(p, status) == EndsWith(p, status, <<>>)

\* A look at the tree, in history.
Looking(p) == [saw |-> pilot[p].saw \cup {tree}]

Least(S) == CHOOSE n \in S : \A m \in S : n <= m

-----------------------------------------------------------------------------
(* _safe_regular_files.                                                    *)

Is(t, path, kind) == path \in DOMAIN t /\ t[path].kind = kind

Entries(t, directory) ==
    {Last(path) : path \in {q \in DOMAIN t : q # <<>> /\ Front(q) = directory}}

Ascending(S) ==
    CHOOSE order \in SetToSeqs(S) : \A i, j \in DOMAIN order : i < j => order[i] < order[j]

\* Mutant: the entries are taken as the file system returns them.
ListingAsRead(order, room) == IF Len(order) > room THEN None ELSE order

\* The names of a directory, None when it has more than may still be read.
Listing(order, room) == IF Len(order) > room THEN None ELSE Ascending(ToSet(order))

\* The paths of some of the names, in their order.
PathsOf(directory, names, kept) ==
    [i \in 1..Cardinality(kept) |-> Append(directory, names[Ascending(kept)[i]])]

ChildDirectories(t, directory, names) ==
    PathsOf(directory, names,
            {i \in DOMAIN names : /\ t[Append(directory, names[i])].kind \in {"dir", "closed"}
                                 /\ names[i] \notin ExcludedNames})

RegularFiles(t, directory, names) ==
    PathsOf(directory, names,
            {i \in DOMAIN names : /\ t[Append(directory, names[i])].kind = "file"
                                 /\ names[i] \notin ExcludedNames \cup SecretNames})

ScanEnds(p) ==
    /\ pilot[p].pc = "scan"
    /\ \/ pilot[p].pending = <<>> /\ Sets(p, ScanReturned(<<>>))
       \/ /\ pilot[p].pending # <<>> /\ pilot[p].visited >= MaxDirectories
          /\ Sets(p, ScanReturned([files_truncated |-> TRUE]))
    /\ UNCHANGED <<tree, edits, runKeys, effectKeys, temporaries, reports>>

Visits(p) ==
    /\ pilot[p].pc = "scan" /\ pilot[p].pending # <<>>
    /\ pilot[p].visited < MaxDirectories
    /\ UNCHANGED <<tree, edits, runKeys, effectKeys, temporaries, reports>>

\* What a process at s has after a directory that it may not read.
Skipped(s) == [pending |-> Front(s.pending), visited |-> s.visited + 1]

\* scandir raises OSError: the directory is gone, replaced or closed to us.
SkipDirectory(p) ==
    /\ Visits(p)
    /\ ~Is(tree, Last(pilot[p].pending), "dir")
    /\ Sets(p, Looking(p) ++ Skipped(pilot[p]))

\* What it has after a directory that it may read.
Scanned(s, t, order) ==
    LET directory == Last(s.pending)
        room == Least({MaxEntries - s.scanned, MaxDirectoryEntries})
        names == Listing(order, room)
        found == s.files \o RegularFiles(t, directory, names)
    IN  IF names = None THEN ScanReturned([files_truncated |-> TRUE])
        ELSE IF Len(found) > MaxFiles
        THEN ScanReturned([files_truncated |-> TRUE, files |-> SubSeq(found, 1, MaxFiles)])
        ELSE [visited |-> s.visited + 1, files |-> found, scanned |-> s.scanned + Len(order),
              pending |-> Front(s.pending) \o Reverse(ChildDirectories(t, directory, names))]

ScanDirectory(p) ==
    /\ Visits(p)
    /\ Is(tree, Last(pilot[p].pending), "dir")
    /\ \E order \in SetToSeqs(Entries(tree, Last(pilot[p].pending))) :
          Sets(p, Looking(p) ++ Scanned(pilot[p], tree, order))

-----------------------------------------------------------------------------
(* collect_repository_snapshot: a file is looked at twice, by stat and by  *)
(* open.  What cannot be looked at makes the process fail.                 *)

StatFile(p) ==
    /\ pilot[p].pc = "stat"
    /\ IF pilot[p].files = <<>> THEN Sets(p, [pc |-> "claim"])
       ELSE LET path == Head(pilot[p].files)
            IN  IF path \notin DOMAIN tree THEN Ends(p, "raised")
                ELSE Sets(p, Looking(p) ++ [pc |-> "read", size |-> Len(tree[path].bytes)])
    /\ UNCHANGED <<tree, edits, runKeys, effectKeys, temporaries, reports>>

Prefix(bytes, n) == SubSeq(bytes, 1, Least({n, Len(bytes)}))

\* Mutant: every file has the whole allowance to itself.
ExcerptOfEach(hashed, remaining) == Prefix(hashed, MaxExcerptBytes)

Excerpt(hashed, remaining) == Prefix(hashed, Least({MaxExcerptBytes, remaining}))

\* The digest of the bytes stands for itself.
FileRecord(path, size, bytes, remaining) ==
    LET hashed == Prefix(bytes, MaxHashBytes)
        excerpt == Excerpt(hashed, remaining)
    IN  [path |-> path, size |-> size, sha256 |-> hashed,
         sha256_scope |-> IF Len(bytes) > MaxHashBytes THEN "prefix" ELSE "full"]
        ++ IF Last(path) \in TextNames /\ remaining > 0
           THEN [excerpt |-> excerpt, excerpt_truncated |-> Len(excerpt) < size]
           ELSE [excerpt |-> None]

\* What a process at s has after it read a file.
Recorded(s, t) ==
    LET path == Head(s.files)
        record == FileRecord(path, s.size, t[path].bytes, s.remaining)
        used == IF record.excerpt = None THEN 0 ELSE Len(record.excerpt)
    IN  [pc |-> "stat", files |-> Tail(s.files), size |-> 0,
         records |-> Append(s.records, record), remaining |-> s.remaining - used]

ReadFile(p) ==
    /\ pilot[p].pc = "read"
    /\ IF Is(tree, Head(pilot[p].files), "file") THEN Sets(p, Looking(p) ++ Recorded(pilot[p], tree))
       ELSE Ends(p, "raised")
    /\ UNCHANGED <<tree, edits, runKeys, effectKeys, temporaries, reports>>

Snapshot(p) == [files |-> pilot[p].records, files_truncated |-> pilot[p].files_truncated]

-----------------------------------------------------------------------------
(* The organism's run, keyed by the snapshot.                              *)

\* The model is in the manifest digest, the snapshot in the intent, the cause
\* and the input.
RunKey(p) == <<pilot[p].model, Snapshot(p)>>

ClaimRun(p) ==
    /\ pilot[p].pc = "claim"
    /\ IF RunKey(p) \in runKeys THEN Ends(p, "ORGANISM_REPLAYED")
       ELSE Sets(p, [pc |-> "observer", remaining |-> 0])
    /\ runKeys' = runKeys \cup {RunKey(p)}
    /\ UNCHANGED <<tree, edits, effectKeys, temporaries, reports>>

Identity(p) == [provider |-> "ollama", model |-> pilot[p].model]
Call == [contains_secret |-> TRUE, data_classification |-> "restricted",
         max_output_tokens |-> MaxOutputTokens]

\* What the runner does with the result of a call.
Takes(p, result) ==
    LET reasons == ModelResultReasons(result, Identity(p), Call)
        total == pilot[p].tokens + result.input_tokens + result.output_tokens
        called == [called |-> TRUE, saw |-> pilot[p].saw]
    IN  IF result.status = "RAISED" THEN EndsWith(p, "EFFECT_UNCERTAIN", called)
        ELSE IF reasons # {} THEN EndsWith(p, "BLOCK", [refused |-> reasons] ++ called)
        ELSE IF total > MaxTotalTokens THEN EndsWith(p, "BLOCK", called)
        ELSE IF result.status # "RETURNED" THEN EndsWith(p, "FAILED", called)
        ELSE IF pilot[p].pc = "observer"
        THEN Sets(p, [pc |-> "analyst", tokens |-> total] ++ called)
        ELSE Sets(p, [pc |-> "compile", tokens |-> 0, draft |-> result.output])

CallModel(p) ==
    /\ pilot[p].pc \in {"observer", "analyst"}
    /\ pilot[p].tokens + MaxOutputTokens <= MaxTotalTokens
    /\ \E result \in {InvokeOllama(Identity(p), Call, remaining, reply) :
                         remaining \in {0, 1}, reply \in Replies} : Takes(p, result)
    /\ UNCHANGED <<tree, edits, runKeys, effectKeys, temporaries, reports>>

\* A deadline has passed, or the tokens left are too few for another call.
Expire(p) ==
    /\ pilot[p].pc \in {"claim", "observer", "analyst", "compile", "act"}
    /\ Ends(p, "BLOCK")
    /\ UNCHANGED <<tree, edits, runKeys, effectKeys, temporaries, reports>>

-----------------------------------------------------------------------------
(* The one capability, and its report.                                     *)

\* Texts and lists of texts are their lengths here.
ValidReportArguments(arguments) ==
    /\ DOMAIN arguments = {"summary", "findings", "risks"}
    /\ arguments.summary \in 1..800
    /\ Len(arguments.findings) <= 12 /\ ToSet(arguments.findings) \subseteq 1..500
    /\ Len(arguments.risks) <= 8 /\ ToSet(arguments.risks) \subseteq 1..500

\* The proposal binds the run, the reports that are there, and the arguments.
ProposalDigest(p, existing, arguments) ==
    Digest([run |-> p, existing_reports |-> existing, arguments |-> arguments])

Compile(p) ==
    /\ pilot[p].pc = "compile"
    /\ LET draft == pilot[p].draft
       IN  IF draft.kind \notin {"ACTION", "NO_ACTION"} THEN Ends(p, "BLOCK")
           ELSE IF draft.kind = "NO_ACTION" THEN Ends(p, "NO_ACTION")
           ELSE IF draft.target # "report:repository/pilot"
                      \/ ~ValidReportArguments(draft.arguments)
           THEN Ends(p, "BLOCK")
           ELSE Sets(p, [pc |-> "act",
                         name |-> ProposalDigest(p, DOMAIN reports, draft.arguments)])
    /\ UNCHANGED <<tree, edits, runKeys, effectKeys, temporaries, reports>>

\* Neither the model nor the run is in it: only what is reported, and of what.
EffectKey(p) == <<Snapshot(p), pilot[p].draft.arguments>>

ClaimEffect(p) ==
    /\ pilot[p].pc = "act"
    /\ IF EffectKey(p) \in effectKeys THEN Ends(p, "IDEMPOTENCY_REPLAYED")
       ELSE Sets(p, [pc |-> "write"])
    /\ effectKeys' = effectKeys \cup {EffectKey(p)}
    /\ UNCHANGED <<tree, edits, runKeys, temporaries, reports>>

Report(p) == [proposal_digest |-> pilot[p].name, arguments |-> pilot[p].draft.arguments]

\* Mutant: one temporary file for the whole directory.
TemporaryNameShared(name) == ".tmp"

TemporaryName(name) == name

StartWrite(p) ==
    /\ pilot[p].pc = "write"
    /\ temporaries' = [name \in {TemporaryName(pilot[p].name)} |-> None] ++ temporaries
    /\ Sets(p, [pc |-> "writing"])
    /\ UNCHANGED <<tree, edits, runKeys, effectKeys, reports>>

FinishWrite(p) ==
    /\ pilot[p].pc = "writing"
    /\ temporaries' = [name \in {TemporaryName(pilot[p].name)} |-> Report(p)] ++ temporaries
    /\ Sets(p, [pc |-> "replace"])
    /\ UNCHANGED <<tree, edits, runKeys, effectKeys, reports>>

\* os.replace is atomic.
Publish(p) ==
    /\ pilot[p].pc = "replace"
    /\ LET temporary == TemporaryName(pilot[p].name)
       IN  /\ temporary \in DOMAIN temporaries
           /\ reports' = [name \in {pilot[p].name} |-> temporaries[temporary]] ++ reports
           /\ temporaries' = [t \in DOMAIN temporaries \ {temporary} |-> temporaries[t]]
    /\ Sets(p, [pc |-> "settle"])
    /\ UNCHANGED <<tree, edits, runKeys, effectKeys>>

\* The disk refuses the directory entry, the bytes or the replacement.
WriteFails(p) ==
    /\ pilot[p].pc \in {"write", "writing", "replace"}
    /\ Ends(p, "EFFECT_UNCERTAIN")
    /\ UNCHANGED <<tree, edits, runKeys, effectKeys, temporaries, reports>>

\* The evidence of the action is written, or not.
Settle(p) ==
    /\ pilot[p].pc = "settle"
    /\ \E status \in {"COMPLETED", "EFFECT_UNCERTAIN"} : Ends(p, status)
    /\ UNCHANGED <<tree, edits, runKeys, effectKeys, temporaries, reports>>

Crash(p) ==
    /\ pilot[p].pc # "ended"
    /\ Ends(p, "crashed")
    /\ UNCHANGED <<tree, edits, runKeys, effectKeys, temporaries, reports>>

\* An edit that no pilot is left to see makes no difference.
EditTree ==
    /\ edits < MaxEdits
    /\ \E p \in Pilots : pilot[p].pc \in {"scan", "stat", "read"}
    /\ edits' = edits + 1
    /\ tree' \in Trees \ {tree}
    /\ UNCHANGED <<pilot, runKeys, effectKeys, temporaries, reports>>

AllEnded == (\A p \in Pilots : pilot[p].pc = "ended") /\ UNCHANGED vars

Next ==
    \/ \E p \in Pilots :
          \/ ScanEnds(p) \/ SkipDirectory(p) \/ ScanDirectory(p) \/ StatFile(p) \/ ReadFile(p)
          \/ ClaimRun(p) \/ CallModel(p) \/ Expire(p) \/ Compile(p) \/ ClaimEffect(p)
          \/ StartWrite(p) \/ FinishWrite(p) \/ Publish(p) \/ WriteFails(p) \/ Settle(p)
          \/ Crash(p)
    \/ EditTree \/ AllEnded

Spec == Init /\ [][Next]_vars

-----------------------------------------------------------------------------
\* Running the pilot again on a repository that did not change asks its models
\* nothing: of the pilots of one model whose every look at the tree found the
\* same tree, at most one calls a model, in whatever order the file system
\* returned the entries, wherever the limits of the scan fell, and even if the
\* one that called was stopped on the way.
UnchangedTreeIsObservedOnce ==
    \A p, q \in Pilots :
        /\ p # q
        /\ pilot[p].model = pilot[q].model
        /\ pilot[p].saw = pilot[q].saw /\ \E t \in Trees : pilot[p].saw = {t}
        => ~(pilot[p].called /\ pilot[q].called)

Excerpted(record) == IF record.excerpt = None THEN 0 ELSE Len(record.excerpt)

\* What is excerpted up to each record, and at last.
Spends(records, total) ==
    \E spent \in [0..Len(records) -> 0..total] :
        /\ spent[0] = 0 /\ spent[Len(records)] = total
        /\ \A i \in 1..Len(records) : spent[i] = spent[i - 1] + Excerpted(records[i])

Bounded(records) ==
    /\ Len(records) <= MaxFiles
    /\ \A i \in DOMAIN records : Excerpted(records[i]) <= MaxExcerptBytes
    /\ \E total \in 0..MaxTotalExcerptBytes : Spends(records, total)
    /\ \A i \in DOMAIN records :
          /\ ToSet(records[i].path) \cap ExcludedNames = {}
          /\ Last(records[i].path) \notin SecretNames

\* Every file under directories that are not excluded.
Observable(t) ==
    {path \in DOMAIN t : /\ t[path].kind = "file"
                         /\ ToSet(path) \cap ExcludedNames = {}
                         /\ Last(path) \notin SecretNames}

Readable(t) == \A path \in DOMAIN t : t[path].kind # "closed"

\* What a record says of its own cuts is so, in tree t.
IsRecordOf(record, t) ==
    LET bytes == t[record.path].bytes
    IN  /\ record.size = Len(bytes)
        /\ record.sha256_scope = "full" => record.sha256 = bytes
        /\ record.excerpt # None /\ ~record.excerpt_truncated => record.excerpt = bytes

Paths(records) == [i \in DOMAIN records |-> records[i].path]

\* What the models are shown is bounded whatever happens to the tree while it
\* is read; and a snapshot of a tree that did not change and that could all be
\* read has every file of it, each once, in one order, with what each says of
\* its own cuts, unless it says that it is cut.
SnapshotTellsTheTruth ==
    \A p \in Pilots : pilot[p].pc = "claim" =>
        LET records == pilot[p].records
            paths == Paths(records)
        IN  /\ Bounded(records)
            /\ \A t \in Trees : pilot[p].saw = {t} /\ Readable(t) =>
                  /\ IsInjective(paths)
                  /\ ~pilot[p].files_truncated => ToSet(paths) = Observable(t)
                  /\ \A i \in DOMAIN records : IsRecordOf(records[i], t)

\* A file that can be listed as a report is whole, is named by the proposal it
\* reports, and its effect was claimed; there is one for each effect, whichever
\* models and processes came to it; and the report of a completed run is
\* there.  Several pilots write into the directory, fail and are stopped
\* between any two steps.
ReportsAreTrue ==
    /\ \A name \in DOMAIN reports :
          \E p \in Pilots : /\ pilot[p].name = name
                            /\ reports[name] = Report(p)
                            /\ EffectKey(p) \in effectKeys
    /\ \A p, q \in Pilots :
          {pilot[p].name, pilot[q].name} \subseteq DOMAIN reports /\ EffectKey(p) = EffectKey(q)
              => p = q
    /\ \A p \in Pilots : pilot[p].status = "COMPLETED" => pilot[p].name \in DOMAIN reports

\* The local adapter keeps the contract of adapters: whatever the server
\* answers, late, cut, malformed or not at all, the runner finds nothing wrong
\* with the form of the result; it may refuse how many tokens the server says
\* were used, and then only a result that was returned.
AdapterKeepsContract ==
    \A p \in Pilots :
        pilot[p].refused \subseteq {"MODEL_USAGE_INVALID", "MODEL_OUTPUT_BUDGET_EXCEEDED"}

-----------------------------------------------------------------------------
(* Why reports are true: the inductive invariant, in named parts.          *)

PilotFields ==
    {"pc", "model", "pending", "files", "visited", "scanned", "files_truncated", "size",
     "remaining", "records", "tokens", "draft", "name", "status", "saw", "called", "refused"}

Unnamed == {"scan", "stat", "read", "claim", "observer", "analyst", "compile"}
Claimed == {"write", "writing", "replace", "settle"}
PilotStates == Unnamed \cup {"act"} \cup Claimed \cup {"ended"}

TypeOK ==
    /\ pilot = [p \in Pilots |-> pilot[p]]
    /\ \A p \in Pilots : /\ DOMAIN pilot[p] = PilotFields
                        /\ pilot[p].pc \in PilotStates
                        /\ pilot[p].files_truncated \in BOOLEAN

\* A name is the digest of its own pilot's proposal, so no two are the same.
NamesAreOwn ==
    \A p \in Pilots :
        /\ pilot[p].pc \in Unnamed => pilot[p].name = None
        /\ pilot[p].pc \in {"act"} \cup Claimed => pilot[p].name # None
        /\ pilot[p].name # None =>
              \E existing \in SUBSET ({pilot[q].name : q \in Pilots} \ {None}) :
                  pilot[p].name = ProposalDigest(p, existing, pilot[p].draft.arguments)

\* Whoever is writing a report, or has written one, claimed its effect alone.
Owns(p) == pilot[p].pc \in Claimed \/ pilot[p].name \in DOMAIN reports
EffectsAreOwned ==
    \A p \in Pilots : Owns(p) =>
        /\ EffectKey(p) \in effectKeys
        /\ \A q \in Pilots : Owns(q) /\ EffectKey(q) = EffectKey(p) => q = p

\* What is in a file is what its pilot wrote.
FilesAreOwn ==
    /\ \A name \in DOMAIN reports :
          name # None /\ \E p \in Pilots : pilot[p].name = name /\ reports[name] = Report(p)
    /\ \A p \in Pilots :
          LET temporary == TemporaryName(pilot[p].name)
          IN  /\ pilot[p].pc = "replace" =>
                    temporary \in DOMAIN temporaries /\ temporaries[temporary] = Report(p)
              /\ pilot[p].pc = "settle" \/ pilot[p].status = "COMPLETED" =>
                    pilot[p].name \in DOMAIN reports

PilotInv ==
    /\ TypeOK /\ NamesAreOwn /\ EffectsAreOwned /\ FilesAreOwn /\ AdapterKeepsContract
-----------------------------------------------------------------------------
(* Why a snapshot tells the truth.                                         *)

Reading == {"scan", "stat", "read", "claim"}

\* The files that a process at s has found, those that were read first.
Found(s) == Paths(s.records) \o s.files

\* Whatever happens to the tree.
ScanIsBounded(s) ==
    s.pc \in Reading =>
        /\ s.visited \in Nat /\ s.size \in Nat /\ s.remaining \in 0..MaxTotalExcerptBytes
        /\ s.pending \in Seq(Seq(Nat)) /\ s.files \in Seq(Seq(Nat))
        /\ s.records \in Seq(ToSet(s.records)) /\ Found(s) \in Seq(Seq(Nat))
        /\ s.pc = "scan" => s.records = <<>>
        /\ s.pc # "scan" => s.pending = <<>>
        /\ s.pc = "read" => s.files # <<>>
        /\ s.pc = "claim" => s.files = <<>>
        /\ Len(Found(s)) <= MaxFiles
        /\ \A path \in ToSet(s.pending) \cup ToSet(Found(s)) : ToSet(path) \cap ExcludedNames = {}
        /\ \A path \in ToSet(Found(s)) : Last(path) \notin SecretNames
        /\ \A i \in DOMAIN s.records : Excerpted(s.records[i]) <= MaxExcerptBytes
        /\ Spends(s.records, MaxTotalExcerptBytes - s.remaining)

\* What is pending and what was found overlap nowhere, and together they cover
\* the tree, unless the scan was cut.
Covers(pending, found, t, cut) ==
    /\ IsInjective(found)
    /\ \A i, j \in DOMAIN pending : IsPrefix(pending[i], pending[j]) => i = j
    /\ \A d \in ToSet(pending) : /\ d \in DOMAIN t => t[d].kind = "dir"
                                /\ \A path \in ToSet(found) : ~IsPrefix(d, path)
    /\ ~cut => /\ ToSet(found) \subseteq Observable(t)
               /\ \A path \in Observable(t) \ ToSet(found) :
                     \E d \in ToSet(pending) : IsPrefix(d, path)

\* While the tree stays t and can all be read.
ScanIsTrue(s, t) ==
    s.pc \in Reading =>
        /\ Covers(s.pending, Found(s), t, s.files_truncated)
        /\ s.pc = "read" => s.size = Len(t[Head(s.files)].bytes)
        /\ \A i \in DOMAIN s.records : IsRecordOf(s.records[i], t)

SnapshotInv ==
    /\ tree \in Trees
    /\ \A p \in Pilots :
          /\ ScanIsBounded(pilot[p])
          /\ \A t \in Trees : Readable(t) /\ pilot[p].saw \subseteq {t} => ScanIsTrue(pilot[p], t)

=============================================================================
