------------------------ MODULE RepositoryPilotProofs ------------------------
(***************************************************************************)
(* Reports and adapter results of the repository pilot, for any number of  *)
(* pilots, any trees and edits, any replies of the model server and any    *)
(* limits.                                                                 *)
(***************************************************************************)
EXTENDS RepositoryPilot, TLAPS

\* Digests do not collide, and a digest is there.
DigestsAreExact == (\A x, y : Digest(x) = Digest(y) => x = y) /\ \A x : Digest(x) # None

-----------------------------------------------------------------------------
(* Overriding one function by another.                                     *)

LEMMA OverrideDomain == \A f, g : DOMAIN (f ++ g) = DOMAIN f \cup DOMAIN g
BY DEF ++

LEMMA OverrideFirst == \A f, g : \A x \in DOMAIN f : (f ++ g)[x] = f[x]
BY DEF ++

LEMMA OverrideSecond == \A f, g : \A x \in DOMAIN g \ DOMAIN f : (f ++ g)[x] = g[x]
BY DEF ++

\* What a step of one pilot sets, and what it leaves alone.
LEMMA SetsFields ==
    ASSUME TypeOK, NEW p \in Pilots, NEW fields, Sets(p, fields)
    PROVE  /\ \A q \in Pilots \ {p} : pilot'[q] = pilot[q]
           /\ pilot' = [q \in Pilots |-> pilot'[q]]
           /\ DOMAIN pilot'[p] = DOMAIN fields \cup PilotFields
           /\ \A x \in DOMAIN fields : pilot'[p][x] = fields[x]
           /\ \A x \in PilotFields \ DOMAIN fields : pilot'[p][x] = pilot[p][x]
<1>1. pilot' = [pilot EXCEPT ![p] = fields ++ pilot[p]]
  BY DEF Sets
<1>2. pilot'[p] = fields ++ pilot[p] /\ DOMAIN pilot[p] = PilotFields
  BY <1>1 DEF TypeOK
<1>3. pilot' = [q \in Pilots |-> pilot'[q]] /\ \A q \in Pilots \ {p} : pilot'[q] = pilot[q]
  BY <1>1 DEF TypeOK
<1> DEFINE old == pilot[p] new == pilot'[p]
<1>4. new = fields ++ old /\ DOMAIN old = PilotFields
  BY <1>2
<1> HIDE DEF old, new
<1>5. /\ DOMAIN new = DOMAIN fields \cup PilotFields
      /\ \A x \in DOMAIN fields : new[x] = fields[x]
      /\ \A x \in PilotFields \ DOMAIN fields : new[x] = old[x]
  <2>1. DOMAIN (fields ++ old) = DOMAIN fields \cup DOMAIN old
    BY OverrideDomain, Zenon
  <2>2. \A x \in DOMAIN fields : (fields ++ old)[x] = fields[x]
    BY OverrideFirst, Zenon
  <2>3. \A x \in DOMAIN old \ DOMAIN fields : (fields ++ old)[x] = old[x]
    BY OverrideSecond, Zenon
  <2> QED BY <1>4, <2>1, <2>2, <2>3
<1> QED BY <1>3, <1>5 DEF old, new

-----------------------------------------------------------------------------
(* The shapes of steps.                                                    *)

\* Nothing is claimed or written, and what is to be reported stays as it is.
\* A pilot gets no name by it and no claim.
QuietStep(p) ==
    /\ UNCHANGED <<effectKeys, temporaries, reports>>
    /\ \A q \in Pilots \ {p} : pilot'[q] = pilot[q]
    /\ TypeOK'
    /\ pilot'[p].name = pilot[p].name
    /\ pilot[p].name # None =>
          /\ pilot'[p].draft = pilot[p].draft /\ pilot'[p].records = pilot[p].records
          /\ pilot'[p].files_truncated = pilot[p].files_truncated
    /\ pilot'[p].pc \in Unnamed => pilot[p].pc \in Unnamed
    /\ pilot'[p].pc \in Unnamed \cup {"ended"}
    /\ pilot'[p].status = "COMPLETED" => pilot[p].status = "COMPLETED" \/ pilot[p].pc = "settle"
    /\ pilot'[p].refused = pilot[p].refused
          \/ pilot'[p].refused \subseteq {"MODEL_USAGE_INVALID", "MODEL_OUTPUT_BUDGET_EXCEEDED"}

\* A pilot that ends keeps what it was about to report.
LEMMA EndIsQuiet ==
    ASSUME TypeOK, NEW p \in Pilots, NEW status, NEW fields,
           DOMAIN fields \subseteq {"refused", "called", "saw"},
           EndsWith(p, status, fields), UNCHANGED <<effectKeys, temporaries, reports>>,
           status = "COMPLETED" => pilot[p].pc = "settle",
           "refused" \in DOMAIN fields =>
              fields["refused"] \subseteq {"MODEL_USAGE_INVALID", "MODEL_OUTPUT_BUDGET_EXCEEDED"}
    PROVE  QuietStep(p)
<1> DEFINE end ==
      [pc |-> "ended", status |-> status, pending |-> <<>>, files |-> <<>>,
       visited |-> 0, scanned |-> 0, size |-> 0, remaining |-> 0, tokens |-> 0,
       saw |-> IF pilot[p].called THEN pilot[p].saw ELSE {},
       files_truncated |-> pilot[p].files_truncated /\ pilot[p].name # None,
       records |-> IF pilot[p].name = None THEN <<>> ELSE pilot[p].records,
       draft |-> IF pilot[p].name = None THEN None ELSE pilot[p].draft]
<1>1. Sets(p, fields ++ end)
  BY DEF EndsWith
<1>2. /\ DOMAIN end = {"pc", "status", "pending", "files", "visited", "scanned", "size", "remaining",
                       "tokens", "saw", "files_truncated", "records", "draft"}
      /\ end.pc = "ended" /\ end.status = status
      /\ pilot[p].name # None =>
            /\ end.draft = pilot[p].draft /\ end.records = pilot[p].records
            /\ end.files_truncated = (pilot[p].files_truncated /\ pilot[p].name # None)
  OBVIOUS
<1> HIDE DEF end
<1>3. /\ DOMAIN (fields ++ end) = DOMAIN fields \cup DOMAIN end
      /\ \A x \in DOMAIN fields : (fields ++ end)[x] = fields[x]
      /\ \A x \in DOMAIN end \ DOMAIN fields : (fields ++ end)[x] = end[x]
  <2>1. DOMAIN (fields ++ end) = DOMAIN fields \cup DOMAIN end
    BY OverrideDomain, Zenon
  <2>2. \A x \in DOMAIN fields : (fields ++ end)[x] = fields[x]
    BY OverrideFirst, Zenon
  <2>3. \A x \in DOMAIN end \ DOMAIN fields : (fields ++ end)[x] = end[x]
    BY OverrideSecond
  <2> QED BY <2>1, <2>2, <2>3
<1> DEFINE all == fields ++ end
<1> HIDE DEF all
<1>4. /\ \A q \in Pilots \ {p} : pilot'[q] = pilot[q]
      /\ pilot' = [q \in Pilots |-> pilot'[q]]
      /\ DOMAIN pilot'[p] = DOMAIN all \cup PilotFields
      /\ \A x \in DOMAIN all : pilot'[p][x] = all[x]
      /\ \A x \in PilotFields \ DOMAIN all : pilot'[p][x] = pilot[p][x]
  BY <1>1, SetsFields DEF all
<1>5. /\ DOMAIN all \subseteq PilotFields
      /\ {"pc", "status", "draft", "records", "files_truncated"} \subseteq DOMAIN all
      /\ all.pc = end.pc /\ all.status = end.status /\ all.draft = end.draft
      /\ all.records = end.records /\ all.files_truncated = end.files_truncated
      /\ "name" \notin DOMAIN all
      /\ "refused" \in DOMAIN all => "refused" \in DOMAIN fields /\ all.refused = fields["refused"]
  BY <1>2, <1>3 DEF all, PilotFields
<1>6. /\ pilot'[p].pc = "ended" /\ pilot'[p].status = status /\ pilot'[p].name = pilot[p].name
      /\ DOMAIN pilot'[p] = PilotFields
  BY <1>2, <1>4, <1>5 DEF PilotFields
<1>7. pilot[p].name # None =>
          /\ pilot'[p].draft = pilot[p].draft /\ pilot'[p].records = pilot[p].records
          /\ pilot'[p].files_truncated = (pilot[p].files_truncated /\ pilot[p].name # None)
  BY <1>2, <1>4, <1>5
<1>8. pilot'[p].files_truncated \in BOOLEAN
  <2>1. end.files_truncated \in BOOLEAN
    BY DEF end
  <2>2. "files_truncated" \in DOMAIN all
    BY <1>5
  <2> QED BY <1>4, <1>5, <2>1, <2>2
<1>10. TypeOK'
  BY <1>4, <1>6, <1>8 DEF TypeOK, PilotStates
<1>11. pilot[p].name # None => pilot'[p].files_truncated = pilot[p].files_truncated
  BY <1>7 DEF TypeOK
<1>9. pilot'[p].refused = pilot[p].refused
        \/ pilot'[p].refused \subseteq {"MODEL_USAGE_INVALID", "MODEL_OUTPUT_BUDGET_EXCEEDED"}
  <2>1. CASE "refused" \in DOMAIN all
    BY <1>4, <1>5, <2>1
  <2>2. CASE "refused" \notin DOMAIN all
    BY <1>4, <2>2 DEF PilotFields
  <2> QED BY <2>1, <2>2
<1>12. pilot'[p].status = "COMPLETED" => pilot[p].status = "COMPLETED" \/ pilot[p].pc = "settle"
  BY <1>6
<1>13. /\ pilot'[p].pc \in Unnamed \cup {"ended"}
       /\ pilot'[p].pc \in Unnamed => pilot[p].pc \in Unnamed
  BY <1>6 DEF Unnamed
<1> QED BY <1>4, <1>6, <1>7, <1>9, <1>10, <1>11, <1>12, <1>13 DEF QuietStep

\* What a pilot that has no name yet may set.
QuietFields(f) ==
    /\ DOMAIN f \subseteq PilotFields \ {"name", "status", "refused"}
    /\ "pc" \in DOMAIN f => f["pc"] \in Unnamed
    /\ "files_truncated" \in DOMAIN f => f["files_truncated"] \in BOOLEAN

LEMMA QuietTogether ==
    ASSUME NEW f, NEW g, QuietFields(f), QuietFields(g)
    PROVE  QuietFields(f ++ g)
<1> DEFINE all == f ++ g
<1>1. DOMAIN all = DOMAIN f \cup DOMAIN g
  BY OverrideDomain, Zenon
<1>2. \A x \in DOMAIN f : all[x] = f[x]
  BY OverrideFirst, Zenon
<1>3. \A x \in DOMAIN g \ DOMAIN f : all[x] = g[x]
  BY OverrideSecond
<1> HIDE DEF all
<1>4. QuietFields(all)
  BY <1>1, <1>2, <1>3 DEF QuietFields
<1> QED BY <1>4 DEF all

LEMMA SetsIsQuiet ==
    ASSUME TypeOK, NEW p \in Pilots, NEW fields, Sets(p, fields), QuietFields(fields),
           pilot[p].pc \in Unnamed, pilot[p].name = None,
           UNCHANGED <<effectKeys, temporaries, reports>>
    PROVE  QuietStep(p)
<1>1. /\ \A q \in Pilots \ {p} : pilot'[q] = pilot[q]
      /\ pilot' = [q \in Pilots |-> pilot'[q]]
      /\ DOMAIN pilot'[p] = DOMAIN fields \cup PilotFields
      /\ \A x \in DOMAIN fields : pilot'[p][x] = fields[x]
      /\ \A x \in PilotFields \ DOMAIN fields : pilot'[p][x] = pilot[p][x]
  BY SetsFields
<1>2. DOMAIN pilot'[p] = PilotFields
  BY <1>1 DEF QuietFields
<1>3. pilot'[p].pc \in Unnamed /\ pilot'[p].files_truncated \in BOOLEAN
  BY <1>1 DEF QuietFields, PilotFields, TypeOK
<1>4. /\ pilot'[p].name = pilot[p].name /\ pilot'[p].status = pilot[p].status
      /\ pilot'[p].refused = pilot[p].refused
  BY <1>1 DEF QuietFields, PilotFields
<1>5. TypeOK'
  BY <1>1, <1>2, <1>3 DEF TypeOK, PilotStates
<1> QED BY <1>1, <1>3, <1>4, <1>5 DEF QuietStep

\* What the pilot is about to report stays; it gets where it goes, and its name.
MovesNamed(p, pc, name) ==
    /\ \A q \in Pilots \ {p} : pilot'[q] = pilot[q]
    /\ TypeOK'
    /\ pilot'[p].pc = pc
    /\ pilot'[p].name = name /\ pilot'[p].status = pilot[p].status
    /\ pilot'[p].draft = pilot[p].draft /\ pilot'[p].records = pilot[p].records
    /\ pilot'[p].files_truncated = pilot[p].files_truncated
    /\ pilot'[p].refused = pilot[p].refused

Moves(p, pc) == MovesNamed(p, pc, pilot[p].name)

LEMMA SetsPcMoves ==
    ASSUME TypeOK, NEW p \in Pilots, NEW pc \in PilotStates, Sets(p, [pc |-> pc])
    PROVE  Moves(p, pc)
<1> DEFINE fields == [pc |-> pc]
<1>1. DOMAIN fields = {"pc"} /\ fields["pc"] = pc
  OBVIOUS
<1> HIDE DEF fields
<1>2. Sets(p, fields)
  BY DEF fields
<1>3. /\ \A q \in Pilots \ {p} : pilot'[q] = pilot[q]
      /\ pilot' = [q \in Pilots |-> pilot'[q]]
      /\ DOMAIN pilot'[p] = DOMAIN fields \cup PilotFields
      /\ \A x \in DOMAIN fields : pilot'[p][x] = fields[x]
      /\ \A x \in PilotFields \ DOMAIN fields : pilot'[p][x] = pilot[p][x]
  BY <1>2, SetsFields
<1>4. DOMAIN pilot'[p] = PilotFields /\ pilot'[p].pc = pc
  BY <1>1, <1>3 DEF PilotFields
<1>5. /\ pilot'[p].name = pilot[p].name /\ pilot'[p].status = pilot[p].status
      /\ pilot'[p].draft = pilot[p].draft /\ pilot'[p].records = pilot[p].records
      /\ pilot'[p].files_truncated = pilot[p].files_truncated
      /\ pilot'[p].refused = pilot[p].refused
  BY <1>1, <1>3 DEF PilotFields
<1>6. TypeOK'
  BY <1>3, <1>4, <1>5 DEF TypeOK
<1> QED BY <1>3, <1>4, <1>5, <1>6 DEF Moves, MovesNamed

-----------------------------------------------------------------------------
(* The scan and the reading of files are quiet, and so is every end.       *)

LEMMA ReturningIsQuiet ==
    ASSUME NEW fields, QuietFields(fields)
    PROVE  QuietFields(ScanReturned(fields))
<1> DEFINE rest == [pc |-> "stat", pending |-> <<>>, visited |-> 0, scanned |-> 0]
<1>1. QuietFields(rest)
  BY DEF QuietFields, PilotFields, Unnamed
<1> HIDE DEF rest
<1>2. QuietFields(fields ++ rest)
  BY <1>1, QuietTogether
<1> QED BY <1>2 DEF ScanReturned, rest

LEMMA EndsIsQuiet ==
    ASSUME TypeOK, NEW p \in Pilots, NEW status, Ends(p, status),
           status = "COMPLETED" => pilot[p].pc = "settle",
           UNCHANGED <<effectKeys, temporaries, reports>>
    PROVE  QuietStep(p)
<1> DEFINE none == <<>>
<1>1. DOMAIN none = {} /\ EndsWith(p, status, none)
  BY DEF Ends
<1> HIDE DEF none
<1> QED BY <1>1, EndIsQuiet

\* A pilot without a name, and the directories and files it looks at.
LEMMA LookingIsQuiet ==
    ASSUME NEW p \in Pilots
    PROVE  QuietFields(Looking(p))
BY DEF Looking, QuietFields, PilotFields

LEMMA NothingIsQuiet == QuietFields(<<>>)
<1> DEFINE none == <<>>
<1>1. DOMAIN none = {}
  OBVIOUS
<1> HIDE DEF none
<1>2. QuietFields(none)
  BY <1>1 DEF QuietFields
<1> QED BY <1>2 DEF none

LEMMA ScanEndsIsQuiet ==
    ASSUME TypeOK, NamesAreOwn, NEW p \in Pilots, ScanEnds(p)
    PROVE  QuietStep(p)
<1>1. /\ pilot[p].pc \in Unnamed /\ pilot[p].name = None
      /\ UNCHANGED <<effectKeys, temporaries, reports>>
  BY DEF ScanEnds, NamesAreOwn, Unnamed
<1>2. QuietFields([files_truncated |-> TRUE])
  BY DEF QuietFields, PilotFields
<1>3. QuietFields(ScanReturned(<<>>)) /\ QuietFields(ScanReturned([files_truncated |-> TRUE]))
  BY <1>2, NothingIsQuiet, ReturningIsQuiet
<1>4. Sets(p, ScanReturned(<<>>)) \/ Sets(p, ScanReturned([files_truncated |-> TRUE]))
  BY DEF ScanEnds
<1> QED BY <1>1, <1>3, <1>4, SetsIsQuiet

LEMMA SkipDirectoryIsQuiet ==
    ASSUME TypeOK, NamesAreOwn, NEW p \in Pilots, SkipDirectory(p)
    PROVE  QuietStep(p)
<1>1. /\ pilot[p].pc \in Unnamed /\ pilot[p].name = None
      /\ UNCHANGED <<effectKeys, temporaries, reports>>
  BY DEF SkipDirectory, Visits, NamesAreOwn, Unnamed
<1>2. QuietFields(Skipped(pilot[p]))
  BY DEF Skipped, QuietFields, PilotFields
<1>3. Sets(p, Looking(p) ++ Skipped(pilot[p]))
  BY DEF SkipDirectory
<1>4. QuietFields(Looking(p) ++ Skipped(pilot[p]))
  BY <1>2, LookingIsQuiet, QuietTogether
<1> QED BY <1>1, <1>3, <1>4, SetsIsQuiet

LEMMA ScanDirectoryIsQuiet ==
    ASSUME TypeOK, NamesAreOwn, NEW p \in Pilots, ScanDirectory(p)
    PROVE  QuietStep(p)
<1>1. /\ pilot[p].pc \in Unnamed /\ pilot[p].name = None
      /\ UNCHANGED <<effectKeys, temporaries, reports>>
  BY DEF ScanDirectory, Visits, NamesAreOwn, Unnamed
<1>2. PICK order : Sets(p, Looking(p) ++ Scanned(pilot[p], tree, order))
  BY DEF ScanDirectory
<1>3. QuietFields(Scanned(pilot[p], tree, order))
  <2>1. QuietFields([files_truncated |-> TRUE])
    BY DEF QuietFields, PilotFields
  <2>2. \A a : QuietFields([files_truncated |-> TRUE, files |-> a])
    BY DEF QuietFields, PilotFields
  <2>3. \A a, b, c, d : QuietFields([visited |-> a, files |-> b, scanned |-> c, pending |-> d])
    BY DEF QuietFields, PilotFields
  <2>4. \/ Scanned(pilot[p], tree, order) = ScanReturned([files_truncated |-> TRUE])
        \/ \E a : Scanned(pilot[p], tree, order) = ScanReturned([files_truncated |-> TRUE, files |-> a])
        \/ \E a, b, c, d : Scanned(pilot[p], tree, order)
                              = [visited |-> a, files |-> b, scanned |-> c, pending |-> d]
    BY DEF Scanned
  <2> QED BY <2>1, <2>2, <2>3, <2>4, ReturningIsQuiet
<1>4. QuietFields(Looking(p) ++ Scanned(pilot[p], tree, order))
  BY <1>3, LookingIsQuiet, QuietTogether
<1> QED BY <1>1, <1>2, <1>4, SetsIsQuiet

LEMMA StatFileIsQuiet ==
    ASSUME TypeOK, NamesAreOwn, NEW p \in Pilots, StatFile(p)
    PROVE  QuietStep(p)
<1>1. /\ pilot[p].pc \in Unnamed /\ pilot[p].name = None
      /\ UNCHANGED <<effectKeys, temporaries, reports>>
  BY DEF StatFile, NamesAreOwn, Unnamed
<1> DEFINE size == Len(tree[Head(pilot[p].files)].bytes)
           look == [pc |-> "read", size |-> size]
<1>2. QuietFields(look) /\ QuietFields([pc |-> "claim"])
  BY DEF QuietFields, PilotFields, Unnamed
<1>3. Sets(p, [pc |-> "claim"]) \/ Ends(p, "raised") \/ Sets(p, Looking(p) ++ look)
  BY DEF StatFile
<1> HIDE DEF look
<1>4. QuietFields(Looking(p) ++ look)
  BY <1>2, LookingIsQuiet, QuietTogether
<1> QED BY <1>1, <1>2, <1>3, <1>4, SetsIsQuiet, EndsIsQuiet

LEMMA ReadFileIsQuiet ==
    ASSUME TypeOK, NamesAreOwn, NEW p \in Pilots, ReadFile(p)
    PROVE  QuietStep(p)
<1>1. /\ pilot[p].pc \in Unnamed /\ pilot[p].name = None
      /\ UNCHANGED <<effectKeys, temporaries, reports>>
  BY DEF ReadFile, NamesAreOwn, Unnamed
<1>2. \A a, b, c, d : QuietFields([pc |-> "stat", files |-> a, size |-> b, records |-> c,
                                   remaining |-> d])
  BY DEF QuietFields, PilotFields, Unnamed
<1>3. Ends(p, "raised") \/ \E fields : QuietFields(fields) /\ Sets(p, Looking(p) ++ fields)
  BY <1>2 DEF ReadFile, Recorded
<1>4. \A fields : QuietFields(fields) => QuietFields(Looking(p) ++ fields)
  BY LookingIsQuiet, QuietTogether
<1> QED BY <1>1, <1>3, <1>4, SetsIsQuiet, EndsIsQuiet

LEMMA ClaimRunIsQuiet ==
    ASSUME TypeOK, NamesAreOwn, NEW p \in Pilots, ClaimRun(p)
    PROVE  QuietStep(p)
<1>1. /\ pilot[p].pc \in Unnamed /\ pilot[p].name = None
      /\ UNCHANGED <<effectKeys, temporaries, reports>>
  BY DEF ClaimRun, NamesAreOwn, Unnamed
<1>2. QuietFields([pc |-> "observer", remaining |-> 0])
  BY DEF QuietFields, PilotFields, Unnamed
<1>3. Ends(p, "ORGANISM_REPLAYED") \/ Sets(p, [pc |-> "observer", remaining |-> 0])
  BY DEF ClaimRun
<1> QED BY <1>1, <1>2, <1>3, SetsIsQuiet, EndsIsQuiet

-----------------------------------------------------------------------------
(* The adapter's results, whatever the server answers.                     *)

\* Every result that was not raised has the form the runner asks for: it can
\* only be refused for the usage it reports.
LEMMA ResultsAreWellFormed ==
    ASSUME DigestsAreExact, NEW identity, NEW call, NEW remaining, NEW reply,
           call.data_classification \in DataClassifications,
           InvokeOllama(identity, call, remaining, reply).status # "RAISED"
    PROVE  ModelResultReasons(InvokeOllama(identity, call, remaining, reply), identity, call)
             \subseteq {"MODEL_USAGE_INVALID", "MODEL_OUTPUT_BUDGET_EXCEEDED"}
<1> DEFINE result == InvokeOllama(identity, call, remaining, reply)
           errors == {"OLLAMA_DEADLINE_EXCEEDED", "OLLAMA_MODEL_NOT_FOUND", "OLLAMA_HTTP_ERROR",
                      "OLLAMA_TIMEOUT", "OLLAMA_UNAVAILABLE", "OLLAMA_TRANSPORT_ERROR",
                      "OLLAMA_RESPONSE_INVALID", "OLLAMA_RESPONSE_TOO_LARGE"}
           terminal(code) == Terminal(identity, call, code)
           output == reply.output
           returned == [status |-> "RETURNED", output |-> output, output_digest |-> Digest(output),
                        provider |-> identity.provider, model |-> identity.model,
                        input_tokens |-> reply.input_tokens, output_tokens |-> reply.output_tokens,
                        cost_microunits |-> 0, contains_secret |-> call.contains_secret,
                        data_classification |-> call.data_classification, error_code |-> None]
<1>1. ErrorOf(reply) \in errors \/ (ErrorOf(reply) = None /\ output # None)
  <2>1. CASE reply.outcome = "http_error" \/ (reply.outcome = "replied" /\ reply.status # 200)
    BY <2>1 DEF ErrorOf
  <2>2. CASE reply.outcome \in {"timeout", "os_error", "exception"}
    BY <2>2 DEF ErrorOf
  <2>3. CASE /\ ~(reply.outcome = "http_error" \/ (reply.outcome = "replied" /\ reply.status # 200))
             /\ reply.outcome \notin {"timeout", "os_error", "exception"}
    BY <2>3 DEF ErrorOf, ReplyUsable
  <2> QED BY <2>1, <2>2, <2>3
<1>2. (\E code \in errors : result = terminal(code)) \/ (result = returned /\ output # None)
  <2>1. CASE remaining <= 0
    <3>1. result = terminal("OLLAMA_DEADLINE_EXCEEDED")
      BY <2>1 DEF InvokeOllama
    <3> QED BY <3>1
  <2>2. CASE ~(remaining <= 0) /\ ErrorOf(reply) # None
    <3>1. result = terminal(ErrorOf(reply)) /\ ErrorOf(reply) \in errors
      BY <1>1, <2>2 DEF InvokeOllama
    <3> QED BY <3>1
  <2>3. CASE ~(remaining <= 0) /\ ErrorOf(reply) = None
    <3>1. result = Returned(identity, output, reply.input_tokens, reply.output_tokens, call)
      BY <2>3 DEF InvokeOllama
    <3>2. output \notin Unusable
      BY <3>1 DEF Returned, Raised
    <3>3. output # None
      BY <1>1, <2>3, NoneAssumption
    <3> QED BY <3>1, <3>2, <3>3 DEF Returned
  <2> QED BY <2>1, <2>2, <2>3
<1>3. ASSUME NEW code \in errors, result = terminal(code)
      PROVE  /\ result.status = "ERROR" /\ result.output = None /\ result.output_digest = None
             /\ result.error_code # None
             /\ result.provider = identity.provider /\ result.model = identity.model
             /\ result.data_classification \in DataClassifications
  <2>1. code # None
    BY NoneAssumption
  <2> HIDE DEF result, errors
  <2> QED BY <1>3, <2>1 DEF Terminal
<1>4. ASSUME result = returned, output # None
      PROVE  /\ result.status = "RETURNED" /\ result.output # None
             /\ result.output_digest = Digest(result.output) /\ result.output_digest # None
             /\ result.error_code = None
             /\ result.provider = identity.provider /\ result.model = identity.model
             /\ result.data_classification \in DataClassifications
  <2>1. Digest(output) # None
    BY DEF DigestsAreExact
  <2> HIDE DEF result, output
  <2> QED BY <1>4, <2>1
<1> HIDE DEF result, errors, terminal, returned, output
<1> SUFFICES ModelResultReasons(result, identity, call)
               \subseteq {"MODEL_USAGE_INVALID", "MODEL_OUTPUT_BUDGET_EXCEEDED"}
  BY DEF result
<1>5. CASE \E code \in errors : result = terminal(code)
  BY <1>3, <1>5 DEF ModelResultReasons
<1>6. CASE result = returned /\ output # None
  BY <1>4, <1>6 DEF ModelResultReasons
<1> QED BY <1>2, <1>5, <1>6

LEMMA CallModelIsQuiet ==
    ASSUME DigestsAreExact, TypeOK, NamesAreOwn, NEW p \in Pilots, CallModel(p)
    PROVE  QuietStep(p)
<1>1. /\ pilot[p].pc \in Unnamed /\ pilot[p].name = None
      /\ UNCHANGED <<effectKeys, temporaries, reports>>
  BY DEF CallModel, NamesAreOwn, Unnamed
<1>2. PICK remaining \in {0, 1}, reply \in Replies :
        Takes(p, InvokeOllama(Identity(p), Call, remaining, reply))
  BY DEF CallModel
<1> DEFINE result == InvokeOllama(Identity(p), Call, remaining, reply)
<1> HIDE DEF result
<1> DEFINE reasons == ModelResultReasons(result, Identity(p), Call)
           total == pilot[p].tokens + result.input_tokens + result.output_tokens
           called == [called |-> TRUE, saw |-> pilot[p].saw]
           refused == [refused |-> reasons]
           analyst == [pc |-> "analyst", tokens |-> total]
           compile == [pc |-> "compile", tokens |-> 0, draft |-> result.output]
           allowed == {"MODEL_USAGE_INVALID", "MODEL_OUTPUT_BUDGET_EXCEEDED"}
<1>3. result.status # "RAISED" => reasons \subseteq allowed
  <2>1. Call.data_classification \in DataClassifications
    BY DEF Call, DataClassifications
  <2> QED BY <2>1, ResultsAreWellFormed DEF result
<1>4. QuietFields(called) /\ QuietFields(analyst) /\ QuietFields(compile)
  <2>1. QuietFields(called)
    BY DEF QuietFields, PilotFields
  <2>2. QuietFields(analyst)
    BY DEF QuietFields, PilotFields, Unnamed
  <2>3. QuietFields(compile)
    BY DEF QuietFields, PilotFields, Unnamed
  <2> QED BY <2>1, <2>2, <2>3
<1>5. /\ DOMAIN called = {"called", "saw"}
      /\ DOMAIN refused = {"refused"} /\ refused["refused"] = reasons
  OBVIOUS
<1>6. \/ \E status \in {"EFFECT_UNCERTAIN", "BLOCK", "FAILED"} : EndsWith(p, status, called)
      \/ reasons \subseteq allowed /\ EndsWith(p, "BLOCK", refused ++ called)
      \/ Sets(p, analyst ++ called)
      \/ Sets(p, compile)
  BY <1>2, <1>3 DEF Takes, result
<1> HIDE DEF called, refused, analyst, compile, reasons, allowed
<1>7. CASE \E status \in {"EFFECT_UNCERTAIN", "BLOCK", "FAILED"} : EndsWith(p, status, called)
  BY <1>1, <1>5, <1>7, EndIsQuiet
<1>8. CASE reasons \subseteq allowed /\ EndsWith(p, "BLOCK", refused ++ called)
  <2> DEFINE fields == refused ++ called
  <2>1. DOMAIN fields = DOMAIN refused \cup DOMAIN called
    BY OverrideDomain
  <2>2. \A x \in DOMAIN refused : fields[x] = refused[x]
    BY OverrideFirst
  <2>3. EndsWith(p, "BLOCK", fields)
    BY <1>8
  <2> HIDE DEF fields
  <2>4. DOMAIN fields = {"refused", "called", "saw"} /\ fields["refused"] \subseteq allowed
    BY <1>5, <1>8, <2>1, <2>2
  <2> QED BY <1>1, <2>3, <2>4, EndIsQuiet DEF allowed
<1>9. CASE Sets(p, analyst ++ called)
  <2>1. QuietFields(analyst ++ called)
    BY <1>4, QuietTogether
  <2> QED BY <1>1, <1>9, <2>1, SetsIsQuiet
<1>10. CASE Sets(p, compile)
  BY <1>1, <1>4, <1>10, SetsIsQuiet
<1> QED BY <1>6, <1>7, <1>8, <1>9, <1>10

LEMMA EndingIsQuiet ==
    ASSUME TypeOK, NEW p \in Pilots,
           Expire(p) \/ WriteFails(p) \/ Settle(p) \/ Crash(p)
    PROVE  QuietStep(p)
<1>1. UNCHANGED <<effectKeys, temporaries, reports>>
  BY DEF Expire, WriteFails, Settle, Crash
<1>2. \E status : Ends(p, status) /\ (status = "COMPLETED" => pilot[p].pc = "settle")
  <2>1. CASE Expire(p)
    BY <2>1 DEF Expire
  <2>2. CASE WriteFails(p)
    BY <2>2 DEF WriteFails
  <2>3. CASE Settle(p)
    BY <2>3 DEF Settle
  <2>4. CASE Crash(p)
    BY <2>4 DEF Crash
  <2> QED BY <2>1, <2>2, <2>3, <2>4
<1> QED BY <1>1, <1>2, EndsIsQuiet

-----------------------------------------------------------------------------
(* The steps that name, claim, write and publish.                          *)

NamingStep(p) ==
    /\ MovesNamed(p, "act", ProposalDigest(p, DOMAIN reports, pilot[p].draft.arguments))
    /\ UNCHANGED <<effectKeys, temporaries, reports>>
    /\ pilot[p].pc = "compile"

ClaimingStep(p) ==
    /\ Moves(p, "write") /\ pilot[p].pc = "act"
    /\ EffectKey(p) \notin effectKeys /\ effectKeys' = effectKeys \cup {EffectKey(p)}
    /\ UNCHANGED <<temporaries, reports>>

StartingStep(p) ==
    /\ Moves(p, "writing") /\ pilot[p].pc = "write"
    /\ temporaries' = [name \in {TemporaryName(pilot[p].name)} |-> None] ++ temporaries
    /\ UNCHANGED <<effectKeys, reports>>

FinishingStep(p) ==
    /\ Moves(p, "replace") /\ pilot[p].pc = "writing"
    /\ temporaries' = [name \in {TemporaryName(pilot[p].name)} |-> Report(p)] ++ temporaries
    /\ UNCHANGED <<effectKeys, reports>>

PublishingStep(p) ==
    /\ Moves(p, "settle") /\ pilot[p].pc = "replace"
    /\ TemporaryName(pilot[p].name) \in DOMAIN temporaries
    /\ reports' = [name \in {pilot[p].name} |-> temporaries[TemporaryName(pilot[p].name)]] ++ reports
    /\ temporaries' = [t \in DOMAIN temporaries \ {TemporaryName(pilot[p].name)} |-> temporaries[t]]
    /\ UNCHANGED effectKeys

LEMMA CompileSteps ==
    ASSUME TypeOK, NEW p \in Pilots, Compile(p)
    PROVE  QuietStep(p) \/ NamingStep(p)
<1> DEFINE name == ProposalDigest(p, DOMAIN reports, pilot[p].draft.arguments)
           named == [pc |-> "act", name |-> name]
<1>1. pilot[p].pc = "compile" /\ UNCHANGED <<effectKeys, temporaries, reports>>
  BY DEF Compile
<1>2. (\E status \in {"BLOCK", "NO_ACTION"} : Ends(p, status)) \/ Sets(p, named)
  BY DEF Compile
<1>3. CASE \E status \in {"BLOCK", "NO_ACTION"} : Ends(p, status)
  BY <1>1, <1>3, EndsIsQuiet
<1>4. CASE Sets(p, named)
  <2>1. DOMAIN named = {"pc", "name"} /\ named["pc"] = "act" /\ named["name"] = name
    OBVIOUS
  <2> HIDE DEF named, name
  <2>2. /\ \A q \in Pilots \ {p} : pilot'[q] = pilot[q]
        /\ pilot' = [q \in Pilots |-> pilot'[q]]
        /\ DOMAIN pilot'[p] = DOMAIN named \cup PilotFields
        /\ \A x \in DOMAIN named : pilot'[p][x] = named[x]
        /\ \A x \in PilotFields \ DOMAIN named : pilot'[p][x] = pilot[p][x]
    BY <1>4, SetsFields
  <2>3. DOMAIN pilot'[p] = PilotFields /\ pilot'[p].pc = "act" /\ pilot'[p].name = name
    BY <2>1, <2>2 DEF PilotFields
  <2>4. /\ pilot'[p].status = pilot[p].status
        /\ pilot'[p].draft = pilot[p].draft /\ pilot'[p].records = pilot[p].records
        /\ pilot'[p].files_truncated = pilot[p].files_truncated
        /\ pilot'[p].refused = pilot[p].refused
    BY <2>1, <2>2 DEF PilotFields
  <2>5. TypeOK'
    BY <2>2, <2>3, <2>4 DEF TypeOK, PilotStates
  <2> QED BY <1>1, <2>2, <2>3, <2>4, <2>5 DEF NamingStep, MovesNamed, name
<1> QED BY <1>2, <1>3, <1>4

LEMMA ClaimEffectSteps ==
    ASSUME TypeOK, NEW p \in Pilots, ClaimEffect(p)
    PROVE  QuietStep(p) \/ ClaimingStep(p)
<1>1. /\ pilot[p].pc = "act" /\ UNCHANGED <<temporaries, reports>>
      /\ effectKeys' = effectKeys \cup {EffectKey(p)}
  BY DEF ClaimEffect
<1>2. CASE EffectKey(p) \in effectKeys
  <2>1. Ends(p, "IDEMPOTENCY_REPLAYED") /\ UNCHANGED effectKeys
    BY <1>1, <1>2 DEF ClaimEffect
  <2> QED BY <1>1, <2>1, EndsIsQuiet
<1>3. CASE EffectKey(p) \notin effectKeys
  <2>1. Sets(p, [pc |-> "write"])
    BY <1>3 DEF ClaimEffect
  <2>2. Moves(p, "write")
    BY <2>1, SetsPcMoves DEF PilotStates, Claimed
  <2> QED BY <1>1, <1>3, <2>2 DEF ClaimingStep
<1> QED BY <1>2, <1>3

LEMMA WritingSteps ==
    ASSUME TypeOK, NEW p \in Pilots
    PROVE  /\ StartWrite(p) => StartingStep(p)
           /\ FinishWrite(p) => FinishingStep(p)
           /\ Publish(p) => PublishingStep(p)
<1>1. \A pc \in {"writing", "replace", "settle"} : Sets(p, [pc |-> pc]) => Moves(p, pc)
  BY SetsPcMoves DEF PilotStates, Claimed
<1>2. StartWrite(p) => StartingStep(p)
  BY <1>1 DEF StartWrite, StartingStep
<1>3. FinishWrite(p) => FinishingStep(p)
  BY <1>1 DEF FinishWrite, FinishingStep
<1>4. Publish(p) => PublishingStep(p)
  BY <1>1 DEF Publish, PublishingStep
<1> QED BY <1>2, <1>3, <1>4

-----------------------------------------------------------------------------
(* The invariant.                                                          *)

\* Two pilots never have the same name.
LEMMA NamesDiffer ==
    ASSUME DigestsAreExact, NamesAreOwn, NEW p \in Pilots, NEW q \in Pilots,
           pilot[p].name # None, pilot[p].name = pilot[q].name
    PROVE  p = q
<1>1. PICK e1 : pilot[p].name = ProposalDigest(p, e1, pilot[p].draft.arguments)
  BY DEF NamesAreOwn
<1>2. PICK e2 : pilot[q].name = ProposalDigest(q, e2, pilot[q].draft.arguments)
  BY DEF NamesAreOwn
<1> DEFINE a == [run |-> p, existing_reports |-> e1, arguments |-> pilot[p].draft.arguments]
           b == [run |-> q, existing_reports |-> e2, arguments |-> pilot[q].draft.arguments]
<1>3. Digest(a) = Digest(b)
  BY <1>1, <1>2 DEF ProposalDigest
<1>4. a.run = p /\ b.run = q
  OBVIOUS
<1> HIDE DEF a, b
<1>5. a = b
  BY <1>3 DEF DigestsAreExact
<1> QED BY <1>4, <1>5

\* What a pilot reports depends on four of its fields.
SameReport(q) ==
    /\ pilot'[q].name = pilot[q].name /\ pilot'[q].draft = pilot[q].draft
    /\ pilot'[q].records = pilot[q].records
    /\ pilot'[q].files_truncated = pilot[q].files_truncated

LEMMA SameReportSameKeys ==
    ASSUME NEW q \in Pilots, SameReport(q)
    PROVE  EffectKey(q)' = EffectKey(q) /\ Report(q)' = Report(q)
BY DEF SameReport, EffectKey, Report, Snapshot

\* The names stay their pilots' when one step changes one pilot.
LEMMA NamesStay ==
    ASSUME NamesAreOwn, NEW p \in Pilots,
           \A q \in Pilots \ {p} : pilot'[q] = pilot[q],
           pilot[p].name # None => pilot'[p].name = pilot[p].name /\ pilot'[p].draft = pilot[p].draft,
           pilot'[p].pc \in Unnamed => pilot'[p].name = None,
           pilot'[p].pc \in {"act"} \cup Claimed => pilot'[p].name # None,
           pilot[p].name = None /\ pilot'[p].name # None =>
              \E existing \in SUBSET ({pilot[q].name : q \in Pilots} \ {None}) :
                  pilot'[p].name = ProposalDigest(p, existing, pilot'[p].draft.arguments)
    PROVE  NamesAreOwn'
<1> DEFINE names == {pilot[q].name : q \in Pilots} \ {None}
<1>1. \A q \in Pilots : pilot[q].name # None => pilot'[q].name = pilot[q].name
  OBVIOUS
<1>2. names \subseteq names'
  <2>1. SUFFICES ASSUME NEW n \in names PROVE n \in names'
    OBVIOUS
  <2>2. PICK q \in Pilots : pilot[q].name = n /\ n # None
    BY <2>1
  <2>3. pilot'[q].name = n
    BY <1>1, <2>2
  <2> QED BY <2>2, <2>3
<1>3. \A q \in Pilots : pilot'[q].name # None =>
        \E existing \in SUBSET names :
            pilot'[q].name = ProposalDigest(q, existing, pilot'[q].draft.arguments)
  <2>1. SUFFICES ASSUME NEW q \in Pilots, pilot'[q].name # None
                 PROVE  \E existing \in SUBSET names :
                           pilot'[q].name = ProposalDigest(q, existing, pilot'[q].draft.arguments)
    OBVIOUS
  <2>2. CASE q # p
    BY <2>1, <2>2 DEF NamesAreOwn
  <2>3. CASE q = p /\ pilot[p].name # None
    BY <2>1, <2>3 DEF NamesAreOwn
  <2>4. CASE q = p /\ pilot[p].name = None
    BY <2>1, <2>4
  <2> QED BY <2>2, <2>3, <2>4
<1>4. \A q \in Pilots : pilot'[q].name # None =>
        \E existing \in SUBSET names' :
            pilot'[q].name = ProposalDigest(q, existing, pilot'[q].draft.arguments)
  <2> HIDE DEF names
  <2> QED BY <1>2, <1>3
<1>5. \A q \in Pilots : /\ pilot'[q].pc \in Unnamed => pilot'[q].name = None
                        /\ pilot'[q].pc \in {"act"} \cup Claimed => pilot'[q].name # None
  BY DEF NamesAreOwn
<1> QED BY <1>4, <1>5 DEF NamesAreOwn, ProposalDigest

LEMMA QuietKeepsInv ==
    ASSUME PilotInv, NEW p \in Pilots, QuietStep(p)
    PROVE  PilotInv'
<1>1. NamesAreOwn'
  <2>1. pilot'[p].pc \notin {"act"} \cup Claimed
    BY DEF QuietStep, Unnamed, Claimed
  <2> QED BY <2>1, NamesStay DEF QuietStep, PilotInv, NamesAreOwn
<1>2. \A q \in Pilots : pilot[q].name # None => SameReport(q)
  BY DEF QuietStep, SameReport
<1>3. \A q \in Pilots : pilot'[q].name = pilot[q].name
  BY DEF QuietStep
<1>4. \A q \in Pilots : Owns(q)' => Owns(q) /\ SameReport(q)
  <2>1. SUFFICES ASSUME NEW q \in Pilots, Owns(q)' PROVE Owns(q) /\ SameReport(q)
    OBVIOUS
  <2>2. pilot[q].name \in DOMAIN reports => pilot[q].name # None
    BY DEF PilotInv, FilesAreOwn
  <2>3. CASE q = p
    <3>1. pilot'[p].pc \notin Claimed
      BY DEF QuietStep, Unnamed, Claimed
    <3>2. pilot[p].name \in DOMAIN reports
      BY <2>1, <2>3, <3>1 DEF Owns, QuietStep
    <3> QED BY <1>2, <2>2, <2>3, <3>2 DEF Owns
  <2>4. CASE q # p
    <3>1. pilot'[q] = pilot[q] /\ reports' = reports
      BY <2>4 DEF QuietStep
    <3> QED BY <2>1, <3>1 DEF Owns, SameReport
  <2> QED BY <2>3, <2>4
<1>5. \A q \in Pilots : Owns(q)' => EffectKey(q)' = EffectKey(q)
  BY <1>4, SameReportSameKeys
<1>6. EffectsAreOwned'
  <2>1. effectKeys' = effectKeys
    BY DEF QuietStep
  <2> QED BY <1>4, <1>5, <2>1 DEF EffectsAreOwned, PilotInv
<1>7. FilesAreOwn'
  <2>1. reports' = reports /\ temporaries' = temporaries
    BY DEF QuietStep
  <2>2. \A q \in Pilots : pilot[q].name # None => Report(q)' = Report(q)
    BY <1>2, SameReportSameKeys
  <2>3. \A name \in DOMAIN reports' :
          name # None /\ \E q \in Pilots : pilot'[q].name = name /\ reports'[name] = Report(q)'
    <3>1. SUFFICES ASSUME NEW name \in DOMAIN reports
                   PROVE  name # None
                          /\ \E q \in Pilots : pilot'[q].name = name /\ reports[name] = Report(q)'
      BY <2>1
    <3>2. name # None /\ \E q \in Pilots : pilot[q].name = name /\ reports[name] = Report(q)
      BY DEF PilotInv, FilesAreOwn
    <3> QED BY <1>3, <2>2, <3>2
  <2>4. \A q \in Pilots :
          /\ pilot'[q].pc = "replace" => q # p
          /\ pilot'[q].pc = "settle" => q # p
          /\ pilot'[q].status = "COMPLETED" => pilot[q].status = "COMPLETED" \/ pilot[q].pc = "settle"
    BY DEF QuietStep, Unnamed
  <2>5. \A q \in Pilots \ {p} : pilot'[q] = pilot[q] /\ Report(q)' = Report(q)
    BY SameReportSameKeys DEF QuietStep, SameReport
  <2>6. \A q \in Pilots : pilot'[q].pc = "replace" =>
          /\ TemporaryName(pilot'[q].name) \in DOMAIN temporaries'
          /\ temporaries'[TemporaryName(pilot'[q].name)] = Report(q)'
    BY <2>1, <2>4, <2>5 DEF PilotInv, FilesAreOwn
  <2>7. \A q \in Pilots : pilot'[q].pc = "settle" \/ pilot'[q].status = "COMPLETED" =>
          pilot'[q].name \in DOMAIN reports'
    BY <1>3, <2>1, <2>4, <2>5 DEF PilotInv, FilesAreOwn
  <2> QED BY <2>3, <2>6, <2>7 DEF FilesAreOwn, TemporaryName
<1>8. AdapterKeepsContract'
  BY DEF QuietStep, PilotInv, AdapterKeepsContract
<1>9. TypeOK'
  BY DEF QuietStep
<1> QED BY <1>1, <1>6, <1>7, <1>8, <1>9 DEF PilotInv

LEMMA NamingKeepsInv ==
    ASSUME DigestsAreExact, PilotInv, NEW p \in Pilots, NamingStep(p)
    PROVE  PilotInv'
<1> USE DEF PilotInv
<1>1. /\ \A q \in Pilots \ {p} : pilot'[q] = pilot[q]
      /\ pilot[p].pc = "compile" /\ pilot[p].name = None
      /\ pilot'[p].pc = "act" /\ pilot'[p].status = pilot[p].status
      /\ pilot'[p].draft = pilot[p].draft /\ pilot'[p].refused = pilot[p].refused
      /\ pilot'[p].name = ProposalDigest(p, DOMAIN reports, pilot[p].draft.arguments)
      /\ effectKeys' = effectKeys /\ reports' = reports /\ temporaries' = temporaries
      /\ TypeOK'
  BY DEF NamingStep, MovesNamed, NamesAreOwn, Unnamed
<1>2. pilot'[p].name # None
  BY <1>1 DEF ProposalDigest, DigestsAreExact
<1>3. DOMAIN reports \in SUBSET ({pilot[q].name : q \in Pilots} \ {None})
  BY DEF FilesAreOwn
<1>4. NamesAreOwn'
  BY <1>1, <1>2, <1>3, NamesStay DEF Unnamed
<1>5. \A q \in Pilots \ {p} : SameReport(q) /\ EffectKey(q)' = EffectKey(q) /\ Report(q)' = Report(q)
  BY <1>1, SameReportSameKeys DEF SameReport
<1>6. pilot'[p].name \notin DOMAIN reports'
  <2>1. SUFFICES ASSUME pilot'[p].name \in DOMAIN reports
                 PROVE  FALSE
    BY <1>1
  <2>2. PICK q \in Pilots : pilot[q].name = pilot'[p].name
    BY <2>1 DEF FilesAreOwn
  <2>3. q # p /\ pilot'[q].name = pilot[q].name
    BY <1>1, <1>2, <2>2
  <2>4. PICK e1 : pilot'[p].name = ProposalDigest(p, e1, pilot[p].draft.arguments)
    BY <1>1
  <2>5. PICK e2 : pilot[q].name = ProposalDigest(q, e2, pilot[q].draft.arguments)
    BY <1>2, <2>2 DEF NamesAreOwn
  <2> DEFINE a == [run |-> p, existing_reports |-> e1, arguments |-> pilot[p].draft.arguments]
             b == [run |-> q, existing_reports |-> e2, arguments |-> pilot[q].draft.arguments]
  <2>6. Digest(a) = Digest(b)
    BY <2>2, <2>4, <2>5 DEF ProposalDigest
  <2>7. a.run = p /\ b.run = q
    OBVIOUS
  <2> HIDE DEF a, b
  <2>8. a = b
    BY <2>6 DEF DigestsAreExact
  <2> QED BY <2>3, <2>7, <2>8
<1>7. EffectsAreOwned'
  <2>1. \A q \in Pilots : Owns(q)' => q # p /\ Owns(q)
    BY <1>1, <1>6 DEF Owns, Claimed
  <2> QED BY <1>1, <1>5, <2>1 DEF EffectsAreOwned
<1>8. FilesAreOwn'
  <2>1. pilot[p].status # "COMPLETED"
    BY <1>1 DEF FilesAreOwn
  <2>2. \A name \in DOMAIN reports' :
          name # None /\ \E q \in Pilots : pilot'[q].name = name /\ reports'[name] = Report(q)'
    <3>1. SUFFICES ASSUME NEW name \in DOMAIN reports
                   PROVE  name # None
                          /\ \E q \in Pilots : pilot'[q].name = name /\ reports[name] = Report(q)'
      BY <1>1
    <3>2. PICK q \in Pilots : name # None /\ pilot[q].name = name /\ reports[name] = Report(q)
      BY DEF FilesAreOwn
    <3>3. q # p
      BY <1>1, <3>2
    <3> QED BY <1>1, <1>5, <3>2, <3>3
  <2>3. \A q \in Pilots : pilot'[q].pc \in {"replace", "settle"} \/ pilot'[q].status = "COMPLETED" =>
          q # p /\ pilot'[q] = pilot[q] /\ Report(q)' = Report(q)
    BY <1>1, <1>5, <2>1
  <2>4. \A q \in Pilots : pilot'[q].pc = "replace" =>
          /\ TemporaryName(pilot'[q].name) \in DOMAIN temporaries'
          /\ temporaries'[TemporaryName(pilot'[q].name)] = Report(q)'
    BY <1>1, <2>3 DEF FilesAreOwn
  <2>5. \A q \in Pilots : pilot'[q].pc = "settle" \/ pilot'[q].status = "COMPLETED" =>
          pilot'[q].name \in DOMAIN reports'
    BY <1>1, <2>3 DEF FilesAreOwn
  <2> QED BY <2>2, <2>4, <2>5 DEF FilesAreOwn, TemporaryName
<1>9. AdapterKeepsContract'
  BY <1>1 DEF AdapterKeepsContract
<1> QED BY <1>1, <1>4, <1>7, <1>8, <1>9

\* The four other steps keep all names and reports, and the contract.
LEMMA MovesKeep ==
    ASSUME PilotInv, NEW p \in Pilots, NEW pc \in Claimed, Moves(p, pc),
           pilot[p].pc \in {"act"} \cup Claimed
    PROVE  /\ \A q \in Pilots : EffectKey(q)' = EffectKey(q) /\ Report(q)' = Report(q)
           /\ \A q \in Pilots : pilot'[q].name = pilot[q].name /\ pilot'[q].status = pilot[q].status
           /\ \A q \in Pilots \ {p} : pilot'[q].pc = pilot[q].pc
           /\ pilot'[p].pc = pc /\ pilot[p].name # None
           /\ NamesAreOwn' /\ AdapterKeepsContract' /\ TypeOK'
<1> USE DEF PilotInv
<1>1. \A q \in Pilots : SameReport(q)
  BY DEF SameReport, Moves, MovesNamed
<1>2. \A q \in Pilots : EffectKey(q)' = EffectKey(q) /\ Report(q)' = Report(q)
  BY <1>1, SameReportSameKeys
<1>3. /\ \A q \in Pilots : pilot'[q].name = pilot[q].name /\ pilot'[q].status = pilot[q].status
      /\ \A q \in Pilots \ {p} : pilot'[q].pc = pilot[q].pc
      /\ pilot'[p].pc = pc /\ pilot[p].name # None
  BY DEF Moves, MovesNamed, NamesAreOwn
<1>4. NamesAreOwn'
  <2>1. pilot'[p].pc \notin Unnamed
    BY <1>3 DEF Unnamed, Claimed
  <2> QED BY <1>3, <2>1, NamesStay DEF Moves, MovesNamed
<1>5. AdapterKeepsContract' /\ TypeOK'
  BY DEF AdapterKeepsContract, Moves, MovesNamed
<1> QED BY <1>2, <1>3, <1>4, <1>5

LEMMA ClaimingKeepsInv ==
    ASSUME PilotInv, NEW p \in Pilots, ClaimingStep(p)
    PROVE  PilotInv'
<1>1. /\ \A q \in Pilots : EffectKey(q)' = EffectKey(q) /\ Report(q)' = Report(q)
      /\ \A q \in Pilots : pilot'[q].name = pilot[q].name /\ pilot'[q].status = pilot[q].status
      /\ \A q \in Pilots \ {p} : pilot'[q].pc = pilot[q].pc
      /\ pilot'[p].pc = "write" /\ pilot[p].name # None
      /\ NamesAreOwn' /\ AdapterKeepsContract' /\ TypeOK'
  BY MovesKeep DEF ClaimingStep, Claimed
<1>2. /\ EffectKey(p) \notin effectKeys /\ effectKeys' = effectKeys \cup {EffectKey(p)}
      /\ reports' = reports /\ temporaries' = temporaries
  BY DEF ClaimingStep
<1>3. \A q \in Pilots \ {p} : Owns(q)' => Owns(q) /\ EffectKey(q) \in effectKeys
  BY <1>1, <1>2 DEF Owns, EffectsAreOwned, PilotInv
<1>4. EffectsAreOwned'
  <2>1. \A q \in Pilots : Owns(q)' => EffectKey(q)' \in effectKeys'
    BY <1>1, <1>2, <1>3
  <2>2. \A q, r \in Pilots : Owns(q)' /\ Owns(r)' /\ EffectKey(r)' = EffectKey(q)' => r = q
    BY <1>1, <1>2, <1>3 DEF EffectsAreOwned, PilotInv
  <2> QED BY <2>1, <2>2 DEF EffectsAreOwned
<1>5. FilesAreOwn'
  BY <1>1, <1>2 DEF FilesAreOwn, PilotInv, TemporaryName
<1> QED BY <1>1, <1>4, <1>5 DEF PilotInv

\* A file of one pilot being written is no other's.
LEMMA WritingKeepsInv ==
    ASSUME DigestsAreExact, PilotInv, NEW p \in Pilots, StartingStep(p) \/ FinishingStep(p)
    PROVE  PilotInv'
<1> DEFINE content == IF pilot[p].pc = "write" THEN None ELSE Report(p)
           own == [name \in {pilot[p].name} |-> content]
<1>1. /\ \A q \in Pilots : EffectKey(q)' = EffectKey(q) /\ Report(q)' = Report(q)
      /\ \A q \in Pilots : pilot'[q].name = pilot[q].name /\ pilot'[q].status = pilot[q].status
      /\ \A q \in Pilots \ {p} : pilot'[q].pc = pilot[q].pc
      /\ pilot'[p].pc \in {"writing", "replace"} /\ pilot[p].name # None
      /\ NamesAreOwn' /\ AdapterKeepsContract' /\ TypeOK'
  <2>1. PICK pc \in {"writing", "replace"} : Moves(p, pc) /\ pilot[p].pc \in Claimed
    BY DEF StartingStep, FinishingStep, Claimed
  <2>2. pc \in Claimed
    BY DEF Claimed
  <2> QED BY <2>1, <2>2, MovesKeep
<1>2. /\ effectKeys' = effectKeys /\ reports' = reports
      /\ pilot[p].pc \in {"write", "writing"}
      /\ pilot'[p].pc = "replace" => pilot[p].pc = "writing"
  BY DEF StartingStep, FinishingStep, Moves, MovesNamed
<1>3. temporaries' = own ++ temporaries
  BY DEF StartingStep, FinishingStep, TemporaryName
<1>4. DOMAIN own = {pilot[p].name} /\ own[pilot[p].name] = content
  OBVIOUS
<1> HIDE DEF own
<1>5. /\ DOMAIN temporaries' = {pilot[p].name} \cup DOMAIN temporaries
      /\ temporaries'[pilot[p].name] = content
      /\ \A t \in DOMAIN temporaries \ {pilot[p].name} : temporaries'[t] = temporaries[t]
  <2>1. DOMAIN (own ++ temporaries) = DOMAIN own \cup DOMAIN temporaries
    BY OverrideDomain
  <2>2. \A x \in DOMAIN own : (own ++ temporaries)[x] = own[x]
    BY OverrideFirst
  <2>3. \A x \in DOMAIN temporaries \ DOMAIN own : (own ++ temporaries)[x] = temporaries[x]
    BY OverrideSecond
  <2> QED BY <1>3, <1>4, <2>1, <2>2, <2>3
<1>6. \A q \in Pilots : Owns(q)' => Owns(q)
  BY <1>1, <1>2 DEF Owns, Claimed
<1>7. EffectsAreOwned'
  BY <1>1, <1>2, <1>6 DEF EffectsAreOwned, PilotInv
<1>8. FilesAreOwn'
  <2>1. \A q \in Pilots : pilot'[q].pc = "replace" =>
          /\ pilot'[q].name \in DOMAIN temporaries'
          /\ temporaries'[pilot'[q].name] = Report(q)'
    <3>1. SUFFICES ASSUME NEW q \in Pilots, pilot'[q].pc = "replace"
                   PROVE  /\ pilot[q].name \in DOMAIN temporaries'
                          /\ temporaries'[pilot[q].name] = Report(q)
      BY <1>1
    <3>2. CASE q = p
      BY <1>2, <1>5, <3>1, <3>2
    <3>3. CASE q # p
      <4>1. pilot[q].name # pilot[p].name
        BY <1>1, <3>3, NamesDiffer DEF PilotInv
      <4>2. pilot[q].name \in DOMAIN temporaries /\ temporaries[pilot[q].name] = Report(q)
        BY <1>1, <3>1, <3>3 DEF PilotInv, FilesAreOwn, TemporaryName
      <4> QED BY <1>5, <4>1, <4>2
    <3> QED BY <3>2, <3>3
  <2>2. \A q \in Pilots : pilot'[q].pc = "settle" => pilot[q].pc = "settle"
    BY <1>1
  <2> QED BY <1>1, <1>2, <2>1, <2>2 DEF FilesAreOwn, PilotInv, TemporaryName
<1> QED BY <1>1, <1>7, <1>8 DEF PilotInv

LEMMA PublishingKeepsInv ==
    ASSUME DigestsAreExact, PilotInv, NEW p \in Pilots, PublishingStep(p)
    PROVE  PilotInv'
<1> DEFINE own == [name \in {pilot[p].name} |-> temporaries[TemporaryName(pilot[p].name)]]
<1>1. /\ \A q \in Pilots : EffectKey(q)' = EffectKey(q) /\ Report(q)' = Report(q)
      /\ \A q \in Pilots : pilot'[q].name = pilot[q].name /\ pilot'[q].status = pilot[q].status
      /\ \A q \in Pilots \ {p} : pilot'[q].pc = pilot[q].pc
      /\ pilot'[p].pc = "settle" /\ pilot[p].name # None
      /\ NamesAreOwn' /\ AdapterKeepsContract' /\ TypeOK'
  BY MovesKeep DEF PublishingStep, Claimed
<1>2. /\ effectKeys' = effectKeys /\ pilot[p].pc = "replace"
      /\ temporaries' = [t \in DOMAIN temporaries \ {pilot[p].name} |-> temporaries[t]]
      /\ reports' = own ++ reports
  BY DEF PublishingStep, TemporaryName
<1>3. DOMAIN own = {pilot[p].name} /\ own[pilot[p].name] = Report(p)
  BY <1>2 DEF PilotInv, FilesAreOwn, TemporaryName
<1> HIDE DEF own
<1>4. /\ DOMAIN reports' = {pilot[p].name} \cup DOMAIN reports
      /\ reports'[pilot[p].name] = Report(p)
      /\ \A name \in DOMAIN reports \ {pilot[p].name} : reports'[name] = reports[name]
  <2>1. DOMAIN (own ++ reports) = DOMAIN own \cup DOMAIN reports
    BY OverrideDomain
  <2>2. \A x \in DOMAIN own : (own ++ reports)[x] = own[x]
    BY OverrideFirst
  <2>3. \A x \in DOMAIN reports \ DOMAIN own : (own ++ reports)[x] = reports[x]
    BY OverrideSecond
  <2> QED BY <1>2, <1>3, <2>1, <2>2, <2>3
<1>5. \A q \in Pilots \ {p} : pilot[q].name # pilot[p].name
  BY <1>1, NamesDiffer DEF PilotInv
<1>6. \A q \in Pilots : Owns(q)' => Owns(q)
  BY <1>1, <1>2, <1>4, <1>5 DEF Owns, Claimed
<1>7. EffectsAreOwned'
  BY <1>1, <1>2, <1>6 DEF EffectsAreOwned, PilotInv
<1>8. FilesAreOwn'
  <2>1. \A name \in DOMAIN reports' :
          name # None /\ \E q \in Pilots : pilot'[q].name = name /\ reports'[name] = Report(q)'
    BY <1>1, <1>4 DEF PilotInv, FilesAreOwn
  <2>2. \A q \in Pilots : pilot'[q].pc = "replace" =>
          pilot'[q].name \in DOMAIN temporaries' /\ temporaries'[pilot'[q].name] = Report(q)'
    BY <1>1, <1>2, <1>5 DEF PilotInv, FilesAreOwn, TemporaryName
  <2>3. \A q \in Pilots : pilot'[q].pc = "settle" \/ pilot'[q].status = "COMPLETED" =>
          pilot'[q].name \in DOMAIN reports'
    BY <1>1, <1>4 DEF PilotInv, FilesAreOwn
  <2> QED BY <2>1, <2>2, <2>3 DEF FilesAreOwn, TemporaryName
<1> QED BY <1>1, <1>7, <1>8 DEF PilotInv

LEMMA StartKeepsInv == Init => PilotInv
<1> SUFFICES ASSUME Init PROVE PilotInv
  OBVIOUS
<1>1. PICK model \in [Pilots -> Models] :
        pilot = [p \in Pilots |->
                  [pc |-> "scan", model |-> model[p], pending |-> << <<>> >>, files |-> <<>>,
                   visited |-> 0, scanned |-> 0, files_truncated |-> FALSE, size |-> 0,
                   remaining |-> MaxTotalExcerptBytes, records |-> <<>>, tokens |-> 0,
                   draft |-> None, name |-> None, status |-> None,
                   saw |-> {}, called |-> FALSE, refused |-> {}]]
  BY DEF Init
<1>2. pilot = [p \in Pilots |-> pilot[p]]
  BY <1>1
<1>3. \A p \in Pilots :
        /\ DOMAIN pilot[p] = PilotFields /\ pilot[p].pc = "scan" /\ pilot[p].name = None
        /\ pilot[p].status = None /\ pilot[p].refused = {} /\ pilot[p].files_truncated = FALSE
  BY <1>1 DEF PilotFields
<1>4. DOMAIN reports = {}
  BY DEF Init
<1>5. TypeOK
  BY <1>2, <1>3 DEF TypeOK, PilotStates, Unnamed
<1>6. NamesAreOwn
  BY <1>3 DEF NamesAreOwn, Claimed
<1>7. EffectsAreOwned
  BY <1>3, <1>4 DEF EffectsAreOwned, Owns, Claimed
<1>8. FilesAreOwn
  BY <1>3, <1>4, NoneAssumption DEF FilesAreOwn
<1>9. AdapterKeepsContract
  BY <1>3 DEF AdapterKeepsContract
<1> QED BY <1>5, <1>6, <1>7, <1>8, <1>9 DEF PilotInv

LEMMA StepKeepsInv ==
    ASSUME DigestsAreExact, PilotInv, [Next]_vars
    PROVE  PilotInv'
<1>1. CASE UNCHANGED <<pilot, effectKeys, temporaries, reports>>
  <2>1. /\ pilot' = pilot /\ effectKeys' = effectKeys
        /\ temporaries' = temporaries /\ reports' = reports
    BY <1>1
  <2>2. \A p \in Pilots : SameReport(p)
    BY <2>1 DEF SameReport
  <2>3. \A p \in Pilots : EffectKey(p)' = EffectKey(p) /\ Report(p)' = Report(p) /\ Owns(p)' = Owns(p)
    BY <2>1, <2>2, SameReportSameKeys DEF Owns
  <2>4. TypeOK' /\ AdapterKeepsContract'
    BY <2>1 DEF PilotInv, TypeOK, AdapterKeepsContract
  <2>5. NamesAreOwn'
    <3> DEFINE names == {pilot[q].name : q \in Pilots} \ {None}
               Named(p) == \E existing \in SUBSET names :
                              pilot[p].name = ProposalDigest(p, existing, pilot[p].draft.arguments)
    <3>1. names' = names
      BY <2>1
    <3>2. \A p \in Pilots : Named(p)' <=> Named(p)
      <4> HIDE DEF names
      <4> QED BY <2>1, <3>1 DEF ProposalDigest
    <3>3. \A p \in Pilots :
            /\ pilot[p].pc \in Unnamed => pilot[p].name = None
            /\ pilot[p].pc \in {"act"} \cup Claimed => pilot[p].name # None
            /\ pilot[p].name # None => Named(p)
      BY DEF PilotInv, NamesAreOwn
    <3> HIDE DEF Named
    <3>4. \A p \in Pilots :
            /\ pilot'[p].pc \in Unnamed => pilot'[p].name = None
            /\ pilot'[p].pc \in {"act"} \cup Claimed => pilot'[p].name # None
            /\ pilot'[p].name # None => Named(p)'
      BY <2>1, <3>2, <3>3
    <3> QED BY <3>4 DEF NamesAreOwn, Named
  <2>6. EffectsAreOwned'
    BY <2>1, <2>3 DEF PilotInv, EffectsAreOwned
  <2>7. FilesAreOwn'
    BY <2>1, <2>3 DEF PilotInv, FilesAreOwn, TemporaryName
  <2> QED BY <2>4, <2>5, <2>6, <2>7 DEF PilotInv
<1>2. ASSUME NEW p \in Pilots,
             \/ ScanEnds(p) \/ SkipDirectory(p) \/ ScanDirectory(p) \/ StatFile(p) \/ ReadFile(p)
             \/ ClaimRun(p) \/ CallModel(p) \/ Expire(p) \/ Compile(p) \/ ClaimEffect(p)
             \/ StartWrite(p) \/ FinishWrite(p) \/ Publish(p) \/ WriteFails(p) \/ Settle(p)
             \/ Crash(p)
      PROVE  PilotInv'
  <2> USE DEF PilotInv
  <2>1. CASE \/ ScanEnds(p) \/ SkipDirectory(p) \/ ScanDirectory(p) \/ StatFile(p) \/ ReadFile(p)
             \/ ClaimRun(p) \/ CallModel(p)
    <3>1. QuietStep(p)
      BY <2>1, ScanEndsIsQuiet, SkipDirectoryIsQuiet, ScanDirectoryIsQuiet, StatFileIsQuiet,
         ReadFileIsQuiet, ClaimRunIsQuiet, CallModelIsQuiet
    <3> QED BY <3>1, QuietKeepsInv
  <2>2. CASE Expire(p) \/ WriteFails(p) \/ Settle(p) \/ Crash(p)
    <3>1. QuietStep(p)
      BY <2>2, EndingIsQuiet
    <3> QED BY <3>1, QuietKeepsInv
  <2>3. CASE Compile(p)
    <3>1. QuietStep(p) \/ NamingStep(p)
      BY <2>3, CompileSteps
    <3> QED BY <3>1, QuietKeepsInv, NamingKeepsInv
  <2>4. CASE ClaimEffect(p)
    <3>1. QuietStep(p) \/ ClaimingStep(p)
      BY <2>4, ClaimEffectSteps
    <3> QED BY <3>1, QuietKeepsInv, ClaimingKeepsInv
  <2>5. CASE StartWrite(p) \/ FinishWrite(p)
    <3>1. StartingStep(p) \/ FinishingStep(p)
      BY <2>5, WritingSteps
    <3> QED BY <3>1, WritingKeepsInv
  <2>6. CASE Publish(p)
    <3>1. PublishingStep(p)
      BY <2>6, WritingSteps
    <3> QED BY <3>1, PublishingKeepsInv
  <2> QED BY <1>2, <2>1, <2>2, <2>3, <2>4, <2>5, <2>6
<1>3. CASE EditTree
  BY <1>1, <1>3 DEF EditTree
<1>4. CASE AllEnded
  BY <1>1, <1>4 DEF AllEnded, vars
<1>5. CASE UNCHANGED vars
  BY <1>1, <1>5 DEF vars
<1> QED BY <1>2, <1>3, <1>4, <1>5 DEF Next

-----------------------------------------------------------------------------
\* However many pilots share the report directory and the claims, fail and are
\* stopped, whatever tree they see and whatever the model server answers: names
\* are their pilots' own, whoever writes a report or has written it claimed its
\* effect alone, and every file of a report is what its pilot wrote.
THEOREM PilotInvHolds ==
    ASSUME DigestsAreExact
    PROVE  Spec => []PilotInv
<1>1. Init => PilotInv
  BY StartKeepsInv
<1>2. PilotInv /\ [Next]_vars => PilotInv'
  BY StepKeepsInv
<1> QED BY <1>1, <1>2, PTL DEF Spec

\* write_report of repository_pilot.py: what can be listed as a report is
\* whole, named by its proposal, claimed, and one for each effect.
THEOREM ReportsAreTrueHolds ==
    ASSUME DigestsAreExact
    PROVE  Spec => []ReportsAreTrue
<1>1. ASSUME PilotInv PROVE ReportsAreTrue
  <2> USE <1>1 DEF PilotInv
  <2>1. \A p \in Pilots : pilot[p].name \in DOMAIN reports => EffectKey(p) \in effectKeys
    BY DEF EffectsAreOwned, Owns
  <2>2. \A p, q \in Pilots :
          {pilot[p].name, pilot[q].name} \subseteq DOMAIN reports /\ EffectKey(p) = EffectKey(q)
            => p = q
    BY DEF EffectsAreOwned, Owns
  <2>3. \A name \in DOMAIN reports :
          \E p \in Pilots : /\ pilot[p].name = name
                            /\ reports[name] = Report(p)
                            /\ EffectKey(p) \in effectKeys
    BY <2>1 DEF FilesAreOwn
  <2>4. \A p \in Pilots : pilot[p].status = "COMPLETED" => pilot[p].name \in DOMAIN reports
    BY DEF FilesAreOwn
  <2> QED BY <2>2, <2>3, <2>4 DEF ReportsAreTrue
<1> QED BY <1>1, PilotInvHolds, PTL

\* OllamaModelAdapter.invoke against validate_model_result: nothing the server
\* answers makes the runner find the form of a result wrong.
THEOREM AdapterKeepsContractHolds ==
    ASSUME DigestsAreExact
    PROVE  Spec => []AdapterKeepsContract
<1>1. PilotInv => AdapterKeepsContract
  BY DEF PilotInv
<1> QED BY <1>1, PilotInvHolds, PTL

=============================================================================
