--------------------------- MODULE EvidenceProofs ---------------------------
(***************************************************************************)
(* What a verification of a bundle shows, for any records, any number of   *)
(* verifications at any time, and edits of others without a bound.         *)
(***************************************************************************)
EXTENDS Evidence, TLAPS

-----------------------------------------------------------------------------
(* The order of the files.                                                 *)

Last == Len(Records) + 2

LEMMA Order ==
    /\ Len(Records) \in Nat /\ Len(FileOrder) = Last
    /\ \A i \in 1..Len(Records) : FileOrder[i] \in Roles
    /\ FileOrder[Last - 1] = "ledger" /\ FileOrder[Last] = "manifest"
    /\ Files = Roles \cup {"ledger", "manifest"}
    /\ Artifacts = Roles \cup {"ledger"}
    /\ \A i \in 1..Last : FileOrder[i] \in Files
    /\ \A a \in Artifacts : \E i \in 1..(Last - 1) : FileOrder[i] = a
    /\ \A i, j \in 1..Last : FileOrder[i] = FileOrder[j] => i = j
<1>1. Records \in Seq(Roles) /\ Len(Records) \in Nat /\ DOMAIN Records = 1..Len(Records)
  BY RecordsAssumption
<1> DEFINE end == <<"ledger", "manifest">>
<1>2. /\ Len(FileOrder) = Last /\ DOMAIN FileOrder = 1..Last
      /\ \A i \in 1..Last : FileOrder[i] = IF i <= Len(Records) THEN Records[i] ELSE end[i - Len(Records)]
  BY <1>1 DEF FileOrder, Last
<1>3. /\ \A i \in 1..Len(Records) : FileOrder[i] = Records[i] /\ Records[i] \in Roles
      /\ FileOrder[Last - 1] = "ledger" /\ FileOrder[Last] = "manifest"
  BY <1>1, <1>2 DEF Last
<1>4. \A r \in Roles : \E i \in 1..Len(Records) : Records[i] = r
  BY <1>1 DEF Roles, Range
<1>5. \A i \in 1..Last : i \in 1..Len(Records) \/ i = Last - 1 \/ i = Last
  BY <1>1 DEF Last
<1>6. \A f : f \in Files <=> \E i \in 1..Last : FileOrder[i] = f
  BY <1>2 DEF Files, Range
<1>7. 1..Len(Records) \subseteq 1..Last /\ Last - 1 \in 1..Last /\ Last \in 1..Last
  BY <1>1 DEF Last
<1>8. Files = Roles \cup {"ledger", "manifest"}
  <2> HIDE DEF end
  <2>1. ASSUME NEW f \in Files PROVE f \in Roles \cup {"ledger", "manifest"}
    BY <1>3, <1>5, <1>6
  <2>2. Roles \subseteq Files
    BY <1>3, <1>4, <1>6, <1>7
  <2> QED BY <1>3, <1>6, <1>7, <2>1, <2>2
<1>9. Artifacts = Roles \cup {"ledger"}
  BY <1>8, RecordsAssumption DEF Artifacts
<1>10. \A a \in Artifacts : \E i \in 1..(Last - 1) : FileOrder[i] = a
  <2>1. 1..Len(Records) \subseteq 1..(Last - 1) /\ Last - 1 \in 1..(Last - 1)
    BY <1>1 DEF Last
  <2> QED BY <1>3, <1>4, <1>9, <2>1
<1>11. ASSUME NEW i \in 1..Last, NEW j \in 1..Last, FileOrder[i] = FileOrder[j] PROVE i = j
  <2>1. CASE i \in 1..Len(Records) /\ j \in 1..Len(Records)
    BY <1>1, <1>3, <1>11, <2>1, RecordsAssumption DEF IsInjective
  <2> QED BY <1>3, <1>5, <1>11, <2>1, RecordsAssumption
<1> QED BY <1>1, <1>2, <1>3, <1>6, <1>8, <1>9, <1>10, <1>11

\* The file at hand, and what is written into it.
LEMMA AtHand ==
    ASSUME next \in 1..Len(FileOrder)
    PROVE  /\ Current \in Files /\ Current \in Names
           /\ Current = "manifest" <=> next = Len(FileOrder)
           /\ Current # "manifest" => Current \in Artifacts /\ next + 1 \in 1..Len(FileOrder)
           /\ Current \in Roles => next < Len(FileOrder) - 1
           /\ Current = "ledger" => next = Len(FileOrder) - 1
<1>0. /\ Last \in Nat /\ Len(FileOrder) = Last /\ next \in 1..Last
      /\ Last - 1 \in 1..Last /\ Last \in 1..Last
      /\ \A i \in 1..Last : i < Last => i + 1 \in 1..Last
      /\ \A i \in 1..Last : i # Last /\ i # Last - 1 => i < Last - 1
  BY Order DEF Last
<1>1. Current \in Files /\ Current \in Names
  BY <1>0, Order DEF Current, Names
<1>2. Current = "manifest" <=> next = Last
  BY <1>0, Order DEF Current
<1>3. Current = "ledger" <=> next = Last - 1
  BY <1>0, Order DEF Current
<1>4. "manifest" \notin Roles /\ "ledger" \notin Roles
  BY RecordsAssumption
<1>5. Current # "manifest" => Current \in Artifacts /\ next + 1 \in 1..Last
  <2>1. next # Last => next + 1 \in 1..Last
    BY <1>0
  <2> QED BY <1>1, <1>2, <2>1 DEF Artifacts
<1>6. Current \in Roles => next < Last - 1
  BY <1>0, <1>2, <1>3, <1>4
<1> QED BY <1>0, <1>1, <1>2, <1>3, <1>5, <1>6

LEMMA PayloadType ==
    ASSUME TypeOK
    PROVE  /\ \A r \in Roles : PayloadOf(r) = Written
           /\ PayloadOf("ledger") = [links |-> TRUE, payload |-> [r \in Roles |-> bound[r]]]
           /\ PayloadOf("ledger") \in Ledgers
           /\ PayloadOf("manifest") = [files |-> bound]
           /\ PayloadOf("manifest") \notin Plain
<1>1. /\ \A r \in Roles : PayloadOf(r) = Written
      /\ PayloadOf("ledger") = [links |-> TRUE, payload |-> [r \in Roles |-> bound[r]]]
      /\ PayloadOf("manifest") = [files |-> bound]
  BY RecordsAssumption DEF PayloadOf
<1>2. PayloadOf("ledger") \in Ledgers
  <2>1. [r \in Roles |-> bound[r]] \in [Roles -> Plain]
    BY DEF TypeOK
  <2>2. \A payload \in [Roles -> Plain] : [links |-> TRUE, payload |-> payload] \in Ledgers
    BY DEF Ledgers
  <2> QED BY <1>1, <2>1, <2>2
<1> QED BY <1>1, <1>2, ContentsAssumption DEF TypeOK

-----------------------------------------------------------------------------
(* The shapes of steps: a change of the directory, a look at it.           *)

\* The writer moves; nothing else does.
Writes ==
    \/ CreateFile \/ FillFile \/ ReadBack \/ WriteFails \/ Crash \/ WriterReturns

\* Somebody else changes one file.
Edits == EditFile \/ RemoveFile \/ AddFile \/ RebuildLedger \/ RebuildManifest

LEMMA NextCases ==
    ASSUME Next
    PROVE  Writes \/ Edits \/ \E v \in Verifiers : Verify(v)
BY DEF Next, Writes, Edits

LEMMA EditShape ==
    ASSUME TypeOK, Edits
    PROVE  \E f \in Names : \E content :
              /\ Edit(f, content)
              /\ f \in Roles => content \in Plain
              /\ f # "manifest" => content \in Plain \cup Ledgers
              /\ f = "manifest" /\ Readable(content) => DOMAIN content.files \subseteq Names
<1> USE DEF Plain
<1>1. "ledger" \in Names /\ "manifest" \in Names /\ Stray \in Names /\ Roles \subseteq Names
      /\ "ledger" \notin Roles /\ Stray \notin Roles /\ "manifest" \notin Roles
  BY Order, RecordsAssumption DEF Names
<1>2. CASE EditFile \/ RemoveFile
  <2>1. PICK f \in Names : Edit(f, Edited) \/ Edit(f, None)
    BY <1>2 DEF EditFile, RemoveFile, Present
  <2>2. Edited \in Plain /\ None \in Plain /\ ~Readable(Edited) /\ ~Readable(None)
    BY DEF Readable
  <2> QED BY <2>1, <2>2
<1>3. CASE AddFile
  <2>1. Edit(Stray, Edited) /\ Edited \in Plain /\ ~Readable(Edited)
    BY <1>3 DEF AddFile, Readable
  <2> QED BY <1>1, <2>1
<1>4. CASE RebuildLedger
  <2>1. PICK linked \in BOOLEAN :
            Edit("ledger", [links |-> linked, payload |-> [r \in Roles |-> disk[r]]])
    BY <1>4 DEF RebuildLedger
  <2>2. [links |-> linked, payload |-> [r \in Roles |-> disk[r]]] \in Ledgers
    BY DEF TypeOK, Ledgers
  <2> QED BY <1>1, <2>1, <2>2
<1>5. CASE RebuildManifest
  <2> DEFINE content == [files |-> [f \in Present \ {"manifest"} |-> disk[f]]]
  <2>1. Edit("manifest", content) /\ DOMAIN content.files \subseteq Names
    BY <1>5 DEF RebuildManifest, Present
  <2> HIDE DEF content
  <2> QED BY <1>1, <2>1
<1> QED BY <1>2, <1>3, <1>4, <1>5 DEF Edits

\* A directory that stays quiet for a verification does not change.
LEMMA QuietMeansUnchanged ==
    ASSUME TypeOK, NEW f \in Names, NEW content, Put(f, content),
           NEW v \in Verifiers, vpc[v] # "idle", quiet'[v]
    PROVE  quiet[v] /\ disk' = disk
BY DEF Put, TypeOK

-----------------------------------------------------------------------------
(* Types.                                                                  *)

LEMMA InitType == Init => TypeOK
<1>1. 1 \in 1..Len(FileOrder)
  BY Order DEF Last
<1>2. Roles \subseteq Artifacts /\ Roles \subseteq Names /\ "manifest" \in Names
  BY Order DEF Names
<1>3. None \in Plain /\ ~Readable(None)
  BY DEF Plain, Readable
<1> QED BY <1>1, <1>2, <1>3 DEF Init, TypeOK, WriterStates

LEMMA WriterType ==
    ASSUME TypeOK, WriterKnowsItsPlace, Writes
    PROVE  TypeOK'
<1> USE DEF TypeOK
<1>0. Partial \in Plain /\ Written \in Plain /\ ~Readable(Partial)
  BY DEF Plain, Readable
<1>1. CASE CreateFile
  <2>1. CASE disk[Current] # None
    BY <1>1, <2>1 DEF CreateFile, WriterStates, verifierVars
  <2>2. CASE disk[Current] = None
    <3>1. Put(Current, Partial) /\ pc' = "filling"
          /\ UNCHANGED <<next, bound, vpc, listed, checked, valid, late, edits, touched>>
      BY <1>1, <2>2 DEF CreateFile, verifierVars
    <3>2. quiet' \in [Verifiers -> BOOLEAN]
      BY <3>1 DEF Put
    <3>3. disk' = [disk EXCEPT ![Current] = Partial] /\ Current \in Names /\ pc' \in WriterStates
      BY <3>1, AtHand DEF Put, WriterStates
    <3>4. \A f \in Names : disk'[f] = IF f = Current THEN Partial ELSE disk[f]
      BY <3>3
    <3>5. "manifest" \in Names /\ Roles \subseteq Names
      BY Order DEF Names
    <3>6. Readable(disk'["manifest"]) => DOMAIN disk'["manifest"].files \subseteq Names
      BY <1>0, <3>4, <3>5
    <3>7. disk' = [f \in Names |-> disk'[f]]
      BY <3>3
    <3>8. /\ \A r \in Roles : disk'[r] \in Plain
          /\ \A f \in Names \ {"manifest"} : disk'[f] \in Plain \cup Ledgers
      BY <1>0, <3>4, <3>5
    <3> QED BY <3>1, <3>2, <3>3, <3>6, <3>7, <3>8
  <2> QED BY <2>1, <2>2
<1>2. CASE FillFile
  <2>0. pc' \in WriterStates /\ UNCHANGED <<next, bound, vpc, listed, checked, valid, late, edits, touched>>
    BY <1>2 DEF FillFile, WriterStates, verifierVars
  <2>1. CASE disk[Current] # Partial
    BY <1>2, <2>0, <2>1 DEF FillFile
  <2>2. CASE disk[Current] = Partial
    <3>1. Put(Current, Payload)
      BY <1>2, <2>2 DEF FillFile
    <3>2. quiet' \in [Verifiers -> BOOLEAN]
      BY <3>1 DEF Put
    <3>3. (Current \in Roles => Payload \in Plain) /\ (Current # "manifest" => Payload \in Plain \cup Ledgers)
      BY <1>0, AtHand, Order, PayloadType DEF Payload
    <3>4. Current = "manifest" => DOMAIN Payload.files \subseteq Names
      <4>1. Current = "manifest" => Payload = [files |-> bound]
        BY PayloadType DEF Payload
      <4>2. DOMAIN [files |-> bound].files = Artifacts /\ Artifacts \subseteq Names
        BY DEF Names, Artifacts
      <4> QED BY <4>1, <4>2
    <3> QED BY <2>0, <3>1, <3>2, <3>3, <3>4, AtHand DEF Put
  <2> QED BY <2>1, <2>2
<1>3. CASE ReadBack
  <2>1. CASE disk[Current] = None
    BY <1>3, <2>1 DEF ReadBack, WriterStates, verifierVars
  <2>2. CASE disk[Current] # None
    <3>1. /\ bound' = [bound EXCEPT ![Current] = disk[Current]]
          /\ next' = next + 1 /\ pc' = "writing"
          /\ UNCHANGED <<disk, vpc, listed, checked, valid, late, edits, touched, quiet>>
      BY <1>3, <2>2 DEF ReadBack, verifierVars
    <3>2. Current # "manifest"
      BY <1>3 DEF ReadBack, WriterKnowsItsPlace
    <3>3. Current \in Artifacts /\ next' \in 1..Len(FileOrder) /\ Current \in Names
      BY <3>1, <3>2, AtHand
    <3>4. disk[Current] \in Plain \cup Ledgers /\ (Current \in Roles => disk[Current] \in Plain)
      BY <3>2, <3>3
    <3> QED BY <3>1, <3>3, <3>4 DEF WriterStates
  <2> QED BY <2>1, <2>2
<1>4. CASE WriteFails \/ Crash \/ WriterReturns
  BY <1>4 DEF WriteFails, Crash, WriterReturns, WriterStates, verifierVars
<1> QED BY <1>1, <1>2, <1>3, <1>4 DEF Writes

LEMMA VerifierType ==
    ASSUME TypeOK, NEW v \in Verifiers, Verify(v)
    PROVE  TypeOK'
<1> USE DEF TypeOK
<1>1. CASE LoadManifest(v)
  BY <1>1 DEF LoadManifest, Proceed, Verdict, writerVars
<1>2. CASE CheckArtifact(v)
  <2>1. PICK f \in DOMAIN listed[v] \ checked[v] :
            /\ checked' = [checked EXCEPT ![v] = @ \cup {f}]
            /\ valid' = [valid EXCEPT ![v] = @ /\ disk[f] # None /\ disk[f] = listed[v][f]]
    BY <1>2 DEF CheckArtifact
  <2>2. checked' \in [Verifiers -> SUBSET Names]
    BY <1>2, <2>1 DEF CheckArtifact
  <2>3. valid' \in [Verifiers -> BOOLEAN]
    BY <2>1
  <2> QED BY <1>2, <2>2, <2>3 DEF CheckArtifact, writerVars
<1>3. CASE CheckInventory(v)
  BY <1>3 DEF CheckInventory, Proceed, writerVars
<1>4. CASE VerifyLedger(v)
  BY <1>4 DEF VerifyLedger, Verdict, writerVars
<1> QED BY <1>1, <1>2, <1>3, <1>4 DEF Verify

LEMMA EditType ==
    ASSUME TypeOK, Edits
    PROVE  TypeOK'
<1>0. PICK f \in Names : \E content :
          /\ Edit(f, content)
          /\ f \in Roles => content \in Plain
          /\ f # "manifest" => content \in Plain \cup Ledgers
          /\ f = "manifest" /\ Readable(content) => DOMAIN content.files \subseteq Names
  BY EditShape
<1>1. PICK content :
          /\ Edit(f, content)
          /\ f \in Roles => content \in Plain
          /\ f # "manifest" => content \in Plain \cup Ledgers
          /\ f = "manifest" /\ Readable(content) => DOMAIN content.files \subseteq Names
  BY <1>0
<1>2. quiet' \in [Verifiers -> BOOLEAN] /\ touched' \subseteq Names
  BY <1>1 DEF Edit, Put, TypeOK
<1>3. /\ disk' = [disk EXCEPT ![f] = content]
      /\ UNCHANGED <<pc, next, bound, vpc, listed, checked, valid, late>>
  BY <1>1 DEF Edit, Put, writerVars, verifierVars
<1> QED BY <1>1, <1>2, <1>3, Order DEF TypeOK, Names

-----------------------------------------------------------------------------
(* A file that nobody else touched is what the writer made of it.          *)

LEMMA FilesInit == Init => FilesFollowWriter
BY Order DEF Init, FilesFollowWriter, Follows, Names, Last

\* The payload of a file is that of the records and artifacts before it.
LEMMA FilesWriter ==
    ASSUME TypeOK, FilesFollowWriter, WriterKnowsItsPlace, Writes
    PROVE  FilesFollowWriter'
<1> SUFFICES ASSUME NEW i \in 1..Len(FileOrder)
             PROVE  Follows(i)'
  BY DEF FilesFollowWriter
<1> DEFINE f == FileOrder[i]
<1>1. /\ next \in 1..Len(FileOrder) /\ next \in Int /\ i \in Int
      /\ f \in Names /\ Current \in Names /\ (f = Current <=> i = next)
      /\ disk = [g \in Names |-> disk[g]]
  BY AtHand, Order DEF TypeOK, Current, Names
<1>2. Follows(i)
  BY DEF FilesFollowWriter
<1>3. UNCHANGED bound => PayloadOf(f)' = PayloadOf(f)
  BY DEF PayloadOf
<1>4. CASE CreateFile
  <2>1. UNCHANGED <<next, bound, touched>> /\ pc = "writing"
    BY <1>4 DEF CreateFile
  <2>2. CASE disk[Current] # None
    <3>1. UNCHANGED disk /\ pc' = "raised"
      BY <1>4, <2>2 DEF CreateFile
    <3> QED BY <1>1, <1>2, <1>3, <2>1, <3>1 DEF Follows
  <2>3. CASE disk[Current] = None
    <3>1. disk' = [disk EXCEPT ![Current] = Partial] /\ pc' = "filling"
      BY <1>4, <2>3 DEF CreateFile, Put
    <3>2. disk'[f] = IF i = next THEN Partial ELSE disk[f]
      BY <1>1, <3>1
    <3> QED BY <1>1, <1>2, <1>3, <2>1, <3>1, <3>2 DEF Follows
  <2> QED BY <2>2, <2>3
<1>5. CASE FillFile
  <2>1. UNCHANGED <<next, bound, touched>> /\ pc = "filling" /\ pc' \in {"reading", "verifying"}
    BY <1>5 DEF FillFile
  <2>2. CASE disk[Current] # Partial
    <3>1. UNCHANGED disk
      BY <1>5, <2>2 DEF FillFile
    <3> QED BY <1>1, <1>2, <1>3, <2>1, <2>2, <3>1 DEF Follows, Current
  <2>3. CASE disk[Current] = Partial
    <3>1. disk' = [disk EXCEPT ![Current] = PayloadOf(Current)]
      BY <1>5, <2>3 DEF FillFile, Put, Payload
    <3>2. disk'[f] = IF i = next THEN PayloadOf(f) ELSE disk[f]
      BY <1>1, <3>1
    <3> QED BY <1>1, <1>2, <1>3, <2>1, <3>2 DEF Follows
  <2> QED BY <2>2, <2>3
<1>6. CASE ReadBack
  <2>1. UNCHANGED <<disk, touched>> /\ pc = "reading" /\ Current # "manifest"
    BY <1>6 DEF ReadBack, WriterKnowsItsPlace
  <2>2. CASE disk[Current] = None
    <3>1. UNCHANGED <<next, bound>> /\ pc' = "raised"
      BY <1>6, <2>2 DEF ReadBack
    <3> QED BY <1>1, <1>2, <1>3, <2>1, <3>1 DEF Follows
  <2>3. CASE disk[Current] # None
    <3>1. bound' = [bound EXCEPT ![Current] = disk[Current]] /\ next' = next + 1 /\ pc' = "writing"
      BY <1>6, <2>3 DEF ReadBack
    <3>2. Current \in Artifacts /\ next # Len(FileOrder)
      BY <1>1, <2>1, AtHand
    <3>3. bound = [a \in Artifacts |-> bound[a]]
      BY DEF TypeOK
    <3>4. i <= next => f \in Artifacts
      BY <1>1, <2>1, <3>2, Order DEF Artifacts
    <3>5. i <= next => bound'[f] = IF i = next THEN disk[f] ELSE bound[f]
      BY <1>1, <3>1, <3>2, <3>3, <3>4
    <3>6. i <= next => PayloadOf(f)' = PayloadOf(f)
      <4>1. CASE f \in Roles
        BY <4>1 DEF PayloadOf
      <4>2. CASE f = "ledger" /\ i <= next
        <5>1. i = Len(FileOrder) - 1
          BY <4>2, Order DEF Last
        <5>2. Current \notin Roles
          BY <1>1, <4>2, <5>1, AtHand, Order DEF Last
        <5>3. \A r \in Roles : bound'[r] = bound[r]
          BY <3>1, <3>3, <5>2, Order
        <5> QED BY <4>2, <5>3 DEF PayloadOf
      <4> QED BY <3>4, <4>1, <4>2, Order
    <3> QED BY <1>1, <1>2, <2>1, <3>1, <3>5, <3>6 DEF Follows
  <2> QED BY <2>2, <2>3
<1>7. CASE WriteFails \/ Crash \/ WriterReturns
  <2>1. UNCHANGED <<disk, next, bound, touched>>
    BY <1>7 DEF WriteFails, Crash, WriterReturns
  <2>2. pc' \in {"raised", "crashed"} \/ (pc = "verifying" /\ pc' = "returned")
    BY <1>7 DEF WriteFails, Crash, WriterReturns
  <2> QED BY <1>1, <1>2, <1>3, <2>1, <2>2 DEF Follows
<1> QED BY <1>4, <1>5, <1>6, <1>7 DEF Writes

LEMMA FilesEdit ==
    ASSUME TypeOK, FilesFollowWriter, Edits
    PROVE  FilesFollowWriter'
<1>1. PICK f \in Names : \E content : Edit(f, content)
  BY EditShape
<1>2. PICK content : Edit(f, content)
  BY <1>1
<1>3. UNCHANGED <<pc, next, bound>> /\ touched' = touched \cup {f} /\ disk' = [disk EXCEPT ![f] = content]
  BY <1>2 DEF Edit, Put, writerVars
<1>4. \A g : g # f => disk'[g] = disk[g]
  BY <1>3 DEF TypeOK
<1>5. \A g : PayloadOf(g)' = PayloadOf(g)
  BY <1>3 DEF PayloadOf
<1> QED BY <1>3, <1>4, <1>5 DEF FilesFollowWriter, Follows

-----------------------------------------------------------------------------
(* The writer knows its place.                                             *)

LEMMA PlaceStep ==
    ASSUME TypeOK, WriterKnowsItsPlace, Next
    PROVE  WriterKnowsItsPlace'
<1> USE DEF WriterKnowsItsPlace
<1>1. CASE Writes
  <2>1. CASE CreateFile \/ FillFile
    BY <2>1 DEF CreateFile, FillFile, Current, verifierVars
  <2>2. CASE ReadBack \/ WriteFails \/ Crash \/ WriterReturns
    BY <2>2 DEF ReadBack, WriteFails, Crash, WriterReturns, Current, verifierVars
  <2> QED BY <1>1, <2>1, <2>2 DEF Writes
<1>2. CASE Edits
  <2>1. UNCHANGED <<pc, next, vpc, valid>>
    BY <1>2, EditShape DEF Edit, writerVars, verifierVars
  <2> QED BY <2>1 DEF Current
<1>3. CASE \E v \in Verifiers : Verify(v)
  <2>1. PICK v \in Verifiers : Verify(v)
    BY <1>3
  <2>2. UNCHANGED <<pc, next>>
    BY <2>1 DEF Verify, LoadManifest, CheckArtifact, CheckInventory, VerifyLedger, writerVars
  <2>3. vpc[v] # "done" /\ \A w \in Verifiers \ {v} : vpc'[w] = vpc[w] /\ valid'[w] = valid[w]
    <3>1. CASE LoadManifest(v)
      BY <3>1 DEF LoadManifest, Proceed, Verdict, TypeOK
    <3>2. CASE CheckArtifact(v)
      BY <3>2 DEF CheckArtifact, TypeOK
    <3>3. CASE CheckInventory(v)
      BY <3>3 DEF CheckInventory, Proceed, TypeOK
    <3>4. CASE VerifyLedger(v)
      BY <3>4 DEF VerifyLedger, Verdict, TypeOK
    <3> QED BY <2>1, <3>1, <3>2, <3>3, <3>4 DEF Verify
  <2> QED BY <2>2, <2>3, RecordsAssumption DEF Current
<1> QED BY <1>1, <1>2, <1>3, NextCases

-----------------------------------------------------------------------------
(* Nobody edits.                                                           *)

\* A manifest that nobody else touched lists what the writer bound.
LEMMA ManifestFound ==
    ASSUME TypeOK, FilesFollowWriter, WriterKnowsItsPlace,
           "manifest" \notin touched, Readable(disk["manifest"])
    PROVE  /\ disk["manifest"] = [files |-> bound]
           /\ {} = touched => BundleIsThere
<1>1. /\ Len(FileOrder) \in 1..Len(FileOrder) /\ FileOrder[Len(FileOrder)] = "manifest"
      /\ next \in 1..Len(FileOrder) /\ Len(FileOrder) \in Int
  BY Order DEF Last, TypeOK
<1>2. Follows(Len(FileOrder))
  BY <1>1 DEF FilesFollowWriter
<1>3. next = Len(FileOrder) /\ disk["manifest"] = PayloadOf("manifest")
  BY <1>1, <1>2 DEF Follows, Readable
<1>4. Current = "manifest"
  BY <1>1, <1>3 DEF Current
<1>5. pc \notin {"writing", "filling", "reading"}
  BY <1>1, <1>2, <1>3, <1>4 DEF Follows, Readable, WriterKnowsItsPlace
<1> QED BY <1>3, <1>4, <1>5, PayloadType DEF BundleIsThere, TypeOK, WriterStates

\* The bundle that is there is the whole bundle.
LEMMA BundleIsWhole ==
    ASSUME TypeOK, FilesFollowWriter, BundleIsThere, touched = {}
    PROVE  /\ Whole
           /\ Readable(disk["manifest"]) /\ disk["manifest"].files = bound /\ DOMAIN bound = Artifacts
           /\ Readable(disk["ledger"]) /\ disk["ledger"].links
           /\ \A r \in Roles : disk["ledger"].payload[r] = bound[r]
<1>1. next = Len(FileOrder)
  BY AtHand DEF BundleIsThere, TypeOK
<1>2. ASSUME NEW a \in Artifacts PROVE disk[a] = PayloadOf(a) /\ bound[a] = disk[a]
  <2>1. PICK i \in 1..(Last - 1) : FileOrder[i] = a
    BY Order
  <2>2. i \in 1..Len(FileOrder) /\ i < next
    BY <1>1, Order DEF Last
  <2> QED BY <2>1, <2>2 DEF FilesFollowWriter, Follows
<1>3. disk["manifest"] = [files |-> bound]
  BY PayloadType DEF BundleIsThere
<1>4. \A r \in Roles : disk[r] = Written /\ disk[r] # None
  BY <1>2, Order, PayloadType, ContentsAssumption
<1>5. /\ disk["ledger"] = [links |-> TRUE, payload |-> [r \in Roles |-> bound[r]]]
      /\ disk["ledger"] \in Ledgers
  BY <1>2, Order, PayloadType
<1>6. Readable(disk["ledger"]) /\ disk["ledger"] # None
  BY <1>5, ContentsAssumption DEF Readable, Plain
<1>7. Readable(disk["manifest"])
  BY <1>3, PayloadType DEF Readable, Plain
<1>8. Whole
  BY <1>2, <1>3, <1>4, <1>6, Order DEF Whole
<1>9. DOMAIN bound = Artifacts
  BY DEF TypeOK
<1> QED BY <1>3, <1>5, <1>6, <1>7, <1>8, <1>9

LEMMA UneditedWriter ==
    ASSUME TypeOK, FilesFollowWriter, UneditedVerification, Writes
    PROVE  UneditedVerification'
<1> SUFFICES ASSUME touched' = {}
             PROVE  disk'[Stray] = None /\ \A v \in Verifiers : UneditedCall(v)'
  BY DEF UneditedVerification
<1>1. UNCHANGED <<touched, vpc, listed, valid, late>>
  BY DEF Writes, CreateFile, FillFile, ReadBack, WriteFails, Crash, WriterReturns, verifierVars
<1>2. disk[Stray] = None /\ \A v \in Verifiers : UneditedCall(v)
  BY <1>1 DEF UneditedVerification
<1>3. disk'[Stray] = disk[Stray]
  <2>1. Current # Stray
    BY AtHand, Order, RecordsAssumption DEF TypeOK, Stray
  <2>2. \A content : Put(Current, content) => disk'[Stray] = disk[Stray]
    BY <2>1 DEF Put, TypeOK
  <2> QED BY <2>2 DEF Writes, CreateFile, FillFile, ReadBack, WriteFails, Crash, WriterReturns
<1>4. BundleIsThere => UNCHANGED bound /\ BundleIsThere'
  <2>1. SUFFICES ASSUME pc \in {"verifying", "returned", "raised", "crashed"}
                 PROVE  /\ UNCHANGED <<disk, next, bound>>
                        /\ pc' \in {"verifying", "returned", "raised", "crashed"}
    BY DEF BundleIsThere, Current, PayloadOf
  <2>2. Crash \/ WriterReturns
    BY <2>1 DEF Writes, CreateFile, FillFile, ReadBack, WriteFails
  <2> QED BY <2>2 DEF Crash, WriterReturns
<1> QED BY <1>1, <1>2, <1>3, <1>4 DEF UneditedCall

LEMMA UneditedVerifier ==
    ASSUME TypeOK, FilesFollowWriter, WriterKnowsItsPlace, UneditedVerification, QuietVerification,
           NEW v \in Verifiers, Verify(v)
    PROVE  UneditedVerification'
<1> SUFFICES ASSUME touched' = {}
             PROVE  disk'[Stray] = None /\ \A w \in Verifiers : UneditedCall(w)'
  BY DEF UneditedVerification
<1>1. UNCHANGED <<disk, pc, next, bound, touched>>
  BY DEF Verify, LoadManifest, CheckArtifact, CheckInventory, VerifyLedger, writerVars
<1>2. disk[Stray] = None /\ \A w \in Verifiers : UneditedCall(w)
  BY <1>1 DEF UneditedVerification
<1>3. BundleIsThere' = BundleIsThere
  BY <1>1 DEF BundleIsThere, Current, PayloadOf
<1>4. ASSUME NEW w \in Verifiers \ {v} PROVE UneditedCall(w)'
  <2>1. vpc'[w] = vpc[w] /\ valid'[w] = valid[w] /\ listed'[w] = listed[w] /\ late'[w] = late[w]
    BY DEF Verify, LoadManifest, CheckArtifact, CheckInventory, VerifyLedger, Proceed, Verdict, TypeOK
  <2> QED BY <1>1, <1>2, <1>3, <2>1 DEF UneditedCall
<1>5. CASE LoadManifest(v)
  <2>1. CASE Readable(disk["manifest"])
    <3>1. BundleIsThere /\ disk["manifest"].files = bound
      BY <1>1, <2>1, ManifestFound
    <3>2. valid[v]
      BY <1>5 DEF LoadManifest, QuietVerification, QuietCall
    <3>3. vpc'[v] = "artifacts" /\ listed'[v] = bound /\ valid'[v]
      BY <1>5, <2>1, <3>1, <3>2 DEF LoadManifest, Proceed, TypeOK
    <3> QED BY <1>1, <1>2, <1>3, <1>4, <3>1, <3>3 DEF UneditedCall
  <2>2. CASE ~Readable(disk["manifest"])
    <3>1. pc \notin {"verifying", "returned"}
      <4>1. SUFFICES ASSUME pc \in {"verifying", "returned"} PROVE FALSE
        OBVIOUS
      <4>2. Current = "manifest" /\ next \in 1..Len(FileOrder) /\ Follows(next)
        BY <4>1 DEF WriterKnowsItsPlace, TypeOK, FilesFollowWriter
      <4>3. disk["manifest"] = PayloadOf("manifest")
        BY <1>1, <4>1, <4>2 DEF Follows, Current
      <4> QED BY <2>2, <4>3, PayloadType DEF Readable, Plain
    <3>2. v # Own
      BY <1>5, <3>1 DEF LoadManifest
    <3>3. vpc'[v] = "done" /\ ~valid'[v] /\ ~late'[v]
      BY <1>5, <2>2, <3>1 DEF LoadManifest, Verdict, TypeOK
    <3> QED BY <1>1, <1>2, <1>4, <3>2, <3>3 DEF UneditedCall
  <2> QED BY <2>1, <2>2
<1>6. CASE ~LoadManifest(v)
  <2>1. vpc[v] \in {"artifacts", "ledger"}
    BY <1>6 DEF Verify, CheckArtifact, CheckInventory, VerifyLedger
  <2>2. BundleIsThere /\ listed[v] = bound /\ valid[v]
    BY <1>2, <2>1 DEF UneditedCall
  <2>3. /\ Whole /\ DOMAIN bound = Artifacts /\ disk["manifest"] # None
        /\ Readable(disk["ledger"]) /\ disk["ledger"].links
        /\ \A r \in Roles : disk["ledger"].payload[r] = bound[r]
    BY <1>1, <2>2, BundleIsWhole DEF Readable
  <2>4. /\ vpc'[v] \in {"artifacts", "ledger", "done"} /\ listed'[v] = bound /\ valid'[v]
    <3>1. CASE CheckArtifact(v)
      BY <2>1, <2>2, <2>3, <3>1 DEF CheckArtifact, Whole, TypeOK
    <3>2. CASE CheckInventory(v)
      <4>1. {f \in Names : disk[f] # None} = ExpectedNames(v)
        BY <1>2, <2>2, <2>3, Order DEF Names, ExpectedNames, Whole
      <4> QED BY <2>2, <2>3, <3>2, <4>1 DEF CheckInventory, Proceed, TypeOK
    <3>3. CASE VerifyLedger(v)
      <4>1. "ledger" \in DOMAIN listed[v] /\ ~LedgerErrors(v)
        BY <2>2, <2>3, Order DEF LedgerErrors
      <4> QED BY <2>2, <3>3, <4>1 DEF VerifyLedger, Verdict, TypeOK
    <3> QED BY <1>6, <3>1, <3>2, <3>3 DEF Verify
  <2> QED BY <1>1, <1>2, <1>3, <1>4, <2>2, <2>4 DEF UneditedCall
<1> QED BY <1>5, <1>6

-----------------------------------------------------------------------------
(* Nothing changes while a verification is made.                           *)

\* Whoever changes the directory disturbs no verification that finds it quiet.
LEMMA QuietOthers ==
    ASSUME TypeOK, QuietVerification, Writes \/ Edits
    PROVE  QuietVerification'
<1> SUFFICES ASSUME NEW v \in Verifiers
             PROVE  QuietCall(v)'
  BY DEF QuietVerification
<1>1. QuietCall(v)
  BY DEF QuietVerification
<1>2. UNCHANGED <<vpc, listed, checked, valid>>
  <2>1. CASE Writes
    BY <2>1 DEF Writes, CreateFile, FillFile, ReadBack, WriteFails, Crash, WriterReturns, verifierVars
  <2>2. CASE Edits
    BY <2>2, EditShape DEF Edit, verifierVars
  <2> QED BY <2>1, <2>2
<1>3. UNCHANGED <<disk, quiet>> \/ \E f \in Names : \E content : Put(f, content)
  <2>1. CASE Writes
    <3>1. Current \in Names
      BY AtHand DEF TypeOK
    <3> QED BY <2>1, <3>1 DEF Writes, CreateFile, FillFile, ReadBack, WriteFails, Crash, WriterReturns
  <2>2. CASE Edits
    BY <2>2, EditShape DEF Edit
  <2> QED BY <2>1, <2>2
<1>4. vpc[v] # "idle" /\ quiet'[v] => quiet[v] /\ disk' = disk
  BY <1>3, QuietMeansUnchanged
<1> QED BY <1>1, <1>2, <1>4 DEF QuietCall

LEMMA QuietVerifier ==
    ASSUME TypeOK, QuietVerification, NEW v \in Verifiers, Verify(v)
    PROVE  QuietVerification'
<1> SUFFICES ASSUME NEW w \in Verifiers
             PROVE  QuietCall(w)'
  BY DEF QuietVerification
<1>1. UNCHANGED <<disk, quiet>>
  BY DEF Verify, LoadManifest, CheckArtifact, CheckInventory, VerifyLedger
<1>2. QuietCall(w) /\ QuietCall(v)
  BY DEF QuietVerification
<1>3. CASE w # v
  <2>1. vpc'[w] = vpc[w] /\ valid'[w] = valid[w] /\ listed'[w] = listed[w] /\ checked'[w] = checked[w]
    BY <1>3 DEF Verify, LoadManifest, CheckArtifact, CheckInventory, VerifyLedger, Proceed, Verdict, TypeOK
  <2> QED BY <1>1, <1>2, <2>1 DEF QuietCall
<1>4. CASE w = v
  <2>1. CASE LoadManifest(v)
    <3>1. vpc[v] = "idle" /\ UNCHANGED checked
      BY <2>1 DEF LoadManifest
    <3>2. CASE Readable(disk["manifest"])
      <4>1. vpc'[v] = "artifacts" /\ listed'[v] = disk["manifest"].files
        BY <2>1, <3>2 DEF LoadManifest, Proceed, TypeOK
      <4> QED BY <1>1, <1>2, <1>4, <3>1, <3>2, <4>1 DEF QuietCall
    <3>3. CASE ~Readable(disk["manifest"])
      <4>1. vpc'[v] = "done" /\ ~valid'[v]
        BY <2>1, <3>3 DEF LoadManifest, Verdict, TypeOK
      <4> QED BY <1>4, <4>1 DEF QuietCall
    <3> QED BY <3>2, <3>3
  <2>2. CASE CheckArtifact(v)
    <3>1. vpc[v] = "artifacts" /\ UNCHANGED <<vpc, listed>>
      BY <2>2 DEF CheckArtifact
    <3>2. PICK f \in DOMAIN listed[v] \ checked[v] :
              /\ checked' = [checked EXCEPT ![v] = @ \cup {f}]
              /\ valid' = [valid EXCEPT ![v] = @ /\ disk[f] # None /\ disk[f] = listed[v][f]]
      BY <2>2 DEF CheckArtifact
    <3>3. checked'[v] = checked[v] \cup {f} /\ (valid'[v] => valid[v] /\ disk[f] = listed[v][f])
      BY <3>2 DEF TypeOK
    <3> QED BY <1>1, <1>2, <1>4, <3>1, <3>3 DEF QuietCall
  <2>3. CASE CheckInventory(v)
    <3>1. vpc[v] = "artifacts" /\ checked[v] = DOMAIN listed[v] /\ UNCHANGED <<listed, checked>>
      BY <2>3 DEF CheckInventory
    <3>2. vpc'[v] = "ledger" /\ (valid'[v] => valid[v] /\ DOMAIN listed[v] = Artifacts)
      BY <2>3 DEF CheckInventory, Proceed, TypeOK
    <3> QED BY <1>1, <1>2, <1>4, <3>1, <3>2 DEF QuietCall
  <2>4. CASE VerifyLedger(v)
    <3>1. vpc[v] = "ledger" /\ UNCHANGED <<listed, checked>>
      BY <2>4 DEF VerifyLedger
    <3>2. vpc'[v] = "done" /\ (valid'[v] => valid[v] /\ ~LedgerErrors(v))
      BY <2>4 DEF VerifyLedger, Verdict, TypeOK
    <3> QED BY <1>1, <1>2, <1>4, <3>1, <3>2 DEF QuietCall, LedgerErrors
  <2> QED BY <2>1, <2>2, <2>3, <2>4 DEF Verify
<1> QED BY <1>3, <1>4

-----------------------------------------------------------------------------
(* The invariant and what it says.                                         *)

\* The invariant holds in every state of every bundle.
THEOREM EvidenceInvHolds == Spec => []EvidenceInv
<1>1. Init => EvidenceInv
  <2> SUFFICES ASSUME Init PROVE EvidenceInv
    OBVIOUS
  <2>1. Stray \in Names /\ pc = "writing"
    BY DEF Init, Names
  <2>2. WriterKnowsItsPlace /\ UneditedVerification /\ QuietVerification
    BY <2>1 DEF Init, WriterKnowsItsPlace, UneditedVerification, UneditedCall, QuietVerification, QuietCall
  <2> QED BY <2>2, InitType, FilesInit DEF EvidenceInv
<1>2. EvidenceInv /\ [Next]_vars => EvidenceInv'
  <2> SUFFICES ASSUME EvidenceInv, [Next]_vars PROVE EvidenceInv'
    OBVIOUS
  <2> USE DEF EvidenceInv
  <2>1. CASE Writes
    <3>1. Next
      BY <2>1 DEF Writes, Next
    <3> QED BY <2>1, <3>1, WriterType, FilesWriter, PlaceStep, UneditedWriter, QuietOthers
  <2>2. CASE Edits
    <3>1. Next
      BY <2>2 DEF Edits, Next
    <3>2. touched' # {}
      BY <2>2, EditShape DEF Edit
    <3>3. UneditedVerification'
      BY <3>2 DEF UneditedVerification
    <3> QED BY <2>2, <3>1, <3>3, EditType, FilesEdit, PlaceStep, QuietOthers
  <2>3. CASE \E v \in Verifiers : Verify(v)
    <3>1. PICK v \in Verifiers : Verify(v)
      BY <2>3
    <3>2. Next
      BY <3>1 DEF Next
    <3>3. UNCHANGED <<disk, pc, next, bound, touched>>
      BY <3>1 DEF Verify, LoadManifest, CheckArtifact, CheckInventory, VerifyLedger, writerVars
    <3>4. FilesFollowWriter'
      BY <3>3 DEF FilesFollowWriter, Follows, PayloadOf
    <3> QED BY <3>1, <3>2, <3>4, VerifierType, PlaceStep, UneditedVerifier, QuietVerifier
  <2>4. CASE UNCHANGED vars
    <3>1. TypeOK' /\ WriterKnowsItsPlace' /\ QuietVerification'
      BY <2>4, ZenonT(40) DEF vars, TypeOK, WriterKnowsItsPlace, Current, QuietVerification, QuietCall
    <3>2. FilesFollowWriter'
      BY <2>4 DEF vars, FilesFollowWriter, Follows, PayloadOf
    <3>3. BundleIsThere' = BundleIsThere
      BY <2>4 DEF vars, BundleIsThere, Current, PayloadOf
    <3>4. UneditedVerification'
      BY <2>4, <3>3 DEF vars, UneditedVerification, UneditedCall
    <3> QED BY <3>1, <3>2, <3>4
  <2> QED BY <2>1, <2>2, <2>3, <2>4, NextCases
<1> QED BY <1>1, <1>2, PTL DEF Spec

\* A bundle nobody edits: a verification that passes saw a whole bundle, also
\* one that ran while it was written, whatever became of the writer; and the
\* writer's own verification passes, as does every one made after it returned.
THEOREM UneditedBundleHolds == Spec => []UneditedBundle
<1>1. EvidenceInv => UneditedBundle
  BY BundleIsWhole DEF EvidenceInv, UneditedBundle, UneditedVerification, UneditedCall
<1> QED BY <1>1, EvidenceInvHolds, PTL

\* A record that is not what the writer bound passes a verification made while
\* nothing changes only if both the ledger and the manifest were made anew.
THEOREM TamperEvidentHolds == Spec => []TamperEvident
<1>1. EvidenceInv => TamperEvident
  <2> SUFFICES ASSUME EvidenceInv, NEW v \in Verifiers, vpc[v] = "done", valid[v], quiet[v],
                      NEW r \in Roles, disk[r] # bound[r]
               PROVE  "ledger" \in touched /\ "manifest" \in touched
    BY DEF TamperEvident
  <2>1. /\ Readable(disk["manifest"]) /\ listed[v] = disk["manifest"].files
        /\ disk[r] = listed[v][r]
        /\ Readable(disk["ledger"]) /\ disk["ledger"].payload[r] = listed[v][r]
    BY Order DEF EvidenceInv, QuietVerification, QuietCall
  <2>2. "manifest" \in touched
    BY <2>1, ManifestFound DEF EvidenceInv
  <2>3. "ledger" \in touched
    <3>1. SUFFICES ASSUME "ledger" \notin touched PROVE FALSE
      OBVIOUS
    <3>2. Last - 1 \in 1..Len(FileOrder) /\ FileOrder[Last - 1] = "ledger" /\ next \in Int /\ Last \in Int
      BY Order DEF EvidenceInv, TypeOK, Last
    <3>3. Follows(Last - 1)
      BY <3>2 DEF EvidenceInv, FilesFollowWriter
    <3>4. disk["ledger"] = PayloadOf("ledger")
      BY <2>1, <3>1, <3>2, <3>3 DEF Follows, Readable
    <3>5. disk["ledger"].payload[r] = bound[r]
      BY <3>4, PayloadType DEF EvidenceInv
    <3> QED BY <2>1, <3>5
  <2> QED BY <2>2, <2>3
<1> QED BY <1>1, EvidenceInvHolds, PTL

=============================================================================
