------------------------ MODULE DatasetVersionsProofs ------------------------
(***************************************************************************)
(* What a dataset keeps of its uploads, profiles and versions, for every   *)
(* number of requests: the type invariant, the invariants the runs check,  *)
(* and the immutability of published versions.                             *)
(*                                                                         *)
(* A handler works from the row it read some time ago, so each invariant   *)
(* of the row needs one about the locals of the requests that are still    *)
(* going to write it.                                                      *)
(***************************************************************************)
EXTENDS DatasetVersions, FiniteSetTheorems, TLAPS

-----------------------------------------------------------------------------
(* The inductive invariant *)

Writing == {"put_version", "record_version"}

\* The job and the data of a request go with its program counter.
CallShapes ==
    \A c \in Calls :
        /\ call[c].pc # "idle" => call[c].ref \in Refs
        /\ call[c].pc = "idle" => call[c].job = "none"
        /\ call[c].pc = "record_upload" => call[c].job = "upload"
        /\ call[c].pc \in {"materialize", "open"} => call[c].job \in {"profile", "finalize"}
        /\ call[c].pc = "record_profile" => call[c].job = "profile" /\ call[c].data \in Contents
        /\ call[c].pc \in Writing => call[c].job = "finalize" /\ call[c].data \in Canonicals

\* A table of versions has numbers 1..k, and k requests at least are done.
Finished == {c \in Calls : call[c].pc = "done"}

Numbered(versions) ==
    \E k \in Nat : k <= Cardinality(Finished) /\ DOMAIN versions = 1..k

TablesNumbered ==
    /\ Numbered(row.versions)
    /\ \A c \in Calls : call[c].pc # "done" => Numbered(call[c].versions)

Met(c, d) == {c, d} \in raced

\* Finalizes under way at once are on record; what one of them has not read of
\* the row as it is was written by a finalize it met, and one that met nobody
\* has read the row as it is.
FinalizesMeet ==
    /\ \A c, d \in Finalizing : c # d => Met(c, d)
    /\ \A c \in Finalizing : \A n \in DOMAIN row.versions :
          \/ n \in DOMAIN call[c].versions /\ call[c].versions[n] = row.versions[n]
          \/ Met(c, author[n])
    /\ \A c \in Finalizing : Alone(c) => call[c].versions = row.versions

\* The version such a request is about to record is in the store.
AboutToRecord ==
    \A c \in Calls : At(c, "record_version") /\ Alone(c) =>
        canonical[NextNumber(call[c].versions)] = call[c].data

Undisturbed == backend = "r2" \/ "swap" \notin history

TableHonest(versions) == \A n \in DOMAIN versions : versions[n].sha = versions[n].data.source

\* What a request has read is what its reference says.
ReadsHonest ==
    Undisturbed =>
        \A c \in Calls :
            /\ call[c].pc # "done" => TableHonest(call[c].versions)
            /\ At(c, "open") /\ backend = "local" =>
                source[call[c].ref.format] = call[c].ref.content
            /\ At(c, "record_profile") => call[c].data = call[c].ref.content
            /\ call[c].pc \in Writing => call[c].data.source = call[c].ref.content

\* The only upload that is not yet on record is the one in the store.
UploadAlone ==
    history \cap {"uploads", "lost_upload"} = {} =>
        /\ \A c, d \in Pending({"record_upload"}) : c = d
        /\ \A c \in Pending({"record_upload"}) : source[call[c].ref.format] = call[c].ref.content

\* Requests that profile do so with the upload on record.
ProfilesCurrent ==
    "moved" \notin history => \A c \in Profiling : call[c].ref = row.upload

IInv ==
    /\ TypeOK /\ CallShapes /\ TablesNumbered
    /\ FinalizesMeet /\ VersionDataIntact /\ AboutToRecord
    /\ HashesHonest /\ ReadsHonest
    /\ UploadIntact /\ UploadAlone
    /\ ProfileFresh /\ ProfilesCurrent

-----------------------------------------------------------------------------
(* Numbers of versions *)

\* A table of k versions is continued with version k + 1.
LEMMA NextOfNumbered ==
    ASSUME NEW k \in Nat, NEW versions, DOMAIN versions = 1..k
    PROVE  NextNumber(versions) = k + 1
<1>1. CASE k = 0
    BY <1>1 DEF NextNumber
<1>2. CASE k # 0
    <2>1. k \in 1..k /\ \A n \in 1..k : k >= n
        BY <1>2
    <2>2. Max(1..k) = k
        BY <2>1 DEF Max
    <2> QED
        BY <1>2, <2>1, <2>2 DEF NextNumber
<1> QED
    BY <1>1, <1>2

\* There are k numbers from 1 to k.
LEMMA IntervalCount == ASSUME NEW k \in Nat PROVE Cardinality(1..k) = k
BY FS_Interval

\* A request that is not done leaves room for its version.
LEMMA RoomForOne ==
    ASSUME NEW c \in Calls, c \notin Finished
    PROVE  /\ Cardinality(Finished) \in Nat /\ Cardinality(Calls) \in Nat
           /\ Cardinality(Finished) + 1 <= Cardinality(Calls)
<1>1. IsFiniteSet(Calls) /\ Cardinality(Calls) \in Nat
    BY DatasetAssumption, FS_CardinalityType
<1>2. Finished \subseteq Calls \ {c}
    BY DEF Finished
<1>3. IsFiniteSet(Calls \ {c}) /\ Cardinality(Calls \ {c}) = Cardinality(Calls) - 1
    BY <1>1, FS_RemoveElement
<1>4. IsFiniteSet(Finished) /\ Cardinality(Finished) <= Cardinality(Calls \ {c})
    BY <1>2, <1>3, FS_Subset
<1>5. Cardinality(Finished) \in Nat
    BY <1>4, FS_CardinalityType
<1> QED
    BY <1>1, <1>3, <1>4, <1>5

\* A request that ends makes one more.
LEMMA OneMoreFinished ==
    ASSUME NEW c \in Calls, c \notin Finished, Finished' = Finished \cup {c}
    PROVE  Cardinality(Finished') = Cardinality(Finished) + 1
<1>1. Finished \subseteq Calls
    BY DEF Finished
<1>2. IsFiniteSet(Finished)
    BY <1>1, DatasetAssumption, FS_Subset
<1>3. Cardinality(Finished \cup {c}) = Cardinality(Finished) + 1
    BY <1>2, FS_AddElement
<1> QED
    BY <1>3

-----------------------------------------------------------------------------
(* The steps of one request *)

Steps(c) ==
    \/ \E f \in Formats, x \in Contents : PutSource(c, f, x)
    \/ RecordUpload(c) \/ Materialize(c)
    \/ ReadForProfile(c) \/ ProfileFile(c) \/ RecordProfile(c)
    \/ ReadForFinalize(c) \/ PutVersion(c) \/ RecordVersion(c)
    \/ \E m \in Manifests : Canonicalize(c, m)
    \/ Abandon(c)

\* A request changes its own progress only, and stays done once it is.
LEMMA OwnCall ==
    ASSUME IInv, NEW c \in Calls, Steps(c)
    PROVE  /\ call[c].pc # "done"
           /\ \A d \in Calls \ {c} : call'[d] = call[d]
BY DEF Steps, IInv, TypeOK, PutSource, RecordUpload, Materialize, ReadForProfile, ProfileFile,
    RecordProfile, ReadForFinalize, PutVersion, RecordVersion, Canonicalize, Abandon, At, Done

\* A step finishes its own call or none.
LEMMA FinishedStep ==
    ASSUME IInv, NEW c \in Calls, Steps(c)
    PROVE  /\ Cardinality(Finished) \in Nat
           /\ Cardinality(Finished') =
                IF call'[c].pc = "done" THEN Cardinality(Finished) + 1 ELSE Cardinality(Finished)
<1>1. c \notin Finished /\ \A d \in Calls \ {c} : call'[d] = call[d]
    BY OwnCall DEF Finished
<1>2. Cardinality(Finished) \in Nat
    BY <1>1, RoomForOne
<1>3. CASE call'[c].pc = "done"
    <2>1. Finished' = Finished \cup {c}
        BY <1>1, <1>3 DEF Finished
    <2> QED
        BY <1>1, <1>2, <1>3, <2>1, OneMoreFinished
<1>4. CASE call'[c].pc # "done"
    <2>1. Finished' = Finished
        BY <1>1, <1>4 DEF Finished
    <2> QED
        BY <1>2, <1>4, <2>1
<1> QED
    BY <1>3, <1>4

\* The table RecordVersion writes: the one it read, and the next number.
LEMMA TableGrows ==
    ASSUME IInv, NEW c \in Calls, RecordVersion(c)
    PROVE  /\ row'.versions \in VersionTables
           /\ \E k \in Nat :
                /\ k + 1 <= Cardinality(Finished) + 1
                /\ DOMAIN call[c].versions = 1..k
                /\ NextNumber(call[c].versions) = k + 1
                /\ DOMAIN row'.versions = 1..(k + 1)
                /\ \A n \in 1..k : row'.versions[n] = call[c].versions[n]
                /\ row'.versions[k + 1] = [data |-> call[c].data, sha |-> call[c].ref.content]
           /\ row' = [row EXCEPT !.state = "ready", !.versions = row'.versions]
<1> DEFINE versions == call[c].versions
           v == [data |-> call[c].data, sha |-> call[c].ref.content]
<1>1. /\ call[c].pc = "record_version" /\ versions \in VersionTables
      /\ v \in [data : Canonicals, sha : Contents]
    BY DEF IInv, TypeOK, CallShapes, RecordVersion, At, Writing, Refs
<1>2. PICK k \in Nat : k <= Cardinality(Finished) /\ DOMAIN versions = 1..k
    BY <1>1 DEF IInv, TablesNumbered, Numbered
<1>3. NextNumber(versions) = k + 1
    BY <1>2, NextOfNumbered
<1>4. row' = [row EXCEPT !.state = "ready",
            !.versions = [n \in (1..k) \cup {k + 1} |-> IF n = k + 1 THEN v ELSE versions[n]]]
    BY <1>2, <1>3 DEF RecordVersion
<1>5. (1..k) \cup {k + 1} = 1..(k + 1) /\ k + 1 \notin 1..k
    OBVIOUS
<1>6. row'.versions = [n \in 1..(k + 1) |-> IF n = k + 1 THEN v ELSE versions[n]]
    BY <1>4, <1>5 DEF IInv, TypeOK
<1>7. k + 1 <= Cardinality(Calls) /\ Cardinality(Calls) \in Nat /\ Cardinality(Finished) \in Nat
    <2>1. c \notin Finished
        BY <1>1 DEF Finished
    <2> QED
        BY <1>2, <2>1, RoomForOne
<1>8. 1..(k + 1) \subseteq Numbers
    BY <1>7 DEF Numbers
<1>9. \A n \in 1..k : versions[n] \in [data : Canonicals, sha : Contents]
    BY <1>1, <1>2 DEF VersionTables
<1>10. row'.versions \in [1..(k + 1) -> [data : Canonicals, sha : Contents]]
    BY <1>1, <1>6, <1>9
<1> HIDE DEF v
<1>11. row'.versions \in VersionTables
    BY <1>8, <1>10 DEF VersionTables
<1>12. row' = [row EXCEPT !.state = "ready", !.versions = row'.versions]
    BY <1>4, <1>5, <1>6
<1>13. k + 1 <= Cardinality(Finished) + 1
    BY <1>2, <1>7
<1> QED
    BY <1>2, <1>3, <1>5, <1>6, <1>11, <1>12, <1>13 DEF v

-----------------------------------------------------------------------------
(* Types *)

RowTyped ==
    /\ DOMAIN row.versions = 1..Cardinality(DOMAIN row.versions)
    /\ row \in [state : {"draft", "uploaded", "profiled", "ready"}, upload : Refs \cup {None},
                profile : Contents \cup {None}, versions : VersionTables]

ObjectsTyped ==
    /\ backend \in Backends
    /\ source \in [Formats -> Contents \cup {None}]
    /\ canonical \in [Numbers -> Canonicals \cup {None}]
    /\ cached \subseteq Refs
    /\ history \subseteq {"uploads", "swap", "moved", "lost_upload"}
    /\ raced \subseteq SUBSET Calls
    /\ author \in [Numbers -> Calls \cup {None}]

CallTyped ==
    call \in [Calls -> [pc : Points, job : {"none", "upload", "profile", "finalize"},
                        ref : Refs \cup {None}, versions : VersionTables,
                        data : Contents \cup Canonicals \cup {None}]]

\* The type invariant by the variables it is about.
LEMMA TypeParts == /\ TypeOK <=> RowTyped /\ ObjectsTyped /\ CallTyped
                   /\ TypeOK' <=> RowTyped' /\ ObjectsTyped' /\ CallTyped'
BY DEF TypeOK, RowTyped, ObjectsTyped, CallTyped

\* The empty table is a table.
LEMMA NoVersionsTyped == NoVersions \in VersionTables
<1>1. {} \in SUBSET Numbers /\ NoVersions \in [{} -> [data : Canonicals, sha : Contents]]
    BY DEF NoVersions
<1> QED
    BY <1>1 DEF VersionTables

\* The row keeps its type.
LEMMA RowStep ==
    ASSUME IInv, NEW c \in Calls, Steps(c)
    PROVE  RowTyped'
<1> USE DEF At, RowTyped
<1>0. RowTyped /\ CallShapes /\ CallTyped
    BY TypeParts DEF IInv
<1>1. CASE RecordUpload(c)
    BY <1>0, <1>1 DEF RecordUpload, CallShapes
<1>2. CASE RecordProfile(c)
    BY <1>0, <1>2 DEF RecordProfile, CallShapes
<1>3. CASE RecordVersion(c)
    <2>1. PICK k \in Nat : DOMAIN row'.versions = 1..(k + 1)
        BY <1>3, TableGrows
    <2>2. Cardinality(1..(k + 1)) = k + 1
        BY IntervalCount
    <2>3. /\ row' = [row EXCEPT !.state = "ready", !.versions = row'.versions]
          /\ row'.versions \in VersionTables
        BY <1>3, TableGrows
    <2> QED
        BY <1>0, <2>1, <2>2, <2>3
<1>4. CASE \/ Materialize(c)
           \/ ReadForProfile(c)
           \/ ProfileFile(c)
           \/ ReadForFinalize(c)
           \/ PutVersion(c)
           \/ (\E f \in Formats, x \in Contents : PutSource(c, f, x))
           \/ (\E m \in Manifests : Canonicalize(c, m))
           \/ Abandon(c)
BY <1>0, <1>4 DEF Materialize, ReadForProfile, ProfileFile, ReadForFinalize, PutVersion,
        PutSource, Canonicalize, Abandon
<1> QED
    BY <1>1, <1>2, <1>3, <1>4 DEF Steps

\* So do the objects and the cache.
LEMMA ObjectsStep ==
    ASSUME IInv, NEW c \in Calls, Steps(c)
    PROVE  ObjectsTyped'
<1> USE DEF At, ObjectsTyped
<1>0. ObjectsTyped /\ CallShapes /\ CallTyped
    BY TypeParts DEF IInv
<1>1. CASE \E f \in Formats, x \in Contents : PutSource(c, f, x)
    BY <1>0, <1>1 DEF PutSource
<1>2. CASE RecordUpload(c)
    BY <1>0, <1>2 DEF RecordUpload
<1>3. CASE Materialize(c)
    BY <1>0, <1>3 DEF Materialize, CallShapes
<1>4. CASE ReadForProfile(c)
    BY <1>0, <1>4 DEF ReadForProfile
<1>5. CASE ProfileFile(c)
    BY <1>0, <1>5 DEF ProfileFile
<1>6. CASE RecordProfile(c)
    BY <1>0, <1>6 DEF RecordProfile
<1>7. CASE ReadForFinalize(c)
    <2>1. Finalizing \subseteq Calls
        BY DEF Finalizing
    <2>2. raced' \subseteq SUBSET Calls
        BY <1>0, <1>7, <2>1 DEF ReadForFinalize
    <2> QED
        BY <1>0, <1>7, <2>2 DEF ReadForFinalize
<1>8. CASE PutVersion(c)
    BY <1>0, <1>8 DEF PutVersion, CallShapes, Writing
<1>9. CASE RecordVersion(c)
    BY <1>0, <1>9 DEF RecordVersion, NoteAuthor
<1>10. CASE \E m \in Manifests : Canonicalize(c, m)
    BY <1>0, <1>10 DEF Canonicalize
<1>11. CASE Abandon(c)
    BY <1>0, <1>11 DEF Abandon
<1> QED
    BY <1>1, <1>2, <1>3, <1>4, <1>5, <1>6, <1>7, <1>8, <1>9, <1>10, <1>11 DEF Steps

\* And the requests.
LEMMA CallStep ==
    ASSUME IInv, NEW c \in Calls, Steps(c)
    PROVE  CallTyped' /\ CallShapes'
<1> USE DEF At, CallTyped, CallShapes, Writing, Points, Done
<1>0. RowTyped /\ ObjectsTyped /\ CallTyped /\ CallShapes
    BY TypeParts DEF IInv
<1>1. CASE \E f \in Formats, x \in Contents : PutSource(c, f, x)
    <2>1. PICK f \in Formats, x \in Contents : PutSource(c, f, x)
        BY <1>1
    <2> QED
        BY <1>0, <2>1, NoVersionsTyped DEF PutSource, IdleCall, Refs
<1>2. CASE RecordUpload(c)
    BY <1>0, <1>2 DEF RecordUpload
<1>3. CASE Materialize(c)
    BY <1>0, <1>3 DEF Materialize
<1>4. CASE ReadForProfile(c)
    BY <1>0, <1>4, NoVersionsTyped DEF ReadForProfile, IdleCall, RowTyped
<1>5. CASE ProfileFile(c)
    BY <1>0, <1>5 DEF ProfileFile, Opened, ObjectsTyped, Refs
<1>6. CASE RecordProfile(c)
    BY <1>0, <1>6 DEF RecordProfile
<1>7. CASE ReadForFinalize(c)
    BY <1>0, <1>7 DEF ReadForFinalize, IdleCall, RowTyped
<1>8. CASE PutVersion(c)
    BY <1>0, <1>8 DEF PutVersion
<1>9. CASE RecordVersion(c)
    BY <1>0, <1>9 DEF RecordVersion
<1>10. CASE \E m \in Manifests : Canonicalize(c, m)
    BY <1>0, <1>10 DEF Canonicalize, Opened, ObjectsTyped, Refs, Canonicals
<1>11. CASE Abandon(c)
    BY <1>0, <1>11 DEF Abandon
<1> QED
    BY <1>1, <1>2, <1>3, <1>4, <1>5, <1>6, <1>7, <1>8, <1>9, <1>10, <1>11 DEF Steps


-----------------------------------------------------------------------------
(* The numbers of versions *)

\* A table that is numbered without gaps stays one as calls finish.
LEMMA NumberedStays ==
    ASSUME IInv, NEW c \in Calls, Steps(c), NEW versions, Numbered(versions)
    PROVE  \E k \in Nat : k <= Cardinality(Finished') /\ DOMAIN versions = 1..k
<1>1. PICK k \in Nat : k <= Cardinality(Finished) /\ DOMAIN versions = 1..k
    BY DEF Numbered
<1>2. Cardinality(Finished) \in Nat /\ Cardinality(Finished) <= Cardinality(Finished')
      /\ Cardinality(Finished') \in Nat
    BY FinishedStep
<1>3. k <= Cardinality(Finished')
    BY <1>2, <1>1
<1> QED
    BY <1>1, <1>3

\* A request reads the table of the row or none at all.
LEMMA TablesFrom ==
    ASSUME IInv, NEW c \in Calls, Steps(c)
    PROVE  \A d \in Calls : call'[d].pc # "done" =>
                \/ call[d].pc # "done" /\ call'[d].versions = call[d].versions
                \/ call'[d].versions \in {NoVersions, row.versions}
<1>0. CallTyped
    BY TypeParts DEF IInv
<1>1. call[c].pc # "done" /\ \A d \in Calls \ {c} : call'[d] = call[d]
    BY OwnCall
<1>2. call'[c].pc # "done" =>
            call'[c].versions \in {call[c].versions, NoVersions, row.versions}
    <2> USE DEF CallTyped, Done
    <2>1. CASE \E f \in Formats, x \in Contents : PutSource(c, f, x)
        BY <1>0, <2>1 DEF PutSource, IdleCall
    <2>2. CASE ReadForProfile(c) \/ ReadForFinalize(c)
        BY <1>0, <2>2 DEF ReadForProfile, ReadForFinalize, IdleCall
    <2>3. CASE RecordUpload(c) \/ RecordProfile(c) \/ RecordVersion(c) \/ Abandon(c)
        BY <1>0, <2>3 DEF RecordUpload, RecordProfile, RecordVersion, Abandon
    <2>4. CASE Materialize(c)
        BY <1>0, <2>4 DEF Materialize
    <2>5. CASE ProfileFile(c) \/ PutVersion(c)
        BY <1>0, <2>5 DEF ProfileFile, PutVersion
    <2>6. CASE \E m \in Manifests : Canonicalize(c, m)
        BY <1>0, <2>6 DEF Canonicalize
    <2> QED
        BY <2>1, <2>2, <2>3, <2>4, <2>5, <2>6 DEF Steps
<1> QED
    BY <1>1, <1>2

\* Only RecordVersion changes the table of the row.
LEMMA RowTable ==
    ASSUME IInv, NEW c \in Calls, Steps(c), row'.versions # row.versions
    PROVE  RecordVersion(c)
<1>0. RowTyped
    BY TypeParts DEF IInv
<1> QED
    BY <1>0 DEF Steps, RowTyped, PutSource, RecordUpload, Materialize, ReadForProfile,
        ProfileFile, RecordProfile, ReadForFinalize, PutVersion, Canonicalize, Abandon

\* The tables of the row and of every call stay numbered.
LEMMA NumberedStep ==
    ASSUME IInv, NEW c \in Calls, Steps(c)
    PROVE  TablesNumbered'
<1>0. TablesNumbered
    BY DEF IInv
<1>1. Cardinality(Finished') \in Nat
    BY FinishedStep
<1>2. \E k \in Nat : k <= Cardinality(Finished') /\ DOMAIN NoVersions = 1..k
    <2>1. 0 <= Cardinality(Finished') /\ DOMAIN NoVersions = 1..0
        BY <1>1 DEF NoVersions
    <2> QED
        BY <2>1
<1>3. \A d \in Calls : call'[d].pc # "done" =>
            \E k \in Nat : k <= Cardinality(Finished') /\ DOMAIN call'[d].versions = 1..k
    BY <1>0, <1>2, TablesFrom, NumberedStays DEF TablesNumbered
<1>4. \E k \in Nat : k <= Cardinality(Finished') /\ DOMAIN row'.versions = 1..k
    <2>1. CASE row'.versions = row.versions
        BY <1>0, <2>1, NumberedStays DEF TablesNumbered
    <2>2. CASE RecordVersion(c)
        <3>1. PICK k \in Nat : k + 1 <= Cardinality(Finished) + 1
                               /\ DOMAIN row'.versions = 1..(k + 1)
            BY <2>2, TableGrows
        <3>2. call'[c].pc = "done"
            BY <2>2 DEF RecordVersion, Done, IInv, TypeOK
        <3>3. Cardinality(Finished') = Cardinality(Finished) + 1
            BY <3>2, FinishedStep
        <3> QED
            BY <3>1, <3>3
    <2> QED
        BY <2>1, <2>2, RowTable
<1> QED
    BY <1>3, <1>4 DEF TablesNumbered, Numbered

-----------------------------------------------------------------------------
(* Versions, and the finalizes that overlapped *)

\* What has happened is not forgotten.
LEMMA HistoryGrows ==
    ASSUME IInv, NEW c \in Calls, Steps(c)
    PROVE  history \subseteq history' /\ raced \subseteq raced' /\ backend' = backend
BY DEF Steps, PutSource, RecordUpload, Materialize, ReadForProfile, ProfileFile, RecordProfile,
    ReadForFinalize, PutVersion, RecordVersion, Canonicalize, Abandon

\* The pairs on record have no order, and stay on record; whoever met somebody
\* was not alone.
LEMMA MetFacts ==
    /\ \A c, d : Met(c, d) <=> Met(d, c)
    /\ \A c, d : Met(c, d) => ~Alone(c) /\ ~Alone(d)
    /\ raced \subseteq raced' => \A c, d : Met(c, d) => Met(c, d)'
<1>1. \A c, d : {c, d} = {d, c} /\ c \in {c, d} /\ d \in {c, d}
    OBVIOUS
<1> QED
    BY <1>1, Zenon DEF Met, Alone

\* Only ReadForFinalize begins a finalize, and only it notes the others.
LEMMA FinalizingFrom ==
    ASSUME IInv, NEW c \in Calls, Steps(c), ~ReadForFinalize(c)
    PROVE  /\ raced' = raced
           /\ \A d \in Calls : call'[d].job = "finalize" /\ call'[d].pc # "done" =>
                d \in Finalizing /\ call'[d].versions = call[d].versions
<1> USE DEF At, Finalizing, CallTyped, CallShapes, Writing, Done, IdleCall
<1>0. CallTyped /\ CallShapes /\ \A d \in Calls \ {c} : call'[d] = call[d]
    BY TypeParts, OwnCall DEF IInv
<1>1. CASE \E f \in Formats, x \in Contents : PutSource(c, f, x)
    BY <1>0, <1>1 DEF PutSource
<1>2. CASE RecordUpload(c)
    BY <1>0, <1>2 DEF RecordUpload
<1>3. CASE Materialize(c)
    BY <1>0, <1>3 DEF Materialize
<1>4. CASE ReadForProfile(c)
    BY <1>0, <1>4 DEF ReadForProfile
<1>5. CASE ProfileFile(c)
    BY <1>0, <1>5 DEF ProfileFile
<1>6. CASE RecordProfile(c)
    BY <1>0, <1>6 DEF RecordProfile
<1>7. CASE PutVersion(c)
    BY <1>0, <1>7 DEF PutVersion
<1>8. CASE RecordVersion(c)
    BY <1>0, <1>8 DEF RecordVersion
<1>9. CASE \E m \in Manifests : Canonicalize(c, m)
    BY <1>0, <1>9 DEF Canonicalize
<1>10. CASE Abandon(c)
    BY <1>0, <1>10 DEF Abandon
<1> QED
    BY <1>1, <1>2, <1>3, <1>4, <1>5, <1>6, <1>7, <1>8, <1>9, <1>10 DEF Steps

\* A version RecordVersion leaves as it is keeps its author; the others are by
\* the request itself.
LEMMA AuthorsStep ==
    ASSUME IInv, NEW c \in Calls, Steps(c), NEW n \in DOMAIN row'.versions
    PROVE  \/ /\ n \in DOMAIN row.versions /\ row'.versions[n] = row.versions[n]
              /\ author'[n] = author[n]
           \/ RecordVersion(c) /\ author'[n] = c
<1>1. CASE RecordVersion(c)
    <2>1. n \in Numbers
        <3>1. row'.versions \in VersionTables
            BY <1>1, TableGrows
        <3>2. PICK D \in SUBSET Numbers : row'.versions \in [D -> [data : Canonicals, sha : Contents]]
            BY <3>1 DEF VersionTables
        <3> QED
            BY <3>2
    <2>2. author' = [x \in Numbers |->
            IF /\ x \in DOMAIN row'.versions
               /\ x \in DOMAIN row.versions => row'.versions[x] # row.versions[x]
            THEN c ELSE author[x]]
        BY <1>1 DEF RecordVersion, NoteAuthor
    <2> QED
        BY <1>1, <2>1, <2>2
<1>2. CASE ~RecordVersion(c)
    <2>1. author' = author
        BY <1>2 DEF Steps, PutSource, RecordUpload, Materialize, ReadForProfile, ProfileFile,
            RecordProfile, ReadForFinalize, PutVersion, Canonicalize, Abandon
    <2> QED
        BY <1>2, <2>1, RowTable
<1> QED
    BY <1>1, <1>2

\* A finalize notes whom it meets when it begins, and they are the only ones
\* that change the row while it works.
LEMMA MeetStep ==
    ASSUME IInv, NEW c \in Calls, Steps(c)
    PROVE  FinalizesMeet'
<1>0. FinalizesMeet /\ CallTyped /\ CallShapes
    BY TypeParts DEF IInv
<1>1. CASE ReadForFinalize(c)
    <2>1. /\ row' = row /\ author' = author
          /\ call'[c].versions = row.versions
          /\ \A d \in Calls \ {c} : call'[d] = call[d]
        BY <1>0, <1>1 DEF ReadForFinalize, CallTyped, IdleCall
    <2>2. \A d \in Finalizing' : d = c \/ d \in Finalizing
        BY <2>1 DEF Finalizing
    <2>3. \A d \in Finalizing : Met(c, d)'
        BY <1>1 DEF ReadForFinalize, Met
    <2>4. \A d, e : (Met(d, e) => Met(d, e)') /\ (Met(d, e)' <=> Met(e, d)')
        <3>1. \A d, e : {d, e} = {e, d}
            OBVIOUS
        <3> QED
            BY <3>1, HistoryGrows, MetFacts, Zenon DEF Met
    <2>5. \A d : Alone(d)' => Alone(d)
        BY HistoryGrows DEF Alone
    <2>6. ASSUME NEW d \in Finalizing', NEW e \in Finalizing', d # e
          PROVE  Met(d, e)'
        <3>1. CASE d = c
            BY <2>2, <2>3, <2>6, <3>1
        <3>2. CASE e = c
            BY <2>2, <2>3, <2>4, <2>6, <3>2
        <3>3. CASE d # c /\ e # c
            BY <1>0, <2>2, <2>4, <2>6, <3>3 DEF FinalizesMeet
        <3> QED
            BY <3>1, <3>2, <3>3
    <2>7. ASSUME NEW d \in Finalizing', NEW n \in DOMAIN row'.versions
          PROVE  \/ n \in DOMAIN call'[d].versions /\ call'[d].versions[n] = row'.versions[n]
                 \/ Met(d, author[n])'
        <3>1. CASE d = c
            BY <2>1, <3>1
        <3>2. CASE d # c
            <4>1. d \in Finalizing /\ d \in Calls /\ call'[d] = call[d]
                BY <2>1, <2>2, <3>2 DEF Finalizing
            <4>2. \/ n \in DOMAIN call[d].versions /\ call[d].versions[n] = row.versions[n]
                  \/ Met(d, author[n])
                BY <1>0, <2>1, <4>1 DEF FinalizesMeet
            <4> QED
                BY <2>1, <2>4, <4>1, <4>2
        <3> QED
            BY <3>1, <3>2
    <2>8. \A d \in Finalizing' : Alone(d)' => call'[d].versions = row'.versions
        <3> SUFFICES ASSUME NEW d \in Finalizing', Alone(d)
                     PROVE  call'[d].versions = row'.versions
            BY <2>5
        <3>1. CASE d = c
            BY <2>1, <3>1
        <3>2. CASE d # c
            <4>1. d \in Calls /\ d \in Finalizing
                BY <2>2, <3>2 DEF Finalizing
            <4> QED
                BY <1>0, <2>1, <3>2, <4>1 DEF FinalizesMeet
        <3> QED
            BY <3>1, <3>2
    <2> QED
        BY <2>6, <2>7, <2>8 DEF FinalizesMeet
<1>2. CASE ~ReadForFinalize(c)
    <2>1. /\ \A d, e : Met(d, e)' <=> Met(d, e)
          /\ \A d : Alone(d)' <=> Alone(d)
        BY <1>2, FinalizingFrom, Zenon DEF Met, Alone
    <2>2. \A d \in Finalizing' : d \in Finalizing /\ call'[d].versions = call[d].versions
        BY <1>2, FinalizingFrom DEF Finalizing
    <2>3. RecordVersion(c) =>
            \A d \in Finalizing' : d # c /\ Met(d, c) /\ ~Alone(d)
        <3> SUFFICES ASSUME RecordVersion(c), NEW d \in Finalizing'
                     PROVE  d # c /\ Met(d, c) /\ ~Alone(d)
            OBVIOUS
        <3>1. d # c
            BY <1>0 DEF RecordVersion, Done, CallTyped, Finalizing
        <3>2. c \in Finalizing
            BY <1>0 DEF RecordVersion, CallShapes, Writing, At, Finalizing
        <3>3. Met(d, c)
            BY <1>0, <2>2, <3>1, <3>2 DEF FinalizesMeet
        <3> QED
            BY <3>1, <3>3, MetFacts
    <2>4. \A d, e \in Finalizing' : d # e => Met(d, e)'
        BY <1>0, <2>1, <2>2 DEF FinalizesMeet
    <2>5. ASSUME NEW d \in Finalizing', NEW n \in DOMAIN row'.versions
          PROVE  \/ n \in DOMAIN call'[d].versions /\ call'[d].versions[n] = row'.versions[n]
                 \/ Met(d, author'[n])
        <3>1. CASE /\ n \in DOMAIN row.versions /\ row'.versions[n] = row.versions[n]
                   /\ author'[n] = author[n]
            BY <1>0, <2>2, <3>1 DEF FinalizesMeet
        <3>2. CASE RecordVersion(c) /\ author'[n] = c
            BY <2>3, <3>2
        <3> QED
            BY <3>1, <3>2, AuthorsStep
    <2>6. \A d \in Finalizing' : Alone(d) => call'[d].versions = row'.versions
        BY <1>0, <2>2, <2>3, RowTable DEF FinalizesMeet
    <2> QED
        BY <2>1, <2>4, <2>5, <2>6 DEF FinalizesMeet
<1> QED
    BY <1>1, <1>2

\* A version is put under a number the row did not have when it was read: it
\* takes the place of data of a finalize it met, or of nobody's.
LEMMA IntactStep ==
    ASSUME IInv, NEW c \in Calls, Steps(c)
    PROVE  VersionDataIntact' /\ AboutToRecord'
<1>0. /\ FinalizesMeet /\ VersionDataIntact /\ AboutToRecord /\ TablesNumbered
      /\ CallTyped /\ CallShapes /\ RowTyped /\ ObjectsTyped
    BY TypeParts DEF IInv
<1>a. \A d : (\A pair \in raced' : d \notin pair) => Alone(d)
    BY HistoryGrows DEF Alone
<1>b. \A d \in Calls : call[d].pc \in Writing => d \in Finalizing
    BY <1>0 DEF CallShapes, Finalizing, Writing
<1>c. \A d \in Calls \ {c} : call'[d] = call[d]
    BY OwnCall
<1>d. \A n \in DOMAIN row'.versions :
        \/ /\ n \in DOMAIN row.versions /\ row'.versions[n] = row.versions[n]
           /\ author'[n] = author[n]
        \/ RecordVersion(c) /\ author'[n] = c
    BY AuthorsStep
<1> SUFFICES /\ \A n \in DOMAIN row'.versions :
                    Alone(author'[n]) => canonical'[n] = row'.versions[n].data
             /\ \A d \in Calls : call'[d].pc = "record_version" /\ Alone(d) =>
                    canonical'[NextNumber(call'[d].versions)] = call'[d].data
    BY <1>a DEF VersionDataIntact, AboutToRecord, At, Alone
<1>e. /\ \A n \in DOMAIN row.versions : Alone(author[n]) => canonical[n] = row.versions[n].data
      /\ \A d \in Calls : call[d].pc = "record_version" /\ Alone(d) =>
            canonical[NextNumber(call[d].versions)] = call[d].data
    BY <1>0 DEF VersionDataIntact, AboutToRecord, At
<1>1. CASE PutVersion(c)
    <2>1. PICK k \in Nat : k <= Cardinality(Finished) /\ DOMAIN call[c].versions = 1..k
        BY <1>0, <1>1 DEF TablesNumbered, Numbered, PutVersion, At
    <2>2. c \notin Finished /\ c \in Finalizing
        BY <1>b, <1>1 DEF PutVersion, Finished, Writing, At
    <2>3. NextNumber(call[c].versions) = k + 1 /\ k + 1 \in Numbers
        BY <2>1, <2>2, NextOfNumbered, RoomForOne DEF Numbers
    <2>4. canonical' = [canonical EXCEPT ![k + 1] = call[c].data] /\ row' = row
        BY <2>3, <1>1 DEF PutVersion
    <2>5. \A n \in DOMAIN row'.versions :
            Alone(author'[n]) => canonical'[n] = row'.versions[n].data
        <3> SUFFICES ASSUME NEW n \in DOMAIN row.versions, Alone(author[n])
                     PROVE  canonical'[n] = row.versions[n].data
            BY <1>1, <2>4 DEF PutVersion
        <3>1. canonical[n] = row.versions[n].data
            BY <1>e
        <3>2. n # k + 1
            BY <1>0, <2>1, <2>2, MetFacts DEF FinalizesMeet
        <3>3. n \in Numbers
            BY <1>0 DEF RowTyped, VersionTables
        <3> QED
            BY <1>0, <2>4, <3>1, <3>2, <3>3 DEF ObjectsTyped
    <2>6. /\ call'[c].versions = call[c].versions
          /\ call'[c].data = call[c].data
          /\ canonical'[NextNumber(call[c].versions)] = call[c].data
        BY <1>0, <2>3, <2>4, <1>1 DEF PutVersion, ObjectsTyped, CallTyped
    <2>7. \A d \in Calls \ {c} : call[d].pc = "record_version" => ~Alone(d)
        BY <1>0, <1>b, <2>2, MetFacts DEF FinalizesMeet, Writing
    <2> QED
        BY <1>c, <2>5, <2>6, <2>7
<1>2. CASE RecordVersion(c)
    <2>1. PICK k \in Nat :
            /\ DOMAIN call[c].versions = 1..k
            /\ NextNumber(call[c].versions) = k + 1
            /\ DOMAIN row'.versions = 1..(k + 1)
            /\ \A n \in 1..k : row'.versions[n] = call[c].versions[n]
            /\ row'.versions[k + 1] = [data |-> call[c].data, sha |-> call[c].ref.content]
        BY <1>2, TableGrows
    <2>2. canonical' = canonical /\ call[c].pc = "record_version" /\ call'[c].pc = "done"
        BY <1>0, <1>2 DEF RecordVersion, At, Done, CallTyped
    <2>3. ASSUME NEW n \in DOMAIN row'.versions, Alone(author'[n])
          PROVE  canonical'[n] = row'.versions[n].data
        <3>1. CASE /\ n \in DOMAIN row.versions /\ row'.versions[n] = row.versions[n]
                   /\ author'[n] = author[n]
            BY <1>e, <2>2, <2>3, <3>1
        <3>2. CASE author'[n] = c /\ n # k + 1
            <4>1. n \in 1..k
                BY <2>1, <2>3, <3>2
            <4>2. call[c].versions = row.versions
                BY <1>0, <1>b, <2>2, <2>3, <3>2 DEF FinalizesMeet, Writing
            <4>3. n \in DOMAIN row.versions /\ row'.versions[n] = row.versions[n]
                BY <2>1, <4>1, <4>2
            <4>4. author'[n] = author[n]
                BY <1>2, <4>1, <4>3, <1>0 DEF RecordVersion, NoteAuthor, RowTyped, VersionTables
            <4> QED
                BY <1>e, <2>2, <2>3, <4>3, <4>4
        <3>3. CASE author'[n] = c /\ n = k + 1
            BY <1>e, <2>1, <2>2, <2>3, <3>3
        <3> QED
            BY <1>d, <2>3, <3>1, <3>2, <3>3
    <2> QED
        BY <1>c, <1>e, <2>2, <2>3
<1>3. CASE ~PutVersion(c) /\ ~RecordVersion(c)
    <2>1. canonical' = canonical
        BY <1>3 DEF Steps, PutSource, RecordUpload, Materialize, ReadForProfile, ProfileFile,
            RecordProfile, ReadForFinalize, Canonicalize, Abandon
    <2>2. \A n \in DOMAIN row'.versions :
            Alone(author'[n]) => canonical'[n] = row'.versions[n].data
        BY <1>d, <1>e, <1>3, <2>1
    <2>3. call'[c].pc # "record_version"
        BY <1>0, <1>3 DEF Steps, PutSource, RecordUpload, Materialize, ReadForProfile, ProfileFile,
            RecordProfile, ReadForFinalize, Canonicalize, Abandon, Done, IdleCall, CallTyped, At
    <2> QED
        BY <1>c, <1>e, <2>1, <2>2, <2>3
<1> QED
    BY <1>1, <1>2, <1>3

-----------------------------------------------------------------------------
(* What requests read of uploads *)

\* A reference is honoured unless an upload comes between check and use.
LEMMA ReadsStep ==
    ASSUME IInv, NEW c \in Calls, Steps(c)
    PROVE  ReadsHonest'
<1>0. /\ ReadsHonest /\ HashesHonest /\ CallTyped /\ CallShapes /\ RowTyped /\ ObjectsTyped
    BY TypeParts DEF IInv
<1> SUFFICES ASSUME Undisturbed'
             PROVE  \A d \in Calls :
                        /\ call'[d].pc # "done" => TableHonest(call'[d].versions)
                        /\ call'[d].pc = "open" /\ backend' = "local" =>
                            source'[call'[d].ref.format] = call'[d].ref.content
                        /\ call'[d].pc = "record_profile" => call'[d].data = call'[d].ref.content
                        /\ call'[d].pc \in Writing =>
                            call'[d].data.source = call'[d].ref.content
    BY DEF ReadsHonest, At, TableHonest
<1>a. Undisturbed /\ backend' = backend
    BY HistoryGrows DEF Undisturbed
<1>b. TableHonest(NoVersions) /\ TableHonest(row.versions)
    BY <1>0, <1>a DEF TableHonest, NoVersions, HashesHonest, Undisturbed
<1>c. \A d \in Calls : call'[d].pc # "done" => TableHonest(call'[d].versions)
    BY <1>0, <1>a, <1>b, TablesFrom DEF ReadsHonest
<1>d. \A d \in Calls :
            /\ call[d].pc = "open" /\ backend = "local" =>
                source[call[d].ref.format] = call[d].ref.content
            /\ call[d].pc = "record_profile" => call[d].data = call[d].ref.content
            /\ call[d].pc \in Writing => call[d].data.source = call[d].ref.content
    BY <1>0, <1>a DEF ReadsHonest, At
<1> USE <1>a, <1>c, <1>d DEF At, CallTyped, Done, IdleCall, Writing
<1>1. CASE \E f \in Formats, x \in Contents : PutSource(c, f, x)
    <2>1. PICK f \in Formats, x \in Contents : PutSource(c, f, x)
        BY <1>1
    <2>2. backend = "local" => \A d \in Calls : call[d].pc # "open"
        BY <2>1 DEF PutSource, Pending, Undisturbed
    <2> QED
        BY <1>0, <2>1, <2>2 DEF PutSource
<1>2. CASE RecordUpload(c)
    BY <1>0, <1>2 DEF RecordUpload
<1>3. CASE Materialize(c)
    BY <1>0, <1>3 DEF Materialize
<1>4. CASE ReadForProfile(c)
    BY <1>0, <1>4 DEF ReadForProfile
<1>5. CASE ProfileFile(c)
    BY <1>0, <1>5 DEF ProfileFile, Opened
<1>6. CASE RecordProfile(c)
    BY <1>0, <1>6 DEF RecordProfile
<1>7. CASE ReadForFinalize(c)
    BY <1>0, <1>7 DEF ReadForFinalize
<1>8. CASE PutVersion(c)
    BY <1>0, <1>8 DEF PutVersion
<1>9. CASE RecordVersion(c)
    BY <1>0, <1>9 DEF RecordVersion
<1>10. CASE \E m \in Manifests : Canonicalize(c, m)
    BY <1>0, <1>10 DEF Canonicalize, Opened
<1>11. CASE Abandon(c)
    BY <1>0, <1>11 DEF Abandon
<1> QED
    BY <1>1, <1>2, <1>3, <1>4, <1>5, <1>6, <1>7, <1>8, <1>9, <1>10, <1>11 DEF Steps

\* The recorded digests stay honest while no upload disturbs a call.
LEMMA HashesStep ==
    ASSUME IInv, NEW c \in Calls, Steps(c)
    PROVE  HashesHonest'
<1>0. HashesHonest /\ ReadsHonest /\ CallShapes
    BY DEF IInv
<1> SUFFICES ASSUME Undisturbed' PROVE TableHonest(row'.versions)
    BY DEF HashesHonest, Undisturbed, TableHonest
<1>1. Undisturbed
    BY HistoryGrows DEF Undisturbed
<1>2. CASE row'.versions = row.versions
    BY <1>0, <1>1, <1>2 DEF HashesHonest, Undisturbed, TableHonest
<1>3. CASE RecordVersion(c)
    <2>1. PICK k \in Nat :
            /\ DOMAIN call[c].versions = 1..k
            /\ DOMAIN row'.versions = 1..(k + 1)
            /\ \A n \in 1..k : row'.versions[n] = call[c].versions[n]
            /\ row'.versions[k + 1] = [data |-> call[c].data, sha |-> call[c].ref.content]
        BY <1>3, TableGrows
    <2>2. call[c].pc = "record_version"
        BY <1>3 DEF RecordVersion, At
    <2>3. TableHonest(call[c].versions) /\ call[c].data.source = call[c].ref.content
        BY <1>0, <1>1, <2>2 DEF ReadsHonest, Writing
    <2>4. \A n \in 1..(k + 1) : n \in 1..k \/ n = k + 1
        OBVIOUS
    <2>5. \A n \in 1..k : row'.versions[n].sha = row'.versions[n].data.source
        BY <2>1, <2>3 DEF TableHonest
    <2>6. row'.versions[k + 1].sha = row'.versions[k + 1].data.source
        BY <2>1, <2>3
    <2> QED
        BY <2>1, <2>4, <2>5, <2>6 DEF TableHonest
<1> QED
    BY <1>2, <1>3, RowTable

\* An upload is in the store before it is on record.
LEMMA UploadStep ==
    ASSUME IInv, NEW c \in Calls, Steps(c)
    PROVE  UploadIntact' /\ UploadAlone'
<1>0. /\ UploadIntact /\ UploadAlone /\ CallTyped /\ CallShapes /\ RowTyped /\ ObjectsTyped
    BY TypeParts DEF IInv
<1>1a. call[c].pc # "done" /\ \A d \in Calls \ {c} : call'[d] = call[d]
    BY OwnCall
<1> USE DEF At, CallTyped, CallShapes, RowTyped, ObjectsTyped, Done, IdleCall, UploadIntact,
    UploadAlone, Pending
<1>1. CASE \E f \in Formats, x \in Contents : PutSource(c, f, x)
    <2>1. PICK f \in Formats, x \in Contents : PutSource(c, f, x)
        BY <1>1
    <2>2. call'[c].pc = "record_upload" /\ call'[c].ref = [format |-> f, content |-> x]
        BY <1>0, <2>1 DEF PutSource
    <2>3. source'[f] = x
        BY <1>0, <2>1 DEF PutSource
    <2>4. history' \cap {"uploads", "lost_upload"} = {} =>
                \A d \in Calls \ {c} : call'[d].pc # "record_upload"
        BY <1>1a, <2>1 DEF PutSource
    <2> QED
        BY <2>2, <2>3, <2>4
<1>2. CASE RecordUpload(c)
    BY <1>0, <1>2 DEF RecordUpload
<1>3. CASE Materialize(c)
    BY <1>0, <1>3 DEF Materialize
<1>4. CASE ReadForProfile(c)
    BY <1>0, <1>4 DEF ReadForProfile
<1>5. CASE ProfileFile(c)
    BY <1>0, <1>5 DEF ProfileFile
<1>6. CASE RecordProfile(c)
    BY <1>0, <1>6 DEF RecordProfile
<1>7. CASE ReadForFinalize(c)
    BY <1>0, <1>7 DEF ReadForFinalize
<1>8. CASE PutVersion(c)
    BY <1>0, <1>8 DEF PutVersion
<1>9. CASE RecordVersion(c)
    BY <1>0, <1>9 DEF RecordVersion
<1>10. CASE \E m \in Manifests : Canonicalize(c, m)
    BY <1>0, <1>10 DEF Canonicalize
<1>11. CASE Abandon(c)
    <2>1. CASE call[c].pc = "record_upload"
        BY <2>1, <1>11 DEF Abandon
    <2>2. CASE call[c].pc # "record_upload"
        <3>1. \A d \in Calls : /\ call'[d].pc = "record_upload" <=> call[d].pc = "record_upload"
                               /\ call'[d].ref = call[d].ref
            BY <1>0, <2>2, <1>11 DEF Abandon
        <3>2. history' = history /\ row' = row /\ source' = source
            BY <2>2, <1>11 DEF Abandon
        <3> QED
            BY <1>0, <3>1, <3>2
    <2> QED
        BY <2>1, <2>2
<1> QED
    BY <1>1, <1>2, <1>3, <1>4, <1>5, <1>6, <1>7, <1>8, <1>9, <1>10, <1>11 DEF Steps

\* A profile is of the upload on record, unless that has moved.
LEMMA ProfileStep ==
    ASSUME IInv, NEW c \in Calls, Steps(c)
    PROVE  ProfileFresh' /\ ProfilesCurrent'
<1>0. /\ ProfileFresh /\ ProfilesCurrent /\ ReadsHonest
      /\ CallTyped /\ CallShapes /\ RowTyped
    BY TypeParts DEF IInv
<1> USE DEF At, CallTyped, RowTyped, Done, IdleCall, ProfileFresh, ProfilesCurrent, Profiling
<1>1. CASE \E f \in Formats, x \in Contents : PutSource(c, f, x)
    BY <1>0, <1>1 DEF PutSource
<1>2. CASE RecordUpload(c)
    BY <1>0, <1>2 DEF RecordUpload
<1>3. CASE Materialize(c)
    BY <1>0, <1>3 DEF Materialize
<1>4. CASE ReadForProfile(c)
    BY <1>0, <1>4 DEF ReadForProfile
<1>5. CASE ProfileFile(c)
    BY <1>0, <1>5 DEF ProfileFile
<1>6. CASE RecordProfile(c)
    BY <1>0, <1>6 DEF RecordProfile, CallShapes, ReadsHonest, Undisturbed, Writing
<1>7. CASE ReadForFinalize(c)
    BY <1>0, <1>7 DEF ReadForFinalize
<1>8. CASE PutVersion(c)
    BY <1>0, <1>8 DEF PutVersion
<1>9. CASE RecordVersion(c)
    BY <1>0, <1>9 DEF RecordVersion
<1>10. CASE \E m \in Manifests : Canonicalize(c, m)
    BY <1>0, <1>10 DEF Canonicalize
<1>11. CASE Abandon(c)
    BY <1>0, <1>11 DEF Abandon
<1> QED
    BY <1>1, <1>2, <1>3, <1>4, <1>5, <1>6, <1>7, <1>8, <1>9, <1>10, <1>11 DEF Steps

-----------------------------------------------------------------------------
(* The theorems *)

\* The invariant holds of a dataset just created.
LEMMA InvInit == Init => IInv
<1> SUFFICES ASSUME Init PROVE IInv
    OBVIOUS
<1>1. TypeOK
    <2>1. DOMAIN NoVersions = {} /\ 1..Cardinality({}) = {}
        BY FS_EmptySet DEF NoVersions
    <2> QED
        BY <2>1, NoVersionsTyped, DatasetAssumption DEF Init, TypeOK, IdleCall, Points
<1>2. CallShapes
    BY DEF Init, CallShapes, IdleCall, Writing
<1>3. TablesNumbered
    <2>1. Finished = {}
        BY DEF Init, IdleCall, Finished
    <2>2. Cardinality(Finished) = 0
        BY <2>1, FS_EmptySet
    <2>3. Numbered(NoVersions)
        BY <2>2 DEF Numbered, NoVersions
    <2> QED
        BY <2>3 DEF Init, IdleCall, TablesNumbered
<1>4. FinalizesMeet /\ VersionDataIntact /\ AboutToRecord
    BY DEF Init, IdleCall, NoVersions, FinalizesMeet, Finalizing, VersionDataIntact,
        AboutToRecord, At
<1>5. HashesHonest /\ ReadsHonest
    BY DEF Init, IdleCall, NoVersions, HashesHonest, ReadsHonest, TableHonest, At, Writing
<1>6. UploadIntact /\ UploadAlone /\ ProfileFresh /\ ProfilesCurrent
    BY DEF Init, IdleCall, UploadIntact, UploadAlone, Pending, ProfileFresh, ProfilesCurrent,
        Profiling
<1> QED
    BY <1>1, <1>2, <1>3, <1>4, <1>5, <1>6 DEF IInv

\* Every step keeps the invariant.
LEMMA InvStep == IInv /\ [Next]_vars => IInv'
<1>1. ASSUME IInv, NEW c \in Calls, Steps(c) PROVE IInv'
    BY <1>1, RowStep, ObjectsStep, CallStep, TypeParts, NumberedStep, MeetStep, IntactStep,
        ReadsStep, HashesStep, UploadStep, ProfileStep DEF IInv
<1>2. ASSUME IInv, UNCHANGED vars PROVE IInv'
    <2> USE <1>2 DEF vars, IInv
    <2>1. TypeOK' /\ CallShapes'
        BY DEF TypeOK, CallShapes
    <2>2. TablesNumbered'
        BY DEF TablesNumbered, Numbered, Finished
    <2>3. FinalizesMeet' /\ VersionDataIntact' /\ AboutToRecord'
        BY DEF FinalizesMeet, Met, Alone, Finalizing, VersionDataIntact, AboutToRecord, At
    <2>4. HashesHonest' /\ ReadsHonest'
        BY DEF HashesHonest, ReadsHonest, Undisturbed, At
    <2>5. UploadIntact' /\ UploadAlone' /\ ProfileFresh' /\ ProfilesCurrent'
        BY DEF UploadIntact, UploadAlone, Pending, ProfileFresh, ProfilesCurrent, Profiling
    <2> QED
        BY <2>1, <2>2, <2>3, <2>4, <2>5
<1>3. Next <=> \E c \in Calls : Steps(c)
    BY DEF Next, Steps
<1> QED
    BY <1>1, <1>2, <1>3

\* The inductive invariant of upload_dataset, profile_dataset and
\* finalize_dataset.
THEOREM DatasetInvariant == Spec => []IInv
<1> QED
    BY InvInit, InvStep, PTL DEF Spec

\* The rows and the requests keep their types, and versions are numbered
\* without gaps, even when finalizes overlap.
THEOREM TypeCorrect == Spec => []TypeOK
<1>1. IInv => TypeOK
    BY DEF IInv
<1> QED
    BY <1>1, DatasetInvariant, PTL

\* The data of a version whose finalize overlapped no other is in the store,
\* whatever other finalizes do to one another.
THEOREM VersionsStored == Spec => []VersionDataIntact
<1>1. IInv => VersionDataIntact
    BY DEF IInv
<1> QED
    BY <1>1, DatasetInvariant, PTL

\* The digest of a version is that of the file it was made from.
THEOREM DigestsHonest == Spec => []HashesHonest
<1>1. IInv => HashesHonest
    BY DEF IInv
<1> QED
    BY <1>1, DatasetInvariant, PTL

\* Between uploads the one on record is in the store.
THEOREM UploadsStored == Spec => []UploadIntact
<1>1. IInv => UploadIntact
    BY DEF IInv
<1> QED
    BY <1>1, DatasetInvariant, PTL

\* The profile shown is that of the upload on record.
THEOREM ProfilesFresh == Spec => []ProfileFresh
<1>1. IInv => ProfileFresh
    BY DEF IInv
<1> QED
    BY <1>1, DatasetInvariant, PTL

\* Whoever changes or removes a published version overlapped the finalize that
\* wrote it.
THEOREM VersionsStay == Spec => VersionsStand
<1> DEFINE Kept ==
            \A n \in DOMAIN row.versions :
                \/ n \in DOMAIN row'.versions /\ row'.versions[n] = row.versions[n]
                \/ \E c \in Calls :
                      {c, author[n]} \in raced /\ At(c, "record_version") /\ call'[c].pc = "done"
<1>1. ASSUME IInv, NEW c \in Calls, Steps(c) PROVE Kept
    <2>1. CASE row'.versions = row.versions
        BY <2>1
    <2>2. CASE RecordVersion(c)
        <3>1. PICK k \in Nat :
                /\ DOMAIN call[c].versions = 1..k
                /\ DOMAIN row'.versions = 1..(k + 1)
                /\ \A n \in 1..k : row'.versions[n] = call[c].versions[n]
            BY <1>1, <2>2, TableGrows
        <3>2. c \in Finalizing /\ At(c, "record_version") /\ call'[c].pc = "done"
            BY <1>1, <2>2
                DEF RecordVersion, At, Done, IInv, TypeOK, CallShapes, Writing, Finalizing
        <3>3. ASSUME NEW n \in DOMAIN row.versions, ~Met(c, author[n])
              PROVE  n \in DOMAIN row'.versions /\ row'.versions[n] = row.versions[n]
            <4>1. n \in 1..k /\ call[c].versions[n] = row.versions[n]
                BY <1>1, <3>1, <3>2, <3>3 DEF IInv, FinalizesMeet
            <4>2. n \in 1..(k + 1)
                BY <4>1
            <4> QED
                BY <3>1, <4>1, <4>2
        <3> QED
            BY <3>2, <3>3, Zenon DEF Met
    <2> QED
        BY <1>1, <2>1, <2>2, RowTable
<1>2. IInv /\ [Next]_vars => [Kept]_vars
    <2>1. Next <=> \E c \in Calls : Steps(c)
        BY DEF Next, Steps
    <2> QED
        BY <1>1, <2>1
<1> QED
    BY <1>2, DatasetInvariant, PTL DEF Spec, VersionsStand

=============================================================================
