---------------------------- MODULE DatasetVersions ----------------------------
(***************************************************************************)
(* One dataset: uploads of its source file, profiling, and finalizing into *)
(* numbered versions (platform.py), over the object store (object_store.py).*)
(*                                                                         *)
(* None of these handlers locks the dataset: each reads its row, works on  *)
(* files, and merges its fields into the row that is there by then.  One   *)
(* step is one transaction or one operation on a file.                     *)
(*                                                                         *)
(* Two object stores: "local" keeps each object in a file and hands that   *)
(* file out; "r2" downloads into a cache addressed by digest, from which   *)
(* it prunes what is oldest.  A content stands for its own SHA-256.        *)
(***************************************************************************)
EXTENDS Naturals, FiniteSets, FiniteSetsExt

CONSTANTS
    Calls,      \* the requests about the dataset
    Formats,    \* suffixes of source files: each has an object key of its own
    Contents,   \* what a source file can hold
    Manifests,  \* what a caller can ask a version to be made with
    Backends,   \* object stores the service may be configured with
    None

ASSUME DatasetAssumption ==
    /\ IsFiniteSet(Calls)
    /\ Backends \subseteq {"local", "r2"}
    /\ None \notin Contents \cup [format : Formats, content : Contents]
    /\ None \notin [source : Contents, manifest : Manifests]

VARIABLES
    backend,    \* the configured object store
    row,        \* the dataset row: state, upload_object, profile, versions
    source,     \* the object under the source key of each format
    canonical,  \* the object under the key of each version number
    cached,     \* files in the r2 cache, named by digest and suffix
    call,       \* the progress of each request and its locals
    history,    \* the races of its uploads (auxiliary)
    raced,      \* the pairs of finalizes that were under way at once (auxiliary)
    author      \* the finalize that last wrote the version of each number (auxiliary)

vars == <<backend, row, source, canonical, cached, call, history, raced, author>>

\* Each request finalizes one version at most.
Numbers == 1..Cardinality(Calls)
Refs == [format : Formats, content : Contents]
Canonicals == [source : Contents, manifest : Manifests]
NoVersions == [n \in {} |-> None]

IdleCall == [pc |-> "idle", job |-> "none", ref |-> None, versions |-> NoVersions, data |-> None]
At(c, here) == call[c].pc = here
Pending(points) == {c \in Calls : call[c].pc \in points}

Init ==
    /\ backend \in Backends
    /\ row = [state |-> "draft", upload |-> None, profile |-> None, versions |-> NoVersions]
    /\ source = [f \in Formats |-> None]
    /\ canonical = [n \in Numbers |-> None]
    /\ cached = {}
    /\ call = [c \in Calls |-> IdleCall]
    /\ history = {}
    /\ raced = {}
    /\ author = [n \in Numbers |-> None]

\* Requests that work from the row as they read it some time ago.
Profiling == {c \in Calls : call[c].job = "profile" /\ call[c].pc # "done"}
Finalizing == {c \in Calls : call[c].job = "finalize" /\ call[c].pc # "done"}

Done(c) == call' = [call EXCEPT ![c].pc = "done"]

-----------------------------------------------------------------------------
(* upload_dataset *)

\* put_stream replaces the object at once, before the row says so.  The races
\* noted: with another upload, and with a request about to open the file.
PutSource(c, f, x) ==
    /\ At(c, "idle")
    /\ source' = [source EXCEPT ![f] = x]
    /\ call' = [call EXCEPT ![c] = [IdleCall EXCEPT
            !.pc = "record_upload", !.job = "upload", !.ref = [format |-> f, content |-> x]]]
    /\ history' = history
        \cup (IF Pending({"record_upload"}) # {} THEN {"uploads"} ELSE {})
        \cup (IF Pending({"open"}) # {} THEN {"swap"} ELSE {})
    /\ UNCHANGED <<backend, row, canonical, cached, raced, author>>

\* Mistakes: the first upload stays on record; the state stays as it was.
RecordFirstUpload(c) ==
    /\ At(c, "record_upload")
    /\ row' = [row EXCEPT !.upload = IF @ = None THEN call[c].ref ELSE @, !.state = "uploaded"]
    /\ Done(c)
    /\ UNCHANGED <<backend, source, canonical, cached, history, raced, author>>

RecordUploadOnly(c) ==
    /\ At(c, "record_upload")
    /\ row' = [row EXCEPT !.upload = call[c].ref]
    /\ Done(c)
    /\ UNCHANGED <<backend, source, canonical, cached, history, raced, author>>

\* The row learns of the upload; noted: a profile of an earlier one is under way.
RecordUpload(c) ==
    /\ At(c, "record_upload")
    /\ row' = [row EXCEPT !.upload = call[c].ref, !.state = "uploaded"]
    /\ Done(c)
    /\ history' = history
        \cup (IF Profiling # {} THEN {"moved"} ELSE {})
    /\ UNCHANGED <<backend, source, canonical, cached, raced, author>>

-----------------------------------------------------------------------------
(* The object store, as profile_dataset and finalize_dataset use it *)

\* materialize verifies the digest on record; r2 trusts a cached copy, and
\* otherwise downloads, caches, and prunes any of the other files.
Materialize(c) ==
    LET ref == call[c].ref IN
    /\ At(c, "materialize")
    /\ \/ /\ backend = "local" /\ source[ref.format] = ref.content
          /\ UNCHANGED cached
          /\ call' = [call EXCEPT ![c].pc = "open"]
       \/ /\ backend = "r2" /\ ref \in cached
          /\ UNCHANGED cached
          /\ call' = [call EXCEPT ![c].pc = "open"]
       \/ /\ backend = "r2" /\ ref \notin cached /\ source[ref.format] = ref.content
          /\ \E kept \in SUBSET cached : cached' = kept \cup {ref}
          /\ call' = [call EXCEPT ![c].pc = "open"]
       \/ /\ source[ref.format] # ref.content
          /\ backend = "r2" => ref \notin cached
          /\ UNCHANGED cached
          /\ Done(c)
    /\ UNCHANGED <<backend, row, source, canonical, history, raced, author>>

\* What the path that materialize returned holds when it is opened; a file
\* that was pruned is missing.
Opened(c) ==
    IF backend = "local" THEN source[call[c].ref.format]
    ELSE IF call[c].ref \in cached THEN call[c].ref.content ELSE None

-----------------------------------------------------------------------------
(* profile_dataset *)

ReadForProfile(c) ==
    /\ At(c, "idle")
    /\ row.upload # None
    /\ call' = [call EXCEPT ![c] = [IdleCall EXCEPT
            !.pc = "materialize", !.job = "profile", !.ref = row.upload]]
    /\ UNCHANGED <<backend, row, source, canonical, cached, history, raced, author>>

ProfileFile(c) ==
    /\ At(c, "open") /\ call[c].job = "profile"
    /\ IF Opened(c) = None THEN Done(c)
       ELSE call' = [call EXCEPT ![c].pc = "record_profile", ![c].data = Opened(c)]
    /\ UNCHANGED <<backend, row, source, canonical, cached, history, raced, author>>

RecordProfile(c) ==
    /\ At(c, "record_profile")
    /\ row' = [row EXCEPT !.profile = call[c].data, !.state = "profiled"]
    /\ Done(c)
    /\ UNCHANGED <<backend, source, canonical, cached, history, raced, author>>

-----------------------------------------------------------------------------
(* finalize_dataset *)

\* The row is read once: the upload and the versions it is to extend.
ReadForFinalize(c) ==
    /\ At(c, "idle")
    /\ row.upload # None
    /\ call' = [call EXCEPT ![c] = [IdleCall EXCEPT
            !.pc = "materialize", !.job = "finalize", !.ref = row.upload,
            !.versions = row.versions]]
    /\ raced' = raced \cup {{c, d} : d \in Finalizing}
    /\ UNCHANGED <<backend, row, source, canonical, cached, history, author>>

\* canonicalize reads the file; a file it rejects, or one that is gone, ends
\* the request.
Canonicalize(c, m) ==
    /\ At(c, "open") /\ call[c].job = "finalize"
    /\ \/ Done(c)
       \/ /\ Opened(c) # None
          /\ call' = [call EXCEPT ![c].pc = "put_version",
                  ![c].data = [source |-> Opened(c), manifest |-> m]]
    /\ UNCHANGED <<backend, row, source, canonical, cached, history, raced, author>>

\* Mistakes: the number of versions is taken for the next number; numbers skip.
CountVersions(versions) == IF versions = NoVersions THEN 1 ELSE Cardinality(DOMAIN versions)
SkipNumber(versions) == IF DOMAIN versions = {} THEN 1 ELSE Max(DOMAIN versions) + 2

NextNumber(versions) == IF DOMAIN versions = {} THEN 1 ELSE Max(DOMAIN versions) + 1

\* Mistake: the version is recorded without its object.
PutNoVersion(c) ==
    /\ At(c, "put_version")
    /\ call' = [call EXCEPT ![c].pc = "record_version"]
    /\ UNCHANGED <<backend, row, source, canonical, cached, history, raced, author>>

\* put_file replaces what is stored under the number, whoever put it there.
PutVersion(c) ==
    /\ At(c, "put_version")
    /\ canonical' = [canonical EXCEPT ![NextNumber(call[c].versions)] = call[c].data]
    /\ call' = [call EXCEPT ![c].pc = "record_version"]
    /\ UNCHANGED <<backend, row, source, cached, history, raced, author>>

\* The finalize that writes a version the row does not have, or has otherwise.
NoteAuthor(c) ==
    author' = [n \in Numbers |->
        IF /\ n \in DOMAIN row'.versions
           /\ n \in DOMAIN row.versions => row'.versions[n] # row.versions[n]
        THEN c ELSE author[n]]

\* Mistake: the digest is taken from the row as it is now.
RecordVersionRereading(c) ==
    LET n == NextNumber(call[c].versions)
        v == [data |-> call[c].data, sha |-> row.upload.content]
    IN
    /\ At(c, "record_version")
    /\ row' = [row EXCEPT !.state = "ready",
            !.versions = [k \in DOMAIN call[c].versions \cup {n} |->
                IF k = n THEN v ELSE call[c].versions[k]]]
    /\ Done(c)
    /\ NoteAuthor(c)
    /\ UNCHANGED <<backend, source, canonical, cached, history, raced>>

\* The versions that were read, and the new one, replace those of the row.
RecordVersion(c) ==
    LET n == NextNumber(call[c].versions)
        v == [data |-> call[c].data, sha |-> call[c].ref.content]
    IN
    /\ At(c, "record_version")
    /\ row' = [row EXCEPT !.state = "ready",
            !.versions = [k \in DOMAIN call[c].versions \cup {n} |->
                IF k = n THEN v ELSE call[c].versions[k]]]
    /\ Done(c)
    /\ NoteAuthor(c)
    /\ UNCHANGED <<backend, source, canonical, cached, history, raced>>

-----------------------------------------------------------------------------

\* The request dies: what it has put stays put.
Abandon(c) ==
    /\ call[c].pc \notin {"idle", "done"}
    /\ Done(c)
    /\ history' = history \cup (IF At(c, "record_upload") THEN {"lost_upload"} ELSE {})
    /\ UNCHANGED <<backend, row, source, canonical, cached, raced, author>>

Next ==
    \E c \in Calls :
        \/ \E f \in Formats, x \in Contents : PutSource(c, f, x)
        \/ RecordUpload(c) \/ Materialize(c)
        \/ ReadForProfile(c) \/ ProfileFile(c) \/ RecordProfile(c)
        \/ ReadForFinalize(c) \/ PutVersion(c) \/ RecordVersion(c)
        \/ \E m \in Manifests : Canonicalize(c, m)
        \/ Abandon(c)

Spec == Init /\ [][Next]_vars

-----------------------------------------------------------------------------
(* Properties *)

Points == {"idle", "record_upload", "materialize", "open", "record_profile",
           "put_version", "record_version", "done"}
VersionTables == UNION {[D -> [data : Canonicals, sha : Contents]] : D \in SUBSET Numbers}

\* The types; and versions are numbered 1, 2, ... without gaps, even when
\* finalizes overlap and write back stale tables.
TypeOK ==
    /\ DOMAIN row.versions = 1..Cardinality(DOMAIN row.versions)
    /\ backend \in Backends
    /\ row \in [state : {"draft", "uploaded", "profiled", "ready"}, upload : Refs \cup {None},
                profile : Contents \cup {None}, versions : VersionTables]
    /\ source \in [Formats -> Contents \cup {None}]
    /\ canonical \in [Numbers -> Canonicals \cup {None}]
    /\ cached \subseteq Refs
    /\ call \in [Calls -> [pc : Points, job : {"none", "upload", "profile", "finalize"},
                           ref : Refs \cup {None}, versions : VersionTables,
                           data : Contents \cup Canonicals \cup {None}]]
    /\ history \subseteq {"uploads", "swap", "moved", "lost_upload"}
    /\ raced \subseteq SUBSET Calls
    /\ author \in [Numbers -> Calls \cup {None}]

\* A published version is changed or removed only by a finalize that overlapped
\* the one that wrote it: requests that came later, requests that died half-way,
\* uploads, and finalizes that overlap only one another leave it as it is.
VersionsStand ==
    [][\A n \in DOMAIN row.versions :
        \/ n \in DOMAIN row'.versions /\ row'.versions[n] = row.versions[n]
        \/ \E c \in Calls :
              {c, author[n]} \in raced /\ At(c, "record_version") /\ call'[c].pc = "done"]_vars

\* The data of a version whose finalize overlapped no other is in the store, as
\* it was when published, whatever other finalizes do to one another.
Alone(c) == \A pair \in raced : c \notin pair

VersionDataIntact ==
    \A n \in DOMAIN row.versions :
        Alone(author[n]) => canonical[n] = row.versions[n].data

\* content_sha256 of a version is the digest of the file the version was made
\* from.  On local disk this needs that no upload replaced the file between
\* the verification of the digest and the reading; r2 needs nothing.
HashesHonest ==
    backend = "r2" \/ "swap" \notin history =>
        \A n \in DOMAIN row.versions : row.versions[n].sha = row.versions[n].data.source

\* Between uploads the upload on record is the one in the store, unless uploads
\* overlapped or one died between its two steps.
UploadIntact ==
    /\ Pending({"record_upload"}) = {}
    /\ history \cap {"uploads", "lost_upload"} = {}
    /\ row.upload # None
    => source[row.upload.format] = row.upload.content

\* A dataset shown as profiled shows the profile of the upload on record,
\* unless an upload came in while it was being profiled.
ProfileFresh ==
    row.state = "profiled" /\ "moved" \notin history /\ (backend = "r2" \/ "swap" \notin history)
        => row.profile = row.upload.content

-----------------------------------------------------------------------------
(* What the documents say and the code does not do; refuted by a run *)

\* "Every finalized dataset version is immutable and content-addressed"
\* (docs/forecasting-system-plan.md:98): a version stays in the table, as it is.
\* finalize_dataset writes back the table it read before it worked.
VersionsImmutable ==
    [][\A n \in DOMAIN row.versions :
        n \in DOMAIN row'.versions /\ row'.versions[n] = row.versions[n]]_vars

=============================================================================
