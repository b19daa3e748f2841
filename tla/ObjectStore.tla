------------------------------ MODULE ObjectStore ------------------------------
(***************************************************************************)
(* The object store (object_store.py) under concurrent readers and         *)
(* writers: LocalObjectStore, which hands out the file of an object, and   *)
(* R2ObjectStore, which downloads into a cache directory, addressed by     *)
(* digest, and prunes it to a size.  Nothing is locked.  A step is one     *)
(* operation on a file or on the bucket, and any other thread, or another  *)
(* process on the same directory, may come between two of them.            *)
(*                                                                         *)
(* A content stands for its own SHA-256.  The cache is the function        *)
(* `files' from names to what the files hold; their modification times     *)
(* come down to `older', which of two files was modified before the other. *)
(***************************************************************************)
EXTENDS Naturals, Functions

CONSTANTS
    Threads,        \* threads that read objects
    Keys,           \* object keys
    Contents,       \* what an object can hold
    Size,           \* the bytes of each content
    MaxCacheBytes,  \* OBJECT_CACHE_MAX_BYTES
    Backends,       \* object stores the service may be configured with
    MaxUpsets,      \* bound on the writes and deaths, together
    None, Empty, Failed

ASSUME StoreAssumption ==
    /\ Backends \subseteq {"local", "r2"}
    /\ Size \in [Contents -> Nat \ {0}]
    /\ MaxCacheBytes \in Nat /\ MaxUpsets \in Nat
    /\ {None, Empty, Failed} \cap (Contents \cup Threads) = {}
    /\ Threads \cap Contents = {}
    /\ (1..MaxUpsets) \cap (Contents \cup Threads) = {}

VARIABLES
    backend,    \* the configured store
    object,     \* the object under each key: a file, or an object of the bucket
    issued,     \* references that put_file has returned
    files,      \* the cache directory of r2
    older,      \* pairs of its files, the first modified before the second
    reader,     \* the call each thread is in, and its locals
    got,        \* what each thread has read last, until it reads again
    puts,       \* writes so far
    crashes,    \* readers that have died
    unpruned    \* a prune was cut short (auxiliary)

vars == <<backend, object, issued, files, older, reader, got, puts, crashes, unpruned>>

Refs == [key : Keys, content : Contents]

\* `listed' are the names _prune_cache has found.  `doomed' maps those it has yet
\* to unlink to the ones among them that come first.  `calm' is auxiliary: nobody
\* has touched the store during the call.
Nothing == [n \in {} |-> {}]
IdleReader == [pc |-> "idle", ref |-> None, listed |-> {}, doomed |-> Nothing, calm |-> FALSE]

Busy(t) == reader[t].pc # "idle"
At(t, here) == reader[t].pc = here

Init ==
    /\ backend \in Backends
    /\ object = [k \in Keys |-> None]
    /\ issued = {}
    /\ files = [n \in {} |-> None]
    /\ older = {}
    /\ reader = [t \in Threads |-> IdleReader]
    /\ got = [t \in Threads |-> None]
    /\ puts = 0
    /\ crashes = 0
    /\ unpruned = FALSE

Goto(t, next) == reader' = [reader EXCEPT ![t].pc = next]

\* The call ends with what its caller reads; a read that raises is Failed.
Finish(t, value) ==
    /\ got' = [got EXCEPT ![t] = [ref |-> reader[t].ref, value |-> value]]
    /\ reader' = [reader EXCEPT ![t] = [IdleReader EXCEPT !.calm = reader[t].calm]]

-----------------------------------------------------------------------------
(* Files of the cache *)

Present(n) == n \in DOMAIN files
SizeOf(n) == IF files[n] = Empty THEN 0 ELSE Size[files[n]]
BytesOf(names) == SumFunction([n \in names |-> SizeOf(n)])

Without(n) == {p \in older : n \notin {p[1], p[2]}}

Remove(n) ==
    /\ files' = [m \in DOMAIN files \ {n} |-> files[m]]
    /\ older' = Without(n)

\* A file is written, or written anew.
WriteFile(n, body) ==
    /\ files' = [m \in DOMAIN files \cup {n} |-> IF m = n THEN body ELSE files[m]]
    /\ older' = Without(n) \cup {<<m, n>> : m \in DOMAIN files \ {n}}

\* os.replace, which leaves the modification time of the file as it is.
Rename(from, to) ==
    LET new(n) == IF n = from THEN to ELSE n IN
    /\ files' = [m \in (DOMAIN files \ {from}) \cup {to} |->
            IF m = to THEN files[from] ELSE files[m]]
    /\ older' = {<<new(p[1]), new(p[2])>> : p \in Without(to)}

UnchangedCache == UNCHANGED <<files, older>>

-----------------------------------------------------------------------------
(* put_file *)

\* The new object is in place at once: os.replace of a finished copy, or an
\* upload.
Put(k, x) ==
    /\ puts + crashes < MaxUpsets
    /\ puts' = puts + 1
    /\ object' = [object EXCEPT ![k] = x]
    /\ issued' = issued \cup {[key |-> k, content |-> x]}
    /\ reader' = [t \in Threads |-> [reader[t] EXCEPT !.calm = @ /\ ~Busy(t)]]
    /\ UNCHANGED <<backend, files, older, got, crashes, unpruned>>

-----------------------------------------------------------------------------
(* materialize, and the caller opening the path it returns *)

Materialize(t, ref) ==
    /\ ~Busy(t)
    /\ ref \in issued
    /\ got' = [got EXCEPT ![t] = None]
    /\ reader' = [u \in Threads |->
            IF u = t
            THEN [IdleReader EXCEPT !.ref = ref,
                    !.pc = IF backend = "local" THEN "check" ELSE "look",
                    !.calm = object[ref.key] = ref.content /\ \A v \in Threads : ~Busy(v)]
            ELSE [reader[u] EXCEPT !.calm = @ /\ ~Busy(u)]]
    /\ UNCHANGED <<backend, object, issued, files, older, puts, crashes, unpruned>>

\* LocalObjectStore compares size and digest of the file with the reference.
CheckLocal(t) ==
    LET ref == reader[t].ref IN
    /\ At(t, "check")
    /\ IF object[ref.key] = ref.content
       THEN Goto(t, "open") /\ UNCHANGED got
       ELSE Finish(t, Failed)
    /\ UnchangedCache
    /\ UNCHANGED <<backend, object, issued, puts, crashes, unpruned>>

\* R2ObjectStore looks for the file of the digest: is_file, stat, touch.
Look(t) ==
    /\ At(t, "look")
    /\ Goto(t, IF Present(reader[t].ref.content) THEN "stat" ELSE "download")
    /\ UnchangedCache
    /\ UNCHANGED <<backend, object, issued, got, puts, crashes, unpruned>>

\* A file that is gone by now raises.
Stat(t) ==
    LET n == reader[t].ref.content IN
    /\ At(t, "stat")
    /\ IF Present(n)
       THEN Goto(t, IF SizeOf(n) = Size[n] THEN "touch" ELSE "download") /\ UNCHANGED got
       ELSE Finish(t, Failed)
    /\ UnchangedCache
    /\ UNCHANGED <<backend, object, issued, puts, crashes, unpruned>>

\* touch makes a file that is gone by now: an empty one.
Touch(t) ==
    LET n == reader[t].ref.content IN
    /\ At(t, "touch")
    /\ WriteFile(n, IF Present(n) THEN files[n] ELSE Empty)
    /\ Goto(t, "open")
    /\ UNCHANGED <<backend, object, issued, got, puts, crashes, unpruned>>

\* The temporary file of a download is named after its thread.
Download(t) ==
    LET body == object[reader[t].ref.key] IN
    /\ At(t, "download")
    /\ WriteFile(t, body)
    /\ Goto(t, "verify")
    /\ UNCHANGED <<backend, object, issued, got, puts, crashes, unpruned>>

\* Mistakes: the digest of what was downloaded is not looked at; a download that
\* fails leaves its file.
VerifyPresence(t) ==
    /\ At(t, "verify")
    /\ IF Present(t)
       THEN Goto(t, "replace") /\ UnchangedCache /\ UNCHANGED got
       ELSE Finish(t, Failed) /\ Remove(t)
    /\ UNCHANGED <<backend, object, issued, puts, crashes, unpruned>>

VerifyLeaving(t) ==
    /\ At(t, "verify")
    /\ IF Present(t) /\ files[t] = reader[t].ref.content
       THEN Goto(t, "replace") /\ UNCHANGED got
       ELSE Finish(t, Failed)
    /\ UnchangedCache
    /\ UNCHANGED <<backend, object, issued, puts, crashes, unpruned>>

\* Digest and size must be those of the reference.  The file may be gone: a
\* prune takes temporary files for cached ones.
Verify(t) ==
    /\ At(t, "verify")
    /\ IF Present(t) /\ files[t] = reader[t].ref.content
       THEN Goto(t, "replace") /\ UnchangedCache /\ UNCHANGED got
       ELSE Finish(t, Failed) /\ Remove(t)
    /\ UNCHANGED <<backend, object, issued, puts, crashes, unpruned>>

Replace(t) ==
    /\ At(t, "replace")
    /\ IF Present(t)
       THEN Rename(t, reader[t].ref.content) /\ Goto(t, "list") /\ UNCHANGED got
       ELSE Finish(t, Failed) /\ UnchangedCache
    /\ UNCHANGED <<backend, object, issued, puts, crashes, unpruned>>

\* _prune_cache: the names of all files, temporary ones among them ...
List(t) ==
    /\ At(t, "list")
    /\ reader' = [reader EXCEPT ![t].pc = "measure", ![t].listed = DOMAIN files]
    /\ UnchangedCache
    /\ UNCHANGED <<backend, object, issued, got, puts, crashes, unpruned>>

\* ... of which the oldest go, until the rest fits: a file goes if the others do
\* not fit after all that are older have gone.
Oldest(names, from) ==
    {n \in from : BytesOf(names \ {m \in from : <<m, n>> \in older}) > MaxCacheBytes}

\* Mistakes: the file just downloaded is pruned as any other; pruning stops one
\* file too early.
DoomedWithTarget(names, target) == Oldest(names, names)

DoomedOneLess(names, target) ==
    LET all == Oldest(names, names \ {target})
    IN  {n \in all : \E m \in all : <<n, m>> \in older}

\* The file just downloaded is never among them.
Doomed(names, target) == Oldest(names, names \ {target})

InOrder(names) == [n \in names |-> {m \in names : <<m, n>> \in older}]

\* Their sizes and ages.  A file that has gone since it was listed is passed
\* over, or raises if it went between is_file and stat.
Measure(t) ==
    LET there == reader[t].listed \cap DOMAIN files IN
    /\ At(t, "measure")
    /\ \/ /\ reader' = [reader EXCEPT ![t].pc = "unlink", ![t].listed = {},
                  ![t].doomed = InOrder(Doomed(there, reader[t].ref.content))]
          /\ UNCHANGED <<got, unpruned>>
       \/ /\ there # reader[t].listed
          /\ Finish(t, Failed)
          /\ unpruned' = TRUE
    /\ UnchangedCache
    /\ UNCHANGED <<backend, object, issued, puts, crashes>>

Unlink(t) ==
    LET doomed == reader[t].doomed IN
    /\ At(t, "unlink")
    /\ \/ DOMAIN doomed = {} /\ Goto(t, "open") /\ UnchangedCache
       \/ \E n \in DOMAIN doomed :
            /\ doomed[n] = {}
            /\ Remove(n)
            /\ reader' = [reader EXCEPT ![t].doomed =
                    [m \in DOMAIN doomed \ {n} |-> doomed[m] \ {n}]]
    /\ UNCHANGED <<backend, object, issued, got, puts, crashes, unpruned>>

\* The caller opens the path it was returned.
Open(t) ==
    LET ref == reader[t].ref IN
    /\ At(t, "open")
    /\ Finish(t, IF backend = "local" THEN object[ref.key]
                 ELSE IF Present(ref.content) THEN files[ref.content] ELSE Failed)
    /\ UnchangedCache
    /\ UNCHANGED <<backend, object, issued, puts, crashes, unpruned>>

\* The process of a reader dies and leaves its temporary file behind, under a
\* name that nobody uses any more.  One that dies at any other point leaves
\* nothing, and has merely stopped.
Crash(t) ==
    /\ Present(t)
    /\ puts + crashes < MaxUpsets
    /\ crashes' = crashes + 1
    /\ Rename(t, crashes')
    /\ reader' = [reader EXCEPT ![t] = IdleReader]
    /\ UNCHANGED <<backend, object, issued, got, puts, unpruned>>

-----------------------------------------------------------------------------

Step(t) ==
    \/ CheckLocal(t) \/ Look(t) \/ Stat(t) \/ Touch(t) \/ Download(t) \/ Verify(t)
    \/ Replace(t) \/ List(t) \/ Measure(t) \/ Unlink(t) \/ Open(t)

Next ==
    \/ \E k \in Keys, x \in Contents : Put(k, x)
    \/ \E t \in Threads : (\E ref \in Refs : Materialize(t, ref)) \/ Step(t) \/ Crash(t)

Spec == Init /\ [][Next]_vars

-----------------------------------------------------------------------------
(* Properties *)

Points == {"idle", "check", "look", "stat", "touch", "download", "verify", "replace",
           "list", "measure", "unlink", "open"}
Names == Contents \cup Threads \cup (1..MaxUpsets)
Readings == [ref : Refs, value : Contents \cup {Empty, Failed}]

\* The types; and a temporary file belongs to a download that is under way, or
\* to a process that has died.
TypeOK ==
    /\ backend \in Backends
    /\ object \in [Keys -> Contents \cup {None}]
    /\ issued \subseteq Refs
    /\ DOMAIN files \subseteq Names
    /\ \A n \in DOMAIN files : files[n] \in Contents \cup {Empty}
    /\ \A t \in Threads : Present(t) => reader[t].pc \in {"verify", "replace"}
    /\ older \subseteq (DOMAIN files) \X (DOMAIN files)
    /\ DOMAIN reader = Threads
    /\ \A t \in Threads :
            /\ DOMAIN reader[t] = DOMAIN IdleReader
            /\ reader[t].pc \in Points
            /\ reader[t].ref \in Refs \cup {None}
            /\ reader[t].listed \subseteq Names
            /\ DOMAIN reader[t].doomed \subseteq Names
            /\ \A n \in DOMAIN reader[t].doomed :
                    reader[t].doomed[n] \subseteq DOMAIN reader[t].doomed
            /\ reader[t].calm \in BOOLEAN
    /\ got \in [Threads -> Readings \cup {None}]
    /\ puts \in 0..MaxUpsets
    /\ crashes \in 0..MaxUpsets
    /\ unpruned \in BOOLEAN

\* Both stores are a BlobStore: whatever threads do to the cache directory at
\* the same time, a reader of r2 never gets other bytes than those it asked for
\* or none, and one on local disk gets what is under the key.
Blobs == INSTANCE BlobStore
Refines == Blobs!Spec

\* A read that nobody interferes with succeeds: the prune a download ends with
\* never takes the file that was asked for, however small the cache.
CalmReadsSucceed ==
    \A t \in Threads :
        got[t] # None /\ reader[t].calm => got[t].value = got[t].ref.content

\* Once all is quiet the cache is within its size or down to the one file that
\* exceeds it, however downloads and prunes have overlapped; unless a prune ran
\* into a file that was just unlinked, or its process died.
CacheBounded ==
    (\A t \in Threads : ~Busy(t)) /\ crashes = 0 /\ ~unpruned =>
        \/ BytesOf(DOMAIN files) <= MaxCacheBytes
        \/ \E n \in DOMAIN files : BytesOf(DOMAIN files \ {n}) = 0

=============================================================================
