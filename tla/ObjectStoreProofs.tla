-------------------------- MODULE ObjectStoreProofs --------------------------
(***************************************************************************)
(* Both object stores implement BlobStore, for every number of threads,    *)
(* keys and contents and every size of the cache.                          *)
(*                                                                         *)
(* A reader of r2 opens the file that bears the name of its content, which *)
(* some thread has put there; so the invariant has to say what that name   *)
(* stands for (NamesHonest), and what a thread is about to rename to it    *)
(* (DownloadsHonest).                                                      *)
(*                                                                         *)
(* The types follow, and then what a reader gets whom nobody disturbs: the *)
(* invariant has, for each point of its call, the file that the next one   *)
(* relies on (Undisturbed).                                                *)
(*                                                                         *)
(* Last, the size of the cache, with what Sums says of sums over finite    *)
(* sets.  The invariant (Bounded) says that the cache fits or that some    *)
(* thread has yet to prune it, from a listing that has all that counts.    *)
(***************************************************************************)
EXTENDS ObjectStore, Sums

Fields == {"pc", "ref", "listed", "doomed", "calm"}

Shape ==
    /\ backend \in {"local", "r2"}
    /\ issued \subseteq Refs
    /\ puts \in Nat
    /\ crashes \in Nat
    /\ DOMAIN reader = Threads
    /\ \A t \in Threads : DOMAIN reader[t] = Fields

ReadsIssued == \A t \in Threads : Busy(t) => reader[t].ref \in issued

NamesHonest == \A x \in Contents : Present(x) => files[x] \in {x, Empty}

DownloadsHonest ==
    \A t \in Threads : At(t, "replace") /\ Present(t) => files[t] = reader[t].ref.content

Honest == Shape /\ ReadsIssued /\ NamesHonest /\ DownloadsHonest

-----------------------------------------------------------------------------

\* An empty cache is honest.
LEMMA HonestInit == Init => Honest
BY StoreAssumption DEF Init, Honest, Shape, ReadsIssued, NamesHonest, DownloadsHonest,
    Fields, IdleReader, Busy, At, Present

\* What a thread does to the fields of its own call leaves every call in shape
\* and every other call as it was.
LEMMA HonestStep == Honest /\ [Next]_vars => Honest'
<1> SUFFICES ASSUME Honest, [Next]_vars PROVE Honest'
    OBVIOUS
<1> USE DEF Busy, At, Present, Goto, Finish, UnchangedCache, IdleReader
<1>a. Shape'
    <2> USE DEF Honest, Shape, Fields
    <2>1. CASE \E k \in Keys, x \in Contents : Put(k, x)
        BY <2>1 DEF Put, Refs
    <2>2. ASSUME NEW t \in Threads, NEW ref \in Refs, Materialize(t, ref) PROVE Shape'
        BY <2>2 DEF Materialize
    <2>3. ASSUME NEW t \in Threads, Step(t) PROVE Shape'
        <3>1. CASE Unlink(t)
            BY <3>1 DEF Unlink
        <3> QED
            BY <2>3, <3>1 DEF Step, CheckLocal, Look, Stat, Touch, Download, Verify, Replace,
                List, Measure, Open
    <2>4. ASSUME NEW t \in Threads, Crash(t) PROVE Shape'
        BY <2>4 DEF Crash
    <2>5. CASE UNCHANGED vars
        BY <2>5 DEF vars
    <2> QED
        BY <2>1, <2>2, <2>3, <2>4, <2>5 DEF Next
<1>b. ReadsIssued'
    <2> USE DEF Honest, Shape, Fields, ReadsIssued
    <2>1. CASE \E k \in Keys, x \in Contents : Put(k, x)
        BY <2>1 DEF Put
    <2>2. ASSUME NEW t \in Threads, NEW ref \in Refs, Materialize(t, ref) PROVE ReadsIssued'
        BY <2>2 DEF Materialize
    <2>3. ASSUME NEW t \in Threads, Step(t) PROVE ReadsIssued'
        <3>1. CASE Unlink(t)
            BY <3>1 DEF Unlink
        <3> QED
            BY <2>3, <3>1 DEF Step, CheckLocal, Look, Stat, Touch, Download, Verify, Replace,
                List, Measure, Open
    <2>4. ASSUME NEW t \in Threads, Crash(t) PROVE ReadsIssued'
        BY <2>4 DEF Crash
    <2>5. CASE UNCHANGED vars
        BY <2>5 DEF vars
    <2> QED
        BY <2>1, <2>2, <2>3, <2>4, <2>5 DEF Next
<1>c. NamesHonest' /\ DownloadsHonest'
    <2> USE DEF Honest, Shape, Fields, NamesHonest, DownloadsHonest
    <2>0. \A t \in Threads : t \notin Contents /\ (Busy(t) => reader[t].ref.content \in Contents)
        BY StoreAssumption DEF ReadsIssued, Refs
    <2>1. CASE \E k \in Keys, x \in Contents : Put(k, x)
        BY <2>1 DEF Put
    <2>2. ASSUME NEW t \in Threads, NEW ref \in Refs, Materialize(t, ref)
          PROVE  NamesHonest' /\ DownloadsHonest'
        BY <2>2 DEF Materialize
    <2>3. ASSUME NEW t \in Threads, Step(t)
          PROVE  NamesHonest' /\ DownloadsHonest'
        <3>1. CASE CheckLocal(t) \/ Look(t) \/ Stat(t) \/ List(t) \/ Measure(t) \/ Open(t)
            BY <3>1 DEF CheckLocal, Look, Stat, List, Measure, Open
        <3>2. CASE Touch(t)
            BY <2>0, <3>2 DEF Touch, WriteFile
        <3>3. CASE Download(t)
            BY <2>0, <3>3 DEF Download, WriteFile
        <3>4. CASE Verify(t)
            BY <2>0, <3>4 DEF Verify, Remove
        <3>5. CASE Replace(t)
            BY <2>0, <3>5 DEF Replace, Rename
        <3>6. CASE Unlink(t)
            <4>1. CASE UNCHANGED files
                BY <3>6, <4>1 DEF Unlink
            <4>2. CASE \E n \in DOMAIN reader[t].doomed : Remove(n)
                BY <3>6, <4>2 DEF Unlink, Remove
            <4> QED
                BY <3>6, <4>1, <4>2 DEF Unlink
        <3> QED
            BY <2>3, <3>1, <3>2, <3>3, <3>4, <3>5, <3>6 DEF Step
    <2>4. ASSUME NEW t \in Threads, Crash(t)
          PROVE  NamesHonest' /\ DownloadsHonest'
        <3>1. crashes' \in 1..MaxUpsets
            BY <2>4, StoreAssumption DEF Crash
        <3>2. crashes' \notin Contents \cup Threads
            BY <3>1, StoreAssumption
        <3> QED
            BY <2>0, <2>4, <3>2 DEF Crash, Rename
    <2>5. CASE UNCHANGED vars
        BY <2>5 DEF vars
    <2> QED
        BY <2>1, <2>2, <2>3, <2>4, <2>5 DEF Next
<1> QED
    BY <1>a, <1>b, <1>c DEF Honest

\* A file of the cache holds what its name says or nothing, whatever downloads,
\* prunes and deaths overlap.
THEOREM CacheHonest == Spec => []Honest
<1> QED
    BY HonestInit, HonestStep, PTL DEF Spec

-----------------------------------------------------------------------------

\* The initial states are initial states of BlobStore.
LEMMA RefinesInit == Init => Blobs!Init
BY StoreAssumption DEF Init, Blobs!Init

\* A call that ends in failure is a read of BlobStore that fails.
LEMMA FailedRead ==
    ASSUME Honest, NEW t \in Threads, Busy(t), Finish(t, Failed),
           UNCHANGED <<backend, object, issued>>
    PROVE  Blobs!Read(t, reader[t].ref)
BY DEF Honest, ReadsIssued, Finish, Blobs!Read, Blobs!Readings

\* Every step is a step of BlobStore or none.
LEMMA RefinesStep == Honest /\ [Next]_vars => [Blobs!Next]_(Blobs!specVars)
<1> SUFFICES ASSUME Honest, [Next]_vars PROVE Blobs!Next \/ UNCHANGED Blobs!specVars
    OBVIOUS
<1> USE DEF At
<1>r. Blobs!Refs = Refs /\ issued \subseteq Refs
    BY DEF Blobs!Refs, Refs, Honest, Shape
<1>f. ASSUME NEW t \in Threads, Busy(t), Finish(t, Failed), UNCHANGED <<backend, object, issued>>
      PROVE  Blobs!Next
    <2>1. reader[t].ref \in Blobs!Refs
        BY <1>r, <1>f DEF Honest, ReadsIssued
    <2> QED
        BY <1>f, <2>1, FailedRead DEF Blobs!Next
<1>1. CASE \E k \in Keys, x \in Contents : Put(k, x)
    BY <1>1 DEF Put, Blobs!Next, Blobs!Write
<1>2. ASSUME NEW t \in Threads, NEW ref \in Refs, Materialize(t, ref) PROVE Blobs!Next
    BY <1>2 DEF Materialize, Blobs!Next, Blobs!Forget
<1>3. ASSUME NEW t \in Threads, Step(t) PROVE Blobs!Next \/ UNCHANGED Blobs!specVars
    <2>1. CASE CheckLocal(t)
        BY <1>f, <2>1 DEF CheckLocal, Busy, Blobs!specVars
    <2>2. CASE Stat(t)
        BY <1>f, <2>2 DEF Stat, Busy, Blobs!specVars
    <2>3. CASE Verify(t)
        BY <1>f, <2>3 DEF Verify, Busy, Blobs!specVars
    <2>4. CASE Replace(t)
        BY <1>f, <2>4 DEF Replace, Busy, Blobs!specVars
    <2>5. CASE Measure(t)
        BY <1>f, <2>5 DEF Measure, Busy, Blobs!specVars
    <2>6. CASE Look(t) \/ Touch(t) \/ Download(t) \/ List(t) \/ Unlink(t)
        BY <2>6 DEF Look, Touch, Download, List, Unlink, Blobs!specVars
    <2>7. CASE Open(t)
        <3> DEFINE ref == reader[t].ref
                   value == IF backend = "local" THEN object[ref.key]
                            ELSE IF Present(ref.content) THEN files[ref.content] ELSE Failed
        <3>1. ref \in issued /\ ref \in Blobs!Refs /\ ref.content \in Contents
            BY <1>r, <2>7 DEF Open, Busy, Honest, ReadsIssued, Refs
        <3>2. value \in Blobs!Readings(ref)
            BY <3>1 DEF Honest, NamesHonest, Blobs!Readings
        <3>3. /\ got' = [got EXCEPT ![t] = [ref |-> ref, value |-> value]]
              /\ UNCHANGED <<backend, object, issued>>
            BY <2>7 DEF Open, Finish
        <3>4. Blobs!Read(t, ref)
            BY <3>1, <3>2, <3>3 DEF Blobs!Read
        <3> QED
            BY <3>1, <3>4 DEF Blobs!Next
    <2> QED
        BY <1>3, <2>1, <2>2, <2>3, <2>4, <2>5, <2>6, <2>7 DEF Step
<1>4. ASSUME NEW t \in Threads, Crash(t) PROVE UNCHANGED Blobs!specVars
    BY <1>4 DEF Crash, Blobs!specVars
<1>5. CASE UNCHANGED vars
    BY <1>5 DEF vars, Blobs!specVars
<1> QED
    BY <1>1, <1>2, <1>3, <1>4, <1>5 DEF Next

\* LocalObjectStore and R2ObjectStore implement BlobStore: no interleaving of
\* their steps shows a reader other bytes than BlobStore allows.
THEOREM StoreRefines == Spec => Refines
<1> QED
    BY CacheHonest, RefinesInit, RefinesStep, PTL DEF Spec, Refines, Blobs!Spec

-----------------------------------------------------------------------------
(* Types *)

\* Whatever a reference stands for has been written under its key, and no object
\* is ever deleted: put_file replaces it, and nothing else touches it.
IssuedStored == \A ref \in issued : object[ref.key] # None

Typed == TypeOK /\ ReadsIssued /\ IssuedStored

\* An empty store is well typed.
LEMMA TypedInit == Init => Typed
<1> SUFFICES ASSUME Init PROVE Typed
    OBVIOUS
<1>1. /\ DOMAIN files = {} /\ issued = {} /\ reader = [t \in Threads |-> IdleReader]
      /\ older = {} /\ got = [t \in Threads |-> None] /\ puts = 0 /\ crashes = 0
      /\ unpruned = FALSE /\ backend \in Backends /\ object = [k \in Keys |-> None]
    BY DEF Init
<1>2. /\ IdleReader.pc = "idle" /\ IdleReader.ref = None /\ IdleReader.listed = {}
      /\ DOMAIN IdleReader.doomed = {} /\ IdleReader.calm = FALSE /\ "idle" \in Points
    BY DEF IdleReader, Nothing, Points
<1>3. TypeOK
    <2>1. /\ \A t \in Threads : reader[t] = IdleReader
          /\ DOMAIN reader = Threads
        BY <1>1
    <2>2. puts \in 0..MaxUpsets /\ crashes \in 0..MaxUpsets
        BY <1>1, StoreAssumption
    <2> QED
        BY <1>1, <1>2, <2>1, <2>2 DEF TypeOK, Present
<1> QED
    BY <1>1, <1>2, <1>3 DEF Typed, ReadsIssued, IssuedStored, Busy

\* A prune dooms none but names it has measured, and never the target.
LEMMA DoomedNames ==
    ASSUME NEW names, NEW target
    PROVE  /\ Doomed(names, target) \subseteq names \ {target}
           /\ DOMAIN InOrder(Doomed(names, target)) = Doomed(names, target)
           /\ \A n \in Doomed(names, target) :
                InOrder(Doomed(names, target))[n] \subseteq Doomed(names, target)
BY DEF Doomed, Oldest, InOrder

\* Every step keeps the types.
LEMMA TypedStep == Typed /\ [Next]_vars => Typed'
<1> SUFFICES ASSUME Typed, [Next]_vars PROVE Typed'
    OBVIOUS
<1> USE DEF Typed, Busy, At, Present
<1> DEFINE
      ReaderOK(r) ==
        /\ DOMAIN r = DOMAIN IdleReader
        /\ r.pc \in Points
        /\ r.ref \in Refs \cup {None}
        /\ r.listed \subseteq Names
        /\ DOMAIN r.doomed \subseteq Names
        /\ \A n \in DOMAIN r.doomed : r.doomed[n] \subseteq DOMAIN r.doomed
        /\ r.calm \in BOOLEAN
      CacheOK ==
        /\ DOMAIN files \subseteq Names
        /\ \A n \in DOMAIN files : files[n] \in Contents \cup {Empty}
        /\ older \subseteq (DOMAIN files) \X (DOMAIN files)
      Temporary == \A t \in Threads : Present(t) => reader[t].pc \in {"verify", "replace"}
      ReadersOK == DOMAIN reader = Threads /\ \A t \in Threads : ReaderOK(reader[t])
      CountsOK ==
        /\ puts \in 0..MaxUpsets
        /\ crashes \in 0..MaxUpsets
        /\ unpruned \in BOOLEAN
      ObjectsOK ==
        /\ backend \in Backends
        /\ object \in [Keys -> Contents \cup {None}]
        /\ issued \subseteq Refs
        /\ IssuedStored
      GotOK == got \in [Threads -> Readings \cup {None}]
      Good == /\ CacheOK /\ Temporary /\ ReadersOK /\ CountsOK /\ ObjectsOK /\ GotOK
              /\ ReadsIssued
<1>0. Good
    BY DEF TypeOK
<1>q. SUFFICES Good'
    BY DEF TypeOK
<1>i. ReaderOK(IdleReader) /\ IdleReader.pc = "idle"
    BY DEF IdleReader, Nothing, Points
<1>n. Threads \cap Contents = {} /\ Threads \subseteq Names /\ Contents \subseteq Names
      /\ None \notin Contents /\ (1..MaxUpsets) \subseteq Names
      /\ (1..MaxUpsets) \cap Threads = {}
    BY StoreAssumption DEF Names
<1>r. ASSUME NEW t \in Threads, Busy(t)
      PROVE  /\ reader[t].ref \in Refs
             /\ reader[t].ref.content \in Contents
             /\ object[reader[t].ref.key] \in Contents
    BY <1>0, <1>r DEF ReadsIssued, IssuedStored, Refs
\* A call that ends, whatever it reads.
<1>f. ASSUME NEW t \in Threads, Busy(t), NEW value \in Contents \cup {Empty, Failed},
             Finish(t, value), UNCHANGED issued
      PROVE  ReadersOK' /\ GotOK' /\ ReadsIssued' /\ reader'[t].pc = "idle"
             /\ \A u \in Threads \ {t} : reader'[u] = reader[u]
    <2>1. ReaderOK([IdleReader EXCEPT !.calm = reader[t].calm])
          /\ [IdleReader EXCEPT !.calm = reader[t].calm].pc = "idle"
        BY <1>0, <1>i DEF IdleReader
    <2>2. [ref |-> reader[t].ref, value |-> value] \in Readings
        BY <1>r, <1>f DEF Readings
    <2> HIDE DEF ReaderOK
    <2> QED
        BY <1>0, <1>f, <2>1, <2>2 DEF Finish, ReadsIssued
\* A call that goes on at another point.
<1>g. ASSUME NEW t \in Threads, Busy(t), NEW next \in Points, Goto(t, next), UNCHANGED issued
      PROVE  ReadersOK' /\ ReadsIssued' /\ reader'[t].pc = next
             /\ \A u \in Threads \ {t} : reader'[u] = reader[u]
    <2>1. ReaderOK([reader[t] EXCEPT !.pc = next])
          /\ [reader[t] EXCEPT !.pc = next].pc = next
          /\ [reader[t] EXCEPT !.pc = next].ref = reader[t].ref
        BY <1>0 DEF IdleReader
    <2> HIDE DEF ReaderOK
    <2> QED
        BY <1>0, <1>g, <2>1 DEF Goto, ReadsIssued
<1>p. {"open", "stat", "touch", "download", "verify", "replace", "list", "measure", "unlink"}
        \subseteq Points
    BY DEF Points
<1>b. "check" \in Points /\ "look" \in Points /\ "idle" \in Points
    BY DEF Points
<1>1. CASE \E k \in Keys, x \in Contents : Put(k, x)
    <2> PICK k \in Keys, x \in Contents : Put(k, x)
        BY <1>1
    <2>1. ObjectsOK'
        <3>1. /\ object' = [object EXCEPT ![k] = x] /\ backend' = backend
              /\ issued' = issued \cup {[key |-> k, content |-> x]}
            BY DEF Put
        <3> QED
            BY <1>0, <1>n, <3>1 DEF Refs, IssuedStored
    <2>2. CountsOK'
        BY <1>0, StoreAssumption DEF Put
    <2>3. ReadersOK' /\ \A t \in Threads : /\ reader'[t].pc = reader[t].pc
                                           /\ reader'[t].ref = reader[t].ref
        BY <1>0 DEF Put, IdleReader
    <2>4. ReadsIssued'
        <3>1. issued \subseteq issued'
            BY DEF Put
        <3> QED
            BY <1>0, <2>3, <3>1 DEF ReadsIssued
    <2>5. CacheOK' /\ GotOK' /\ Temporary'
        BY <1>0, <2>3 DEF Put
    <2> QED
        BY <2>1, <2>2, <2>3, <2>4, <2>5
<1>2. ASSUME NEW t \in Threads, NEW ref \in Refs, Materialize(t, ref) PROVE Good'
    <2>1. ReadersOK' /\ ReadsIssued' /\ \A u \in Threads \ {t} : reader'[u].pc = reader[u].pc
        <3> DEFINE next(u) ==
                IF u = t
                THEN [IdleReader EXCEPT !.ref = ref,
                        !.pc = IF backend = "local" THEN "check" ELSE "look",
                        !.calm = object[ref.key] = ref.content /\ \A v \in Threads : ~Busy(v)]
                ELSE [reader[u] EXCEPT !.calm = @ /\ ~Busy(u)]
        <3>1. ReaderOK(next(t)) /\ next(t).ref = ref
            BY <1>i, <1>b DEF IdleReader
        <3>2. ASSUME NEW u \in Threads \ {t}
              PROVE  ReaderOK(next(u)) /\ next(u).ref = reader[u].ref /\ next(u).pc = reader[u].pc
            BY <1>0 DEF IdleReader
        <3>3. reader' = [u \in Threads |-> next(u)] /\ ref \in issued /\ issued' = issued
            BY <1>2 DEF Materialize
        <3> HIDE DEF ReaderOK, next
        <3> QED
            BY <1>0, <3>1, <3>2, <3>3 DEF ReadsIssued
    <2>2. ~Present(t)
        BY <1>0, <1>2 DEF Materialize
    <2>3. GotOK'
        BY <1>0, <1>2 DEF Materialize
    <2> QED
        BY <1>0, <1>2, <2>1, <2>2, <2>3 DEF Materialize, IssuedStored
<1>3. ASSUME NEW t \in Threads, Step(t) PROVE Good'
    <2>0. Busy(t) /\ UNCHANGED <<backend, object, issued, puts, crashes>> /\ CountsOK'
        <3>1. CASE Unlink(t)
            BY <1>0, <3>1 DEF Unlink
        <3> QED
            BY <1>0, <1>3, <3>1 DEF Step, CheckLocal, Look, Stat, Touch, Download, Verify,
                Replace, List, Measure, Open
    <2>x. reader[t].ref.content \in Contents /\ reader[t].ref.content # t
          /\ reader[t].ref.content \notin Threads
        BY <1>n, <1>r, <2>0
    <2>o. ObjectsOK'
        BY <1>0, <2>0 DEF IssuedStored
    <2>f. ASSUME NEW value \in Contents \cup {Empty, Failed}, Finish(t, value), CacheOK',
                 \A u \in Threads \ {t} : Present(u)' => Present(u), ~Present(t)'
          PROVE  Good'
        BY <1>0, <1>f, <2>0, <2>o, <2>f
    <2>g. ASSUME NEW next \in Points, Goto(t, next), CacheOK', UNCHANGED got,
                 \A u \in Threads \ {t} : Present(u)' => Present(u),
                 next \in {"verify", "replace"} \/ ~Present(t)'
          PROVE  Good'
        BY <1>0, <1>g, <2>0, <2>o, <2>g
    <2>1. CASE CheckLocal(t)
        BY <1>0, <1>p, <2>1, <2>f, <2>g DEF CheckLocal, UnchangedCache
    <2>2. CASE Look(t)
        BY <1>0, <1>p, <2>2, <2>g DEF Look, UnchangedCache
    <2>3. CASE Stat(t)
        BY <1>0, <1>p, <2>3, <2>f, <2>g DEF Stat, UnchangedCache
    <2>4. CASE Touch(t)
        <3> DEFINE n == reader[t].ref.content
        <3>1. CacheOK' /\ DOMAIN files' = DOMAIN files \cup {n}
            <4>1. (IF Present(n) THEN files[n] ELSE Empty) \in Contents \cup {Empty}
                BY <1>0
            <4> HIDE DEF n
            <4> QED
                BY <1>0, <1>n, <2>4, <2>x, <4>1 DEF Touch, WriteFile, Without, n
        <3> QED
            BY <1>0, <1>p, <2>4, <2>g, <2>x, <3>1 DEF Touch
    <2>5. CASE Download(t)
        <3>1. CacheOK' /\ DOMAIN files' = DOMAIN files \cup {t}
            BY <1>0, <1>n, <1>r, <2>0, <2>5 DEF Download, WriteFile, Without
        <3> QED
            BY <1>0, <1>p, <2>5, <2>g, <3>1 DEF Download
    <2>6. CASE Verify(t)
        <3>1. CASE Remove(t) /\ Finish(t, Failed)
            <4>1. CacheOK' /\ DOMAIN files' = DOMAIN files \ {t}
                BY <1>0, <3>1 DEF Remove, Without
            <4> QED
                BY <2>f, <3>1, <4>1
        <3>2. CASE UnchangedCache /\ Goto(t, "replace") /\ UNCHANGED got
            BY <1>0, <1>p, <2>g, <3>2 DEF UnchangedCache
        <3> QED
            BY <2>6, <3>1, <3>2 DEF Verify
    <2>7. CASE Replace(t)
        <3>1. CASE Present(t)
            <4> DEFINE n == reader[t].ref.content
            <4>1. CacheOK' /\ DOMAIN files' = (DOMAIN files \ {t}) \cup {n}
                <5> HIDE DEF n
                <5>1. n \in Contents /\ n # t
                    BY <2>x DEF n
                <5> QED
                    BY <1>0, <1>n, <2>7, <3>1, <5>1 DEF Replace, Rename, Without, n
            <4> QED
                BY <1>p, <2>7, <2>g, <2>x, <3>1, <4>1 DEF Replace
        <3>2. CASE ~Present(t)
            BY <1>0, <2>7, <2>f, <3>2 DEF Replace, UnchangedCache
        <3> QED
            BY <3>1, <3>2
    <2>8. CASE List(t)
        <3>1. ReaderOK([reader[t] EXCEPT !.pc = "measure", !.listed = DOMAIN files])
            BY <1>0, <1>p DEF IdleReader
        <3>2. reader' = [reader EXCEPT ![t] =
                    [reader[t] EXCEPT !.pc = "measure", !.listed = DOMAIN files]]
            BY <1>0, <2>8 DEF List, IdleReader
        <3>3. ReadersOK' /\ ReadsIssued' /\ \A u \in Threads \ {t} : reader'[u] = reader[u]
            <4> HIDE DEF ReaderOK
            <4> QED
                BY <1>0, <2>0, <2>8, <3>1, <3>2 DEF ReadsIssued
        <3> QED
            BY <1>0, <2>8, <2>o, <2>0, <3>3 DEF List, UnchangedCache
    <2>9. CASE Measure(t)
        <3> DEFINE there == reader[t].listed \cap DOMAIN files
                   all == InOrder(Doomed(there, reader[t].ref.content))
                   next == [reader[t] EXCEPT !.pc = "unlink", !.listed = {}, !.doomed = all]
        <3>a. ~Present(t) /\ CacheOK' /\ UNCHANGED files
            BY <1>0, <2>9 DEF Measure, UnchangedCache
        <3>1. CASE Finish(t, Failed)
            BY <2>f, <3>1, <3>a
        <3>2. CASE reader' = [reader EXCEPT ![t].pc = "unlink", ![t].listed = {},
                                            ![t].doomed = all] /\ UNCHANGED got
            <4>1. DOMAIN all \subseteq there /\ \A n \in DOMAIN all : all[n] \subseteq DOMAIN all
                <5>1. ASSUME NEW names, NEW target
                      PROVE  LET f == InOrder(Doomed(names, target))
                             IN  DOMAIN f \subseteq names
                                 /\ \A n \in DOMAIN f : f[n] \subseteq DOMAIN f
                    BY DoomedNames
                <5> QED
                    BY <5>1
            <4>2. there \subseteq Names
                BY <1>0
            <4> HIDE DEF all, there
            <4>3. ReaderOK(next)
                BY <1>0, <1>p, <4>1, <4>2 DEF IdleReader
            <4>4. reader' = [reader EXCEPT ![t] = next]
                BY <1>0, <3>2 DEF IdleReader
            <4>5. next.ref = reader[t].ref
                BY <1>0 DEF IdleReader
            <4> HIDE DEF next
            <4>6. ReadersOK' /\ ReadsIssued' /\ \A u \in Threads \ {t} : reader'[u] = reader[u]
                <5> HIDE DEF ReaderOK
                <5> QED
                    BY <1>0, <2>0, <4>3, <4>4, <4>5 DEF ReadsIssued
            <4> QED
                BY <1>0, <2>0, <2>o, <3>2, <3>a, <4>6
        <3> QED
            BY <2>9, <3>1, <3>2 DEF Measure
    <2>10. CASE Unlink(t)
        <3> DEFINE doomed == reader[t].doomed
        <3>a. ~Present(t)
            BY <1>0, <2>10 DEF Unlink
        <3>1. CASE Goto(t, "open") /\ UnchangedCache
            BY <1>0, <1>p, <2>10, <2>g, <3>1, <3>a DEF Unlink, UnchangedCache
        <3>2. ASSUME NEW n \in DOMAIN doomed, Remove(n),
                     reader' = [reader EXCEPT ![t].doomed =
                        [m \in DOMAIN doomed \ {n} |-> doomed[m] \ {n}]]
              PROVE  Good'
            <4> DEFINE rest == [m \in DOMAIN doomed \ {n} |-> doomed[m] \ {n}]
                       next == [reader[t] EXCEPT !.doomed = rest]
            <4>1. CacheOK' /\ DOMAIN files' = DOMAIN files \ {n}
                BY <1>0, <3>2 DEF Remove, Without
            <4>2. /\ DOMAIN rest \subseteq Names
                  /\ \A m \in DOMAIN rest : rest[m] \subseteq DOMAIN rest
                BY <1>0
            <4>3. reader' = [reader EXCEPT ![t] = next]
                BY <1>0, <3>2 DEF IdleReader
            <4> HIDE DEF rest
            <4>4. ReaderOK(next) /\ next.ref = reader[t].ref /\ next.pc = reader[t].pc
                BY <1>0, <4>2 DEF IdleReader
            <4> HIDE DEF next
            <4>5. ReadersOK' /\ ReadsIssued' /\ \A u \in Threads : reader'[u].pc = reader[u].pc
                <5> HIDE DEF ReaderOK
                <5> QED
                    BY <1>0, <2>0, <4>3, <4>4 DEF ReadsIssued
            <4>6. UNCHANGED got
                BY <2>10 DEF Unlink
            <4> QED
                BY <1>0, <2>0, <2>o, <4>1, <4>5, <4>6
        <3> QED
            BY <2>10, <3>1, <3>2 DEF Unlink
    <2>11. CASE Open(t)
        <3> DEFINE n == reader[t].ref.content
                   value == IF backend = "local" THEN object[reader[t].ref.key]
                            ELSE IF Present(n) THEN files[n] ELSE Failed
        <3>1. value \in Contents \cup {Empty, Failed}
            BY <1>0, <1>r, <2>0
        <3>2. Finish(t, value) /\ UnchangedCache
            BY <2>11 DEF Open
        <3>3. ~Present(t)
            BY <1>0, <2>11 DEF Open
        <3> HIDE DEF value
        <3> QED
            BY <1>0, <2>f, <3>1, <3>2, <3>3 DEF UnchangedCache
    <2> QED
        BY <1>3, <2>1, <2>2, <2>3, <2>4, <2>5, <2>6, <2>7, <2>8, <2>9, <2>10, <2>11 DEF Step
<1>4. ASSUME NEW t \in Threads, Crash(t) PROVE Good'
    <2>1. crashes' \in 1..MaxUpsets /\ UNCHANGED <<backend, object, issued, got, puts, unpruned>>
        BY <1>0, <1>4, StoreAssumption DEF Crash
    <2>2. CacheOK' /\ DOMAIN files' = (DOMAIN files \ {t}) \cup {crashes'}
        BY <1>0, <1>4, <1>n, <2>1 DEF Crash, Rename, Without
    <2>3. ReadersOK' /\ ReadsIssued' /\ \A u \in Threads \ {t} : reader'[u] = reader[u]
        <3> HIDE DEF ReaderOK
        <3> QED
            BY <1>0, <1>4, <1>i DEF Crash, ReadsIssued
    <2> QED
        BY <1>0, <1>n, <2>1, <2>2, <2>3 DEF IssuedStored
<1>5. CASE UNCHANGED vars
    BY <1>0, <1>5 DEF vars, ReadsIssued, IssuedStored
<1> QED
    BY <1>1, <1>2, <1>3, <1>4, <1>5 DEF Next
\* The state of the object store has its types, and a temporary file belongs to a
\* download under way or to a process that has died.
THEOREM StoreTypes == Spec => []TypeOK
<1>1. Typed => TypeOK
    BY DEF Typed
<1> QED
    BY <1>1, TypedInit, TypedStep, PTL DEF Spec

-----------------------------------------------------------------------------
(* A read that nobody interferes with *)

\* The thread is past the point where the file of its content must be in place.
Arrived(t) ==
    \/ reader[t].pc \in {"touch", "list", "measure", "unlink"}
    \/ At(t, "open") /\ backend = "r2"

\* What a call has achieved so far if nobody has touched the store: at each of its
\* points, the file that the next one relies on.
Undisturbed(t) ==
    LET x == reader[t].ref.content IN
    /\ \A v \in Threads \ {t} : ~Busy(v)
    /\ object[reader[t].ref.key] = x
    /\ got[t] = None
    /\ At(t, "check") => backend = "local"
    /\ At(t, "stat") => Present(x)
    /\ Arrived(t) => Present(x) /\ files[x] = x
    /\ reader[t].pc \in {"verify", "replace"} => Present(t) /\ files[t] = x
    /\ At(t, "measure") => reader[t].listed \subseteq DOMAIN files
    /\ At(t, "unlink") => x \notin DOMAIN reader[t].doomed

CallsUndisturbed == \A t \in Threads : reader[t].calm /\ Busy(t) => Undisturbed(t)

Calm == Typed /\ Honest /\ CallsUndisturbed /\ CalmReadsSucceed

\* Nobody has read anything yet.
LEMMA CalmInit == Init => CallsUndisturbed /\ CalmReadsSucceed
BY DEF Init, CallsUndisturbed, CalmReadsSucceed, IdleReader, Busy

\* A calm call either goes on with what it has achieved, or ends with what it was
\* asked for.  Calls and answers of other threads stay as they are.
LEMMA CalmStep ==
    ASSUME Calm, NEW t \in Threads, Step(t), Busy(t), reader[t].calm
    PROVE  \/ /\ reader'[t].pc # "idle"
              /\ Undisturbed(t)'
           \/ /\ reader'[t].pc = "idle"
              /\ got'[t].value = reader[t].ref.content
              /\ got'[t].ref = reader[t].ref
<1> USE DEF Busy, At, Present
<1> DEFINE x == reader[t].ref.content
<1>0. /\ \A v \in Threads \ {t} : ~Busy(v)
      /\ object[reader[t].ref.key] = x
      /\ got[t] = None
      /\ At(t, "check") => backend = "local"
      /\ At(t, "stat") => Present(x)
      /\ Arrived(t) => Present(x) /\ files[x] = x
      /\ reader[t].pc \in {"verify", "replace"} => Present(t) /\ files[t] = x
      /\ At(t, "measure") => reader[t].listed \subseteq DOMAIN files
      /\ At(t, "unlink") => x \notin DOMAIN reader[t].doomed
    BY DEF Calm, CallsUndisturbed, Undisturbed
<1>1. /\ x \in Contents /\ x # t /\ Threads \cap Contents = {} /\ Size[x] # 0
      /\ Size[x] \in Nat /\ Empty # x
    BY StoreAssumption DEF Calm, Typed, ReadsIssued, TypeOK, Refs
<1>2. Present(x) => files[x] \in {x, Empty}
    BY <1>1 DEF Calm, Honest, NamesHonest
<1>3. /\ got \in [Threads -> Readings \cup {None}] /\ DOMAIN reader = Threads
      /\ DOMAIN reader[t] = DOMAIN IdleReader
    BY DEF Calm, Typed, TypeOK
<1>4. UNCHANGED <<backend, object>>
    <2>1. CASE Unlink(t)
        BY <2>1 DEF Unlink
    <2> QED
        BY <2>1 DEF Step, CheckLocal, Look, Stat, Touch, Download, Verify, Replace, List,
            Measure, Open
<1> DEFINE Kept == /\ \A v \in Threads \ {t} : reader'[v] = reader[v]
                   /\ reader'[t].ref = reader[t].ref
                   /\ got' = got
\* It ends.
<1>f. ASSUME Finish(t, x)
      PROVE  reader'[t].pc = "idle" /\ got'[t].value = x /\ got'[t].ref = reader[t].ref
    BY <1>3, <1>f DEF Finish, IdleReader
\* It goes on.
<1>g. ASSUME NEW next, Goto(t, next), got' = got
      PROVE  Kept /\ reader'[t].pc = next
    BY <1>3, <1>g DEF Goto, IdleReader
<1>h. ASSUME Kept, reader'[t].pc # "idle",
             reader'[t].pc # "check",
             reader'[t].pc = "stat" => x \in DOMAIN files',
             Arrived(t)' => x \in DOMAIN files' /\ files'[x] = x,
             reader'[t].pc \in {"verify", "replace"} => t \in DOMAIN files' /\ files'[t] = x,
             reader'[t].pc = "measure" => reader'[t].listed \subseteq DOMAIN files',
             reader'[t].pc = "unlink" => x \notin DOMAIN reader'[t].doomed
      PROVE  reader'[t].pc # "idle" /\ Undisturbed(t)'
    <2> HIDE DEF Arrived
    <2> QED
        BY <1>0, <1>4, <1>h DEF Undisturbed
<1>5. CASE CheckLocal(t)
    <2>1. Goto(t, "open") /\ got' = got /\ At(t, "check") /\ UnchangedCache
        BY <1>0, <1>5 DEF CheckLocal
    <2>2. backend # "r2"
        BY <1>0, <2>1
    <2> QED
        BY <1>4, <1>g, <1>h, <2>1, <2>2 DEF Arrived
<1>6. CASE Look(t)
    BY <1>6, <1>g, <1>h DEF Look, Arrived, UnchangedCache
<1>7. CASE Stat(t)
    BY <1>0, <1>1, <1>2, <1>7, <1>g, <1>h DEF Stat, Arrived, UnchangedCache, SizeOf
<1>8. CASE Touch(t)
    BY <1>0, <1>8, <1>g, <1>h DEF Touch, Arrived, WriteFile
<1>9. CASE Download(t)
    BY <1>0, <1>1, <1>9, <1>g, <1>h DEF Download, Arrived, WriteFile
<1>10. CASE Verify(t)
    BY <1>0, <1>10, <1>g, <1>h DEF Verify, Arrived, UnchangedCache
<1>11. CASE Replace(t)
    BY <1>0, <1>1, <1>11, <1>g, <1>h DEF Replace, Arrived, Rename
<1>12. CASE List(t)
    BY <1>0, <1>3, <1>12, <1>h DEF List, Arrived, UnchangedCache, IdleReader
<1>13. CASE Measure(t)
    BY <1>0, <1>3, <1>13, <1>h, DoomedNames DEF Measure, Arrived, UnchangedCache, IdleReader
<1>14. CASE Unlink(t)
    <2> DEFINE doomed == reader[t].doomed
    <2>0. At(t, "unlink") /\ x \notin DOMAIN doomed /\ Present(x) /\ files[x] = x
          /\ got' = got
        BY <1>0, <1>14 DEF Unlink, Arrived
    <2>1. CASE Goto(t, "open") /\ UnchangedCache
        BY <1>g, <1>h, <2>0, <2>1 DEF Arrived, UnchangedCache
    <2>2. ASSUME NEW n \in DOMAIN doomed, Remove(n),
                 reader' = [reader EXCEPT ![t].doomed =
                    [m \in DOMAIN doomed \ {n} |-> doomed[m] \ {n}]]
          PROVE  reader'[t].pc # "idle" /\ Undisturbed(t)'
        <3>1. x \in DOMAIN files' /\ files'[x] = x
            BY <2>0, <2>2 DEF Remove
        <3>2. /\ \A v \in Threads \ {t} : reader'[v] = reader[v]
              /\ reader'[t].ref = reader[t].ref
              /\ reader'[t].pc = "unlink"
              /\ DOMAIN reader'[t].doomed = DOMAIN doomed \ {n}
            BY <1>3, <2>0, <2>2 DEF IdleReader
        <3> QED
            BY <1>h, <2>0, <3>1, <3>2
    <2> QED
        BY <1>14, <2>1, <2>2 DEF Unlink
<1>15. CASE Open(t)
    <2>1. (IF backend = "local" THEN object[reader[t].ref.key]
           ELSE IF Present(x) THEN files[x] ELSE Failed) = x
        BY <1>0, <1>15 DEF Open, Arrived, Calm, Honest, Shape
    <2> QED
        BY <1>15, <1>f, <2>1 DEF Open
<1> QED
    BY <1>5, <1>6, <1>7, <1>8, <1>9, <1>10, <1>11, <1>12, <1>13, <1>14, <1>15 DEF Step

\* Every step keeps calm calls undisturbed, and their answers right.
LEMMA CalmKept == Calm /\ [Next]_vars => CallsUndisturbed' /\ CalmReadsSucceed'
<1> SUFFICES ASSUME Calm, [Next]_vars
             PROVE  CallsUndisturbed' /\ CalmReadsSucceed'
    OBVIOUS
<1> USE DEF Busy, At
<1>0. /\ DOMAIN reader = Threads
      /\ \A t \in Threads : /\ DOMAIN reader[t] = DOMAIN IdleReader
                            /\ reader[t].calm \in BOOLEAN
      /\ got \in [Threads -> Readings \cup {None}]
    BY DEF Calm, Typed, TypeOK
<1>1. CASE \E k \in Keys, x \in Contents : Put(k, x)
    <2>1. /\ \A t \in Threads : /\ reader'[t].pc = reader[t].pc
                                /\ reader'[t].calm = (reader[t].calm /\ ~Busy(t))
          /\ got' = got
        BY <1>0, <1>1 DEF Put, IdleReader
    <2> QED
        BY <2>1 DEF CallsUndisturbed, CalmReadsSucceed, Calm
<1>2. ASSUME NEW t \in Threads, NEW ref \in Refs, Materialize(t, ref)
      PROVE  CallsUndisturbed' /\ CalmReadsSucceed'
    <2>1. /\ \A u \in Threads \ {t} : /\ reader'[u].pc = reader[u].pc
                                      /\ reader'[u].calm = (reader[u].calm /\ ~Busy(u))
                                      /\ got'[u] = got[u]
          /\ got'[t] = None
          /\ object' = object /\ backend' = backend
          /\ reader'[t].pc = IF backend = "local" THEN "check" ELSE "look"
          /\ reader'[t].ref = ref
          /\ reader'[t].calm => object[ref.key] = ref.content /\ \A v \in Threads : ~Busy(v)
        BY <1>0, <1>2 DEF Materialize, IdleReader
    <2>2. reader'[t].calm => Undisturbed(t)'
        BY <2>1 DEF Undisturbed, Arrived
    <2>3. CallsUndisturbed'
        BY <2>1, <2>2 DEF CallsUndisturbed
    <2> QED
        BY <2>1, <2>3 DEF CalmReadsSucceed, Calm
<1>3. ASSUME NEW t \in Threads, Step(t)
      PROVE  CallsUndisturbed' /\ CalmReadsSucceed'
    <2>1. /\ Busy(t) /\ got \in [Threads -> Readings \cup {None}]
          /\ \A u \in Threads \ {t} : reader'[u] = reader[u] /\ got'[u] = got[u]
          /\ reader'[t].calm = reader[t].calm
        <3>1. CASE Unlink(t)
            BY <1>0, <3>1 DEF Unlink, Goto, IdleReader
        <3>2. CASE CheckLocal(t) \/ Stat(t) \/ Verify(t) \/ Replace(t) \/ Open(t)
            BY <1>0, <3>2 DEF CheckLocal, Stat, Verify, Replace, Open, Goto, Finish, IdleReader
        <3>3. CASE Look(t) \/ Touch(t) \/ Download(t) \/ List(t) \/ Measure(t)
            BY <1>0, <3>3 DEF Look, Touch, Download, List, Measure, Goto, Finish, IdleReader
        <3> QED
            BY <1>3, <3>1, <3>2, <3>3 DEF Step
    <2>2. ASSUME NEW u \in Threads \ {t}, reader[u].calm
          PROVE  reader[u].pc = "idle"
        BY <2>1, <2>2 DEF Calm, CallsUndisturbed, Undisturbed
    <2>3. reader[t].calm => \/ reader'[t].pc # "idle" /\ Undisturbed(t)'
                            \/ /\ reader'[t].pc = "idle"
                               /\ got'[t].value = got'[t].ref.content
        BY <1>3, <2>1, CalmStep
    <2>4. CallsUndisturbed'
        BY <2>1, <2>2, <2>3 DEF CallsUndisturbed
    <2>5. ASSUME Undisturbed(t)' PROVE got'[t] = None
        BY <2>5 DEF Undisturbed
    <2> QED
        BY <2>1, <2>3, <2>4, <2>5 DEF CalmReadsSucceed, Calm
<1>4. ASSUME NEW t \in Threads, Crash(t)
      PROVE  CallsUndisturbed' /\ CalmReadsSucceed'
    <2>1. /\ \A u \in Threads \ {t} : reader'[u] = reader[u]
          /\ reader'[t] = IdleReader /\ got' = got
        BY <1>0, <1>4 DEF Crash
    <2>2. Busy(t)
        BY <1>4 DEF Crash, Calm, Typed, TypeOK
    <2>3. ASSUME NEW u \in Threads \ {t}, reader[u].calm
          PROVE  reader[u].pc = "idle"
        BY <2>2, <2>3 DEF Calm, CallsUndisturbed, Undisturbed
    <2>4. reader'[t].calm = FALSE
        BY <2>1 DEF IdleReader
    <2> QED
        BY <2>1, <2>3, <2>4 DEF CallsUndisturbed, CalmReadsSucceed, Calm
<1>5. CASE UNCHANGED vars
    BY <1>5 DEF vars, CallsUndisturbed, CalmReadsSucceed, Undisturbed, Arrived, Present, Calm
<1> QED
    BY <1>1, <1>2, <1>3, <1>4, <1>5 DEF Next

\* A read of what is stored, with nobody else at work, gives it to its reader: no
\* size of the cache makes the prune take the file that was just fetched.
THEOREM CalmReads == Spec => []CalmReadsSucceed
<1>1. Init => Calm
    BY TypedInit, HonestInit, CalmInit DEF Calm
<1>2. Calm /\ [Next]_vars => Calm'
    BY TypedStep, HonestStep, CalmKept DEF Calm
<1>3. Calm => CalmReadsSucceed
    BY DEF Calm
<1> QED
    BY <1>1, <1>2, <1>3, PTL DEF Spec

-----------------------------------------------------------------------------
(* The order of the files *)

\* `older' orders the files of the cache as their modification times would if no
\* two were the same.
Ordered ==
    /\ older \subseteq (DOMAIN files) \X (DOMAIN files)
    /\ \A n \in DOMAIN files : <<n, n>> \notin older
    /\ \A m, n \in DOMAIN files : m # n => <<m, n>> \in older \/ <<n, m>> \in older
    /\ \A l, m, n \in DOMAIN files : <<l, m>> \in older /\ <<m, n>> \in older => <<l, n>> \in older

\* A file that is removed leaves the order of the others.
LEMMA RemoveOrdered == ASSUME Ordered, NEW n, Remove(n) PROVE Ordered'
BY DEF Ordered, Remove, Without

\* A file that is written becomes the last.
LEMMA WriteOrdered == ASSUME Ordered, NEW n, NEW body, WriteFile(n, body) PROVE Ordered'
<1>1. DOMAIN files' = DOMAIN files \cup {n}
    BY DEF WriteFile
<1>2. \A l, m \in DOMAIN files' : <<l, m>> \in older' <=>
            l # n /\ (m = n \/ <<l, m>> \in older)
    BY <1>1 DEF WriteFile, Without, Ordered
<1>3. older' \subseteq (DOMAIN files') \X (DOMAIN files')
    BY <1>1 DEF WriteFile, Without, Ordered
<1> QED
    BY <1>1, <1>2, <1>3 DEF Ordered

\* A file that is moved keeps its place, and the one it replaces loses its own.
LEMMA RenameOrdered ==
    ASSUME Ordered, NEW from \in DOMAIN files, NEW to, to # from, Rename(from, to)
    PROVE  Ordered'
<1> DEFINE old(n) == IF n = to THEN from ELSE n
           new(n) == IF n = from THEN to ELSE n
<1>1. DOMAIN files' = (DOMAIN files \ {from}) \cup {to}
    BY DEF Rename
<1>2. older' = {<<new(p[1]), new(p[2])>> : p \in Without(to)}
    BY DEF Rename
<1>3. older' \subseteq (DOMAIN files') \X (DOMAIN files')
    BY <1>1, <1>2 DEF Ordered, Without
<1>4. ASSUME NEW l \in DOMAIN files', NEW m \in DOMAIN files'
      PROVE  <<l, m>> \in older' <=> <<old(l), old(m)>> \in older
    <2>1. old(l) \in DOMAIN files \ {to} /\ old(m) \in DOMAIN files \ {to}
        BY <1>1
    <2>2. ASSUME <<old(l), old(m)>> \in older
          PROVE  <<l, m>> \in older'
        <3>1. <<old(l), old(m)>> \in Without(to)
            BY <2>1, <2>2 DEF Without
        <3>2. new(old(l)) = l /\ new(old(m)) = m
            BY <1>1
        <3> QED
            BY <1>2, <3>1, <3>2
    <2>3. ASSUME <<l, m>> \in older'
          PROVE  <<old(l), old(m)>> \in older
        <3>1. PICK p \in Without(to) : <<l, m>> = <<new(p[1]), new(p[2])>>
            BY <1>2, <2>3
        <3>2. p \in older /\ p = <<p[1], p[2]>> /\ p[1] # to /\ p[2] # to
            BY DEF Without, Ordered
        <3>3. l = new(p[1]) /\ m = new(p[2])
            BY <3>1
        <3>4. old(l) = p[1] /\ old(m) = p[2]
            BY <3>2, <3>3
        <3> QED
            BY <3>2, <3>4
    <2> QED
        BY <2>2, <2>3
<1>5. /\ \A l \in DOMAIN files' : old(l) \in DOMAIN files
      /\ \A l, m \in DOMAIN files' : l # m => old(l) # old(m)
    BY <1>1
<1> HIDE DEF old, new
<1> QED
    BY <1>3, <1>4, <1>5 DEF Ordered

\* Nothing else touches the order.
LEMMA OrderedStep == Typed /\ Ordered /\ [Next]_vars => Ordered'
<1> SUFFICES ASSUME Typed, Ordered, [Next]_vars PROVE Ordered'
    OBVIOUS
<1>u. ASSUME UNCHANGED <<files, older>> PROVE Ordered'
    BY <1>u DEF Ordered
<1>1. CASE \E k \in Keys, x \in Contents : Put(k, x)
    BY <1>1, <1>u DEF Put
<1>2. ASSUME NEW t \in Threads, NEW ref \in Refs, Materialize(t, ref) PROVE Ordered'
    BY <1>2, <1>u DEF Materialize
<1>3. ASSUME NEW t \in Threads, Step(t) PROVE Ordered'
    <2>1. CASE CheckLocal(t) \/ Look(t) \/ Stat(t) \/ List(t) \/ Measure(t) \/ Open(t)
        BY <1>u, <2>1 DEF CheckLocal, Look, Stat, List, Measure, Open, UnchangedCache
    <2>2. CASE Touch(t)
        BY <2>2, WriteOrdered DEF Touch
    <2>3. CASE Download(t)
        BY <2>3, WriteOrdered DEF Download
    <2>4. CASE Verify(t)
        BY <1>u, <2>4, RemoveOrdered DEF Verify, UnchangedCache
    <2>5. CASE Replace(t)
        <3>1. reader[t].ref.content # t
            BY <2>5, StoreAssumption
               DEF Typed, TypeOK, ReadsIssued, Busy, Replace, At, Refs
        <3> QED
            BY <1>u, <2>5, <3>1, RenameOrdered DEF Replace, UnchangedCache, Present
    <2>6. CASE Unlink(t)
        BY <1>u, <2>6, RemoveOrdered DEF Unlink, UnchangedCache
    <2> QED
        BY <1>3, <2>1, <2>2, <2>3, <2>4, <2>5, <2>6 DEF Step
<1>4. ASSUME NEW t \in Threads, Crash(t) PROVE Ordered'
    <2>1. crashes' # t
        <3>1. crashes' \in 1..MaxUpsets
            BY <1>4, StoreAssumption DEF Crash, Typed, TypeOK
        <3> QED
            BY <3>1, StoreAssumption
    <2> QED
        BY <1>4, <2>1, RenameOrdered DEF Crash, Present
<1>5. CASE UNCHANGED vars
    BY <1>5, <1>u DEF vars
<1> QED
    BY <1>1, <1>2, <1>3, <1>4, <1>5 DEF Next

\* The files of the cache are always in one order of age, whatever touches,
\* downloads, renames and unlinks overlap: this is what _prune_cache sorts by.
THEOREM AgesOrdered == Spec => []Ordered
<1>1. Init => Ordered
    BY DEF Init, Ordered
<1> QED
    BY <1>1, TypedInit, TypedStep, OrderedStep, PTL DEF Spec

-----------------------------------------------------------------------------
(* The size of the cache *)

\* Sizes that fit into the cache, or of which all but one are zero.
Fit(f) ==
    \/ SumFunction(f) <= MaxCacheBytes
    \/ \E n \in DOMAIN f : SumFunction([m \in DOMAIN f \ {n} |-> f[m]]) = 0

\* Less fits if more does.
LEMMA FitLess ==
    ASSUME NEW S, IsFiniteSet(S), NEW f \in [S -> Nat],
           NEW T, IsFiniteSet(T), NEW g \in [T -> Nat],
           \A x \in S : f[x] = 0 \/ (x \in T /\ f[x] <= g[x]),
           Fit(g)
    PROVE  Fit(f)
<1>0. MaxCacheBytes \in Nat
    BY StoreAssumption
<1>1. CASE SumFunction(g) <= MaxCacheBytes
    <2>1. /\ SumFunction(f) \in Nat /\ SumFunction(g) \in Nat
          /\ SumFunction(f) <= SumFunction(g)
        BY SumGrows
    <2> QED
        BY <1>0, <1>1, <2>1 DEF Fit
<1>2. ASSUME NEW n \in T, SumFunction([m \in T \ {n} |-> g[m]]) = 0
      PROVE  Fit(f)
    <2> DEFINE less == [m \in T \ {n} |-> g[m]]
    <2>1. less \in [T \ {n} -> Nat] /\ IsFiniteSet(T \ {n})
        BY FS_RemoveElement
    <2>2. CASE n \in S
        <3> DEFINE rest == [m \in S \ {n} |-> f[m]]
        <3>1. rest \in [S \ {n} -> Nat] /\ IsFiniteSet(S \ {n})
            BY FS_RemoveElement
        <3>2. \A x \in S \ {n} : rest[x] = 0 \/ (x \in T \ {n} /\ rest[x] <= less[x])
            OBVIOUS
        <3>3. SumFunction(less) = 0
            BY <1>2
        <3> HIDE DEF rest, less
        <3>4. SumFunction(rest) \in Nat /\ SumFunction(rest) <= SumFunction(less)
            BY <2>1, <3>1, <3>2, SumGrows
        <3>5. SumFunction(rest) = 0
            BY <3>3, <3>4
        <3> QED
            BY <2>2, <3>5 DEF Fit, rest
    <2>3. CASE n \notin S
        <3>1. \A x \in S : f[x] = 0 \/ (x \in T \ {n} /\ f[x] <= less[x])
            BY <2>3
        <3>2. SumFunction(less) = 0
            BY <1>2
        <3> HIDE DEF less
        <3>3. SumFunction(f) \in Nat /\ SumFunction(f) <= SumFunction(less)
            BY <2>1, <3>1, SumGrows
        <3> QED
            BY <1>0, <3>2, <3>3 DEF Fit
    <2> QED
        BY <2>2, <2>3
<1> QED
    BY <1>1, <1>2 DEF Fit

Sizes(names) == [n \in names |-> SizeOf(n)]
Fits(names) == Fit(Sizes(names))

\* The cache has finitely many files, of sizes that are numbers.
Filed == Typed /\ Ordered /\ IsFiniteSet(DOMAIN files)

LEMMA SizesOfFiles ==
    ASSUME Filed, NEW names \in SUBSET DOMAIN files
    PROVE  /\ IsFiniteSet(names)
           /\ Sizes(names) \in [names -> Nat]
           /\ \A n \in names : SizeOf(n) \in Nat
<1>1. IsFiniteSet(names)
    BY FS_Subset DEF Filed
<1>2. \A n \in DOMAIN files : SizeOf(n) \in Nat
    BY StoreAssumption DEF Filed, Typed, TypeOK, SizeOf
<1> QED
    BY <1>1, <1>2 DEF Sizes

\* Of a set of files, one is older than all others.
LEMMA OldestExists ==
    ASSUME Filed, NEW names \in SUBSET DOMAIN files, names # {}
    PROVE  \E n \in names : \A m \in names : <<m, n>> \notin older
<1>1. IsFiniteSet(names)
    BY SizesOfFiles
<1>2. \A l \in names : <<l, l>> \notin older
    BY DEF Filed, Ordered
<1>3. \A l, m, n \in names : <<l, m>> \in older /\ <<m, n>> \in older => <<l, n>> \in older
    BY DEF Filed, Ordered
<1> QED
    BY <1>1, <1>2, <1>3, FirstExists, Zenon

\* What a prune leaves fits: the oldest of the files it leaves, other than the
\* target, was left because everything that is not older fits.
LEMMA PruneFits ==
    ASSUME Filed, NEW names \in SUBSET DOMAIN files, NEW target
    PROVE  Fits(names \ Doomed(names, target))
<1> DEFINE from == names \ {target}
           left == names \ Doomed(names, target)
<1>0. left \in SUBSET DOMAIN files /\ left \subseteq names
    OBVIOUS
<1>1. /\ IsFiniteSet(left) /\ Sizes(left) \in [left -> Nat]
      /\ \A n \in left : SizeOf(n) \in Nat
    BY <1>0, SizesOfFiles
<1>2. CASE left \subseteq {target}
    <2>1. CASE left = {}
        <3>1. SumFunction(Sizes(left)) = 0
            BY <1>1, <2>1, SumOfZeros
        <3> QED
            BY <3>1, StoreAssumption DEF Fits, Fit
    <2>2. CASE target \in left
        <3> DEFINE rest == [m \in left \ {target} |-> Sizes(left)[m]]
        <3>1. rest \in [left \ {target} -> Nat] /\ IsFiniteSet(left \ {target})
              /\ \A x \in left \ {target} : rest[x] = 0
            BY <1>1, <1>2, FS_RemoveElement
        <3> HIDE DEF rest
        <3>2. SumFunction(rest) = 0
            BY <3>1, SumOfZeros
        <3>3. DOMAIN Sizes(left) = left
            BY DEF Sizes
        <3> QED
            BY <2>2, <3>2, <3>3 DEF Fits, Fit, rest
    <2> QED
        BY <1>2, <2>1, <2>2
<1>3. CASE ~(left \subseteq {target})
    <2> DEFINE others == left \ {target}
    <2>1. others \in SUBSET DOMAIN files /\ others # {}
        BY <1>3
    <2>2. PICK n \in others : \A m \in others : <<m, n>> \notin older
        <3> HIDE DEF others
        <3> QED
            BY <2>1, OldestExists
    <2> DEFINE young == names \ {m \in from : <<m, n>> \in older}
    <2>3. left \subseteq young /\ young \in SUBSET DOMAIN files
        BY <2>2
    <2>4. ~(BytesOf(young) > MaxCacheBytes)
        BY <2>2 DEF Doomed, Oldest
    <2>5. BytesOf(young) = SumFunction(Sizes(young))
        BY DEF BytesOf, Sizes
    <2> HIDE DEF young
    <2>6. IsFiniteSet(young) /\ Sizes(young) \in [young -> Nat]
          /\ \A m \in young : SizeOf(m) \in Nat
        BY <2>3, SizesOfFiles
    <2>7. \A x \in left : x \in young /\ Sizes(left)[x] <= Sizes(young)[x]
        BY <1>1, <2>3 DEF Sizes
    <2> HIDE DEF left
    <2>8. /\ SumFunction(Sizes(left)) \in Nat /\ SumFunction(Sizes(young)) \in Nat
          /\ SumFunction(Sizes(left)) <= SumFunction(Sizes(young))
        BY <1>1, <2>6, <2>7, SumGrows
    <2> QED
        BY <2>4, <2>5, <2>8, StoreAssumption DEF Fits, Fit, left
<1> QED
    BY <1>2, <1>3

\* The files that downloads have finished.
Kept == DOMAIN files \ Threads

\* A thread is about to list the cache, or has listed what counts, or has yet to
\* unlink what is too much.
Pending(t) ==
    \/ At(t, "list")
    \/ At(t, "measure") /\ \A n \in Kept : n \in reader[t].listed \/ SizeOf(n) = 0
    \/ At(t, "unlink") /\ Fits(Kept \ DOMAIN reader[t].doomed)

\* The cache fits, or some thread will see to it.
Bounded ==
    crashes = 0 /\ ~unpruned => Fits(Kept) \/ \E t \in Threads : Pending(t)

\* The cache stays finite: a step adds one file at most.
LEMMA FiledStep == Filed /\ [Next]_vars => Filed'
<1> SUFFICES ASSUME Filed, [Next]_vars PROVE Filed'
    OBVIOUS
<1> DEFINE Grows == \E n : DOMAIN files' \subseteq DOMAIN files \cup {n}
<1>1. Grows
    <2>u. ASSUME files' = files PROVE Grows
        BY <2>u
    <2>w. ASSUME NEW n, NEW body, WriteFile(n, body) PROVE Grows
        BY <2>w DEF WriteFile
    <2>m. ASSUME NEW n, Remove(n) PROVE Grows
        BY <2>m DEF Remove
    <2>r. ASSUME NEW m, NEW n, Rename(m, n) PROVE Grows
        BY <2>r DEF Rename
    <2> HIDE DEF Grows
    <2>1. CASE \E k \in Keys, x \in Contents : Put(k, x)
        BY <2>1, <2>u DEF Put
    <2>2. ASSUME NEW t \in Threads, NEW ref \in Refs, Materialize(t, ref) PROVE Grows
        BY <2>2, <2>u DEF Materialize
    <2>3. ASSUME NEW t \in Threads, Step(t) PROVE Grows
        <3>1. CASE CheckLocal(t) \/ Look(t) \/ Stat(t) \/ List(t) \/ Measure(t) \/ Open(t)
            BY <2>u, <3>1 DEF CheckLocal, Look, Stat, List, Measure, Open, UnchangedCache
        <3>2. CASE Touch(t) \/ Download(t)
            BY <2>w, <3>2 DEF Touch, Download
        <3>3. CASE Verify(t)
            BY <2>u, <2>m, <3>3 DEF Verify, UnchangedCache
        <3>4. CASE Replace(t)
            BY <2>u, <2>r, <3>4 DEF Replace, UnchangedCache
        <3>5. CASE Unlink(t)
            BY <2>u, <2>m, <3>5 DEF Unlink, UnchangedCache
        <3> QED
            BY <2>3, <3>1, <3>2, <3>3, <3>4, <3>5 DEF Step
    <2>4. ASSUME NEW t \in Threads, Crash(t) PROVE Grows
        BY <2>4, <2>r DEF Crash
    <2>5. CASE UNCHANGED vars
        BY <2>5, <2>u DEF vars
    <2> QED
        BY <2>1, <2>2, <2>3, <2>4, <2>5 DEF Next
<1>2. IsFiniteSet(DOMAIN files')
    <2>1. PICK n : DOMAIN files' \subseteq DOMAIN files \cup {n}
        BY <1>1
    <2>2. IsFiniteSet(DOMAIN files \cup {n})
        BY FS_AddElement DEF Filed
    <2> QED
        BY <2>1, <2>2, FS_Subset
<1>3. Typed' /\ Ordered'
    BY TypedStep, OrderedStep DEF Filed
<1> QED
    BY <1>2, <1>3 DEF Filed

\* Files that were there before, with the sizes they had, and empty ones fit
\* where those did.
LEMMA StillFits ==
    ASSUME Filed, Filed', NEW S \in SUBSET DOMAIN files, Fits(S),
           NEW T \in SUBSET DOMAIN files',
           \A n \in T : SizeOf(n)' = 0 \/ (n \in S /\ files'[n] = files[n])
    PROVE  Fits(T)'
<1> DEFINE f == Sizes(S)
           g == Sizes(T)'
<1>1. IsFiniteSet(S) /\ f \in [S -> Nat] /\ \A n \in S : SizeOf(n) \in Nat
    BY SizesOfFiles
<1>2. IsFiniteSet(T) /\ g \in [T -> Nat]
    <2>1. IsFiniteSet(T)
        BY FS_Subset DEF Filed
    <2>2. \A n \in T : SizeOf(n)' \in Nat
        BY StoreAssumption DEF Filed, Typed, TypeOK, SizeOf
    <2> QED
        BY <2>1, <2>2 DEF Sizes
<1>3. ASSUME NEW n \in T
      PROVE  g[n] = 0 \/ (n \in S /\ g[n] <= f[n])
    <2>1. g[n] = SizeOf(n)'
        BY DEF Sizes
    <2>2. ASSUME n \in S, files'[n] = files[n]
          PROVE  g[n] = f[n]
        BY <2>1, <2>2 DEF Sizes, SizeOf
    <2>3. g[n] \in Nat
        BY <1>2
    <2> HIDE DEF f, g
    <2> QED
        BY <2>1, <2>2, <2>3
<1>4. Fit(f)
    BY DEF Fits
<1> HIDE DEF f, g
<1>5. Fit(g)
    BY <1>1, <1>2, <1>3, <1>4, FitLess
<1> QED
    BY <1>5 DEF Fits, Fit, g

\* Empty files apart, a step leaves no file that was not there before.
Settling == \A n \in Kept' : SizeOf(n)' = 0 \/ (n \in Kept /\ files'[n] = files[n])

\* So it is for all steps but a replacement, which is followed by a listing, and a
\* death.
LEMMA StepSettles ==
    ASSUME Typed, NEW t \in Threads, Step(t), ~(Replace(t) /\ Present(t))
    PROVE  Settling
<1> USE DEF Settling, Kept
<1>u. ASSUME files' = files PROVE Settling
    BY <1>u
<1>m. ASSUME NEW n, Remove(n) PROVE Settling
    BY <1>m DEF Remove
<1>1. CASE CheckLocal(t) \/ Look(t) \/ Stat(t) \/ List(t) \/ Measure(t) \/ Open(t)
    BY <1>u, <1>1 DEF CheckLocal, Look, Stat, List, Measure, Open, UnchangedCache
<1>2. CASE Touch(t)
    <2> PICK n : n = reader[t].ref.content
        OBVIOUS
    <2>1. WriteFile(n, IF Present(n) THEN files[n] ELSE Empty)
        BY <1>2 DEF Touch
    <2>2. CASE Present(n)
        BY <2>1, <2>2 DEF WriteFile, Present
    <2>3. CASE ~Present(n)
        <3>1. files'[n] = Empty
            BY <2>1, <2>3 DEF WriteFile
        <3>2. SizeOf(n)' = 0
            BY <3>1 DEF SizeOf
        <3>3. \A m \in DOMAIN files' : m = n \/ (m \in DOMAIN files /\ files'[m] = files[m])
            BY <2>1, <2>3 DEF WriteFile
        <3> QED
            BY <3>2, <3>3
    <2> QED
        BY <2>2, <2>3
<1>3. CASE Download(t)
    BY <1>3 DEF Download, WriteFile
<1>4. CASE Verify(t)
    BY <1>u, <1>m, <1>4 DEF Verify, UnchangedCache
<1>5. CASE Replace(t)
    BY <1>u, <1>5 DEF Replace, UnchangedCache
<1>6. CASE Unlink(t)
    BY <1>u, <1>m, <1>6 DEF Unlink, UnchangedCache
<1> QED
    BY <1>1, <1>2, <1>3, <1>4, <1>5, <1>6 DEF Step

\* A settling step that leaves whoever has yet to prune where he is, or takes him
\* no further than his prune requires, keeps the cache bounded.
LEMMA SettlingFits ==
    ASSUME Filed, Filed', Settling
    PROVE  /\ Fits(Kept) => Fits(Kept)'
           /\ \A names, fewer : /\ Fits(Kept \ names)
                                /\ \A n \in Kept' : n \in names => n \in fewer
                                => Fits(Kept \ fewer)'
<1>1. Kept \in SUBSET DOMAIN files /\ Kept' \in SUBSET DOMAIN files'
    BY DEF Kept
<1>2. Fits(Kept) => Fits(Kept)'
    BY <1>1, StillFits DEF Settling
<1>3. ASSUME NEW names, NEW fewer, Fits(Kept \ names),
             \A n \in Kept' : n \in names => n \in fewer
      PROVE  Fits(Kept \ fewer)'
    <2> PICK S : S = Kept \ names
        OBVIOUS
    <2> PICK T : T = Kept' \ fewer
        OBVIOUS
    <2>1. S \in SUBSET DOMAIN files /\ T \in SUBSET DOMAIN files'
        BY <1>1
    <2>2. \A n \in T : SizeOf(n)' = 0 \/ (n \in S /\ files'[n] = files[n])
        BY <1>3 DEF Settling
    <2>3. Fits(T)'
        BY <1>3, <2>1, <2>2, StillFits
    <2> QED
        BY <2>3
<1> QED
    BY <1>2, <1>3

\* A prune that a settling step is not part of stays due.
LEMMA PendingKept ==
    ASSUME Filed, Filed', Settling, NEW t \in Threads, Pending(t),
           reader'[t].pc = reader[t].pc,
           reader'[t].listed = reader[t].listed,
           reader'[t].doomed = reader[t].doomed
    PROVE  Pending(t)'
<1>1. CASE At(t, "list")
    BY <1>1 DEF Pending, At
<1>2. CASE At(t, "measure") /\ \A n \in Kept : n \in reader[t].listed \/ SizeOf(n) = 0
    <2>1. \A n \in Kept' : n \in reader'[t].listed \/ SizeOf(n)' = 0
        <3>1. ASSUME NEW n, files'[n] = files[n] PROVE SizeOf(n)' = SizeOf(n)
            BY <3>1 DEF SizeOf
        <3> QED
            BY <1>2, <3>1 DEF Settling
    <2> QED
        BY <1>2, <2>1 DEF Pending, At
<1>3. CASE At(t, "unlink") /\ Fits(Kept \ DOMAIN reader[t].doomed)
    <2> PICK names : names = DOMAIN reader[t].doomed
        OBVIOUS
    <2>1. Fits(Kept \ names)'
        BY <1>3, SettlingFits
    <2>2. names = DOMAIN reader'[t].doomed
        OBVIOUS
    <2> QED
        BY <1>3, <2>1, <2>2 DEF Pending, At
<1> QED
    BY <1>1, <1>2, <1>3 DEF Pending

\* What a step of a call leaves alone.
LEMMA StepFrame ==
    ASSUME Typed, NEW t \in Threads, Step(t)
    PROVE  /\ crashes' = crashes
           /\ \A u \in Threads \ {t} : reader'[u] = reader[u]
           /\ ~unpruned' => ~unpruned
<1>d. DOMAIN reader = Threads
    BY DEF Typed, TypeOK
<1>g. ASSUME NEW next, Goto(t, next) PROVE \A u \in Threads \ {t} : reader'[u] = reader[u]
    BY <1>g DEF Goto
<1>f. ASSUME NEW value, Finish(t, value)
      PROVE  \A u \in Threads \ {t} : reader'[u] = reader[u]
    BY <1>f DEF Finish
<1>1. CASE CheckLocal(t) \/ Look(t) \/ Stat(t)
    BY <1>1, <1>f, <1>g DEF CheckLocal, Look, Stat
<1>2. CASE Touch(t) \/ Download(t) \/ Verify(t)
    BY <1>2, <1>f, <1>g DEF Touch, Download, Verify
<1>3. CASE Replace(t) \/ Open(t)
    BY <1>3, <1>f, <1>g DEF Replace, Open
<1>4. CASE List(t)
    BY <1>4, <1>d DEF List
<1>5. CASE Measure(t)
    <2>1. ~unpruned' => ~unpruned
        BY <1>5 DEF Measure
    <2>2. \A u \in Threads \ {t} : reader'[u] = reader[u]
        BY <1>5, <1>d, <1>f DEF Measure
    <2> QED
        BY <1>5, <2>1, <2>2 DEF Measure
<1>6. CASE Unlink(t)
    <2>1. \A u \in Threads \ {t} : reader'[u] = reader[u]
        BY <1>6, <1>d, <1>g DEF Unlink
    <2> QED
        BY <1>6, <2>1 DEF Unlink
<1> QED
    BY <1>1, <1>2, <1>3, <1>4, <1>5, <1>6 DEF Step

\* A thread that is due to prune goes on with it, or has just done it.
LEMMA PendingStep ==
    ASSUME Filed, Filed', Settling, NEW t \in Threads, Step(t), Pending(t), ~unpruned'
    PROVE  Pending(t)' \/ Fits(Kept)'
<1>1. CASE At(t, "list")
    <2>1. List(t)
        BY <1>1 DEF Step, At, CheckLocal, Look, Stat, Touch, Download, Verify, Replace,
                    Measure, Unlink, Open
    <2>2. reader'[t].pc = "measure" /\ reader'[t].listed = DOMAIN files
        BY <2>1 DEF List, Filed, Typed, TypeOK, IdleReader
    <2>3. files' = files
        BY <2>1 DEF List, UnchangedCache
    <2> QED
        BY <2>2, <2>3 DEF Pending, At, Kept
<1>2. CASE At(t, "measure") /\ \A n \in Kept : n \in reader[t].listed \/ SizeOf(n) = 0
    <2>1. Measure(t)
        BY <1>2 DEF Step, At, CheckLocal, Look, Stat, Touch, Download, Verify, Replace,
                    List, Unlink, Open
    <2> PICK names : names = reader[t].listed \cap DOMAIN files
        OBVIOUS
    <2> PICK doomed : doomed = Doomed(names, reader[t].ref.content)
        OBVIOUS
    <2>2. files' = files
        BY <2>1 DEF Measure, UnchangedCache
    <2>3. reader'[t].pc = "unlink" /\ DOMAIN reader'[t].doomed = doomed
        <3>1. reader' = [reader EXCEPT ![t].pc = "unlink", ![t].listed = {},
                                       ![t].doomed = InOrder(doomed)]
            BY <2>1 DEF Measure
        <3> HIDE DEF Filed
        <3>2. DOMAIN InOrder(doomed) = doomed
            BY DEF InOrder
        <3>3. t \in DOMAIN reader /\ DOMAIN reader[t] = DOMAIN IdleReader
            BY DEF Filed, Typed, TypeOK
        <3> QED
            BY <3>1, <3>2, <3>3 DEF IdleReader
    <2>4. Fits(names \ doomed)
        BY PruneFits
    <2> PICK S : S = names \ doomed
        OBVIOUS
    <2> PICK T : T = Kept' \ doomed
        OBVIOUS
    <2>5. S \in SUBSET DOMAIN files /\ T \in SUBSET DOMAIN files'
        BY DEF Kept
    <2>6. \A n \in T : SizeOf(n)' = 0 \/ (n \in S /\ files'[n] = files[n])
        <3>1. \A n : SizeOf(n)' = SizeOf(n)
            BY <2>2 DEF SizeOf
        <3> QED
            BY <1>2, <2>2, <3>1 DEF Kept
    <2>7. Fits(T)'
        BY <2>4, <2>5, <2>6, StillFits
    <2> QED
        BY <2>3, <2>7 DEF Pending, At
<1>3. CASE At(t, "unlink") /\ Fits(Kept \ DOMAIN reader[t].doomed)
    <2>1. Unlink(t)
        BY <1>3 DEF Step, At, CheckLocal, Look, Stat, Touch, Download, Verify, Replace,
                    List, Measure, Open
    <2> PICK names : names = DOMAIN reader[t].doomed
        OBVIOUS
    <2>2. CASE names = {}
        <3>1. Fits(Kept \ names) /\ Kept \ names = Kept
            BY <1>3, <2>2
        <3> QED
            BY <3>1, SettlingFits
    <2>3. CASE names # {}
        <3>1. PICK n \in names :
                /\ Remove(n)
                /\ reader' = [reader EXCEPT ![t].doomed =
                        [m \in names \ {n} |-> reader[t].doomed[m] \ {n}]]
            BY <2>1, <2>3 DEF Unlink
        <3> PICK fewer : fewer = names \ {n}
            OBVIOUS
        <3>2. reader'[t].pc = "unlink" /\ DOMAIN reader'[t].doomed = fewer
            BY <1>3, <3>1 DEF At, Filed, Typed, TypeOK, IdleReader
        <3>3. \A m \in Kept' : m \in names => m \in fewer
            BY <3>1 DEF Kept, Remove
        <3>4. Fits(Kept \ fewer)'
            BY <1>3, <3>3, SettlingFits
        <3> QED
            BY <3>2, <3>4 DEF Pending, At
    <2> QED
        BY <2>2, <2>3
<1> QED
    BY <1>1, <1>2, <1>3 DEF Pending

\* Every step keeps the cache bounded.
LEMMA BoundedStep == Filed /\ Bounded /\ [Next]_vars => Bounded'
<1> SUFFICES ASSUME Filed, Bounded, [Next]_vars, crashes' = 0, ~unpruned'
             PROVE  Fits(Kept)' \/ \E t \in Threads : Pending(t)'
    BY DEF Bounded
<1>0. Filed'
    BY FiledStep
<1>s. ASSUME files' = files PROVE Settling
    BY <1>s DEF Settling, Kept
<1>k. ASSUME Settling, crashes = 0, ~unpruned,
             \A t \in Threads : Pending(t) => Pending(t)' \/ Fits(Kept)'
      PROVE  Fits(Kept)' \/ \E t \in Threads : Pending(t)'
    <2>1. Fits(Kept) => Fits(Kept)'
        BY <1>0, <1>k, SettlingFits
    <2> QED
        BY <1>k, <2>1 DEF Bounded
<1>1. ASSUME NEW k \in Keys, NEW x \in Contents, Put(k, x)
      PROVE  Fits(Kept)' \/ \E t \in Threads : Pending(t)'
    <2>1. Settling
        BY <1>1, <1>s DEF Put
    <2>2. \A t \in Threads : /\ reader'[t].pc = reader[t].pc
                             /\ reader'[t].listed = reader[t].listed
                             /\ reader'[t].doomed = reader[t].doomed
        BY <1>1 DEF Put, Filed, Typed, TypeOK, IdleReader
    <2>3. \A t \in Threads : Pending(t) => Pending(t)'
        BY <1>0, <2>1, <2>2, PendingKept
    <2>4. crashes = 0 /\ ~unpruned
        BY <1>1 DEF Put
    <2> QED
        BY <1>k, <2>1, <2>3, <2>4
<1>2. ASSUME NEW t \in Threads, NEW ref \in Refs, Materialize(t, ref)
      PROVE  Fits(Kept)' \/ \E u \in Threads : Pending(u)'
    <2>1. Settling
        BY <1>2, <1>s DEF Materialize
    <2>2. \A u \in Threads \ {t} : /\ reader'[u].pc = reader[u].pc
                                   /\ reader'[u].listed = reader[u].listed
                                   /\ reader'[u].doomed = reader[u].doomed
        BY <1>2 DEF Materialize, Filed, Typed, TypeOK, IdleReader
    <2>3. ~Pending(t)
        BY <1>2 DEF Materialize, Busy, Pending, At
    <2>4. \A u \in Threads : Pending(u) => Pending(u)'
        BY <1>0, <2>1, <2>2, <2>3, PendingKept
    <2>5. crashes = 0 /\ ~unpruned
        BY <1>2 DEF Materialize
    <2> QED
        BY <1>k, <2>1, <2>4, <2>5
<1>3. ASSUME NEW t \in Threads, Step(t)
      PROVE  Fits(Kept)' \/ \E u \in Threads : Pending(u)'
    <2>1. CASE Replace(t) /\ Present(t)
        <3>1. reader'[t].pc = "list"
            BY <2>1 DEF Replace, Goto, Filed, Typed, TypeOK, IdleReader
        <3> QED
            BY <3>1 DEF Pending, At
    <2>2. CASE ~(Replace(t) /\ Present(t))
        <3>1. Settling
            BY <1>3, <2>2, StepSettles DEF Filed
        <3>2. crashes = 0 /\ ~unpruned /\ \A u \in Threads \ {t} : reader'[u] = reader[u]
            BY <1>3, StepFrame DEF Filed
        <3>3. \A u \in Threads \ {t} : Pending(u) => Pending(u)'
            BY <1>0, <3>1, <3>2, PendingKept
        <3>4. Pending(t) => Pending(t)' \/ Fits(Kept)'
            BY <1>0, <1>3, <3>1, PendingStep
        <3> QED
            BY <1>k, <3>1, <3>2, <3>3, <3>4
    <2> QED
        BY <2>1, <2>2
<1>4. ASSUME NEW t \in Threads, Crash(t) PROVE FALSE
    BY <1>4 DEF Crash, Filed, Typed, TypeOK
<1>5. CASE UNCHANGED vars
    <2>1. Settling /\ crashes = 0 /\ ~unpruned /\ reader' = reader
        BY <1>5, <1>s DEF vars
    <2>2. \A t \in Threads : Pending(t) => Pending(t)'
        BY <1>0, <2>1, PendingKept
    <2> QED
        BY <1>k, <2>1, <2>2
<1> QED
    BY <1>1, <1>2, <1>3, <1>4, <1>5 DEF Next

\* An empty cache fits.
LEMMA BoundedInit == Init => Filed /\ Bounded
<1> SUFFICES ASSUME Init PROVE Filed /\ Bounded
    OBVIOUS
<1>1. DOMAIN files = {} /\ IsFiniteSet(DOMAIN files)
    <2>1. DOMAIN files = {}
        BY DEF Init
    <2> QED
        BY <2>1, FS_EmptySet
<1>2. Filed
    BY <1>1, TypedInit DEF Filed, Ordered, Init
<1>3. Kept = {} /\ Kept \in SUBSET DOMAIN files
    BY <1>1 DEF Kept
<1>4. SumFunction(Sizes(Kept)) = 0
    <2>1. IsFiniteSet(Kept) /\ Sizes(Kept) \in [Kept -> Nat]
        BY <1>2, <1>3, SizesOfFiles
    <2> QED
        BY <1>3, <2>1, SumOfZeros
<1> QED
    BY <1>2, <1>4, StoreAssumption DEF Bounded, Fits, Fit

\* Once all threads are idle nobody is left to prune and no temporary file is left.
LEMMA BoundedQuiet == Filed /\ Bounded => CacheBounded
<1> SUFFICES ASSUME Filed, Bounded, \A t \in Threads : ~Busy(t), crashes = 0, ~unpruned
             PROVE  \/ BytesOf(DOMAIN files) <= MaxCacheBytes
                    \/ \E n \in DOMAIN files : BytesOf(DOMAIN files \ {n}) = 0
    BY DEF CacheBounded
<1>1. \A t \in Threads : ~Pending(t)
    BY DEF Busy, Pending, At
<1>2. Kept = DOMAIN files
    <2>1. \A t \in Threads : ~Present(t)
        BY DEF Filed, Typed, TypeOK, Busy
    <2> QED
        BY <2>1 DEF Kept, Present
<1>3. Fit(Sizes(DOMAIN files))
    BY <1>1, <1>2 DEF Bounded, Fits
<1>4. DOMAIN Sizes(DOMAIN files) = DOMAIN files
    BY DEF Sizes
<1>5. BytesOf(DOMAIN files) = SumFunction(Sizes(DOMAIN files))
    BY DEF BytesOf, Sizes
<1>6. ASSUME NEW n
      PROVE  BytesOf(DOMAIN files \ {n})
                = SumFunction([m \in DOMAIN files \ {n} |-> Sizes(DOMAIN files)[m]])
    <2>1. \A m \in DOMAIN files \ {n} : Sizes(DOMAIN files)[m] = SizeOf(m)
        BY DEF Sizes
    <2>2. [m \in DOMAIN files \ {n} |-> Sizes(DOMAIN files)[m]]
            = [m \in DOMAIN files \ {n} |-> SizeOf(m)]
        BY <2>1
    <2> QED
        BY <2>2 DEF BytesOf
<1> HIDE DEF Fit
<1> QED
    BY <1>3, <1>4, <1>5, <1>6 DEF Fit

\* CacheBounded holds whatever the sizes of the objects and of the cache, and
\* however many downloads overlap: a prune may measure files that others remove
\* and miss files that others add, but whoever adds one has yet to list.
THEOREM CacheStaysBounded == Spec => []CacheBounded
<1>1. Init => Filed /\ Bounded
    BY BoundedInit
<1>2. Filed /\ Bounded /\ [Next]_vars => (Filed /\ Bounded)'
    BY FiledStep, BoundedStep
<1>3. Filed /\ Bounded => CacheBounded
    BY BoundedQuiet
<1> QED
    BY <1>1, <1>2, <1>3, PTL DEF Spec

=============================================================================
