------------------------------- MODULE BlobStore -------------------------------
(***************************************************************************)
(* What an object store promises those who read and write it, with no      *)
(* cache, download or temporary file in sight.  A write replaces the       *)
(* object of a key and gives out a reference to it: the key and the        *)
(* content, which stands for its digest.  A read of a reference fails or   *)
(* gives the content of the reference, whatever has been written since;    *)
(* only two other things may a reader ever see, and which of them depends  *)
(* on the store it uses.                                                   *)
(***************************************************************************)
CONSTANTS
    Threads,   \* readers
    Keys,
    Contents,
    None,      \* a key without an object, a thread without a result
    Empty,     \* a file without a byte
    Failed     \* a read that raised

VARIABLES
    backend,   \* "local" or "r2"
    object,    \* the object under each key
    issued,    \* the references that have been given out
    got        \* what each thread has read last, and for which reference

specVars == <<backend, object, issued, got>>

Refs == [key : Keys, content : Contents]

Init ==
    /\ backend \in {"local", "r2"}
    /\ object = [k \in Keys |-> None]
    /\ issued = {}
    /\ got = [t \in Threads |-> None]

Write(k, x) ==
    /\ object' = [object EXCEPT ![k] = x]
    /\ UNCHANGED <<backend, got>>
    /\ issued' = issued \cup {[key |-> k, content |-> x]}

\* What a reader of `ref' may be given now.  On local disk it may be the object
\* that has taken the place of the one referred to, from r2 a file that is empty.
Readings(ref) ==
    {ref.content, Failed} \cup (IF backend = "local" THEN {object[ref.key]} ELSE {Empty})

Read(t, ref) ==
    /\ ref \in issued
    /\ \E value \in Readings(ref) : got' = [got EXCEPT ![t] = [ref |-> ref, value |-> value]]
    /\ UNCHANGED <<backend, object, issued>>

\* The reader is done with what it has read.
Forget(t) ==
    /\ got' = [got EXCEPT ![t] = None]
    /\ UNCHANGED <<backend, object, issued>>

Next ==
    \/ \E k \in Keys, x \in Contents : Write(k, x)
    \/ \E t \in Threads : Forget(t) \/ \E ref \in Refs : Read(t, ref)

Spec == Init /\ [][Next]_specVars

=============================================================================
