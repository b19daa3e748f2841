--------------------------- MODULE IdempotentCreate ---------------------------
(***************************************************************************)
(* Store.create_idempotent: one transaction on one pooled connection that  *)
(* takes an advisory lock on the key, looks for the idempotency link of    *)
(* the key, and either answers the resource it points to or inserts the    *)
(* resource and the link.                                                  *)
(*                                                                         *)
(* A step is one statement.  Statements see what was committed before them *)
(* (READ COMMITTED); the inserts of a transaction become visible together  *)
(* when it commits, so they are one step here.  The advisory lock and the  *)
(* connection are held until the transaction ends.                         *)
(***************************************************************************)
EXTENDS Naturals, FiniteSets

CONSTANTS
    Calls, Keys, Payloads, NoKey, None,
    PoolMax   \* database_pool_max_size

ASSUME PoolAssumption == PoolMax \in Nat \ {0}
ASSUME NamesAssumption ==
    /\ NoKey \notin Keys
    /\ None \notin Calls
    /\ None \notin [key : Keys \cup {NoKey}, payload : Payloads]

VARIABLES
    asked,   \* key and fingerprint of each call, None before it arrives
    pc,      \* program counter of each call
    lock,    \* holder of the advisory lock of each key
    link,    \* the idempotency row of each key: the call whose resource it points to
    rows,    \* the committed resources, each named by the call that inserted it
    answer   \* the reply of each call

vars == <<asked, pc, lock, link, rows, answer>>

Reply(kind, c) == [kind |-> kind, maker |-> c]
Unanswered == Reply("none", None)

\* Program points at which a call holds a connection of the pool.
Connected == {"lock", "select", "fetch", "insert", "commit"}
InUse == {c \in Calls : pc[c] \in Connected}

Init ==
    /\ asked = [c \in Calls |-> None]
    /\ pc = [c \in Calls |-> "idle"]
    /\ lock = [k \in Keys |-> None]
    /\ link = [k \in Keys |-> None]
    /\ rows = {}
    /\ answer = [c \in Calls |-> Unanswered]

Goto(c, here, next) == pc[c] = here /\ pc' = [pc EXCEPT ![c] = next]

\* The transaction of c ends: its lock and its connection are given back, and
\* the caller is answered.
Finish(c, a) ==
    /\ pc' = [pc EXCEPT ![c] = "done"]
    /\ lock' = [k \in Keys |-> IF lock[k] = c THEN None ELSE lock[k]]
    /\ answer' = [answer EXCEPT ![c] = a]

Arrive(c, k, p) ==
    /\ Goto(c, "idle", "connect")
    /\ asked' = [asked EXCEPT ![c] = [key |-> k, payload |-> p]]
    /\ UNCHANGED <<lock, link, rows, answer>>

\* Take a connection from the pool; a call without a key goes straight to its
\* inserts.
Connect(c) ==
    /\ Cardinality(InUse) < PoolMax
    /\ Goto(c, "connect", IF asked[c].key = NoKey THEN "insert" ELSE "lock")
    /\ UNCHANGED <<asked, lock, link, rows, answer>>

\* pg_advisory_xact_lock: waits, with the connection, until the lock is free.
Lock(c) ==
    /\ Goto(c, "lock", "select")
    /\ lock[asked[c].key] = None
    /\ lock' = [lock EXCEPT ![asked[c].key] = c]
    /\ UNCHANGED <<asked, link, rows, answer>>

\* Mistake: the fingerprint is not compared.
SelectAnyPayload(c) ==
    /\ Goto(c, "select", IF link[asked[c].key] = None THEN "insert" ELSE "fetch")
    /\ UNCHANGED <<asked, lock, link, rows, answer>>

\* Look for the link and compare the fingerprint of the request it came from.
Select(c) ==
    LET k == asked[c].key IN
    /\ pc[c] = "select"
    /\ \/ /\ link[k] = None
          /\ Goto(c, "select", "insert")
          /\ UNCHANGED <<lock, answer>>
       \/ /\ link[k] # None
          /\ asked[link[k]].payload # asked[c].payload
          /\ Finish(c, Reply("conflict", None))
       \/ /\ link[k] # None
          /\ asked[link[k]].payload = asked[c].payload
          /\ Goto(c, "select", "fetch")
          /\ UNCHANGED <<lock, answer>>
    /\ UNCHANGED <<asked, link, rows>>

\* Mistake: the resource is read through a second connection of the pool.
FetchOnAnotherConnection(c) ==
    LET d == link[asked[c].key] IN
    /\ pc[c] = "fetch"
    /\ Cardinality(InUse) < PoolMax
    /\ Finish(c, IF d \in rows THEN Reply("existing", d) ELSE Reply("error", None))
    /\ UNCHANGED <<asked, link, rows>>

\* Read the resource the link points to, on the connection already held.
Fetch(c) ==
    LET d == link[asked[c].key] IN
    /\ pc[c] = "fetch"
    /\ Finish(c, IF d \in rows THEN Reply("existing", d) ELSE Reply("error", None))
    /\ UNCHANGED <<asked, link, rows>>

\* Mistake: the row is named after the idempotency key.
InsertNamedByKey(c) ==
    /\ Goto(c, "insert", "commit")
    /\ rows' = rows \cup {asked[c].key}
    /\ UNCHANGED <<asked, lock, link, answer>>

\* Insert the resource and the link and commit; a link that is already there
\* violates the primary key and rolls the transaction back.
Insert(c) ==
    LET k == asked[c].key IN
    /\ pc[c] = "insert"
    /\ \/ /\ k \in Keys /\ link[k] # None
          /\ Finish(c, Reply("error", None))
          /\ UNCHANGED <<link, rows>>
       \/ /\ k \in Keys => link[k] = None
          /\ rows' = rows \cup {c}
          /\ link' = [i \in Keys |-> IF i = k THEN c ELSE link[i]]
          /\ Goto(c, "insert", "commit")
          /\ UNCHANGED <<lock, answer>>
    /\ UNCHANGED asked

\* The commit is acknowledged and the caller learns that it created.
Acknowledge(c) ==
    /\ pc[c] = "commit"
    /\ Finish(c, Reply("created", c))
    /\ UNCHANGED <<asked, link, rows>>

\* The pool times out, the connection breaks or the process dies: what was not
\* committed is rolled back, and the caller hears nothing of the outcome.
Lose(c) ==
    /\ pc[c] \notin {"idle", "done"}
    /\ Finish(c, Reply("lost", None))
    /\ UNCHANGED <<asked, link, rows>>

Step(c) ==
    Connect(c) \/ Lock(c) \/ Select(c) \/ Fetch(c) \/ Insert(c) \/ Acknowledge(c)

Next ==
    \E c \in Calls :
        \/ \E k \in Keys \cup {NoKey}, p \in Payloads : Arrive(c, k, p)
        \/ Step(c)
        \/ Lose(c)

Spec == Init /\ [][Next]_vars

\* PostgreSQL and the pool serve those who wait.
FairSpec == Spec /\ \A c \in Calls : WF_vars(Step(c))

-----------------------------------------------------------------------------
(* Properties *)

Points == {"idle", "connect", "done"} \cup Connected
Kinds == {"none", "created", "existing", "conflict", "error", "lost"}

TypeOK ==
    /\ asked \in [Calls -> [key : Keys \cup {NoKey}, payload : Payloads] \cup {None}]
    /\ pc \in [Calls -> Points]
    /\ lock \in [Keys -> Calls \cup {None}]
    /\ link \in [Keys -> Calls \cup {None}]
    /\ rows \subseteq Calls
    /\ answer \in [Calls -> [kind : Kinds, maker : Calls \cup {None}]]

\* Racing calls never meet the primary key of the link table, and no link
\* points to a resource that is missing: the caller sees no internal error.
NoInternalError == \A c \in Calls : answer[c].kind # "error"

\* All calls that carry one key and are answered a resource are answered the
\* same one, however they interleave, and however many replies were lost.
OneResourcePerKey ==
    \A c, d \in Calls :
        /\ asked[c] # None /\ asked[d] # None
        /\ asked[c].key = asked[d].key /\ asked[c].key # NoKey
        /\ {answer[c].kind, answer[d].kind} \subseteq {"created", "existing"}
        => answer[c].maker = answer[d].maker

\* The transaction implements CreateOnce.
Abstract == INSTANCE CreateOnce WITH made <- rows
Refines == Abstract!Spec

\* Waiting for a connection and waiting for a lock never block each other for
\* ever: every call that arrives is answered.
EveryCallAnswered ==
    \A c \in Calls : asked[c] # None ~> answer[c].kind # "none"

=============================================================================
