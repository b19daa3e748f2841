------------------------ MODULE IdempotentCreateProofs ------------------------
(***************************************************************************)
(* Proofs about IdempotentCreate, for any number of calls, keys, payloads  *)
(* and connections: type correctness, the two safety properties, and that  *)
(* the transaction implements CreateOnce.                                  *)
(***************************************************************************)
EXTENDS IdempotentCreate, TLAPS

\* Asked records, by name: a call that has arrived has one.
AskedType == [key : Keys \cup {NoKey}, payload : Payloads]

\* The points of the transaction at which a call with a key holds its lock.
UnderLock == {"select", "fetch", "insert", "commit"}

\* A call has arrived exactly if it has left "idle"; calls without a key never
\* get to the points that need one.
ArrivedInv ==
    \A c \in Calls :
        /\ asked[c] = None <=> pc[c] = "idle"
        /\ pc[c] \in {"lock", "select", "fetch"} => asked[c].key \in Keys

\* Mutual exclusion on a key: whoever is past the lock holds it.
LockInv ==
    \A c \in Calls : pc[c] \in UnderLock /\ asked[c].key \in Keys =>
        lock[asked[c].key] = c

\* Links and committed resources with a key correspond.
LinkInv ==
    /\ \A k \in Keys : link[k] # None =>
          link[k] \in rows /\ asked[link[k]].key = k
    /\ \A c \in rows :
          /\ pc[c] \in {"commit", "done"}
          /\ asked[c].key \in Keys => link[asked[c].key] = c

\* What a call concluded from its select is still true when it acts on it.
SelectInv ==
    \A c \in Calls :
        /\ pc[c] = "insert" /\ asked[c].key \in Keys => link[asked[c].key] = None
        /\ pc[c] = "fetch" =>
              /\ link[asked[c].key] # None
              /\ asked[link[asked[c].key]].payload = asked[c].payload
        /\ pc[c] = "commit" => c \in rows

\* What the replies mean.
AnswerInv ==
    \A c \in Calls :
        /\ pc[c] # "done" => answer[c] = Unanswered
        /\ answer[c].kind # "error"
        /\ answer[c].kind = "created" => answer[c].maker = c /\ c \in rows
        /\ answer[c].kind = "existing" =>
              /\ answer[c].maker \in rows
              /\ asked[c].key \in Keys
              /\ asked[answer[c].maker].key = asked[c].key

IInv == TypeOK /\ ArrivedInv /\ LockInv /\ LinkInv /\ SelectInv /\ AnswerInv

-----------------------------------------------------------------------------

\* The inductive invariant holds before the first call of create_idempotent.
LEMMA InitIInv == Init => IInv
BY NamesAssumption
   DEF Init, IInv, TypeOK, ArrivedInv, LockInv, LinkInv, SelectInv, AnswerInv,
       Unanswered, Reply, Points, Kinds, Connected, UnderLock

\* It is kept by a call that arrives with its key and its payload ...
LEMMA ArriveIInv ==
    ASSUME IInv, NEW c \in Calls, NEW k \in Keys \cup {NoKey}, NEW p \in Payloads, Arrive(c, k, p)
    PROVE  IInv'
BY NamesAssumption
   DEF Arrive, Goto, IInv, TypeOK, ArrivedInv, LockInv, LinkInv, SelectInv, AnswerInv,
       Unanswered, Reply, Points, Kinds, Connected, UnderLock

\* ... by a call that is given a connection of the pool ...
LEMMA ConnectIInv ==
    ASSUME IInv, NEW c \in Calls, Connect(c)
    PROVE  IInv'
BY NamesAssumption
   DEF Connect, Goto, IInv, TypeOK, ArrivedInv, LockInv, LinkInv, SelectInv, AnswerInv,
       Unanswered, Reply, Points, Kinds, Connected, UnderLock

\* ... by pg_advisory_xact_lock, whose guard gives mutual exclusion ...
LEMMA LockIInv ==
    ASSUME IInv, NEW c \in Calls, Lock(c)
    PROVE  IInv'
BY NamesAssumption
   DEF Lock, Goto, IInv, TypeOK, ArrivedInv, LockInv, LinkInv, SelectInv, AnswerInv,
       Unanswered, Reply, Points, Kinds, Connected, UnderLock

\* ... by the SELECT of the link, which decides what the call knows of its key ...
LEMMA SelectIInv ==
    ASSUME IInv, NEW c \in Calls, Select(c)
    PROVE  IInv'
<1> USE NamesAssumption DEF IInv, TypeOK, Connected, Points, Kinds, Unanswered, Reply
<1>1. asked[c].key \in Keys
  BY DEF Select, ArrivedInv
<1>2. CASE Goto(c, "select", "insert") /\ link[asked[c].key] = None /\ UNCHANGED <<lock, answer>>
  BY <1>1, <1>2
     DEF Select, Goto, ArrivedInv, LockInv, LinkInv, SelectInv, AnswerInv, UnderLock
<1>3. CASE /\ link[asked[c].key] # None
           /\ asked[link[asked[c].key]].payload # asked[c].payload
           /\ Finish(c, Reply("conflict", None))
  BY <1>1, <1>3
     DEF Select, Finish, ArrivedInv, LockInv, LinkInv, SelectInv, AnswerInv, UnderLock
<1>4. CASE /\ link[asked[c].key] # None
           /\ asked[link[asked[c].key]].payload = asked[c].payload
           /\ Goto(c, "select", "fetch")
           /\ UNCHANGED <<lock, answer>>
  BY <1>1, <1>4
     DEF Select, Goto, ArrivedInv, LockInv, LinkInv, SelectInv, AnswerInv, UnderLock
<1> QED
  BY <1>2, <1>3, <1>4 DEF Select

\* ... by the read of the linked resource, which LinkInv says is there ...
LEMMA FetchIInv ==
    ASSUME IInv, NEW c \in Calls, Fetch(c)
    PROVE  IInv'
BY NamesAssumption
   DEF Fetch, Goto, Finish, IInv, TypeOK, ArrivedInv, LockInv, LinkInv, SelectInv, AnswerInv,
       Unanswered, Reply, Points, Kinds, Connected, UnderLock

\* ... by the inserts, which the lock makes the only ones for their key ...
LEMMA InsertIInv ==
    ASSUME IInv, NEW c \in Calls, Insert(c)
    PROVE  IInv'
<1> USE NamesAssumption DEF IInv, TypeOK, Connected, Points, Kinds, Unanswered, Reply
\* The lock makes the primary key violation impossible.
<1>1. /\ asked[c].key \in Keys => link[asked[c].key] = None
      /\ rows' = rows \cup {c}
      /\ link' = [i \in Keys |-> IF i = asked[c].key THEN c ELSE link[i]]
      /\ Goto(c, "insert", "commit")
      /\ UNCHANGED <<asked, lock, answer>>
  BY DEF Insert, SelectInv
<1>2. c \notin rows /\ asked[c] # None
  BY <1>1 DEF Goto, LinkInv, ArrivedInv
<1>3. TypeOK' /\ ArrivedInv' /\ LockInv' /\ AnswerInv'
  BY <1>1, <1>2 DEF Goto, ArrivedInv, LockInv, AnswerInv, UnderLock
<1>4. LinkInv'
  BY <1>1, <1>2 DEF Goto, LinkInv
\* Nobody else is past the lock of this key, and no link points to c yet.
<1>5. SelectInv'
  <2> SUFFICES ASSUME NEW d \in Calls
               PROVE  /\ pc'[d] = "insert" /\ asked[d].key \in Keys => link'[asked[d].key] = None
                      /\ pc'[d] = "fetch" =>
                            /\ link'[asked[d].key] # None
                            /\ asked[link'[asked[d].key]].payload = asked[d].payload
                      /\ pc'[d] = "commit" => d \in rows'
    BY <1>1 DEF SelectInv
  <2>1. CASE d = c
    BY <1>1, <2>1 DEF Goto
  <2>2. CASE d # c
    <3>1. pc'[d] = pc[d]
      BY <1>1, <2>2 DEF Goto
    <3>2. pc[d] \in {"insert", "fetch"} /\ asked[d].key \in Keys => asked[d].key # asked[c].key
      BY <1>1, <2>2 DEF Goto, LockInv, UnderLock
    <3>3. pc[d] = "fetch" => asked[d].key \in Keys
      BY DEF ArrivedInv
    <3> QED
      BY <1>1, <3>1, <3>2, <3>3 DEF SelectInv
  <2> QED
    BY <2>1, <2>2
<1> QED
  BY <1>3, <1>4, <1>5

\* ... by the acknowledged commit, which gives the lock back ...
LEMMA AcknowledgeIInv ==
    ASSUME IInv, NEW c \in Calls, Acknowledge(c)
    PROVE  IInv'
BY NamesAssumption
   DEF Acknowledge, Goto, Finish, IInv, TypeOK, ArrivedInv, LockInv, LinkInv, SelectInv, AnswerInv,
       Unanswered, Reply, Points, Kinds, Connected, UnderLock

\* ... and by a call whose connection breaks, before or after its commit.
LEMMA LoseIInv ==
    ASSUME IInv, NEW c \in Calls, Lose(c)
    PROVE  IInv'
BY NamesAssumption
   DEF Lose, Goto, Finish, IInv, TypeOK, ArrivedInv, LockInv, LinkInv, SelectInv, AnswerInv,
       Unanswered, Reply, Points, Kinds, Connected, UnderLock

\* Every statement of every call keeps it, and so does a stuttering step.
LEMMA NextIInv == IInv /\ [Next]_vars => IInv'
<1> SUFFICES ASSUME IInv, [Next]_vars PROVE IInv'
  OBVIOUS
<1>1. CASE UNCHANGED vars
  BY <1>1 DEF vars, IInv, TypeOK, ArrivedInv, LockInv, LinkInv, SelectInv, AnswerInv
<1>2. CASE Next
  BY <1>2, ArriveIInv, ConnectIInv, LockIInv, SelectIInv, FetchIInv, InsertIInv,
     AcknowledgeIInv, LoseIInv
     DEF Next, Step
<1> QED
  BY <1>1, <1>2

\* Whatever calls race in create_idempotent: locks have one holder, links and
\* committed rows correspond, and each program point knows the state of its key.
THEOREM InductiveInvariance == Spec => []IInv
BY InitIInv, NextIInv, PTL DEF Spec

-----------------------------------------------------------------------------

\* Type correctness.
THEOREM TypeCorrectness == Spec => []TypeOK
<1>1. IInv => TypeOK
  BY DEF IInv
<1> QED
  BY <1>1, InductiveInvariance, PTL

\* Calls racing on one key never meet the primary key of the link table, nor a
\* link without its resource.
THEOREM NoInternalErrors == Spec => []NoInternalError
<1>1. IInv => NoInternalError
  BY DEF IInv, AnswerInv, NoInternalError
<1> QED
  BY <1>1, InductiveInvariance, PTL

\* One key, one resource, in every reply.
THEOREM OneResource == Spec => []OneResourcePerKey
<1>1. IInv => OneResourcePerKey
  <2> SUFFICES ASSUME IInv, NEW c \in Calls, NEW d \in Calls,
                      asked[c] # None, asked[d] # None,
                      asked[c].key = asked[d].key, asked[c].key # NoKey,
                      {answer[c].kind, answer[d].kind} \subseteq {"created", "existing"}
               PROVE  answer[c].maker = answer[d].maker
    BY DEF OneResourcePerKey
  <2>1. asked[c].key \in Keys
    BY DEF IInv, TypeOK
  <2>2. answer[c].maker \in rows /\ asked[answer[c].maker].key = asked[c].key
    BY DEF IInv, AnswerInv
  <2>3. answer[d].maker \in rows /\ asked[answer[d].maker].key = asked[c].key
    BY DEF IInv, AnswerInv
  <2> QED
    BY <2>1, <2>2, <2>3 DEF IInv, LinkInv
<1> QED
  BY <1>1, InductiveInvariance, PTL

-----------------------------------------------------------------------------
(* Refinement *)

\* Every step of the transaction is a step of the abstract specification or
\* leaves its variables alone.
LEMMA StepRefines ==
    ASSUME IInv, IInv', Next
    PROVE  [Abstract!Next]_(Abstract!specVars)
<1> USE NamesAssumption DEF Abstract!specVars
<1>1. ASSUME NEW c \in Calls, NEW k \in Keys \cup {NoKey}, NEW p \in Payloads, Arrive(c, k, p)
      PROVE  Abstract!Next
  <2>1. Abstract!Arrive(c, k, p)
    BY <1>1 DEF Arrive, Goto, Abstract!Arrive, IInv, ArrivedInv
  <2> QED
    BY <2>1 DEF Abstract!Next
<1>2. ASSUME NEW c \in Calls, Connect(c) \/ Lock(c)
      PROVE  UNCHANGED Abstract!specVars
  BY <1>2 DEF Connect, Lock
<1>3. ASSUME NEW c \in Calls, pc[c] \notin {"idle", "done"}, UNCHANGED <<asked, rows>>,
             NEW a \in Abstract!Replies(c), Finish(c, a)
      PROVE  Abstract!Next
  <2>1. asked[c] # None /\ answer[c] = Abstract!Unanswered
    BY <1>3 DEF IInv, ArrivedInv, AnswerInv, Unanswered, Reply, Abstract!Unanswered, Abstract!Reply
  <2>2. Abstract!Answer(c)
    BY <1>3, <2>1 DEF Finish, Abstract!Answer
  <2> QED
    BY <2>2 DEF Abstract!Next
<1>4. ASSUME NEW c \in Calls, Select(c)
      PROVE  [Abstract!Next]_(Abstract!specVars)
  <2>1. CASE UNCHANGED <<asked, rows, answer>>
    BY <2>1
  <2>2. CASE /\ link[asked[c].key] # None
             /\ asked[link[asked[c].key]].payload # asked[c].payload
             /\ Finish(c, Reply("conflict", None))
    <3> DEFINE d == link[asked[c].key]
    <3>1. pc[c] = "select" /\ asked[c].key \in Keys
      BY <1>4 DEF Select, IInv, ArrivedInv
    <3>2. d \in rows \ {c} /\ asked[c].key = asked[d].key /\ asked[d].payload # asked[c].payload
      BY <2>2, <3>1 DEF IInv, LinkInv
    <3>3. Reply("conflict", None) \in Abstract!Replies(c)
      BY <3>1, <3>2 DEF Reply, Abstract!Replies, Abstract!Reply, Abstract!SameKey
    <3> QED
      BY <1>3, <1>4, <2>2, <3>1, <3>3 DEF Select
  <2> QED
    BY <1>4, <2>1, <2>2 DEF Select
<1>5. ASSUME NEW c \in Calls, Fetch(c)
      PROVE  Abstract!Next
  <2> DEFINE d == link[asked[c].key]
  <2>1. pc[c] = "fetch" /\ asked[c].key \in Keys
    BY <1>5 DEF Fetch, IInv, ArrivedInv
  <2>2. d \in rows \ {c} /\ asked[c].key = asked[d].key /\ asked[d].payload = asked[c].payload
    BY <2>1 DEF IInv, LinkInv, SelectInv, TypeOK
  <2>3. Reply("existing", d) \in Abstract!Replies(c)
    BY <2>1, <2>2 DEF Reply, Abstract!Replies, Abstract!Reply, Abstract!SameKey
  <2> QED
    BY <1>3, <1>5, <2>1, <2>2, <2>3 DEF Fetch
<1>6. ASSUME NEW c \in Calls, Insert(c)
      PROVE  Abstract!Next
  <2>1. /\ pc[c] = "insert"
        /\ asked[c].key \in Keys => link[asked[c].key] = None
        /\ rows' = rows \cup {c}
        /\ UNCHANGED <<asked, answer>>
    BY <1>6 DEF Insert, IInv, SelectInv
  <2>2. asked[c] # None /\ answer[c] = Abstract!Unanswered
    BY <2>1 DEF IInv, ArrivedInv, AnswerInv, Unanswered, Reply, Abstract!Unanswered, Abstract!Reply
  <2>3. \A d \in rows : ~Abstract!SameKey(c, d)
    BY <2>1, <2>2 DEF IInv, TypeOK, LinkInv, Abstract!SameKey
  <2>4. Abstract!Make(c)
    BY <2>1, <2>2, <2>3 DEF Abstract!Make
  <2> QED
    BY <2>4 DEF Abstract!Next
<1>7. ASSUME NEW c \in Calls, Acknowledge(c)
      PROVE  Abstract!Next
  <2>1. pc[c] = "commit" /\ c \in rows
    BY <1>7 DEF Acknowledge, IInv, SelectInv
  <2>2. Reply("created", c) \in Abstract!Replies(c)
    BY <2>1 DEF Reply, Abstract!Replies, Abstract!Reply
  <2> QED
    BY <1>3, <1>7, <2>1, <2>2 DEF Acknowledge
<1>8. ASSUME NEW c \in Calls, Lose(c)
      PROVE  Abstract!Next
  <2>1. Reply("lost", None) \in Abstract!Replies(c)
    BY DEF Reply, Abstract!Replies, Abstract!Reply
  <2> QED
    BY <1>3, <1>8, <2>1 DEF Lose
<1> QED
  BY <1>1, <1>2, <1>4, <1>5, <1>6, <1>7, <1>8 DEF Next, Step

\* create_idempotent implements CreateOnce.
THEOREM Refinement == Spec => Refines
<1>1. Init => Abstract!Init
  BY DEF Init, Abstract!Init, Unanswered, Reply, Abstract!Unanswered, Abstract!Reply
<1>2. IInv /\ IInv' /\ [Next]_vars => [Abstract!Next]_(Abstract!specVars)
  BY StepRefines DEF vars, Abstract!specVars
<1> QED
  BY <1>1, <1>2, InductiveInvariance, PTL DEF Spec, Refines, Abstract!Spec

=============================================================================
