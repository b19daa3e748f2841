------------------------------ MODULE CreateOnce ------------------------------
(***************************************************************************)
(* What an idempotent create promises its callers, with no store, lock or  *)
(* connection in sight: calls that carry the same key create one resource  *)
(* between them; all of them are answered that resource, except those      *)
(* whose payload differs from the payload that created it.                 *)
(***************************************************************************)
CONSTANTS
    Calls,     \* calls of the create operation; each proposes a fresh resource id
    Keys,      \* (tenant, scope, Idempotency-Key) triples
    Payloads,  \* fingerprints of request bodies
    NoKey,     \* a call without a key
    None

VARIABLES
    asked,   \* what each call asks for: its key and its payload, None before it arrives
    made,    \* the calls whose resource exists
    answer   \* what each call was answered: a kind, and the call that made the resource

specVars == <<asked, made, answer>>

Reply(kind, c) == [kind |-> kind, maker |-> c]
Unanswered == Reply("none", None)

SameKey(c, d) == asked[c].key = asked[d].key /\ asked[c].key # NoKey

Init ==
    /\ asked = [c \in Calls |-> None]
    /\ made = {}
    /\ answer = [c \in Calls |-> Unanswered]

Arrive(c, k, p) ==
    /\ asked[c] = None
    /\ asked' = [asked EXCEPT ![c] = [key |-> k, payload |-> p]]
    /\ UNCHANGED <<made, answer>>

\* The only step that creates: no other call has made a resource for the key.
Make(c) ==
    /\ asked[c] # None
    /\ answer[c] = Unanswered
    /\ \A d \in made : ~SameKey(c, d)
    /\ made' = made \cup {c}
    /\ UNCHANGED <<asked, answer>>

\* The replies a call may be given.
Replies(c) ==
    {Reply("created", d) : d \in made \cap {c}} \cup
    {Reply("existing", d) : d \in {d \in made \ {c} :
        SameKey(c, d) /\ asked[d].payload = asked[c].payload}} \cup
    {Reply("conflict", None) : d \in {d \in made \ {c} :
        SameKey(c, d) /\ asked[d].payload # asked[c].payload}} \cup
    {Reply("lost", None)}

Answer(c) ==
    /\ asked[c] # None
    /\ answer[c] = Unanswered
    /\ \E a \in Replies(c) : answer' = [answer EXCEPT ![c] = a]
    /\ UNCHANGED <<asked, made>>

Next ==
    \E c \in Calls :
        \/ \E k \in Keys \cup {NoKey}, p \in Payloads : Arrive(c, k, p)
        \/ Make(c)
        \/ Answer(c)

Spec == Init /\ [][Next]_specVars

=============================================================================
