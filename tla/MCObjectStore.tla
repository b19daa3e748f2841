----------------------------- MODULE MCObjectStore -----------------------------
(* Instance of ObjectStore for TLC: two threads, three contents of which the  *)
(* cache holds two at most, and a cache that the largest of them exceeds.     *)
EXTENDS ObjectStore, TLC

CONSTANTS x1, x2, x3

SizeOfContent == x1 :> 1 @@ x2 :> 1 @@ x3 :> 3

Symmetry == Permutations(Threads) \cup Permutations(Keys) \cup Permutations({x1, x2})

=============================================================================
