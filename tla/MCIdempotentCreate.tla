-------------------------- MODULE MCIdempotentCreate --------------------------
(* Instance of IdempotentCreate for TLC: three calls, two keys or none, two  *)
(* payloads, and a pool smaller than the number of calls.                    *)
EXTENDS IdempotentCreate
=============================================================================
