--------------------------- MODULE MCExperimentRuns ---------------------------
(***************************************************************************)
(* Instances of ExperimentRuns for TLC: one experiment, requests of one    *)
(* client that repeats its Idempotency-Key, and model values for the rest. *)
(***************************************************************************)
EXTENDS ExperimentRuns, TLC

CONSTANTS j1

\* Every create and cancel request is about the one experiment.
OneExperiment == [x \in Requests \cup Cancels |-> j1]

\* The processes and the identifiers are interchangeable (safety runs only).
Symmetry ==
    Permutations(Slots) \cup Permutations(Requests) \cup Permutations(ModelIds)
        \cup Permutations(Bytes)

=============================================================================
