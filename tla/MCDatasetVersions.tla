-------------------------- MODULE MCDatasetVersions --------------------------
(* Instance of DatasetVersions for TLC: four requests of any kind about one   *)
(* dataset, two contents, and either object store.                            *)
EXTENDS DatasetVersions, TLC

Symmetry == Permutations(Calls) \cup Permutations(Contents)

=============================================================================
