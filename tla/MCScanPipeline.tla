--------------------------- MODULE MCScanPipeline ---------------------------
(* ScanPipeline on small instances. *)
EXTENDS ScanPipeline, TLC

\* Runs are alike: each is some process scanning the account.
Symmetry == Permutations(Runs)
=============================================================================
