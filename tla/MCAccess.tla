------------------------------ MODULE MCAccess ------------------------------
(* Access on small instances. *)
EXTENDS Access, TLC

\* Requests are alike, and so are accounts.
Symmetry == Permutations(Requests) \cup Permutations(Accounts)
=============================================================================
