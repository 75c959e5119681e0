------------------------------ MODULE MCBilling ------------------------------
(* Billing on small instances. *)
EXTENDS Billing, TLC

\* Proposals are alike.
Symmetry == Permutations(Proposals)
=============================================================================
