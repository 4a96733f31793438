------------------------------ MODULE MCProbing ------------------------------
(* Instances of Probing for TLC. *)
EXTENDS Probing, TLC

Symmetry == Permutations(Servers) \cup Permutations(Queries)
=============================================================================
