------------------------------- MODULE MCSystem -------------------------------
(* Instances of System for TLC. *)
EXTENDS System, TLC

MCProbes == 1 .. 4

Symmetry == Permutations(Servers)
=============================================================================
