------------------------------ MODULE MCBackend ------------------------------
(* Instances of Backend for TLC. *)
EXTENDS Backend

MCItems == Samples
MCBlank == NoSample

Symmetry == Permutations(Requests) \cup Permutations(Probers)
=============================================================================
