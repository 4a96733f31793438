-------------------------- MODULE MCRIFDistribution --------------------------
(* Instances of RIFDistribution for TLC. *)
EXTENDS RIFDistribution, TLC

Symmetry == Permutations(Probes) \cup Permutations(Workers)
=============================================================================
