------------------------------ MODULE MCServing ------------------------------
(* Instances of Serving for TLC. *)
EXTENDS Serving

BothAlgorithms == {"prequal", "roundrobin"}
=============================================================================
