----------------------------- MODULE MCProbePool -----------------------------
(* Instances of ProbePool for TLC. *)
EXTENDS ProbePool, TLC

CONSTANTS s1, s2

(* A fast idle server, a slow one, and the fast one when it is busier.     *)
TwoServers ==
  { [srv |-> s1, rif |-> 0, lat |-> 1],
    [srv |-> s1, rif |-> 1, lat |-> 1],
    [srv |-> s2, rif |-> 0, lat |-> 2] }

OneServer == { [srv |-> s1, rif |-> 0, lat |-> 1] }

(* No threshold yet, and a threshold that makes RIF 1 hot.                 *)
Thresholds == {-1, 0}

NoThreshold == {-1}

Symmetry == Permutations(Probes) \cup Permutations(Workers)
=============================================================================
