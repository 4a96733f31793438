------------------------------ MODULE BoundedLog ------------------------------
(***************************************************************************)
(* A log that remembers the last Cap items added to it, newest first: what *)
(* the pick log of the balancer and the latency ring of the backend are    *)
(* meant to be.                                                            *)
(***************************************************************************)
EXTENDS Integers, Sequences

CONSTANTS Items, Cap

VARIABLE log

Init == log = <<>>

Add(x) ==
  LET length == IF Len(log) < Cap THEN Len(log) + 1 ELSE Cap
  IN  log' = [k \in 1 .. length |-> IF k = 1 THEN x ELSE log[k - 1]]

Next == \E x \in Items : Add(x)

Spec == Init /\ [][Next]_log
=============================================================================
