-------------------------------- MODULE Ring --------------------------------
(***************************************************************************)
(* The ring buffer that this code writes twice: recentPicks of             *)
(* pkg/loadbalancer/balancer.go and latencyRing of backend/main.go.  An    *)
(* array of fixed size, the index that is written next, and how many slots *)
(* have been written.  Every access holds the ring's mutex, so each is one *)
(* step.                                                                   *)
(***************************************************************************)
EXTENDS Integers, Sequences

CONSTANTS
  Items,   \* what is stored
  Size,    \* recentPicksCap, latencyRingSize
  Blank    \* the zero value of a slot

ASSUME RingAssumption == Size \in Nat \ {0}

VARIABLES slots, next, fill

ringVars == <<slots, next, fill>>

RingInit ==
  /\ slots = [i \in 0 .. Size - 1 |-> Blank]
  /\ next = 0
  /\ fill = 0

(* The index after i, and the mutant that never uses the last slot.        *)
AfterShort(i) == IF i + 1 >= Size - 1 THEN 0 ELSE i + 1
After(i) == (i + 1) % Size

(* recordPick, recordLatency.                                              *)
Push(x) ==
  /\ slots' = [slots EXCEPT ![next] = x]
  /\ next' = After(next)
  /\ fill' = IF fill < Size THEN fill + 1 ELSE fill

RingNext == \E x \in Items : Push(x)

RingSpec == RingInit /\ [][RingNext]_ringVars

-----------------------------------------------------------------------------
(* What DebugSnapshot reads, from the newest record backwards; k is one    *)
(* more than the code's.                                                   *)
Newest == [k \in 1 .. fill |-> slots[(next - k + Size) % Size]]

(* What medianLatencyUs reads: the slots in use, in the array's order.     *)
InUse == 0 .. fill - 1

Log == INSTANCE BoundedLog WITH log <- Newest, Cap <- Size

(* Read backwards the ring is a log of the last Size items, whatever the   *)
(* order in which requests finish and record.                              *)
ImplementsLog == Log!Spec

(* Read in the array's order it holds the same items.                      *)
SameItems == {slots[i] : i \in InUse} = {Newest[k] : k \in 1 .. fill}
=============================================================================
