------------------------------ MODULE RingProofs ------------------------------
(***************************************************************************)
(* The ring implements the bounded log, for every size.  The invariant is  *)
(* that the index written next is the number of slots in use until the     *)
(* ring is full: until then reading backwards from it never wraps.         *)
(***************************************************************************)
EXTENDS Ring, TLAPS

Filling ==
  /\ DOMAIN slots = 0 .. Size - 1
  /\ next \in 0 .. Size - 1
  /\ fill \in 0 .. Size
  /\ fill < Size => next = fill

(* An index that is less than twice the size wraps once at the most.       *)
LEMMA WrapsOnce ==
  ASSUME NEW i \in Nat, i < 2 * Size
  PROVE  i % Size = IF i < Size THEN i ELSE i - Size
BY RingAssumption DEF RingAssumption

LEMMA AfterWraps ==
  ASSUME NEW i \in 0 .. Size - 1
  PROVE  After(i) = IF i = Size - 1 THEN 0 ELSE i + 1
BY WrapsOnce, RingAssumption DEF After, RingAssumption

LEMMA FillingKept ==
  ASSUME Filling, NEW x, Push(x)
  PROVE  Filling'
<1>1. next' = IF next = Size - 1 THEN 0 ELSE next + 1
  BY AfterWraps DEF Push, Filling
<1> QED BY <1>1, RingAssumption DEF Push, Filling, RingAssumption

LEMMA FillingHolds == RingSpec => []Filling
<1>1. RingInit => Filling
  BY RingAssumption DEF RingInit, Filling, RingAssumption
<1>2. Filling /\ [RingNext]_ringVars => Filling'
  <2>1. Filling /\ UNCHANGED ringVars => Filling'
    BY DEF Filling, ringVars
  <2> QED BY <2>1, FillingKept DEF RingNext
<1> QED BY <1>1, <1>2, PTL DEF RingSpec

(* Which slot holds the k-th newest item when n is written next.           *)
Back(n, k) == IF k <= n THEN n - k ELSE n - k + Size
Slot(k) == Back(next, k)

LEMMA SlotOf ==
  ASSUME NEW n \in 0 .. Size - 1, NEW k \in 1 .. Size
  PROVE  (n - k + Size) % Size = Back(n, k)
<1> DEFINE i == n - k + Size
<1>1. i \in Nat /\ i < 2 * Size /\ Size \in Nat
  BY RingAssumption DEF RingAssumption
<1>2. i < Size <=> ~ (k <= n)
  BY <1>1
<1>3. i - Size = n - k
  BY <1>1
<1> HIDE DEF i
<1>4. i % Size = IF i < Size THEN i ELSE i - Size
  BY <1>1, WrapsOnce
<1>5. i % Size = IF k <= n THEN n - k ELSE i
  BY <1>2, <1>3, <1>4
<1> QED BY <1>5 DEF i, Back

(* The positions of the log and the slots in use are in bijection.         *)
LEMMA SlotsInUse ==
  ASSUME Filling
  PROVE  /\ Newest = [k \in 1 .. fill |-> slots[Slot(k)]]
         /\ \A k \in 1 .. fill : Slot(k) \in InUse
         /\ \A i \in InUse : \E k \in 1 .. fill : Slot(k) = i
         /\ \A k, l \in 1 .. fill : Slot(k) = Slot(l) => k = l
<1>1. fill \in 0 .. Size /\ next \in 0 .. Size - 1 /\ Size \in Nat /\ (fill < Size => next = fill)
  BY RingAssumption DEF Filling, RingAssumption
<1>2. Newest = [k \in 1 .. fill |-> slots[Slot(k)]]
  <2>1. \A k \in 1 .. fill : (next - k + Size) % Size = Slot(k)
    <3> TAKE k \in 1 .. fill
    <3>1. k \in 1 .. Size
      BY <1>1
    <3> QED BY <1>1, <3>1, SlotOf DEF Slot
  <2> QED BY <2>1 DEF Newest
<1>3. \A k \in 1 .. fill : Slot(k) \in InUse
  BY <1>1 DEF Slot, Back, InUse
<1>4. \A i \in InUse : \E k \in 1 .. fill : Slot(k) = i
  <2> TAKE i \in InUse
  <2>1. i \in 0 .. fill - 1
    BY DEF InUse
  <2> DEFINE k == IF i < next THEN next - i ELSE next - i + Size
  <2>2. k \in 1 .. fill /\ Slot(k) = i
    BY <1>1, <2>1 DEF Slot, Back
  <2> QED BY <2>2
<1>5. \A k, l \in 1 .. fill : Slot(k) = Slot(l) => k = l
  BY <1>1 DEF Slot, Back
<1> QED BY <1>2, <1>3, <1>4, <1>5

LEMMA PushAdds ==
  ASSUME Filling, NEW x, Push(x)
  PROVE  Log!Add(x)
<1> DEFINE length == IF fill < Size THEN fill + 1 ELSE Size
<1>1. fill' = length /\ fill \in Nat /\ Size \in Nat /\ Size > 0 /\ next \in 0 .. Size - 1
  BY RingAssumption DEF Push, Filling, RingAssumption
<1>2. next' = IF next = Size - 1 THEN 0 ELSE next + 1
  BY AfterWraps DEF Push, Filling
<1>3. Newest = [k \in 1 .. fill |-> slots[Slot(k)]]
  BY SlotsInUse
<1>4. Newest' = [k \in 1 .. fill' |-> slots'[Slot(k)']]
  <2>1. next' \in 0 .. Size - 1 /\ fill' \in 0 .. Size
    BY FillingKept DEF Filling
  <2>2. \A k \in 1 .. fill' : (next' - k + Size) % Size = Slot(k)'
    <3> TAKE k \in 1 .. fill'
    <3>1. k \in 1 .. Size
      BY <1>1, <2>1
    <3> QED BY <2>1, <3>1, SlotOf DEF Slot
  <2> QED BY <2>2 DEF Newest
<1>5. \A k \in 1 .. length : slots'[Slot(k)'] = IF k = 1 THEN x ELSE Newest[k - 1]
  <2> TAKE k \in 1 .. length
  <2>1. CASE k = 1
    <3>1. Slot(1)' = next
      BY <1>1, <1>2 DEF Slot, Back
    <3> QED BY <1>1, <2>1, <3>1 DEF Push, Filling
  <2>2. CASE k # 1
    <3>1. k - 1 \in 1 .. fill /\ k \in 1 .. Size
      BY <1>1, <2>2 DEF Filling
    <3>2. Slot(k)' = Slot(k - 1) /\ Slot(k)' # next /\ Slot(k - 1) \in 0 .. Size - 1
      BY <1>1, <1>2, <2>2, <3>1 DEF Slot, Back
    <3>3. Newest[k - 1] = slots[Slot(k - 1)]
      BY <1>3, <3>1
    <3> QED BY <2>2, <3>2, <3>3 DEF Push, Filling
  <2> QED BY <2>1, <2>2
<1>6. Len(Newest) = fill
  BY <1>1 DEF Newest
<1> QED BY <1>1, <1>4, <1>5, <1>6 DEF Log!Add

(* recordPick and recordLatency keep a log of the last Size items, and     *)
(* reading backwards from the index that is written next gives it.         *)
THEOREM RingImplementsLog == RingSpec => ImplementsLog
<1>1. RingInit => Log!Init
  BY DEF RingInit, Log!Init, Newest
<1>2. Filling /\ Filling' /\ [RingNext]_ringVars => [Log!Next]_Newest
  <2> SUFFICES ASSUME Filling, Filling', [RingNext]_ringVars PROVE [Log!Next]_Newest
    OBVIOUS
  <2>1. CASE UNCHANGED ringVars
    BY <2>1 DEF ringVars, Newest
  <2>2. ASSUME NEW x \in Items, Push(x)
        PROVE  Log!Next
    BY <2>2, PushAdds DEF Log!Next
  <2> QED BY <2>1, <2>2 DEF RingNext
<1> QED BY <1>1, <1>2, FillingHolds, PTL DEF RingSpec, ImplementsLog, Log!Spec

(* The slots that medianLatencyUs walks through in the array's order hold  *)
(* what a backwards reading gives: none is missed, and none is stale.      *)
THEOREM SlotsAreTheLog == RingSpec => []SameItems
<1>1. Filling => SameItems
  <2> SUFFICES ASSUME Filling PROVE SameItems
    OBVIOUS
  <2>1. \A k \in 1 .. fill : Newest[k] = slots[Slot(k)] /\ Slot(k) \in InUse
    BY SlotsInUse
  <2>2. \A i \in InUse : \E k \in 1 .. fill : Slot(k) = i
    BY SlotsInUse
  <2> QED BY <2>1, <2>2 DEF SameItems
<1> QED BY <1>1, FillingHolds, PTL
=============================================================================
