---------------------------- MODULE BackendProofs ----------------------------
(***************************************************************************)
(* Proofs about Backend: what it counts, and that its latency ring is a    *)
(* log, for any number of requests and probes and any size of the ring.    *)
(***************************************************************************)
EXTENDS Backend, RingProofs, FiniteSetTheorems

USE DEF OneLess, RifOf, Middle

(* The requests that are at one of these places.                           *)
In(places) == {r \in Requests : pc[r] \in places}
Busy == {"working", "returning"}

(* What the counts rest on: a request that works remembers a count it      *)
(* could see.                                                              *)
IInv ==
  /\ pc \in [Requests -> {"idle", "working", "returning"}]
  /\ rifAt \in [Requests -> Nat]
  /\ requestsTotal \in Nat /\ served \in Nat /\ cancelledTotal \in Nat
  /\ inflight = Cardinality(In(Busy))
  /\ requestsTotal = served + cancelledTotal + Cardinality(In({"working"}))
  /\ \A r \in Requests : pc[r] = "working" => rifAt[r] \in 1 .. Cardinality(Requests)

LEMMA FiniteRequests ==
  /\ IsFiniteSet(Requests) /\ Cardinality(Requests) \in Nat
  /\ \A S : IsFiniteSet(In(S)) /\ Cardinality(In(S)) \in Nat
            /\ Cardinality(In(S)) <= Cardinality(Requests)
<1>1. IsFiniteSet(Requests)
  BY BackendAssumption DEF BackendAssumption
<1>2. ASSUME NEW S
      PROVE  /\ IsFiniteSet(In(S)) /\ Cardinality(In(S)) \in Nat
             /\ Cardinality(In(S)) <= Cardinality(Requests)
  <2>1. In(S) \subseteq Requests
    BY DEF In
  <2> QED BY <1>1, <2>1, FS_Subset, FS_CardinalityType
<1> QED BY <1>1, <1>2, FS_CardinalityType

(* A step of one request changes a count by one at most.                   *)
LEMMA CountAfterMove ==
  ASSUME IInv, NEW r \in Requests, NEW place, pc' = [pc EXCEPT ![r] = place], NEW S
  PROVE  /\ Cardinality(In(S)') = Cardinality(In(S)) + (IF place \in S THEN 1 ELSE 0)
                                   - (IF pc[r] \in S THEN 1 ELSE 0)
         /\ pc[r] \notin S => Cardinality(In(S)) + 1 <= Cardinality(Requests)
<1>1. IsFiniteSet(In(S)) /\ Cardinality(In(S)) \in Nat
  BY FiniteRequests
<1>2. /\ r \in In(S) <=> pc[r] \in S
      /\ In(S)' = IF place \in S THEN In(S) \cup {r} ELSE In(S) \ {r}
  BY DEF In, IInv
<1>3. /\ Cardinality(In(S) \cup {r}) = IF r \in In(S) THEN Cardinality(In(S)) ELSE Cardinality(In(S)) + 1
      /\ Cardinality(In(S) \ {r}) = IF r \in In(S) THEN Cardinality(In(S)) - 1 ELSE Cardinality(In(S))
  <2>1. Cardinality(In(S) \cup {r}) = IF r \in In(S) THEN Cardinality(In(S)) ELSE Cardinality(In(S)) + 1
    BY <1>1, FS_AddElement
  <2>2. Cardinality(In(S) \ {r}) = IF r \in In(S) THEN Cardinality(In(S)) - 1 ELSE Cardinality(In(S))
    BY <1>1, FS_RemoveElement
  <2> QED BY <2>1, <2>2
<1>4. Cardinality(In(S) \cup {r}) <= Cardinality(Requests)
  <2>1. In(S) \cup {r} \subseteq Requests
    BY DEF In
  <2> QED BY <2>1, FiniteRequests, FS_Subset
<1> QED BY <1>1, <1>2, <1>3, <1>4

LEMMA InitIInv == Init => IInv
<1> SUFFICES ASSUME Init PROVE IInv
  OBVIOUS
<1>1. In(Busy) = {} /\ In({"working"}) = {}
  BY DEF Init, In, Busy
<1>2. Cardinality(In(Busy)) = 0 /\ Cardinality(In({"working"})) = 0
  BY <1>1, FS_EmptySet
<1> QED BY <1>2 DEF Init, IInv

LEMMA NextIInv ==
  ASSUME IInv, [Next]_vars
  PROVE  IInv'
<1> DEFINE busy == Cardinality(In(Busy))
           working == Cardinality(In({"working"}))
<1>1. busy \in Nat /\ working \in Nat /\ Cardinality(Requests) \in Nat
  BY FiniteRequests
<1>2. /\ inflight = busy /\ requestsTotal = served + cancelledTotal + working
      /\ requestsTotal \in Nat /\ served \in Nat /\ cancelledTotal \in Nat
  BY DEF IInv
<1>3. CASE UNCHANGED <<countVars, pc, rifAt>>
  BY <1>3 DEF countVars, IInv, In
<1>4. ASSUME NEW r \in Requests, NEW place \in {"idle", "working", "returning"},
             pc' = [pc EXCEPT ![r] = place]
      PROVE  /\ busy' = busy + (IF place \in Busy THEN 1 ELSE 0) - (IF pc[r] \in Busy THEN 1 ELSE 0)
             /\ working' = working + (IF place = "working" THEN 1 ELSE 0)
                                   - (IF pc[r] = "working" THEN 1 ELSE 0)
             /\ pc[r] \notin Busy => busy + 1 <= Cardinality(Requests)
             /\ pc' \in [Requests -> {"idle", "working", "returning"}]
             /\ \A s \in Requests : pc'[s] = IF s = r THEN place ELSE pc[s]
  <2>1. /\ busy' = busy + (IF place \in Busy THEN 1 ELSE 0) - (IF pc[r] \in Busy THEN 1 ELSE 0)
        /\ pc[r] \notin Busy => busy + 1 <= Cardinality(Requests)
    BY <1>4, CountAfterMove
  <2>2. working' = working + (IF place \in {"working"} THEN 1 ELSE 0)
                           - (IF pc[r] \in {"working"} THEN 1 ELSE 0)
    BY <1>4, CountAfterMove
  <2> QED BY <1>4, <2>1, <2>2 DEF IInv
<1> HIDE DEF busy, working
<1>5. SUFFICES ASSUME NEW r \in Requests,
                      Arrive(r) \/ Cancel(r) \/ Finish(r) \/ Return(r)
               PROVE  /\ pc' \in [Requests -> {"idle", "working", "returning"}]
                      /\ rifAt' \in [Requests -> Nat]
                      /\ requestsTotal' \in Nat /\ served' \in Nat /\ cancelledTotal' \in Nat
                      /\ inflight' = busy'
                      /\ requestsTotal' = served' + cancelledTotal' + working'
                      /\ \A s \in Requests : pc'[s] = "working" => rifAt'[s] \in 1 .. Cardinality(Requests)
  BY <1>3 DEF Next, Disconnect, CountInflight, Answer, vars, requestVars, countVars, IInv, busy, working
<1>6. CASE Arrive(r)
  <2>0. pc[r] = "idle" /\ pc' = [pc EXCEPT ![r] = "working"]
    BY <1>6 DEF Arrive
  <2>1. /\ busy' = busy + 1 /\ working' = working + 1 /\ busy + 1 <= Cardinality(Requests)
        /\ pc' \in [Requests -> {"idle", "working", "returning"}]
        /\ \A s \in Requests : pc'[s] = IF s = r THEN "working" ELSE pc[s]
    <3>1. busy' = busy + (IF "working" \in Busy THEN 1 ELSE 0) - (IF "idle" \in Busy THEN 1 ELSE 0)
      BY <1>4, <2>0
    <3>2. working' = working + (IF "working" = "working" THEN 1 ELSE 0)
                             - (IF "idle" = "working" THEN 1 ELSE 0)
      BY <1>4, <2>0
    <3>3. pc[r] \notin Busy => busy + 1 <= Cardinality(Requests)
      BY <1>4, <2>0
    <3>4. /\ pc' \in [Requests -> {"idle", "working", "returning"}]
          /\ \A s \in Requests : pc'[s] = IF s = r THEN "working" ELSE pc[s]
      BY <1>4, <2>0
    <3> QED BY <1>1, <2>0, <3>1, <3>2, <3>3, <3>4 DEF Busy
  <2>2. rifAt' \in [Requests -> Nat] /\ \A s \in Requests : rifAt'[s] = IF s = r THEN busy + 1 ELSE rifAt[s]
    BY <1>1, <1>2, <1>6 DEF Arrive, IInv
  <2>3. \A s \in Requests : pc'[s] = "working" => rifAt'[s] \in 1 .. Cardinality(Requests)
    BY <1>1, <2>1, <2>2 DEF IInv
  <2> QED BY <1>1, <1>2, <1>6, <2>1, <2>2, <2>3 DEF Arrive
<1>7. CASE Cancel(r) \/ Finish(r)
  <2>1. pc[r] = "working" /\ pc' = [pc EXCEPT ![r] = "returning"] /\ rifAt' = rifAt
    BY <1>7 DEF Cancel, Finish
  <2>2. /\ busy' = busy /\ working' = working - 1
        /\ pc' \in [Requests -> {"idle", "working", "returning"}]
        /\ \A s \in Requests : pc'[s] = IF s = r THEN "returning" ELSE pc[s]
    <3>1. busy' = busy + (IF "returning" \in Busy THEN 1 ELSE 0) - (IF "working" \in Busy THEN 1 ELSE 0)
      BY <1>4, <2>1
    <3>2. working' = working + (IF "returning" = "working" THEN 1 ELSE 0)
                             - (IF "working" = "working" THEN 1 ELSE 0)
      BY <1>4, <2>1
    <3>3. /\ pc' \in [Requests -> {"idle", "working", "returning"}]
          /\ \A s \in Requests : pc'[s] = IF s = r THEN "returning" ELSE pc[s]
      BY <1>4, <2>1
    <3> QED BY <1>1, <3>1, <3>2, <3>3 DEF Busy
  <2>3. \A s \in Requests : pc'[s] = "working" => rifAt'[s] \in 1 .. Cardinality(Requests)
    BY <2>1, <2>2 DEF IInv
  <2> QED BY <1>1, <1>2, <1>7, <2>1, <2>2, <2>3 DEF Cancel, Finish, IInv
<1>8. CASE Return(r)
  <2>0. pc[r] = "returning" /\ pc' = [pc EXCEPT ![r] = "idle"]
    BY <1>8 DEF Return
  <2>1. /\ busy' = busy - 1 /\ working' = working
        /\ pc' \in [Requests -> {"idle", "working", "returning"}]
        /\ \A s \in Requests : pc'[s] = IF s = r THEN "idle" ELSE pc[s]
    <3>1. busy' = busy + (IF "idle" \in Busy THEN 1 ELSE 0) - (IF "returning" \in Busy THEN 1 ELSE 0)
      BY <1>4, <2>0
    <3>2. working' = working + (IF "idle" = "working" THEN 1 ELSE 0)
                             - (IF "returning" = "working" THEN 1 ELSE 0)
      BY <1>4, <2>0
    <3>3. /\ pc' \in [Requests -> {"idle", "working", "returning"}]
          /\ \A s \in Requests : pc'[s] = IF s = r THEN "idle" ELSE pc[s]
      BY <1>4, <2>0
    <3> QED BY <1>1, <3>1, <3>2, <3>3 DEF Busy
  <2>2. rifAt' \in [Requests -> Nat] /\ \A s \in Requests : s # r => rifAt'[s] = rifAt[s]
    BY <1>8 DEF Return, IInv
  <2>3. \A s \in Requests : pc'[s] = "working" => rifAt'[s] \in 1 .. Cardinality(Requests)
    BY <2>1, <2>2 DEF IInv
  <2> QED BY <1>1, <1>2, <1>8, <2>1, <2>2, <2>3 DEF Return
<1> QED BY <1>5, <1>6, <1>7, <1>8

(* The counts and what they rest on hold in every reachable state.         *)
THEOREM BackendInvariant == Spec => []IInv
<1>1. IInv /\ [Next]_vars => IInv'
  BY NextIInv
<1> QED BY <1>1, InitIInv, PTL DEF Spec

(* However requests end, each is counted as served or as cancelled, and    *)
(* the in-flight count that probes report comes back down.                 *)
THEOREM BackendAccounts == Spec => []RequestsAccounted
<1>1. IInv => RequestsAccounted
  <2> SUFFICES ASSUME IInv PROVE RequestsAccounted
    OBVIOUS
  <2>1. /\ {r \in Requests : pc[r] # "idle"} = In(Busy)
        /\ {r \in Requests : pc[r] = "working"} = In({"working"})
    BY DEF IInv, In, Busy
  <2> QED BY <2>1 DEF IInv, RequestsAccounted
<1> QED BY <1>1, BackendInvariant, PTL

(* The latencies that requests record in the order in which they end are a *)
(* log of the last Size of them.                                           *)
THEOREM BackendKeepsLog == Spec => ImplementsLog
<1>1. Init => RingInit
  BY DEF Init
<1>2. IInv /\ [Next]_vars => [RingNext]_ringVars
  <2> SUFFICES ASSUME IInv, [Next]_vars PROVE [RingNext]_ringVars
    OBVIOUS
  <2>1. ASSUME NEW r \in Requests, Finish(r) PROVE RingNext
    <3>1. PICK l \in Latencies : Push([latency |-> l, rif |-> rifAt[r]])
      BY <2>1 DEF Finish
    <3>2. rifAt[r] \in 1 .. Cardinality(Requests)
      BY <2>1 DEF Finish, IInv
    <3>3. [latency |-> l, rif |-> rifAt[r]] \in Items
      BY <3>2, SampleAssumption DEF Samples, SampleAssumption
    <3> QED BY <3>1, <3>3 DEF RingNext
  <2> QED
    BY <2>1 DEF Next, Arrive, Disconnect, Cancel, Return, CountInflight, Answer, vars
<1>3. Spec => RingSpec
  BY <1>1, <1>2, BackendInvariant, PTL DEF Spec, RingSpec
<1> QED BY <1>3, RingImplementsLog, PTL
-----------------------------------------------------------------------------
(* The median.                                                             *)

(* The numbers of a finite set can be put in the order of any integer      *)
(* function of them: each goes to the position that the number of those    *)
(* before it gives.                                                        *)
LEMMA OrderExists ==
  ASSUME NEW S \in SUBSET Nat, IsFiniteSet(S), NEW f \in [S -> Int]
  PROVE  \E s \in [1 .. Cardinality(S) -> S] :
           /\ \A i, j \in 1 .. Cardinality(S) : i # j => s[i] # s[j]
           /\ \A i, j \in 1 .. Cardinality(S) : i < j => f[s[i]] <= f[s[j]]
<1> DEFINE n == Cardinality(S)
           Before(x, y) == f[x] < f[y] \/ (f[x] = f[y] /\ x < y)
           Ahead(x) == {y \in S : Before(y, x)}
           rank == [x \in S |-> Cardinality(Ahead(x)) + 1]
<1>0. \A x \in S : f[x] \in Int /\ x \in Nat
  OBVIOUS
<1>1. n \in Nat /\ IsFiniteSet(1 .. n) /\ Cardinality(1 .. n) = n
  BY FS_CardinalityType, FS_Interval
<1>2. \A x \in S : /\ IsFiniteSet(Ahead(x)) /\ Cardinality(Ahead(x)) \in Nat
                   /\ Cardinality(Ahead(x)) + 1 <= n
  <2> TAKE x \in S
  <2>1. Ahead(x) \in SUBSET (S \ {x})
    OBVIOUS
  <2>2. IsFiniteSet(S \ {x}) /\ Cardinality(S \ {x}) = n - 1
    BY FS_RemoveElement
  <2> HIDE DEF Ahead, n
  <2>3. IsFiniteSet(Ahead(x)) /\ Cardinality(Ahead(x)) <= n - 1
    BY <2>1, <2>2, FS_Subset
  <2>4. Cardinality(Ahead(x)) \in Nat
    BY <2>3, FS_CardinalityType
  <2> QED BY <1>1, <2>3, <2>4
<1>3. \A x, y \in S : Before(x, y) => rank[x] < rank[y]
  <2> TAKE x, y \in S
  <2> SUFFICES ASSUME Before(x, y) PROVE rank[x] < rank[y]
    OBVIOUS
  <2>0. \A z \in S : Before(z, x) => Before(z, y)
    BY <1>0
  <2>1. ~ Before(x, x)
    BY <1>0
  <2> HIDE DEF Before
  <2>2. Ahead(x) \in SUBSET Ahead(y) /\ x \in Ahead(y) /\ x \notin Ahead(x)
    BY <2>0, <2>1
  <2> HIDE DEF Ahead
  <2>3. Cardinality(Ahead(x)) <= Cardinality(Ahead(y)) /\ Cardinality(Ahead(x)) # Cardinality(Ahead(y))
    BY <1>2, <2>2, FS_Subset
  <2> QED BY <1>2, <2>3
<1>4. \A x, y \in S : x # y => Before(x, y) \/ Before(y, x)
  OBVIOUS
<1> HIDE DEF Before
<1>5. rank \in [S -> 1 .. n] /\ \A x, y \in S : rank[x] = rank[y] => x = y
  <2>1. rank \in [S -> 1 .. n]
    BY <1>1, <1>2
  <2> HIDE DEF rank
  <2> QED BY <1>1, <1>3, <1>4, <2>1
<1> HIDE DEF rank
<1>6. rank \in Injection(S, 1 .. n)
  BY <1>5 DEF Injection, IsInjective
<1>7. rank \in Surjection(S, 1 .. n)
  BY <1>1, <1>6, FS_Injection
<1>8. \A i \in 1 .. n : \E x \in S : rank[x] = i
  BY <1>7 DEF Surjection
<1> DEFINE s == [i \in 1 .. n |-> CHOOSE x \in S : rank[x] = i]
<1>9. \A i \in 1 .. n : s[i] \in S /\ rank[s[i]] = i
  BY <1>8
<1>10. s \in [1 .. n -> S]
  BY <1>9
<1> HIDE DEF s
<1>11. \A i, j \in 1 .. n : i # j => s[i] # s[j]
  BY <1>9
<1>12. ASSUME NEW i \in 1 .. n, NEW j \in 1 .. n, i < j PROVE f[s[i]] <= f[s[j]]
  <2>1. s[i] \in S /\ s[j] \in S /\ rank[s[i]] = i /\ rank[s[j]] = j
    BY <1>9
  <2>2. ~ Before(s[j], s[i])
    <3> SUFFICES ASSUME Before(s[j], s[i]) PROVE FALSE
      OBVIOUS
    <3>1. rank[s[j]] < rank[s[i]]
      BY <1>3, <2>1
    <3> QED BY <1>1, <1>12, <2>1, <3>1
  <2>3. f[s[i]] \in Int /\ f[s[j]] \in Int
    BY <1>0, <2>1
  <2> QED BY <2>2, <2>3 DEF Before
<1> QED BY <1>10, <1>11, <1>12 DEF n

LatencyOf == [i \in InUse |-> slots[i].latency]

(* Sorted puts all the slots it is given in order.                         *)
LEMMA SortedOrders ==
  ASSUME fill \in Nat, LatencyOf \in [InUse -> Nat], NEW S \in SUBSET InUse
  PROVE  /\ Sorted(S) \in [1 .. Cardinality(S) -> S] /\ IsFiniteSet(S) /\ Cardinality(S) \in Nat
         /\ \A i \in S : \E j \in 1 .. Cardinality(S) : Sorted(S)[j] = i
         /\ \A i, j \in 1 .. Cardinality(S) : i # j => Sorted(S)[i] # Sorted(S)[j]
         /\ \A i, j \in 1 .. Cardinality(S) :
              i < j => slots[Sorted(S)[i]].latency <= slots[Sorted(S)[j]].latency
<1> DEFINE n == Cardinality(S)
           s == Sorted(S)
<1>1. S \in SUBSET Nat /\ IsFiniteSet(S) /\ n \in Nat
  <2>1. IsFiniteSet(InUse) /\ InUse \subseteq Nat
    BY FS_Interval DEF InUse
  <2> QED BY <2>1, FS_Subset, FS_CardinalityType
<1>2. \A i \in S : LatencyOf[i] = slots[i].latency /\ LatencyOf[i] \in Nat
  BY DEF LatencyOf
<1>3. [i \in S |-> slots[i].latency] \in [S -> Int]
  BY <1>2
<1>4. PICK t \in [1 .. n -> S] :
        /\ \A i, j \in 1 .. n : i # j => t[i] # t[j]
        /\ \A i, j \in 1 .. n : i < j => slots[t[i]].latency <= slots[t[j]].latency
  <2> DEFINE f == [i \in S |-> slots[i].latency]
  <2>1. PICK u \in [1 .. n -> S] :
          /\ \A i, j \in 1 .. n : i # j => u[i] # u[j]
          /\ \A i, j \in 1 .. n : i < j => f[u[i]] <= f[u[j]]
    <3> HIDE DEF f
    <3> QED BY <1>1, <1>3, OrderExists DEF f
  <2>2. \A i \in 1 .. n : f[u[i]] = slots[u[i]].latency
    OBVIOUS
  <2> QED BY <2>1, <2>2
<1>5. \A u \in [1 .. n -> S] : Len(u) = n
  BY <1>1
<1>6. s \in SetToSeqs(S) /\ \A i, j \in 1 .. Len(s) : i < j => slots[s[i]].latency <= slots[s[j]].latency
  <2> DEFINE Good(u) == \A i, j \in 1 .. Len(u) : i < j => slots[u[i]].latency <= slots[u[j]].latency
  <2>1. t \in SetToSeqs(S) /\ Good(t)
    BY <1>4, <1>5 DEF SetToSeqs
  <2>2. s = CHOOSE u \in SetToSeqs(S) : Good(u)
    BY DEF Sorted
  <2> HIDE DEF Good, s
  <2>3. s \in SetToSeqs(S) /\ Good(s)
    BY <2>1, <2>2
  <2> QED BY <2>3 DEF Good
<1> HIDE DEF s
<1>7. s \in [1 .. n -> S] /\ \A i, j \in 1 .. n : i # j => s[i] # s[j]
  BY <1>6 DEF SetToSeqs
<1>8. \A i \in S : \E j \in 1 .. n : s[j] = i
  <2>1. s \in Injection(1 .. n, S)
    BY <1>7 DEF Injection, IsInjective
  <2>2. IsFiniteSet(1 .. n) /\ Cardinality(1 .. n) = n
    BY <1>1, FS_Interval
  <2>3. s \in Surjection(1 .. n, S)
    BY <1>1, <2>1, <2>2, FS_Injection
  <2> QED BY <2>3 DEF Surjection
<1> QED BY <1>1, <1>5, <1>6, <1>7, <1>8 DEF s

(* No more than half of them are below the middle one, and more than half  *)
(* of them up to it.                                                       *)
LEMMA MiddleSplits ==
  ASSUME fill \in Nat, LatencyOf \in [InUse -> Nat], NEW S \in SUBSET InUse, S # {}
  PROVE  LET m == Middle(Sorted(S))
             below == {i \in S : slots[i].latency < slots[m].latency}
             upTo == {i \in S : slots[i].latency <= slots[m].latency}
         IN  /\ m \in S
             /\ 2 * Cardinality(below) <= Cardinality(S)
             /\ 2 * Cardinality(upTo) > Cardinality(S)
<1> DEFINE n == Cardinality(S)
           s == Sorted(S)
           p == n \div 2 + 1
           m == s[p]
           below == {i \in S : slots[i].latency < slots[m].latency}
           upTo == {i \in S : slots[i].latency <= slots[m].latency}
<1>1. /\ s \in [1 .. n -> S] /\ IsFiniteSet(S) /\ n \in Nat
      /\ \A i \in S : \E j \in 1 .. n : s[j] = i
      /\ \A i, j \in 1 .. n : i # j => s[i] # s[j]
      /\ \A i, j \in 1 .. n : i < j => slots[s[i]].latency <= slots[s[j]].latency
  BY SortedOrders
<1>2. n # 0
  BY <1>1, FS_EmptySet
<1>3. Len(s) = n /\ Middle(s) = m
  BY <1>1
<1>4. \A i \in S : slots[i].latency \in Nat
  <2>1. \A i \in S : LatencyOf[i] = slots[i].latency /\ LatencyOf[i] \in Nat
    BY DEF LatencyOf
  <2> QED BY <2>1
<1> HIDE DEF n, s
<1>5. p \in 1 .. n /\ p - 1 \in Nat /\ 2 * (p - 1) <= n /\ 2 * p > n
  BY <1>1, <1>2
<1> HIDE DEF p
<1>6. m \in S
  BY <1>1, <1>5
<1> HIDE DEF m
<1>7. IsFiniteSet(below) /\ Cardinality(below) <= p - 1
  <2> DEFINE first == {s[j] : j \in 1 .. p - 1}
             g == [j \in 1 .. p - 1 |-> s[j]]
  <2>1. g \in Surjection(1 .. p - 1, first)
    BY DEF Surjection
  <2>2. IsFiniteSet(1 .. p - 1) /\ Cardinality(1 .. p - 1) = p - 1
    <3>1. \A q \in Nat : IsFiniteSet(1 .. q) /\ Cardinality(1 .. q) = q
      BY FS_Interval
    <3> QED BY <1>5, <3>1
  <2>3. below \in SUBSET first
    <3> SUFFICES ASSUME NEW i \in below PROVE i \in first
      OBVIOUS
    <3>1. PICK j \in 1 .. n : s[j] = i
      BY <1>1
    <3>2. ~ (slots[m].latency <= slots[i].latency)
      BY <1>4, <1>6
    <3>3. ~ (p < j) /\ p # j
      <4>1. p < j => slots[m].latency <= slots[i].latency
        BY <1>1, <1>5, <3>1 DEF m
      <4>2. p = j => slots[m].latency <= slots[i].latency
        BY <1>4, <1>6, <3>1 DEF m
      <4> QED BY <3>2, <4>1, <4>2
    <3>4. j \in 1 .. p - 1
      BY <1>1, <1>5, <3>1, <3>3
    <3> QED BY <3>1, <3>4
  <2> HIDE DEF first, g, below
  <2>4. IsFiniteSet(first) /\ Cardinality(first) <= p - 1
    BY <2>1, <2>2, FS_Surjection
  <2>5. IsFiniteSet(below) /\ Cardinality(below) <= Cardinality(first)
    BY <2>3, <2>4, FS_Subset
  <2>6. Cardinality(below) \in Nat /\ Cardinality(first) \in Nat
    BY <2>4, <2>5, FS_CardinalityType
  <2> QED BY <1>5, <2>4, <2>5, <2>6
<1>8. IsFiniteSet(upTo) /\ p <= Cardinality(upTo)
  <2> DEFINE g == [j \in 1 .. p |-> s[j]]
  <2>1. \A j \in 1 .. p : s[j] \in upTo
    <3> TAKE j \in 1 .. p
    <3>1. j \in 1 .. n /\ s[j] \in S
      BY <1>1, <1>5
    <3>2. slots[s[j]].latency <= slots[m].latency
      BY <1>1, <1>4, <1>5, <1>6, <3>1 DEF m
    <3> QED BY <3>1, <3>2
  <2>2. upTo \in SUBSET S
    OBVIOUS
  <2> HIDE DEF upTo
  <2>3. IsFiniteSet(upTo)
    BY <1>1, <2>2, FS_Subset
  <2>4. g \in Injection(1 .. p, upTo)
    BY <1>1, <1>5, <2>1 DEF Injection, IsInjective
  <2>5. Cardinality(1 .. p) = p
    BY <1>5, FS_Interval
  <2> HIDE DEF g
  <2> QED BY <2>3, <2>4, <2>5, FS_Injection
<1>9. Cardinality(below) \in Nat /\ Cardinality(upTo) \in Nat
  BY <1>7, <1>8, FS_CardinalityType
<1>10. 2 * Cardinality(below) <= n /\ 2 * Cardinality(upTo) > n
  <2> HIDE DEF below, upTo
  <2> QED BY <1>1, <1>5, <1>7, <1>8, <1>9
<1> QED BY <1>3, <1>6, <1>10 DEF n, s

-----------------------------------------------------------------------------
(* The types, and what a probe is answered.                                *)

LEMMA LatenciesTyped ==
  ASSUME TypeOK
  PROVE  /\ fill \in Nat /\ InUse \subseteq 0 .. Size - 1
         /\ LatencyOf \in [InUse -> Nat]
         /\ \A i \in InUse : slots[i].latency \in Latencies \cup {0}
<1>1. fill \in 0 .. Size /\ Size \in Nat
  BY RingAssumption DEF TypeOK, RingAssumption
<1>2. InUse \subseteq 0 .. Size - 1
  BY <1>1 DEF InUse
<1>3. ASSUME NEW i \in InUse PROVE slots[i].latency \in Latencies \cup {0}
  <2>1. slots[i] \in Samples \cup {NoSample}
    BY <1>2, <1>3 DEF TypeOK
  <2> QED BY <2>1 DEF Samples, NoSample
<1>4. LatencyOf \in [InUse -> Nat]
  BY <1>3, BackendAssumption DEF LatencyOf, BackendAssumption
<1> QED BY <1>1, <1>2, <1>3, <1>4

LEMMA MedianType ==
  ASSUME TypeOK, NEW current
  PROVE  MedianLatencyUs(current) \in Latencies \cup {0}
<1> DEFINE near == {i \in InUse : IsNear(slots[i].rif, current)}
           chosen == IF near = {} THEN InUse ELSE near
           m == Middle(Sorted(chosen))
<1>1. MedianLatencyUs(current) = IF chosen = {} THEN 0 ELSE slots[m].latency
  BY DEF MedianLatencyUs
<1>2. chosen \in SUBSET InUse
  OBVIOUS
<1> HIDE DEF chosen
<1>3. chosen # {} => m \in InUse
  BY <1>2, LatenciesTyped, MiddleSplits
<1> HIDE DEF m
<1> QED BY <1>1, <1>3, LatenciesTyped

LEMMA InitType == Init => TypeOK
<1> SUFFICES ASSUME Init PROVE TypeOK
  OBVIOUS
<1>1. Cardinality(Requests) \in Nat /\ MaxTotal \in Nat /\ Size \in Nat \ {0}
  BY FiniteRequests, BackendAssumption, RingAssumption DEF BackendAssumption, RingAssumption
<1>2. next \in 0 .. Size - 1 /\ fill \in 0 .. Size
  BY <1>1 DEF Init, RingInit
<1>3. inflight \in 0 .. Cardinality(Requests) /\ {requestsTotal, cancelledTotal, served} \subseteq 0 .. MaxTotal
  BY <1>1 DEF Init
<1>4. rifAt \in [Requests -> 0 .. Cardinality(Requests)] /\ rifRead \in [Probers -> 0 .. Cardinality(Requests)]
  BY <1>1 DEF Init
<1>5. answer \in [Probers -> [rif : 0 .. Cardinality(Requests), latency : Latencies \cup {0}]]
  BY <1>1 DEF Init
<1> QED BY <1>2, <1>3, <1>4, <1>5, SampleAssumption DEF Init, RingInit, TypeOK, SampleAssumption

LEMMA TypeKept ==
  ASSUME IInv, IInv', TypeOK, [Next]_vars
  PROVE  TypeOK'
<1>1. /\ Cardinality(Requests) \in Nat /\ MaxTotal \in Nat /\ Size \in Nat \ {0}
      /\ inflight' \in 0 .. Cardinality(Requests)
  <2>1. \A S : Cardinality(In(S)') \in Nat /\ Cardinality(In(S)') <= Cardinality(Requests)
    <3> TAKE S
    <3>1. In(S)' \in SUBSET Requests /\ IsFiniteSet(Requests)
      BY FiniteRequests DEF In
    <3> QED BY <3>1, FS_Subset, FS_CardinalityType
  <2>2. inflight' = Cardinality(In(Busy)')
    BY DEF IInv, Busy
  <2> QED BY <2>1, <2>2, FiniteRequests, BackendAssumption, RingAssumption DEF BackendAssumption, RingAssumption
<1>2. requestsTotal' \in 0 .. MaxTotal => {cancelledTotal', served'} \subseteq 0 .. MaxTotal
  <2>1. Cardinality(In({"working"})') \in Nat
    <3>1. In({"working"})' \in SUBSET Requests /\ IsFiniteSet(Requests)
      BY FiniteRequests DEF In
    <3> QED BY <3>1, FS_Subset, FS_CardinalityType
  <2>2. /\ requestsTotal' = served' + cancelledTotal' + Cardinality(In({"working"})')
        /\ served' \in Nat /\ cancelledTotal' \in Nat
    BY DEF IInv
  <2> QED BY <1>1, <2>1, <2>2
<1>3. requestsTotal' \in 0 .. MaxTotal
  BY <1>1 DEF Next, Arrive, Disconnect, Cancel, Finish, Return, CountInflight, Answer, TypeOK, vars,
     countVars
<1>4. pc' \in [Requests -> {"idle", "working", "returning"}]
  BY DEF IInv
<1>5. rifAt' \in [Requests -> 0 .. Cardinality(Requests)]
  <2>1. rifAt \in [Requests -> 0 .. Cardinality(Requests)]
    BY DEF TypeOK
  <2>2. \/ UNCHANGED rifAt
        \/ \E r \in Requests : \E n \in 0 .. Cardinality(Requests) : rifAt' = [rifAt EXCEPT ![r] = n]
    <3>1. 0 \in 0 .. Cardinality(Requests)
      BY <1>1
    <3> QED BY <1>1, <3>1 DEF Next, Arrive, Disconnect, Cancel, Finish, Return, CountInflight, Answer, vars,
            requestVars
  <2> QED BY <2>1, <2>2
<1>6. gone' \subseteq Requests
  BY DEF Next, Arrive, Disconnect, Cancel, Finish, Return, CountInflight, Answer, TypeOK, vars,
     requestVars
<1>7. /\ slots' \in [0 .. Size - 1 -> Samples \cup {NoSample}]
      /\ next' \in 0 .. Size - 1 /\ fill' \in 0 .. Size
  <2>1. ASSUME NEW r \in Requests, Finish(r)
        PROVE  /\ slots' \in [0 .. Size - 1 -> Samples \cup {NoSample}]
               /\ next' \in 0 .. Size - 1 /\ fill' \in 0 .. Size
    <3>1. PICK l \in Latencies : Push([latency |-> l, rif |-> rifAt[r]])
      BY <2>1 DEF Finish
    <3>2. [latency |-> l, rif |-> rifAt[r]] \in Samples
      BY <2>1 DEF Finish, IInv, Samples
    <3>3. next' \in 0 .. Size - 1
      BY <1>1, <3>1, AfterWraps DEF Push, TypeOK
    <3> QED BY <1>1, <3>1, <3>2, <3>3 DEF Push, TypeOK
  <2>2. CASE UNCHANGED ringVars
    BY <2>2 DEF ringVars, TypeOK
  <2> QED BY <2>1, <2>2 DEF Next, Arrive, Disconnect, Cancel, Return, CountInflight, Answer, vars
<1>8. /\ probe' \in [Probers -> {"idle", "counted"}]
      /\ rifRead' \in [Probers -> 0 .. Cardinality(Requests)]
      /\ answer' \in [Probers -> [rif : 0 .. Cardinality(Requests), latency : Latencies \cup {0}]]
  <2>1. CASE UNCHANGED probeVars
    BY <2>1 DEF probeVars, TypeOK
  <2>2. ASSUME NEW h \in Probers, CountInflight(h)
        PROVE  /\ probe' \in [Probers -> {"idle", "counted"}]
               /\ rifRead' \in [Probers -> 0 .. Cardinality(Requests)] /\ answer' = answer
    BY <2>2 DEF CountInflight, TypeOK
  <2>3. ASSUME NEW h \in Probers, Answer(h)
        PROVE  /\ probe' \in [Probers -> {"idle", "counted"}]
               /\ rifRead' \in [Probers -> 0 .. Cardinality(Requests)]
               /\ answer' \in [Probers -> [rif : 0 .. Cardinality(Requests), latency : Latencies \cup {0}]]
    <3>1. MedianLatencyUs(rifRead[h]) \in Latencies \cup {0}
      BY MedianType
    <3> QED BY <1>1, <2>3, <3>1 DEF Answer, TypeOK
  <2>4. answer \in [Probers -> [rif : 0 .. Cardinality(Requests), latency : Latencies \cup {0}]]
    BY DEF TypeOK
  <2> QED BY <2>1, <2>2, <2>3, <2>4 DEF Next, Arrive, Disconnect, Cancel, Finish, Return, vars
<1> QED BY <1>1, <1>2, <1>3, <1>4, <1>5, <1>6, <1>7, <1>8 DEF TypeOK

(* The backend's state keeps its types: no count goes below 0 or above the *)
(* number of requests, and every answer is a count and a latency that can  *)
(* have been.                                                              *)
THEOREM BackendTypes == Spec => []TypeOK
<1>1. IInv /\ IInv' /\ TypeOK /\ [Next]_vars => TypeOK'
  BY TypeKept
<1> QED BY <1>1, InitType, BackendInvariant, PTL DEF Spec

LEMMA BackendFills == Spec => []Filling
<1>1. Init => Filling
  BY RingAssumption DEF Init, RingInit, Filling, RingAssumption
<1>2. Filling /\ [Next]_vars => Filling'
  <2> SUFFICES ASSUME Filling, [Next]_vars PROVE Filling'
    OBVIOUS
  <2>1. ASSUME NEW x, Push(x) PROVE Filling'
    BY <2>1, FillingKept
  <2>2. CASE UNCHANGED ringVars
    BY <2>2 DEF Filling, ringVars
  <2> QED BY <2>1, <2>2 DEF Next, Arrive, Disconnect, Cancel, Finish, Return, CountInflight, Answer, vars
<1> QED BY <1>1, <1>2, PTL DEF Spec

(* As many positions of the log as slots of the array hold a given kind of *)
(* sample.                                                                 *)
LEMMA SameCount ==
  ASSUME Filling, NEW T \in SUBSET InUse
  PROVE  Cardinality({k \in 1 .. fill : Slot(k) \in T}) = Cardinality(T)
<1> DEFINE K == {k \in 1 .. fill : Slot(k) \in T}
           g == [k \in K |-> Slot(k)]
<1>1. fill \in Nat
  BY RingAssumption DEF Filling, RingAssumption
<1>2. IsFiniteSet(K)
  <2>1. IsFiniteSet(1 .. fill)
    BY <1>1, FS_Interval
  <2> QED BY <2>1, FS_Subset
<1>3. g \in Bijection(K, T)
  <2>1. /\ \A i \in InUse : \E k \in 1 .. fill : Slot(k) = i
        /\ \A k, l \in 1 .. fill : Slot(k) = Slot(l) => k = l
    BY SlotsInUse
  <2>2. g \in Injection(K, T)
    BY <2>1 DEF Injection, IsInjective
  <2>3. g \in Surjection(K, T)
    BY <2>1 DEF Surjection
  <2> QED BY <2>2, <2>3 DEF Bijection
<1>4. ExistsBijection(K, T)
  BY <1>3 DEF ExistsBijection
<1> HIDE DEF K
<1>5. Cardinality(T) = Cardinality(K)
  BY <1>2, <1>4, FS_Bijection
<1> QED BY <1>5 DEF K

(* What medianLatencyUs finds, told in terms of the log.                   *)
LEMMA MedianFits ==
  ASSUME TypeOK, Filling, NEW current,
         NEW near, near = {k \in 1 .. fill : IsNear(Newest[k].rif, current)}, near # {},
         NEW l, l = MedianLatencyUs(current)
  PROVE  /\ 2 * Cardinality({k \in near : Newest[k].latency < l}) <= Cardinality(near)
         /\ 2 * Cardinality({k \in near : Newest[k].latency <= l}) > Cardinality(near)
<1> DEFINE S == {i \in InUse : IsNear(slots[i].rif, current)}
           m == Middle(Sorted(S))
           below == {i \in S : slots[i].latency < slots[m].latency}
           upTo == {i \in S : slots[i].latency <= slots[m].latency}
<1>1. \A k \in 1 .. fill : Newest[k] = slots[Slot(k)] /\ Slot(k) \in InUse
  BY SlotsInUse
<1>2. S # {}
  BY <1>1
<1>3. l = slots[m].latency
  BY <1>2 DEF MedianLatencyUs
<1>4. 2 * Cardinality(below) <= Cardinality(S) /\ 2 * Cardinality(upTo) > Cardinality(S)
  <2>1. S \in SUBSET InUse
    OBVIOUS
  <2> HIDE DEF S
  <2> QED BY <1>2, <2>1, LatenciesTyped, MiddleSplits
<1> HIDE DEF m
<1>5. /\ near = {k \in 1 .. fill : Slot(k) \in S}
      /\ {k \in near : Newest[k].latency < l} = {k \in 1 .. fill : Slot(k) \in below}
      /\ {k \in near : Newest[k].latency <= l} = {k \in 1 .. fill : Slot(k) \in upTo}
  BY <1>1, <1>3
<1>6. S \in SUBSET InUse /\ below \in SUBSET InUse /\ upTo \in SUBSET InUse
  OBVIOUS
<1> HIDE DEF S, below, upTo
<1> QED BY <1>4, <1>5, <1>6, SameCount

(* An answer's estimate is the median of those among the last requests     *)
(* that met a count near the one it reports, whatever has begun or ended   *)
(* between the read of the count and that of the ring.                     *)
THEOREM EstimateIsMedian == Spec => EstimateFitsCount
<1>1. TypeOK /\ Filling /\ [Next]_vars =>
        [\A h \in Probers : probe[h] = "counted" /\ probe'[h] = "idle" =>
           LET near  == {k \in 1 .. fill : IsNear(Newest[k].rif, answer'[h].rif)}
               n     == Cardinality(near)
               below == {k \in near : Newest[k].latency < answer'[h].latency}
               upTo  == {k \in near : Newest[k].latency <= answer'[h].latency}
           IN  near # {} => 2 * Cardinality(below) <= n /\ 2 * Cardinality(upTo) > n]_vars
  <2> SUFFICES ASSUME TypeOK, Filling, Next, NEW h \in Probers, probe[h] = "counted", probe'[h] = "idle",
                      NEW near, near = {k \in 1 .. fill : IsNear(Newest[k].rif, answer'[h].rif)}, near # {}
               PROVE  /\ 2 * Cardinality({k \in near : Newest[k].latency < answer'[h].latency})
                           <= Cardinality(near)
                      /\ 2 * Cardinality({k \in near : Newest[k].latency <= answer'[h].latency})
                           > Cardinality(near)
    OBVIOUS
  <2>1. Answer(h)
    <3>1. PICK g \in Probers : Answer(g)
      BY DEF Next, Arrive, Disconnect, Cancel, Finish, Return, CountInflight, probeVars, TypeOK
    <3> QED BY <3>1 DEF Answer, TypeOK
  <2>2. answer'[h] = [rif |-> rifRead[h], latency |-> MedianLatencyUs(rifRead[h])]
    BY <2>1 DEF Answer, TypeOK
  <2>3. answer'[h].rif = rifRead[h] /\ answer'[h].latency = MedianLatencyUs(rifRead[h])
    BY <2>2
  <2>4. near = {k \in 1 .. fill : IsNear(Newest[k].rif, rifRead[h])}
    BY <2>3
  <2> DEFINE current == rifRead[h]
             l == answer'[h].latency
  <2>5. near = {k \in 1 .. fill : IsNear(Newest[k].rif, current)} /\ l = MedianLatencyUs(current)
    BY <2>3, <2>4
  <2> HIDE DEF current, l
  <2>6. /\ 2 * Cardinality({k \in near : Newest[k].latency < l}) <= Cardinality(near)
        /\ 2 * Cardinality({k \in near : Newest[k].latency <= l}) > Cardinality(near)
    BY <2>5, MedianFits
  <2> QED BY <2>6 DEF l
<1> QED BY <1>1, BackendTypes, BackendFills, PTL DEF EstimateFitsCount, Spec
=============================================================================
