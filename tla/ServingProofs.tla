---------------------------- MODULE ServingProofs ----------------------------
(***************************************************************************)
(* Proofs about Serving, for any number of connections, servers and        *)
(* requests and any width of the index.                                    *)
(***************************************************************************)
EXTENDS Serving, SumLemmas, Sequences

USE DEF IndexAfter, TurnOf, IsOk, Fewer, HasDeadline

Places == {"none", "connected"} \cup Handled

-----------------------------------------------------------------------------
(* Whole and partial rounds.                                               *)

(* How often server s has its turn among the first n indexes.              *)
Share(s, n) == (n \div NumServers) + (IF s < n % NumServers THEN 1 ELSE 0)

LEMMA Division ==
  ASSUME NEW n \in Nat
  PROVE  /\ n \div NumServers \in Nat
         /\ n % NumServers \in 0 .. NumServers - 1
         /\ n = NumServers * (n \div NumServers) + (n % NumServers)
BY ServingAssumption DEF ServingAssumption

(* The next index adds a turn for the server whose turn it was.            *)
LEMMA ShareStep ==
  ASSUME NEW n \in Nat, NEW s \in Servers
  PROVE  /\ Share(s, n) \in Nat
         /\ Share(s, n + 1) = Share(s, n) + (IF s = n % NumServers THEN 1 ELSE 0)
<1> DEFINE N == NumServers
           q == n \div N
           r == n % N
           q1 == (n + 1) \div N
           r1 == (n + 1) % N
<1>1. /\ N \in Nat \ {0}
      /\ q \in Nat /\ r \in 0 .. N - 1 /\ n = N * q + r
      /\ q1 \in Nat /\ r1 \in 0 .. N - 1 /\ n + 1 = N * q1 + r1
  BY Division, ServingAssumption DEF ServingAssumption
<1>2. s \in 0 .. N - 1
  BY DEF Servers
<1>3. Share(s, n) = q + (IF s < r THEN 1 ELSE 0) /\ Share(s, n + 1) = q1 + (IF s < r1 THEN 1 ELSE 0)
  BY DEF Share
<1> HIDE DEF N, q, r, q1, r1
<1>4. CASE r + 1 < N
  <2>1. r + 1 \in 0 .. N - 1 /\ N * q1 + r1 = N * q + (r + 1)
    BY <1>1, <1>4, SMTT(30)
  <2>2. q1 = q /\ r1 = r + 1
    BY <1>1, <2>1, DivisionUnique
  <2> QED BY <1>1, <1>2, <1>3, <2>2 DEF r, N
<1>5. CASE r = N - 1
  <2>1. N * (q + 1) = N * q + N
    BY <1>1, SMTT(30)
  <2>2. q + 1 \in Nat /\ 0 \in 0 .. N - 1 /\ N * q1 + r1 = N * (q + 1) + 0
    BY <1>1, <1>5, <2>1, SMTT(30)
  <2>3. q1 = q + 1 /\ r1 = 0
    BY <1>1, <2>2, DivisionUnique
  <2> QED BY <1>1, <1>2, <1>3, <1>5, <2>3 DEF r, N
<1> QED BY <1>1, <1>4, <1>5

(* Shares differ by one at most, and not at all after whole rounds.        *)
LEMMA SharesEven ==
  ASSUME NEW n \in Nat, NEW s \in Servers, NEW t \in Servers
  PROVE  /\ Share(s, n) - Share(t, n) <= 1
         /\ n % NumServers = 0 => Share(s, n) = Share(t, n)
<1> USE DEF Servers
<1>1. n % NumServers \in 0 .. NumServers - 1 /\ n \div NumServers \in Nat
  BY Division
<1> QED BY <1>1, ServingAssumption DEF Share, ServingAssumption

-----------------------------------------------------------------------------
(* How many connections are in a set of places after one has moved.        *)

LEMMA CountAfterMove ==
  ASSUME TypeOK, NEW c \in Clients, NEW place, Goto(c, place), NEW S
  PROVE  /\ Cardinality(At(S)) \in Nat
         /\ Cardinality(At(S)') = Cardinality(At(S)) + (IF place \in S THEN 1 ELSE 0)
                                   - (IF pc[c] \in S THEN 1 ELSE 0)
         /\ pc[c] \in S => Cardinality(At(S)) > 0
<1>1. IsFiniteSet(At(S))
  <2>1. At(S) \subseteq Clients
    BY DEF At
  <2> QED BY <2>1, FS_Subset, ServingAssumption DEF ServingAssumption
<1>2. pc' = [d \in Clients |-> IF d = c THEN place ELSE pc[d]]
  BY DEF TypeOK, Goto
<1>3. At(S)' = IF place \in S THEN At(S) \cup {c} ELSE At(S) \ {c}
  BY <1>2 DEF At
<1>4. c \in At(S) <=> pc[c] \in S
  BY DEF At
<1>5. Cardinality(At(S)) \in Nat
  BY <1>1, FS_CardinalityType
<1>6. Cardinality(At(S) \cup {c}) = IF c \in At(S) THEN Cardinality(At(S)) ELSE Cardinality(At(S)) + 1
  BY <1>1, FS_AddElement
<1>7. Cardinality(At(S) \ {c}) = IF c \in At(S) THEN Cardinality(At(S)) - 1 ELSE Cardinality(At(S))
  BY <1>1, FS_RemoveElement
<1>8. c \in At(S) => Cardinality(At(S)) # 0
  BY <1>1, FS_EmptySet
<1> QED BY <1>3, <1>4, <1>5, <1>6, <1>7, <1>8

LEMMA NobodyAtFirst ==
  ASSUME Init, NEW S, "none" \notin S
  PROVE  Cardinality(At(S)) = 0
<1>1. At(S) = {}
  BY DEF Init, At
<1> QED BY <1>1, FS_EmptySet

-----------------------------------------------------------------------------
(* The invariant.                                                          *)

Pending == Handled \ {"refused"}

(* The turns of each server are its share of the indexes so far.           *)
TurnsAreShares ==
  \A s \in Servers : turns[s] = wraps * Share(s, IndexWrap) + Share(s, rrIndex)

IInv == TypeOK /\ ForwardsBalance /\ RequestsAccounted

LEMMA InitIInv == Init => IInv
<1> SUFFICES ASSUME Init PROVE IInv
  OBVIOUS
<1>1. TypeOK
  <2>1. /\ slots \in [0 .. PicksCap - 1 -> Nat] /\ next \in 0 .. PicksCap - 1 /\ fill \in 0 .. PicksCap
    BY ServingAssumption DEF Init, ServingAssumption, Picks!RingInit, NoPick
  <2>2. rrIndex \in 0 .. IndexWrap - 1 /\ turns \in [Servers -> Nat] /\ wraps \in Nat
    BY ServingAssumption DEF Init, ServingAssumption
  <2>3. pc \in [Clients -> {"none", "connected"} \cup Handled] /\ pick \in [Clients -> Nat]
    BY DEF Init, NoPick
  <2> QED BY <2>1, <2>2, <2>3 DEF Init, TypeOK
<1>2. ForwardsBalance /\ RequestsAccounted
  <2>1. Cardinality(At(Handled)) = 0 /\ Cardinality(At(Forwarding)) = 0
        /\ Cardinality(At(Handled \ {"refused"})) = 0
    BY NobodyAtFirst DEF Handled, Forwarding, Ended
  <2> QED BY <2>1 DEF ForwardsBalance, RequestsAccounted, Init
<1> QED BY <1>1, <1>2 DEF IInv

(* A place where a connection is has been counted.                         *)
LEMMA Occupied ==
  ASSUME NEW c \in Clients, NEW S, pc[c] \in S
  PROVE  Cardinality(At(S)) \in Nat \ {0}
<1>1. At(S) \subseteq Clients /\ c \in At(S)
  BY DEF At
<1>2. IsFiniteSet(At(S))
  BY <1>1, FS_Subset, ServingAssumption DEF ServingAssumption
<1> QED BY <1>1, <1>2, FS_EmptySet, FS_CardinalityType

(* The types, one connection's step after the other.                       *)
LEMMA RequestTypes ==
  ASSUME TypeOK, ForwardsBalance, NEW c \in Clients, Request(c)
  PROVE  TypeOK'
<1> DEFINE places == {"none", "connected"} \cup Handled
<1>1. /\ {"none", "connected", "select", "record", "forward", "copy"} \subseteq places
      /\ {"answered", "refused", "panicked"} \subseteq places
  BY DEF Handled, Forwarding, Ended
<1>2. pc \in [Clients -> places]
  BY DEF TypeOK
<1>3. ASSUME NEW place \in places, Goto(c, place) PROVE pc' \in [Clients -> places]
  BY <1>2, <1>3 DEF Goto
<1>4. /\ total \in Nat /\ successful \in Nat /\ failed \in Nat /\ aborted \in Nat
      /\ activeForwards \in Nat /\ activeRequests \in Nat
  BY DEF TypeOK
<1> HIDE DEF places
<1> USE DEF programVars, requestVars, statVars, gaugeVars, roundRobinVars, pickVars
<1>5. CASE Connect(c) \/ Disconnect(c)
  <2>1. pc' \in [Clients -> places]
    BY <1>1, <1>3, <1>5 DEF Connect, Disconnect
  <2> QED BY <2>1, <1>5 DEF Connect, Disconnect, TypeOK, places
<1>6. CASE Arrive(c)
  <2>1. pc' \in [Clients -> places]
    BY <1>1, <1>3, <1>6 DEF Arrive
  <2>2. due' \in Nat /\ total' \in Nat /\ activeForwards' \in Nat
    BY <1>4, <1>6 DEF Arrive, TypeOK
  <2>3. UNCHANGED <<phase, stopCh, over, expired, stalled, successful, failed, aborted, activeRequests,
                    algorithm, roundRobinVars, pickVars>>
    BY <1>6 DEF Arrive
  <2> QED BY <2>1, <2>2, <2>3 DEF TypeOK, places
<1>7. CASE PickRoundRobin(c)
  <2>1. pc' \in [Clients -> places]
    BY <1>1, <1>3, <1>7 DEF PickRoundRobin, BeginForward
  <2>2. rrIndex' \in 0 .. IndexWrap - 1
    BY <1>7, ServingAssumption DEF PickRoundRobin, ServingAssumption, TypeOK
  <2>3. turns' \in [Servers -> Nat] /\ wraps' \in Nat
    <3>1. TurnOf(rrIndex) \in Servers
      <4>1. rrIndex \in Nat
        BY DEF TypeOK
      <4> QED BY <4>1, Division DEF Servers
    <3>2. wraps' \in Nat
      BY <1>7 DEF PickRoundRobin, TypeOK
    <3>3. turns' = [turns EXCEPT ![TurnOf(rrIndex)] = @ + 1] /\ turns \in [Servers -> Nat]
      BY <1>7 DEF PickRoundRobin, TypeOK
    <3> HIDE DEF TurnOf
    <3> QED BY <3>1, <3>2, <3>3
  <2>4. activeRequests' \in Nat
    BY <1>4, <1>7 DEF PickRoundRobin, BeginForward
  <2> QED BY <2>1, <2>2, <2>3, <2>4, <1>7 DEF PickRoundRobin, TypeOK, places
<1>8. CASE PickPrequal(c)
  <2>1. pc' \in [Clients -> places]
    BY <1>1, <1>3, <1>8 DEF PickPrequal, BeginForward
  <2>2. picks' \in Nat /\ pick' \in [Clients -> Nat]
    <3>1. picks \in Nat /\ pick \in [Clients -> Nat]
      BY DEF TypeOK
    <3>2. picks' = picks + 1 /\ (pick' = pick \/ pick' = [pick EXCEPT ![c] = picks'])
      BY <1>8 DEF PickPrequal
    <3> QED BY <3>1, <3>2
  <2>3. activeRequests' \in Nat
    BY <1>4, <1>8 DEF PickPrequal, BeginForward
  <2> QED BY <2>1, <2>2, <2>3, <1>8 DEF PickPrequal, TypeOK, places
<1>9. CASE RecordPick(c)
  <2>1. pc' \in [Clients -> places]
    BY <1>1, <1>3, <1>9 DEF RecordPick, BeginForward
  <2>2. /\ slots' \in [0 .. PicksCap - 1 -> Nat] /\ fill' \in 0 .. PicksCap
        /\ next' \in 0 .. PicksCap - 1 /\ pick' \in [Clients -> Nat]
    <3>1. PicksCap \in Nat \ {0} /\ next \in 0 .. PicksCap - 1 /\ fill \in 0 .. PicksCap
      BY ServingAssumption DEF ServingAssumption, TypeOK
    <3>2. Picks!Push(pick[c]) /\ pick' = [pick EXCEPT ![c] = NoPick]
      BY <1>9 DEF RecordPick
    <3>3. slots' \in [0 .. PicksCap - 1 -> Nat] /\ pick' \in [Clients -> Nat]
      BY <3>2 DEF Picks!Push, TypeOK, NoPick
    <3>4. next' \in 0 .. PicksCap - 1
      BY <3>1, <3>2 DEF Picks!Push, Picks!After
    <3>5. fill' \in 0 .. PicksCap
      BY <3>1, <3>2 DEF Picks!Push
    <3> QED BY <3>3, <3>4, <3>5
  <2>3. activeRequests' \in Nat
    BY <1>4, <1>9 DEF RecordPick, BeginForward
  <2> QED BY <2>1, <2>2, <2>3, <1>9 DEF RecordPick, TypeOK, places
<1>10. CASE Expire(c) \/ Stall(c)
  BY <1>10 DEF Expire, Stall, TypeOK
<1>11. CASE Answer(c)
  <2>1. pc' \in [Clients -> places]
    BY <1>1, <1>3, <1>11 DEF Answer
  <2> QED BY <2>1, <1>11 DEF Answer, TypeOK, places
<1>12. CASE Refuse(c) \/ EndCopy(c)
  <2>1. pc' \in [Clients -> places]
    BY <1>1, <1>3, <1>12 DEF Refuse, EndCopy, EndForward
  <2>2. pc[c] \in Forwarding
    BY <1>12 DEF Refuse, EndCopy, Forwarding
  <2>3. activeRequests' \in Nat
    BY <2>2, <1>12, Occupied DEF Refuse, EndCopy, EndForward, ForwardsBalance
  <2>4. failed' \in Nat
    BY <1>4, <1>12 DEF Refuse, EndCopy
  <2> QED BY <2>1, <2>3, <2>4, <1>12 DEF Refuse, EndCopy, EndForward, TypeOK, places
<1>13. CASE Return(c)
  <2>1. pc' \in [Clients -> places]
    BY <1>1, <1>3, <1>13 DEF Return
  <2>2. pc[c] \in Handled
    BY <1>13 DEF Return, Handled
  <2>3. activeForwards' \in Nat
    BY <2>2, <1>13, Occupied DEF Return, ForwardsBalance
  <2>4. successful' \in Nat /\ aborted' \in Nat
    BY <1>4, <1>13 DEF Return
  <2> QED BY <2>1, <2>3, <2>4, <1>13 DEF Return, TypeOK, places
<1> QED BY <1>5, <1>6, <1>7, <1>8, <1>9, <1>10, <1>11, <1>12, <1>13 DEF Request

(* The counts, in each of the three sets of places that an equation is     *)
(* about.                                                                  *)
LEMMA RequestCounts ==
  ASSUME TypeOK, ForwardsBalance, RequestsAccounted, NEW c \in Clients, Request(c)
  PROVE  ForwardsBalance' /\ RequestsAccounted'
<1> DEFINE handled == Cardinality(At(Handled))
           forwarding == Cardinality(At(Forwarding))
           pending == Cardinality(At(Pending))
<1>1. /\ activeForwards = handled /\ activeRequests = forwarding
      /\ total = successful + failed + aborted + pending
  BY DEF ForwardsBalance, RequestsAccounted, Pending
<1>2. /\ total \in Nat /\ successful \in Nat /\ failed \in Nat /\ aborted \in Nat
      /\ activeForwards \in Nat /\ activeRequests \in Nat
  BY DEF TypeOK
<1>3. ASSUME NEW place, Goto(c, place)
      PROVE  /\ handled \in Nat /\ forwarding \in Nat /\ pending \in Nat
             /\ handled' = handled + (IF place \in Handled THEN 1 ELSE 0)
                            - (IF pc[c] \in Handled THEN 1 ELSE 0)
             /\ forwarding' = forwarding + (IF place \in Forwarding THEN 1 ELSE 0)
                               - (IF pc[c] \in Forwarding THEN 1 ELSE 0)
             /\ pending' = pending + (IF place \in Pending THEN 1 ELSE 0)
                            - (IF pc[c] \in Pending THEN 1 ELSE 0)
  <2>1. Handled' = Handled /\ Forwarding' = Forwarding /\ Pending' = Pending
    BY DEF Handled, Forwarding, Ended, Pending
  <2> QED BY <1>3, <2>1, CountAfterMove
<1>4. SUFFICES /\ activeForwards' = handled' /\ activeRequests' = forwarding'
               /\ total' = successful' + failed' + aborted' + pending'
  BY DEF ForwardsBalance, RequestsAccounted, Pending
<1> HIDE DEF handled, forwarding, pending
<1> USE DEF Handled, Forwarding, Ended, Pending, programVars, statVars, gaugeVars
<1>5a. CASE Connect(c)
  BY <1>1, <1>2, <1>3, <1>5a DEF Connect
<1>5b. CASE Disconnect(c)
  BY <1>1, <1>2, <1>3, <1>5b DEF Disconnect
<1>6. CASE Arrive(c)
  BY <1>1, <1>2, <1>3, <1>6 DEF Arrive
<1>7. CASE PickRoundRobin(c)
  BY <1>1, <1>2, <1>3, <1>7 DEF PickRoundRobin, BeginForward
<1>8. CASE PickPrequal(c)
  BY <1>1, <1>2, <1>3, <1>8 DEF PickPrequal, BeginForward
<1>9. CASE RecordPick(c)
  BY <1>1, <1>2, <1>3, <1>9 DEF RecordPick, BeginForward
<1>10. CASE Expire(c) \/ Stall(c)
  BY <1>1, <1>10 DEF Expire, Stall, handled, forwarding, pending, At
<1>11. CASE Answer(c)
  BY <1>1, <1>2, <1>3, <1>11 DEF Answer
<1>12. CASE Refuse(c)
  BY <1>1, <1>2, <1>3, <1>12 DEF Refuse, EndForward
<1>13. CASE EndCopy(c)
  BY <1>1, <1>2, <1>3, <1>13 DEF EndCopy, EndForward
<1>14. CASE Return(c)
  <2>1. PICK place \in {"none", "connected"} : Goto(c, place)
    BY <1>14 DEF Return
  <2>2. handled' = handled - 1 /\ forwarding' = forwarding
    BY <1>3, <1>14, <2>1 DEF Return
  <2>3. /\ total' = total /\ failed' = failed /\ activeRequests' = activeRequests
        /\ activeForwards' = activeForwards - 1
    BY <1>2, <1>14 DEF Return
  <2>4. activeForwards' = handled' /\ activeRequests' = forwarding'
    BY <1>1, <2>2, <2>3
  <2>5. successful + failed + aborted + pending = successful' + failed' + aborted' + pending'
    <3>1. CASE pc[c] = "refused"
      <4>1. successful' = successful /\ aborted' = aborted
        BY <1>14, <3>1 DEF Return
      <4>2. pending' = pending
        BY <1>3, <1>14, <2>1, <3>1 DEF Return
      <4> QED BY <2>3, <4>1, <4>2
    <3>2. CASE pc[c] = "answered"
      <4>1. successful' = successful + 1 /\ aborted' = aborted
        BY <1>14, <3>2 DEF Return
      <4>2. pending' = pending - 1
        BY <1>3, <1>14, <2>1, <3>2 DEF Return
      <4>3. pending \in Nat
        BY <1>3, <2>1
      <4> HIDE DEF Handled, Forwarding, Ended, Pending
      <4> QED BY <1>2, <2>3, <4>1, <4>2, <4>3
    <3>3. CASE pc[c] = "panicked"
      <4>1. successful' = successful /\ aborted' = aborted + 1
        BY <1>14, <3>3 DEF Return
      <4>2. pending' = pending - 1
        BY <1>3, <1>14, <2>1, <3>3 DEF Return
      <4>3. pending \in Nat
        BY <1>3, <2>1
      <4> HIDE DEF Handled, Forwarding, Ended, Pending
      <4> QED BY <1>2, <2>3, <4>1, <4>2, <4>3
    <3> QED BY <1>14, <3>1, <3>2, <3>3 DEF Return
  <2> QED BY <1>1, <2>3, <2>4, <2>5
<1> QED BY <1>5a, <1>5b, <1>6, <1>7, <1>8, <1>9, <1>10, <1>11, <1>12, <1>13, <1>14 DEF Request

-----------------------------------------------------------------------------
(* The program's own steps leave the requests alone.                       *)
LEMMA ProgramKeeps ==
  ASSUME TypeOK, ForwardsBalance, RequestsAccounted, Program
  PROVE  TypeOK' /\ ForwardsBalance' /\ RequestsAccounted'
<1>1. UNCHANGED <<requestVars, statVars, gaugeVars, algorithm, roundRobinVars, pickVars>>
  BY DEF Program, OnQueryArrival, Signal, EndShutdown, Stop, Exit, RequestsUnchanged
<1>2. /\ phase' \in {"serving", "draining", "drained", "late"}
      /\ stopCh' \in BOOLEAN /\ over' \in BOOLEAN
  BY DEF Program, OnQueryArrival, Signal, EndShutdown, Stop, Exit, TypeOK
<1>3. due' \in Nat
  <2>1. due \in Nat
    BY DEF TypeOK
  <2>2. CASE OnQueryArrival
    BY <2>1, <2>2 DEF OnQueryArrival
  <2>3. CASE ~OnQueryArrival
    BY <2>1, <2>3 DEF Program, Signal, EndShutdown, Stop, Exit
  <2> QED BY <2>2, <2>3
<1>4. TypeOK'
  BY <1>1, <1>2, <1>3 DEF TypeOK, requestVars, statVars, gaugeVars, roundRobinVars, pickVars
<1>5. ForwardsBalance' /\ RequestsAccounted'
  BY <1>1 DEF ForwardsBalance, RequestsAccounted, At, requestVars, statVars, gaugeVars
<1> QED BY <1>4, <1>5

LEMMA NextIInv == IInv /\ [Next]_vars => IInv'
<1> SUFFICES ASSUME IInv, [Next]_vars PROVE IInv'
  OBVIOUS
<1>1. TypeOK' /\ ForwardsBalance' /\ RequestsAccounted'
  <2>1. CASE UNCHANGED vars
    <3>1. TypeOK'
      BY <2>1 DEF IInv, TypeOK, vars, programVars, requestVars, statVars, gaugeVars, roundRobinVars, pickVars
    <3> QED BY <2>1, <3>1 DEF IInv, ForwardsBalance, RequestsAccounted, At, vars, requestVars, statVars,
            gaugeVars
  <2> QED BY <2>1, RequestTypes, RequestCounts, ProgramKeeps DEF IInv, Next
<1> QED BY <1>1 DEF IInv

(* The invariant holds in every reachable state.                           *)
THEOREM ServingInvariant == Spec => []IInv
BY InitIInv, NextIInv, PTL DEF Spec

(* The state of the request path keeps its types; no counter goes below 0. *)
THEOREM ServingTypes == Spec => []TypeOK
<1>1. IInv => TypeOK
  BY DEF IInv
<1> QED BY <1>1, ServingInvariant, PTL

(* Every request has exactly one outcome, panics included.                 *)
THEOREM AllAccounted == Spec => []RequestsAccounted
<1>1. IInv => RequestsAccounted
  BY DEF IInv
<1> QED BY <1>1, ServingInvariant, PTL

(* activeForwards and the gauge count the requests in the handler.         *)
THEOREM ForwardsBalanced == Spec => []ForwardsBalance
<1>1. IInv => ForwardsBalance
  BY DEF IInv
<1> QED BY <1>1, ServingInvariant, PTL

-----------------------------------------------------------------------------
(* Round robin.                                                            *)

LEMMA InitTurns == Init => TurnsAreShares
<1> SUFFICES ASSUME Init, NEW s \in Servers
             PROVE  turns[s] = wraps * Share(s, IndexWrap) + Share(s, rrIndex)
  BY DEF TurnsAreShares
<1>1. Share(s, 0) = 0
  BY ServingAssumption DEF Share, Servers, ServingAssumption
<1>2. Share(s, IndexWrap) \in Nat
  BY ShareStep, ServingAssumption DEF ServingAssumption
<1>3. turns[s] = 0 /\ wraps = 0 /\ rrIndex = 0
  BY DEF Init
<1> HIDE DEF Share
<1> QED BY <1>1, <1>2, <1>3

LEMMA NextTurns == TypeOK /\ TurnsAreShares /\ [Next]_vars => TurnsAreShares'
<1> SUFFICES ASSUME TypeOK, TurnsAreShares, [Next]_vars PROVE TurnsAreShares'
  OBVIOUS
<1>1. CASE UNCHANGED roundRobinVars
  BY <1>1 DEF roundRobinVars, TurnsAreShares
<1>2. ASSUME NEW c \in Clients, PickRoundRobin(c) PROVE TurnsAreShares'
  <2> SUFFICES ASSUME NEW s \in Servers
               PROVE  turns'[s] = wraps' * Share(s, IndexWrap) + Share(s, rrIndex')
    BY DEF TurnsAreShares
  <2> DEFINE round == Share(s, IndexWrap)
             share == Share(s, rrIndex)
             turn == IF s = rrIndex % NumServers THEN 1 ELSE 0
  <2>1. rrIndex \in Nat /\ rrIndex < IndexWrap /\ IndexWrap \in Nat \ {0} /\ wraps \in Nat
    BY ServingAssumption DEF TypeOK, ServingAssumption
  <2>2. round \in Nat /\ share \in Nat /\ Share(s, rrIndex + 1) = share + turn
    BY <2>1, ShareStep
  <2>3. turns'[s] = turns[s] + turn
    <3>1. turns \in [Servers -> Nat] /\ turns' = [turns EXCEPT ![rrIndex % NumServers] = @ + 1]
      BY <1>2 DEF TypeOK, PickRoundRobin
    <3>2. turns[s] \in Nat
      BY <3>1
    <3> QED BY <3>1, <3>2
  <2>4. turns[s] = wraps * round + share
    BY DEF TurnsAreShares
  <2>5. wraps * round \in Nat /\ (wraps + 1) * round = wraps * round + round
    BY <2>1, <2>2, SMTT(30)
  <2>6. rrIndex' = (rrIndex + 1) % IndexWrap /\ wraps' = IF rrIndex' = 0 THEN wraps + 1 ELSE wraps
    BY <1>2 DEF PickRoundRobin
  <2>7. CASE rrIndex + 1 < IndexWrap
    <3>1. rrIndex' = rrIndex + 1 /\ wraps' = wraps
      BY <2>1, <2>6, <2>7
    <3> HIDE DEF round, share, turn
    <3> QED BY <2>2, <2>3, <2>4, <2>5, <3>1 DEF round, turn
  <2>8. CASE rrIndex + 1 = IndexWrap
    <3>1. rrIndex' = 0 /\ wraps' = wraps + 1
      BY <2>1, <2>6, <2>8
    <3>2. Share(s, 0) = 0
      BY ServingAssumption DEF Share, Servers, ServingAssumption
    <3>3. round = share + turn
      BY <2>2, <2>8
    <3> HIDE DEF share, turn
    <3>4. turns'[s] = wraps * round + round
      BY <2>2, <2>3, <2>4, <2>5, <3>3 DEF turn
    <3> QED BY <2>2, <2>5, <3>1, <3>2, <3>4
  <2> QED BY <2>1, <2>7, <2>8
<1>3. UNCHANGED roundRobinVars \/ \E c \in Clients : PickRoundRobin(c)
  BY DEF Next, Program, OnQueryArrival, Signal, EndShutdown, Stop, Exit, RequestsUnchanged, Request, Connect,
     Disconnect,
     Arrive, PickPrequal, RecordPick, Expire, Answer, Stall, Refuse, EndCopy, EndForward, Return,
     vars
<1> QED BY <1>1, <1>2, <1>3

(* Round robin shares the requests out evenly, but for what the wraps of   *)
(* its index cost.                                                         *)
THEOREM RoundRobinIsEven == Spec => []RoundRobinEven
<1>1. TypeOK /\ TurnsAreShares => RoundRobinEven
  <2> SUFFICES ASSUME TypeOK, TurnsAreShares, NEW s \in Servers, NEW t \in Servers
               PROVE  turns[s] - turns[t] <= 1 + (IF IndexWrap % NumServers = 0 THEN 0 ELSE wraps)
    BY DEF RoundRobinEven
  <2> DEFINE a == Share(s, IndexWrap)
             b == Share(t, IndexWrap)
             x == Share(s, rrIndex)
             y == Share(t, rrIndex)
  <2>1. rrIndex \in Nat /\ IndexWrap \in Nat /\ wraps \in Nat
    BY ServingAssumption DEF TypeOK, ServingAssumption
  <2>2. a \in Nat /\ b \in Nat /\ x \in Nat /\ y \in Nat
    BY <2>1, ShareStep
  <2>3. a - b <= 1 /\ x - y <= 1 /\ (IndexWrap % NumServers = 0 => a = b)
    BY <2>1, SharesEven
  <2>4. turns[s] = wraps * a + x /\ turns[t] = wraps * b + y
    BY DEF TurnsAreShares
  <2> HIDE DEF a, b, x, y
  <2>5. wraps * a <= wraps * (b + 1) /\ wraps * (b + 1) = wraps * b + wraps
    BY <2>1, <2>2, <2>3, SMTT(30)
  <2>6. wraps * a \in Nat /\ wraps * b \in Nat
    BY <2>1, <2>2, SMTT(30)
  <2>7. CASE IndexWrap % NumServers = 0
    BY <2>1, <2>2, <2>3, <2>4, <2>6, <2>7
  <2>8. CASE IndexWrap % NumServers # 0
    BY <2>1, <2>2, <2>3, <2>4, <2>5, <2>6, <2>8
  <2> QED BY <2>7, <2>8
<1> QED BY <1>1, InitTurns, NextTurns, ServingTypes, PTL DEF Spec

-----------------------------------------------------------------------------
(* The pick log.                                                           *)

Rings == INSTANCE RingProofs WITH Items <- Numbers, Size <- PicksCap, Blank <- NoPick

Newest == Picks!Newest

(* How many requests have a pick to record.                                *)
Unrecorded == Cardinality(At({"record"}))

(* A request that still has to record its pick remembers its number.       *)
PicksRemembered ==
  \A c \in Clients : pick[c] \in 0 .. picks /\ (pc[c] = "record" <=> pick[c] # NoPick)

(* The picks that were recorded after the k-th newest of the log, and those *)
(* still to be recorded, are newer picks, but for those of the requests    *)
(* that it has overtaken: one per other connection at most.                *)
LogIsFresh ==
  \A k \in 1 .. fill :
    Newest[k] \in 1 .. picks /\ k + Unrecorded <= picks - Newest[k] + Cardinality(Clients)

(* A pick is in the log, or about to be, or so old that it may be missing. *)
OnlyOldMissing ==
  \A n \in 1 .. picks :
    \/ \E k \in 1 .. fill : Newest[k] = n
    \/ \E c \in Clients : pick[c] = n
    \/ picks - n >= PicksCap - (Cardinality(Clients) - 1)

LogInv == Rings!Filling /\ PicksRemembered /\ LogIsFresh /\ OnlyOldMissing

(* recordPick puts its pick before the others.                             *)
LEMMA PushShifts ==
  ASSUME Rings!Filling, NEW x, Picks!Push(x)
  PROVE  /\ Rings!Filling'
         /\ fill \in 0 .. PicksCap
         /\ fill' = IF fill < PicksCap THEN fill + 1 ELSE PicksCap
         /\ \A k \in 1 .. fill' : Newest'[k] = IF k = 1 THEN x ELSE Newest[k - 1]
<1>1. Rings!RingAssumption
  BY ServingAssumption DEF ServingAssumption, Rings!RingAssumption
<1>2. Rings!Push(x) /\ Rings!Newest = Newest
  BY DEF Rings!Push, Picks!Push, Rings!After, Picks!After, Rings!Newest, Picks!Newest, Newest
<1>3. Rings!Filling' /\ Rings!Log!Add(x)
  BY <1>1, <1>2, Rings!FillingKept, Rings!PushAdds
<1>4. fill \in 0 .. PicksCap /\ fill' = IF fill < PicksCap THEN fill + 1 ELSE PicksCap
  BY <1>2, ServingAssumption DEF Rings!Filling, Rings!Push, ServingAssumption
<1>5. Len(Newest) = fill
  BY <1>4 DEF Newest, Picks!Newest
<1>6. Newest' = [k \in 1 .. fill' |-> IF k = 1 THEN x ELSE Newest[k - 1]]
  BY <1>2, <1>3, <1>4, <1>5 DEF Rings!Log!Add, Rings!Newest, Newest, Picks!Newest
<1> QED BY <1>3, <1>4, <1>6

LEMMA InitLog == Init => LogInv
<1> SUFFICES ASSUME Init PROVE LogInv
  OBVIOUS
<1>1. Rings!Filling
  BY ServingAssumption DEF Init, Picks!RingInit, Rings!Filling, ServingAssumption
<1>2. fill = 0 /\ picks = 0 /\ \A c \in Clients : pick[c] = NoPick /\ pc[c] # "record"
  BY DEF Init, Picks!RingInit
<1> QED BY <1>1, <1>2 DEF LogInv, PicksRemembered, LogIsFresh, OnlyOldMissing, NoPick

(* A new pick is newer than all of the log, and has one more to record.    *)
LEMMA PickKeepsLog ==
  ASSUME TypeOK, LogInv, EnablePickLog, NEW c \in Clients, PickPrequal(c)
  PROVE  LogInv'
<1>1. /\ pc[c] = "select" /\ picks' = picks + 1 /\ picks \in Nat
      /\ pick' = [pick EXCEPT ![c] = picks + 1] /\ pick \in [Clients -> Nat]
      /\ Goto(c, "record") /\ UNCHANGED <<slots, next, fill>>
  BY DEF PickPrequal, TypeOK
<1>2. /\ Cardinality(Clients) \in Nat /\ PicksCap \in Nat
  BY ServingAssumption, FS_CardinalityType DEF ServingAssumption
<1>3. Newest' = Newest /\ Rings!Filling' /\ fill \in Nat
  BY <1>1 DEF Newest, Picks!Newest, LogInv, Rings!Filling
<1>4. Unrecorded \in Nat /\ Unrecorded' = Unrecorded + 1
  BY <1>1, CountAfterMove DEF Unrecorded
<1>5. pc' = [pc EXCEPT ![c] = "record"]
  BY <1>1 DEF Goto
<1>6. pick[c] = NoPick
  BY <1>1 DEF LogInv, PicksRemembered
<1>7. PicksRemembered'
  BY <1>1, <1>5 DEF LogInv, PicksRemembered, NoPick, TypeOK
<1>8. LogIsFresh'
  <2> SUFFICES ASSUME NEW k \in 1 .. fill
               PROVE  /\ Newest[k] \in 1 .. picks + 1
                      /\ k + (Unrecorded + 1) <= (picks + 1) - Newest[k] + Cardinality(Clients)
    BY <1>1, <1>3, <1>4 DEF LogIsFresh
  <2>1. Newest[k] \in 1 .. picks /\ k + Unrecorded <= picks - Newest[k] + Cardinality(Clients)
    BY DEF LogInv, LogIsFresh
  <2> QED BY <1>1, <1>2, <1>3, <1>4, <2>1
<1>9. OnlyOldMissing'
  <2> SUFFICES ASSUME NEW n \in 1 .. picks + 1
               PROVE  \/ \E k \in 1 .. fill : Newest[k] = n
                      \/ \E d \in Clients : pick'[d] = n
                      \/ (picks + 1) - n >= PicksCap - (Cardinality(Clients) - 1)
    BY <1>1, <1>3 DEF OnlyOldMissing
  <2>1. CASE n = picks + 1
    BY <1>1, <2>1
  <2>2. CASE n # picks + 1
    <3>1. n \in 1 .. picks
      BY <1>1, <2>2
    <3>2. \A d \in Clients : pick[d] = n => pick'[d] = n
      BY <1>1, <1>6, <3>1 DEF NoPick
    <3> QED BY <1>1, <1>2, <3>1, <3>2 DEF LogInv, OnlyOldMissing
  <2> QED BY <2>1, <2>2
<1> QED BY <1>3, <1>7, <1>8, <1>9 DEF LogInv

(* A recorded pick comes before the others and may push out one, which has *)
(* then seen PicksCap others recorded.                                     *)
LEMMA RecordKeepsLog ==
  ASSUME TypeOK, LogInv, NEW c \in Clients, RecordPick(c), pick[c] # NoPick
  PROVE  LogInv'
<1> DEFINE x == pick[c]
<1>1. /\ pc[c] = "record" /\ Picks!Push(x) /\ Goto(c, "forward") /\ picks' = picks
      /\ pick' = [pick EXCEPT ![c] = NoPick] /\ pick \in [Clients -> Nat] /\ picks \in Nat
  BY DEF RecordPick, BeginForward, TypeOK
<1>2. x \in 1 .. picks
  BY <1>1 DEF LogInv, PicksRemembered, NoPick
<1>3. Cardinality(Clients) \in Nat /\ PicksCap \in Nat \ {0}
  BY ServingAssumption, FS_CardinalityType DEF ServingAssumption
<1>4. /\ Rings!Filling' /\ fill \in 0 .. PicksCap
      /\ fill' = IF fill < PicksCap THEN fill + 1 ELSE PicksCap
      /\ \A k \in 1 .. fill' : Newest'[k] = IF k = 1 THEN x ELSE Newest[k - 1]
  BY <1>1, PushShifts DEF LogInv
<1>5. Unrecorded \in Nat /\ Unrecorded > 0 /\ Unrecorded' = Unrecorded - 1
  BY <1>1, CountAfterMove DEF Unrecorded
<1>6. Unrecorded <= Cardinality(Clients)
  <2>1. At({"record"}) \subseteq Clients
    BY DEF At
  <2> QED BY <2>1, FS_Subset, ServingAssumption DEF Unrecorded, ServingAssumption
<1>7. pc' = [pc EXCEPT ![c] = "forward"]
  BY <1>1 DEF Goto
<1>8. PicksRemembered'
  BY <1>1, <1>7 DEF LogInv, PicksRemembered, NoPick, TypeOK
<1>9. LogIsFresh'
  <2> SUFFICES ASSUME NEW k \in 1 .. fill'
               PROVE  /\ Newest'[k] \in 1 .. picks
                      /\ k + Unrecorded' <= picks - Newest'[k] + Cardinality(Clients)
    BY <1>1 DEF LogIsFresh
  <2>1. CASE k = 1
    BY <1>1, <1>2, <1>3, <1>4, <1>5, <1>6, <2>1
  <2>2. CASE k # 1
    <3>1. k - 1 \in 1 .. fill /\ Newest'[k] = Newest[k - 1]
      BY <1>3, <1>4, <2>2
    <3>2. /\ Newest[k - 1] \in 1 .. picks
          /\ (k - 1) + Unrecorded <= picks - Newest[k - 1] + Cardinality(Clients)
      BY <3>1 DEF LogInv, LogIsFresh
    <3> QED BY <1>1, <1>3, <1>5, <3>1, <3>2
  <2> QED BY <2>1, <2>2
<1>10. OnlyOldMissing'
  <2> SUFFICES ASSUME NEW n \in 1 .. picks,
                      ~ \E k \in 1 .. fill' : Newest'[k] = n,
                      ~ \E d \in Clients : pick'[d] = n
               PROVE  picks - n >= PicksCap - (Cardinality(Clients) - 1)
    BY <1>1 DEF OnlyOldMissing
  <2>1. n # x
    <3>1. 1 \in 1 .. fill' /\ Newest'[1] = x
      BY <1>3, <1>4
    <3> QED BY <3>1
  <2>2. ~ \E d \in Clients : pick[d] = n
    BY <1>1, <2>1
  <2>3. CASE \E k \in 1 .. fill : Newest[k] = n
    <3>1. PICK k \in 1 .. fill : Newest[k] = n
      BY <2>3
    <3>2. k + 1 \notin 1 .. fill'
      <4> SUFFICES ASSUME k + 1 \in 1 .. fill' PROVE FALSE
        OBVIOUS
      <4>1. k + 1 # 1 /\ (k + 1) - 1 = k
        BY <1>4
      <4>2. Newest'[k + 1] = n
        BY <1>4, <3>1, <4>1
      <4> QED BY <4>2
    <3>3. k = PicksCap
      BY <1>3, <1>4, <3>2
    <3>4. k + Unrecorded <= picks - n + Cardinality(Clients)
      BY <3>1 DEF LogInv, LogIsFresh
    <3> QED BY <1>1, <1>3, <1>5, <3>3, <3>4
  <2> QED BY <2>2, <2>3 DEF LogInv, OnlyOldMissing
<1> QED BY <1>4, <1>8, <1>9, <1>10 DEF LogInv

LEMMA NextLog == EnablePickLog /\ TypeOK /\ LogInv /\ [Next]_vars => LogInv'
<1> SUFFICES ASSUME EnablePickLog, TypeOK, LogInv, [Next]_vars PROVE LogInv'
  OBVIOUS
<1>1. ASSUME UNCHANGED <<pc, pickVars>> PROVE LogInv'
  BY <1>1 DEF LogInv, Rings!Filling, PicksRemembered, LogIsFresh, OnlyOldMissing, Unrecorded, At, Newest,
     Picks!Newest, pickVars
<1>2. CASE UNCHANGED vars \/ Program
  BY <1>1, <1>2 DEF vars, requestVars, Program, OnQueryArrival, Signal, EndShutdown, Stop, Exit,
     RequestsUnchanged
<1>3. ASSUME NEW c \in Clients, Request(c) PROVE LogInv'
  <2>1. CASE PickPrequal(c)
    BY <2>1, PickKeepsLog
  <2>2. CASE RecordPick(c)
    <3>1. pick[c] # NoPick
      BY <2>2 DEF RecordPick, LogInv, PicksRemembered
    <3> QED BY <2>2, <3>1, RecordKeepsLog
  <2>3. CASE Expire(c) \/ Stall(c)
    BY <1>1, <2>3 DEF Expire, Stall
  <2>4. ASSUME NEW place, Goto(c, place), place # "record", pc[c] # "record", UNCHANGED pickVars
        PROVE  LogInv'
    <3>1. pc' = [pc EXCEPT ![c] = place]
      BY <2>4 DEF Goto
    <3>2. At({"record"})' = At({"record"})
      BY <2>4, <3>1 DEF At, TypeOK
    <3>3. PicksRemembered'
      BY <2>4, <3>1 DEF pickVars, LogInv, PicksRemembered, TypeOK
    <3> QED BY <2>4, <3>2, <3>3 DEF pickVars, LogInv, Rings!Filling, LogIsFresh, OnlyOldMissing, Unrecorded,
            Newest, Picks!Newest
  <2>5. CASE Connect(c) \/ Disconnect(c) \/ Arrive(c) \/ PickRoundRobin(c) \/ Answer(c)
    BY <2>4, <2>5 DEF Connect, Disconnect, Arrive, PickRoundRobin, BeginForward, Answer
  <2>6. CASE Refuse(c) \/ EndCopy(c)
    BY <2>4, <2>6 DEF Refuse, EndCopy, EndForward
  <2>7. CASE Return(c)
    BY <2>4, <2>7 DEF Return, Ended
  <2> QED BY <1>3, <2>1, <2>2, <2>3, <2>5, <2>6, <2>7 DEF Request
<1> QED BY <1>2, <1>3 DEF Next

(* Of the last picks the log misses one per other request at the most, and *)
(* else only those about to be recorded.                                   *)
THEOREM PicksAreLogged == Spec => []RecentPicksLogged
<1>1. CASE ~ EnablePickLog
  <2>1. RecentPicksLogged
    BY <1>1 DEF RecentPicksLogged
  <2> QED BY <2>1, PTL
<1>2. CASE EnablePickLog
  <2>1. TypeOK /\ LogInv => RecentPicksLogged
    <3> SUFFICES ASSUME TypeOK, LogInv, NEW n \in 1 .. picks, picks - n < PicksCap - (Cardinality(Clients) - 1)
                 PROVE  (\E k \in 1 .. fill : Picks!Newest[k] = n) \/ \E c \in Clients : pick[c] = n
      BY DEF RecentPicksLogged
    <3>1. picks \in Nat /\ PicksCap \in Nat /\ Cardinality(Clients) \in Nat
      BY ServingAssumption, FS_CardinalityType DEF ServingAssumption, TypeOK
    <3> QED BY <3>1 DEF LogInv, OnlyOldMissing, Newest
  <2> QED BY <1>2, <2>1, InitLog, NextLog, ServingTypes, PTL DEF Spec
<1> QED BY <1>1, <1>2
=============================================================================
