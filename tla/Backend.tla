------------------------------- MODULE Backend -------------------------------
(***************************************************************************)
(* The backend of backend/main.go that the experiments balance over: its   *)
(* request handler, which counts the requests in flight and remembers how  *)
(* long the last ones took, and its /health handler, which answers the     *)
(* balancer's probes from these two.                                       *)
(*                                                                         *)
(* Every handler runs in a goroutine of its own.  The in-flight count is   *)
(* an atomic, the ring of latencies has a mutex, and nothing keeps the two *)
(* in step: a probe reads the count first and the ring afterwards.  The    *)
(* ring is the one of module Ring, with its slots, next and fill standing  *)
(* for latencyRing, latencyRingIdx and latencyRingFill.                    *)
(***************************************************************************)
EXTENDS Ring, FiniteSets, SequencesExt

CONSTANTS
  Requests,   \* slots for concurrent requests
  Probers,    \* slots for concurrent probes
  Latencies,  \* what a request may take, in microseconds; 0 when it draws no work
  RifDelta,   \* rifWindowDelta
  MaxTotal    \* bound on the requests that arrive

ASSUME BackendAssumption ==
  /\ IsFiniteSet(Requests) /\ IsFiniteSet(Probers)
  /\ Latencies \subseteq Nat
  /\ RifDelta \in Nat /\ MaxTotal \in Nat

VARIABLES
  inflight, requestsTotal, cancelledTotal,
  pc,       \* of each request: "idle", "working", "returning"
  rifAt,    \* rifAtArrival
  gone,     \* the requests whose client has given up
  served,   \* history: the requests whose latency was recorded
  probe,    \* of each probe: "idle", "counted" once it has read inflight
  rifRead,  \* currentRif
  answer    \* the two headers of the last answer of the slot

countVars == <<inflight, requestsTotal, cancelledTotal, served>>
requestVars == <<pc, rifAt, gone>>
probeVars == <<probe, rifRead, answer>>
vars == <<ringVars, countVars, requestVars, probeVars>>

Samples == [latency : Latencies, rif : 1 .. Cardinality(Requests)]
NoSample == [latency |-> 0, rif |-> 0]

ASSUME SampleAssumption == Samples \subseteq Items /\ Blank = NoSample

TypeOK ==
  /\ slots \in [0 .. Size - 1 -> Samples \cup {NoSample}]
  /\ next \in 0 .. Size - 1
  /\ fill \in 0 .. Size
  /\ inflight \in 0 .. Cardinality(Requests)
  /\ {requestsTotal, cancelledTotal, served} \subseteq 0 .. MaxTotal
  /\ pc \in [Requests -> {"idle", "working", "returning"}]
  /\ rifAt \in [Requests -> 0 .. Cardinality(Requests)]
  /\ gone \subseteq Requests
  /\ probe \in [Probers -> {"idle", "counted"}]
  /\ rifRead \in [Probers -> 0 .. Cardinality(Requests)]
  /\ answer \in [Probers -> [rif : 0 .. Cardinality(Requests), latency : Latencies \cup {0}]]

Init ==
  /\ RingInit
  /\ inflight = 0 /\ requestsTotal = 0 /\ cancelledTotal = 0 /\ served = 0
  /\ pc = [r \in Requests |-> "idle"]
  /\ rifAt = [r \in Requests |-> 0]
  /\ gone = {}
  /\ probe = [h \in Probers |-> "idle"]
  /\ rifRead = [h \in Probers |-> 0]
  /\ answer = [h \in Probers |-> [rif |-> 0, latency |-> 0]]

-----------------------------------------------------------------------------
(* The request handler.                                                    *)

Arrive(r) ==
  /\ pc[r] = "idle"
  /\ requestsTotal < MaxTotal
  /\ inflight' = inflight + 1
  /\ rifAt' = [rifAt EXCEPT ![r] = inflight']
  /\ requestsTotal' = requestsTotal + 1
  /\ pc' = [pc EXCEPT ![r] = "working"]
  /\ UNCHANGED <<ringVars, cancelledTotal, served, gone, probeVars>>

(* The client closes the connection, or the balancer's deadline does.      *)
Disconnect(r) ==
  /\ pc[r] = "working"
  /\ gone' = gone \cup {r}
  /\ UNCHANGED <<ringVars, countVars, pc, rifAt, probeVars>>

(* The work loop looks at the context now and then.                        *)
Cancel(r) ==
  /\ pc[r] = "working"
  /\ r \in gone
  /\ cancelledTotal' = cancelledTotal + 1
  /\ pc' = [pc EXCEPT ![r] = "returning"]
  /\ UNCHANGED <<ringVars, inflight, requestsTotal, served, rifAt, gone, probeVars>>

(* The work is done, perhaps for a client that is gone: recordLatency.     *)
Finish(r) ==
  /\ pc[r] = "working"
  /\ \E l \in Latencies : Push([latency |-> l, rif |-> rifAt[r]])
  /\ served' = served + 1
  /\ pc' = [pc EXCEPT ![r] = "returning"]
  /\ UNCHANGED <<inflight, requestsTotal, cancelledTotal, rifAt, gone, probeVars>>

(* The deferred decrement, and the mutant that cancellation escapes.       *)
OneLessUnlessGone(r) == inflight' = IF r \in gone THEN inflight ELSE inflight - 1
OneLess(r) == inflight' = inflight - 1

Return(r) ==
  /\ pc[r] = "returning"
  /\ OneLess(r)
  /\ pc' = [pc EXCEPT ![r] = "idle"]
  /\ rifAt' = [rifAt EXCEPT ![r] = 0]
  /\ gone' = gone \ {r}
  /\ UNCHANGED <<ringVars, requestsTotal, cancelledTotal, served, probeVars>>

-----------------------------------------------------------------------------
(* The /health handler.                                                    *)

CountInflight(h) ==
  /\ probe[h] = "idle"
  /\ probe' = [probe EXCEPT ![h] = "counted"]
  /\ rifRead' = [rifRead EXCEPT ![h] = inflight]
  /\ UNCHANGED <<ringVars, countVars, requestVars, answer>>

IsNear(rif, current) == rif - current \in -RifDelta .. RifDelta

(* The middle one of a sorted sequence, the upper of two; the mutant takes *)
(* the lower.                                                              *)
LowerMiddle(s) == s[(Len(s) + 1) \div 2]
Middle(s) == s[(Len(s) \div 2) + 1]

(* The slots of S in the order of their latencies.                         *)
Sorted(S) ==
  CHOOSE s \in SetToSeqs(S) :
    \A i, j \in 1 .. Len(s) : i < j => slots[s[i]].latency <= slots[s[j]].latency

(* medianLatencyUs: the median latency of the requests in the ring that    *)
(* arrived at a count near the current one, or else of all.                *)
MedianLatencyUs(current) ==
  LET near   == {i \in InUse : IsNear(slots[i].rif, current)}
      chosen == IF near = {} THEN InUse ELSE near
  IN  IF chosen = {} THEN 0 ELSE slots[Middle(Sorted(chosen))].latency

(* The count the estimate is for, and the mutant that reads it again.      *)
RifNow(h) == inflight
RifOf(h) == rifRead[h]

Answer(h) ==
  /\ probe[h] = "counted"
  /\ probe' = [probe EXCEPT ![h] = "idle"]
  /\ answer' = [answer EXCEPT ![h] = [rif |-> rifRead[h], latency |-> MedianLatencyUs(RifOf(h))]]
  /\ rifRead' = [rifRead EXCEPT ![h] = 0]
  /\ UNCHANGED <<ringVars, countVars, requestVars>>

-----------------------------------------------------------------------------
Next ==
  \/ \E r \in Requests : Arrive(r) \/ Disconnect(r) \/ Cancel(r) \/ Finish(r) \/ Return(r)
  \/ \E h \in Probers : CountInflight(h) \/ Answer(h)

Spec == Init /\ [][Next]_vars

-----------------------------------------------------------------------------
(* Properties *)

(* However requests end, and also when a client leaves while its request   *)
(* is finishing, each is counted as served or as cancelled, never as both, *)
(* and the in-flight count that probes report comes back down.             *)
RequestsAccounted ==
  /\ inflight = Cardinality({r \in Requests : pc[r] # "idle"})
  /\ requestsTotal = served + cancelledTotal + Cardinality({r \in Requests : pc[r] = "working"})

(* The two headers of an answer belong together although requests begin    *)
(* and end between the read of the one and of the other: the estimate is   *)
(* the median latency of those among the last latencyRingSize requests     *)
(* that arrived at a count near the reported one, if there are any.  Half  *)
(* of them took no less and more than half took no more.                   *)
EstimateFitsCount ==
  [][\A h \in Probers : probe[h] = "counted" /\ probe'[h] = "idle" =>
       LET near  == {k \in 1 .. fill : IsNear(Newest[k].rif, answer'[h].rif)}
           n     == Cardinality(near)
           below == {k \in near : Newest[k].latency < answer'[h].latency}
           upTo  == {k \in near : Newest[k].latency <= answer'[h].latency}
       IN  near # {} => 2 * Cardinality(below) <= n /\ 2 * Cardinality(upTo) > n]_vars
=============================================================================
