-------------------------------- MODULE System --------------------------------
(***************************************************************************)
(* The probe loops and the probe pool together, one configuration over     *)
(* both: a query triggers probes and, in another goroutine, removes        *)
(* entries and uses them up; a probe that is answered becomes an entry of  *)
(* the pool; and the idle loop, which sees only lastProbeNanos, has to     *)
(* keep alive a pool it never looks at.                                    *)
(*                                                                         *)
(* The two modules share the clock.  Here servers answer every probe, and  *)
(* answers, requests and their goroutines take no time: what is left is    *)
(* the time that the ticker, the idle period and the TTL take.             *)
(***************************************************************************)
EXTENDS Probing

CONSTANTS
  Probes,   \* probes that may be answered, numbered in that order
  Workers,  \* slots for concurrent requests
  PoolCap, PoolTTL, None

ASSUME SystemAssumption ==
  /\ Probes \subseteq Nat /\ IsFiniteSet(Probes) /\ IsFiniteSet(Workers)
  /\ PoolCap \in Nat \ {0} /\ PoolTTL \in Nat
  /\ None \notin Probes \cup Workers

VARIABLES
  stage, report, at, rif, uses, ord, appends, pool, mutex, debt, altOldest, work, left, thr,
  unloaded, loaded, pc, theta, snap, unread, seen, winner, todo, over, size, gauge,
  due,          \* requests whose onQueryArrival goroutine has still to run
  lastRequest   \* history: when a request last arrived

(* Every server reports that it is idle.                                   *)
Pool == INSTANCE ProbePool WITH
  Results <- [srv : Servers, rif : {0}, lat : {0}],
  Budgets <- ReuseBudgets,
  Thetas <- {0},
  RemoveNum <- RRemove, RemoveDen <- RateDen,
  QNum <- 1, QDen <- 1,
  EnableMetrics <- FALSE

poolVars == <<stage, report, at, rif, uses, ord, appends, pool, mutex, debt, altOldest, work,
              left, thr, unloaded, loaded, pc, theta, snap, unread, seen, winner, todo, over,
              size, gauge>>
probingVars == <<mode, servers, stopCh, loop, counted, nextTick, tickAt, lastProbe, targets,
                 inflight, arrivals, statVars, probedAt, addedAt>>
requestVars == <<due, lastRequest>>
systemVars == <<vars, poolVars, requestVars>>

SystemInit ==
  /\ Init
  /\ Pool!Init
  /\ due = 0
  /\ lastRequest = Ago

(* Time passes when nobody has anything left to do at this instant.        *)
Pass ==
  /\ Tick
  /\ \A s \in Servers : inflight[s] = 0
  /\ \A p \in Probes : stage[p] # "received"
  /\ \A w \in Workers : pc[w] = "idle"
  /\ due = 0
  /\ UNCHANGED <<poolVars, requestVars>>

(* ServeHTTP starts onQueryArrival and goes on to applyRRemove.            *)
ServeHTTP(w) ==
  /\ servers = Servers
  /\ due + arrivals < MaxArrivals
  /\ Pool!BeginRequest(w)
  /\ due' = IF mode = "per_query" THEN due + 1 ELSE due
  /\ lastRequest' = now
  /\ UNCHANGED probingVars

OnQueryArrival(q) ==
  /\ due > 0
  /\ QueryArrives(q)
  /\ due' = due - 1
  /\ UNCHANGED <<poolVars, lastRequest>>

(* A probe of s is answered: probeServer returns the result of the next.   *)
Answered(s) ==
  \E p \in Probes :
    /\ \A o \in Probes : o < p => stage[o] # "inflight"
    /\ ProbeAnswered(s)
    /\ Pool!Receive(p)
    /\ report'[p].srv = s
    /\ UNCHANGED requestVars

(* The loops, the registration of servers and the end, which do not touch  *)
(* the pool.                                                               *)
ProbingStep ==
  /\ \/ Fire \/ IdleTick \/ IdleBurst \/ TickerTick \/ TickerBurst \/ Stop \/ LoopReturns
     \/ \E s \in Servers : AddServer(s)
     \/ \E c \in Callers : Launch(c)
  /\ UNCHANGED <<poolVars, requestVars>>

(* The steps of requests and of results within the pool.                   *)
PoolStep ==
  /\ \/ \E p \in Probes : Pool!Append(p)
     \/ \E w \in Workers : pc[w] # "idle" /\ Pool!Request(w)
  /\ UNCHANGED <<probingVars, requestVars>>

SystemNext ==
  \/ Pass \/ ProbingStep \/ PoolStep
  \/ \E s \in Servers : Answered(s)
  \/ \E w \in Workers : ServeHTTP(w)
  \/ \E q \in Queries : OnQueryArrival(q)

SystemSpec == SystemInit /\ [][SystemNext]_systemVars

-----------------------------------------------------------------------------
(* Properties *)

(* The longest time between two bursts of the idle loop.                   *)
Gap == MaxIdle + Period + MaxLate

(* "An idle floor so the pool never goes fully stale": however requests    *)
(* have drained the pool, and although the idle loop counts their probes   *)
(* as its own, one gap after the last of them, and from one gap after the  *)
(* first server was registered, the pool holds an entry that has not       *)
(* expired.                                                                *)
PoolRecovers ==
  /\ mode = "per_query" /\ Running
  /\ now - lastRequest >= Gap
  /\ \E s \in servers : addedAt[s] # Ago /\ now - addedAt[s] >= Gap
  => Pool!Fresh # {}
=============================================================================
