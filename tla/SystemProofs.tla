----------------------------- MODULE SystemProofs -----------------------------
(***************************************************************************)
(* Proofs about System, for any number of servers, probes and concurrent   *)
(* requests: each of its steps is one of the probe loops' and one of the   *)
(* pool's, or none, so that what is proved of either holds of both running *)
(* together; and the idle loop keeps a pool alive that it never looks at.  *)
(***************************************************************************)
EXTENDS System, ProbingProofs

(* What the steps of the system do to the variables of the probe loops.    *)
LEMMA StepProbes == [SystemNext]_systemVars => [Next]_vars
<1> SUFFICES ASSUME [SystemNext]_systemVars PROVE [Next]_vars
  OBVIOUS
<1>1. CASE UNCHANGED systemVars
  BY <1>1 DEF systemVars
<1>2. CASE Pass
  BY <1>2 DEF Pass, Next
<1>3. CASE ProbingStep
  BY <1>3 DEF ProbingStep, Next
<1>4. CASE PoolStep
  <2>1. UNCHANGED now
    BY <1>4 DEF PoolStep, Pool!Append, Pool!Request, Pool!BeginRequest, Pool!StartRemove, Pool!RemoveOldest,
       Pool!LoadRIF, Pool!ReadThreshold, Pool!RemoveWorst, Pool!Load, Pool!PickRandom, Pool!ReadRIF, Pool!Select,
       Pool!BumpRIF, Pool!ConsumeUse, Pool!DropEntry
  <2> QED BY <1>4, <2>1 DEF PoolStep, probingVars, vars, statVars
<1>5. ASSUME NEW s \in Servers, Answered(s) PROVE Next
  BY <1>5 DEF Answered, Next, Settle
<1>6. ASSUME NEW w \in Workers, ServeHTTP(w) PROVE UNCHANGED vars
  BY <1>6 DEF ServeHTTP, Pool!BeginRequest, probingVars, vars, statVars
<1>7. ASSUME NEW q \in Queries, OnQueryArrival(q) PROVE Next
  BY <1>7 DEF OnQueryArrival, Next
<1> QED BY <1>1, <1>2, <1>3, <1>4, <1>5, <1>6, <1>7 DEF SystemNext

(* The probe loops run in the system as they do on their own, so that what *)
(* holds of them holds there.                                              *)
THEOREM SystemProbes == SystemSpec => Spec
<1>1. SystemInit => Init
  BY DEF SystemInit
<1> QED BY <1>1, StepProbes, PTL DEF SystemSpec, Spec

LEMMA ProbingHolds == SystemSpec => [](TypeOK /\ Clocks)
BY SystemProbes, ClocksHold, PTL

(* What they do to the variables of the pool: time passes for both alike.  *)
LEMMA StepPool == [SystemNext]_systemVars => [Pool!Next]_(Pool!vars)
<1> SUFFICES ASSUME [SystemNext]_systemVars PROVE [Pool!Next]_(Pool!vars)
  OBVIOUS
<1>1. ASSUME UNCHANGED <<now, poolVars>> PROVE UNCHANGED Pool!vars
  BY <1>1 DEF poolVars, Pool!vars, Pool!entryVars, Pool!sectionVars, Pool!scanVars, Pool!gaugeVars
<1>2. CASE UNCHANGED systemVars
  BY <1>1, <1>2 DEF systemVars, vars
<1>3. CASE Pass
  BY <1>3 DEF Pass, Tick, poolVars, Pool!Next, Pool!Tick, Pool!entryVars, Pool!sectionVars, Pool!scanVars,
     Pool!gaugeVars
<1>4. CASE ProbingStep
  <2>1. UNCHANGED now
    BY <1>4 DEF ProbingStep, Fire, IdleTick, IdleBurst, TickerTick, TickerBurst, Stop, LoopReturns, AddServer, Launch
  <2> QED BY <1>1, <1>4, <2>1 DEF ProbingStep
<1>5. CASE PoolStep
  BY <1>5 DEF PoolStep, Pool!Next, Pool!Handler
<1>6. ASSUME NEW s \in Servers, Answered(s) PROVE Pool!Next
  BY <1>6 DEF Answered, Pool!Next, Pool!Handler
<1>7. ASSUME NEW w \in Workers, ServeHTTP(w) PROVE Pool!Next
  BY <1>7 DEF ServeHTTP, Pool!Next, Pool!Request
<1>8. ASSUME NEW q \in Queries, OnQueryArrival(q) PROVE UNCHANGED Pool!vars
  <2>1. UNCHANGED now
    BY <1>8 DEF OnQueryArrival, QueryArrives
  <2> QED BY <1>1, <1>8, <2>1 DEF OnQueryArrival
<1> QED BY <1>2, <1>3, <1>4, <1>5, <1>6, <1>7, <1>8 DEF SystemNext

(* So does the pool, with budgets that computeBReuse draws.                *)
THEOREM SystemPool == SystemSpec => Pool!Spec
<1>1. SystemInit => Pool!Init
  BY DEF SystemInit
<1> QED BY <1>1, StepPool, PTL DEF SystemSpec, Pool!Spec

-----------------------------------------------------------------------------
(* What is proved of the pool holds of the pool in the system, whose       *)
(* budgets are those that computeBReuse draws.                             *)

Pools == INSTANCE ProbePoolProofs WITH
  Results <- [srv : Servers, rif : {0}, lat : {0}],
  Budgets <- ReuseBudgets,
  Thetas <- {0},
  RemoveNum <- RRemove, RemoveDen <- RateDen,
  QNum <- 1, QDen <- 1,
  EnableMetrics <- FALSE

LEMMA PoolAssumptions == Pools!ProbePoolAssumption
<1>1. ReuseBudgets \subseteq Nat \ {0}
  BY BudgetsWithin, ProbeRateAssumption DEF ProbeRateAssumption
<1>2. [srv : Servers, rif : {0}, lat : {0}] # {}
  <2>1. PICK s \in Servers : TRUE
    BY ProbingAssumption DEF ProbingAssumption
  <2>2. [srv |-> s, rif |-> 0, lat |-> 0] \in [srv : Servers, rif : {0}, lat : {0}]
    OBVIOUS
  <2> QED BY <2>2
<1>3. \A r \in [srv : Servers, rif : {0}, lat : {0}] : r.rif \in Nat /\ r.lat \in Nat
  OBVIOUS
<1>4. /\ IsFiniteSet(Probes) /\ IsFiniteSet(Workers) /\ PoolCap \in Nat \ {0} /\ PoolTTL \in Nat
      /\ None \notin Probes \cup Workers
  BY SystemAssumption DEF SystemAssumption
<1>5. RRemove \in Nat /\ RateDen \in Nat \ {0} /\ MaxTime \in Nat
  BY ProbingAssumption, ProbeRateAssumption DEF ProbingAssumption, ProbeRateAssumption
<1> QED
  BY <1>1, <1>2, <1>3, <1>4, <1>5 DEF Pools!ProbePoolAssumption, Pools!IsFiniteSet, IsFiniteSet

(* The two instances are of one specification.                             *)
LEMMA SamePool == Pool!Spec => Pools!Spec
<1>1. Pool!Init => Pools!Init
  BY DEF Pool!Init, Pools!Init
<1>2. [Pool!Next]_(Pool!vars) => [Pools!Next]_(Pools!vars)
  BY Zenon DEF Pool!Cardinality, Pools!Cardinality, Pool!Tick, Pools!Tick, Pool!Receive,
     Pools!Receive, Pool!Kept, Pools!Kept, Pool!Exceeds, Pools!Exceeds, Pool!AppendPool,
     Pools!AppendPool, Pool!MayLock, Pools!MayLock, Pool!Append, Pools!Append, Pool!PublishSize,
     Pools!PublishSize, Pool!Remainder, Pools!Remainder, Pool!StartRemove, Pools!StartRemove,
     Pool!BeginRequest, Pools!BeginRequest, Pool!LoadRIF, Pools!LoadRIF, Pool!IsHot, Pools!IsHot, Pool!Unlock, Pools!Unlock, Pool!EndIteration,
     Pools!EndIteration, Pool!Earliest, Pools!Earliest, Pool!RemoveOldest, Pools!RemoveOldest,
     Pool!QuantileIn, Pools!QuantileIn, Pool!ReadThreshold, Pools!ReadThreshold, Pool!Worst,
     Pools!Worst, Pool!Lat, Pools!Lat, Pool!Srv, Pools!Srv, Pool!RemoveWorst, Pools!RemoveWorst,
     Pool!Fresh, Pools!Fresh, Pool!Load, Pools!Load, Pool!PickRandom, Pools!PickRandom,
     Pool!ReadRIF, Pools!ReadRIF, Pool!IsCold, Pools!IsCold, Pool!Coolest, Pools!Coolest, Pool!HCL,
     Pools!HCL, Pool!Select, Pools!Select, Pool!BumpRIF, Pools!BumpRIF, Pool!Leave, Pools!Leave,
     Pool!Spent, Pools!Spent, Pool!ConsumeUse, Pools!ConsumeUse, Pool!DropEntry, Pools!DropEntry,
     Pool!Handler, Pools!Handler, Pool!Request, Pools!Request, Pool!Next, Pools!Next, Pool!vars,
     Pools!vars, Pool!entryVars, Pools!entryVars, Pool!sectionVars, Pools!sectionVars,
     Pool!scanVars, Pools!scanVars, Pool!gaugeVars, Pools!gaugeVars
<1> QED BY <1>1, <1>2, PTL DEF Pool!Spec, Pools!Spec

(* With the probe loops and requests running together, the pool keeps its  *)
(* bounds, no spent entry stays without a request that removes it, and     *)
(* what an entry is overdrawn by is bounded by the concurrent requests.    *)
THEOREM PoolIsSafe ==
  SystemSpec => [](Pools!PoolWithinCap /\ Pools!ExhaustedHasRemover /\ Pools!OveruseBounded)
<1>1. Pools!Spec => [](Pools!PoolWithinCap)
  BY PoolAssumptions, Pools!PoolBounded
<1>2. Pools!Spec => [](Pools!ExhaustedHasRemover)
  BY PoolAssumptions, Pools!ExhaustedAreRemoved
<1>3. Pools!Spec => [](Pools!OveruseBounded)
  BY PoolAssumptions, Pools!OveruseIsBounded
<1> QED BY <1>1, <1>2, <1>3, SystemPool, SamePool, PTL

(* And it implements AbstractPool: its entries live once and leave in      *)
(* batches no larger than RRemove owes.                                    *)
THEOREM SystemPoolRefines == SystemSpec => Pools!ImplementsAbstractPool
<1>1. Pools!Spec => Pools!ImplementsAbstractPool
  BY PoolAssumptions, Pools!PoolRefines
<1> QED BY <1>1, SystemPool, SamePool, PTL

-----------------------------------------------------------------------------
(* The shape of the pool.                                                  *)

InPool == {e \in Probes : stage[e] \in {"pooled", "done"}}

(* Entries were appended, a result is appended at the instant it is        *)
(* received, and requests take no time.                                    *)
Shape ==
  /\ stage \in [Probes -> {"inflight", "received", "pooled", "done"}]
  /\ at \in [Probes -> Nat]
  /\ pool \subseteq InPool /\ work \subseteq InPool
  /\ \A p \in Probes : stage[p] = "received" => at[p] = now
  /\ lastRequest \in Int /\ lastRequest <= now
  /\ (\E w \in Workers : pc[w] # "idle") => lastRequest = now

(* A request that is under way leaves the entries alone, but for those it  *)
(* removes.                                                                *)
LEMMA RequestShape ==
  ASSUME NEW w \in Workers, Pool!Request(w)
  PROVE  UNCHANGED <<now, stage, at>> /\ pool' \subseteq pool \cup work /\ work' \subseteq pool \cup work
<1> USE DEF Pool!entryVars, Pool!sectionVars
<1>1. CASE \/ Pool!BeginRequest(w) \/ Pool!StartRemove(w) \/ Pool!LoadRIF(w) \/ Pool!ReadThreshold(w)
           \/ Pool!Load(w) \/ Pool!PickRandom(w) \/ Pool!ReadRIF(w) \/ Pool!Select(w)
           \/ Pool!BumpRIF(w) \/ Pool!ConsumeUse(w) \/ Pool!DropEntry(w)
  BY <1>1 DEF Pool!BeginRequest, Pool!StartRemove, Pool!LoadRIF, Pool!ReadThreshold, Pool!Load, Pool!PickRandom,
     Pool!ReadRIF, Pool!Select, Pool!BumpRIF, Pool!ConsumeUse, Pool!DropEntry
<1>2. ASSUME NEW V, Pool!EndIteration(w, V)
      PROVE  pool' \subseteq pool \cup work /\ work' \subseteq pool \cup work
  BY <1>2 DEF Pool!EndIteration
<1>3. CASE Pool!RemoveOldest(w)
  BY <1>2, <1>3 DEF Pool!RemoveOldest
<1>4. CASE Pool!RemoveWorst(w)
  BY <1>2, <1>4 DEF Pool!RemoveWorst
<1> QED BY <1>1, <1>3, <1>4 DEF Pool!Request

LEMMA AppendShape ==
  ASSUME Shape, NEW p \in Probes, Pool!Append(p)
  PROVE  /\ UNCHANGED <<now, at, work, pc>> /\ at[p] = now
         /\ p \in pool' /\ pool' \subseteq pool \cup {p}
         /\ stage' = [stage EXCEPT ![p] = "done"]
<1>1. p \in pool' /\ pool' \subseteq pool \cup {p}
  BY DEF Pool!Append, Pool!AppendPool, Pool!Kept, Pool!Earliest
<1> QED BY <1>1 DEF Pool!Append, Pool!sectionVars, Shape

LEMMA ReceiveShape ==
  ASSUME Shape, NEW p \in Probes, Pool!Receive(p)
  PROVE  /\ UNCHANGED <<now, pool, work, pc>> /\ stage[p] = "inflight"
         /\ stage' = [stage EXCEPT ![p] = "received"] /\ at' = [at EXCEPT ![p] = now]
BY DEF Pool!Receive, Pool!sectionVars

LEMMA ShapeInit == SystemInit => Shape
BY ConstantsOfProbing DEF SystemInit, Pool!Init, Init, Shape, InPool

LEMMA ShapeStep ==
  ASSUME TypeOK, TypeOK', Shape, [SystemNext]_systemVars
  PROVE  Shape'
<1>0. now \in Nat /\ now' \in Nat
  BY DEF TypeOK
<1>1. ASSUME UNCHANGED <<now, stage, at, pool, work, pc, lastRequest>> PROVE Shape'
  BY <1>1 DEF Shape, InPool
<1>2. CASE UNCHANGED systemVars
  BY <1>1, <1>2 DEF systemVars, poolVars, requestVars, vars
<1>3. CASE Pass
  <2>1. UNCHANGED <<stage, at, pool, work, pc, lastRequest>> /\ now' = now + 1
        /\ (\A p \in Probes : stage[p] # "received") /\ \A w \in Workers : pc[w] = "idle"
    BY <1>3 DEF Pass, poolVars, requestVars, Tick
  <2> QED BY <1>0, <2>1 DEF Shape, InPool
<1>4. CASE ProbingStep
  <2>1. UNCHANGED now
    BY <1>4 DEF ProbingStep, Fire, IdleTick, IdleBurst, TickerTick, TickerBurst, Stop, LoopReturns, AddServer, Launch
  <2> QED BY <1>1, <1>4, <2>1 DEF ProbingStep, poolVars, requestVars
<1>5. CASE PoolStep
  <2>1. UNCHANGED lastRequest
    BY <1>5 DEF PoolStep, requestVars
  <2>2. ASSUME NEW p \in Probes, Pool!Append(p) PROVE Shape'
    BY <2>1, <2>2, AppendShape DEF Shape, InPool
  <2>3. ASSUME NEW w \in Workers, pc[w] # "idle", Pool!Request(w) PROVE Shape'
    <3>1. lastRequest = now
      BY <2>3 DEF Shape
    <3> QED BY <2>1, <2>3, <3>1, RequestShape DEF Shape, InPool
  <2> QED BY <1>5, <2>2, <2>3 DEF PoolStep
<1>6. ASSUME NEW s \in Servers, Answered(s) PROVE Shape'
  <2>1. PICK p \in Probes : Pool!Receive(p) /\ UNCHANGED lastRequest
    BY <1>6 DEF Answered, requestVars
  <2> QED BY <1>0, <2>1, ReceiveShape DEF Shape, InPool
<1>7. ASSUME NEW w \in Workers, ServeHTTP(w) PROVE Shape'
  <2>1. lastRequest' = now /\ Pool!Request(w)
    BY <1>7 DEF ServeHTTP, Pool!Request
  <2> QED BY <1>0, <2>1, RequestShape DEF Shape, InPool
<1>8. ASSUME NEW q \in Queries, OnQueryArrival(q) PROVE Shape'
  BY <1>1, <1>8 DEF OnQueryArrival, poolVars, QueryArrives
<1> QED BY <1>2, <1>3, <1>4, <1>5, <1>6, <1>7, <1>8 DEF SystemNext

LEMMA ShapeHolds == SystemSpec => [](TypeOK /\ Clocks /\ Shape)
<1>1. TypeOK /\ TypeOK' /\ Shape /\ [SystemNext]_systemVars => Shape'
  BY ShapeStep
<1> QED BY <1>1, ShapeInit, ProbingHolds, PTL DEF SystemSpec
-----------------------------------------------------------------------------
(* The idle loop keeps the pool alive.                                     *)

(* The latest stamp of a probe that may have gone to the server, or else   *)
(* the time of its registration.                                           *)
Base(s) == IF lastProbe > addedAt[s] THEN lastProbe ELSE addedAt[s]

(* Probes are triggered at least once per gap, whether by the loop or by a *)
(* query; unless a burst begins, the last were triggered less than maxIdle *)
(* before the last look at the stamp.                                      *)
Beats ==
  mode = "per_query" /\ loop # "done" => \A s \in servers :
    /\ now - Base(s) < Gap
    /\ loop = "burst" \/ Base(s) >= Due - Period - MaxIdle + 1

(* What was triggered now and is on its way to the pool.                   *)
Coming ==
  \/ Pending
  \/ \E s \in Servers : inflight[s] > 0
  \/ \E p \in Probes : stage[p] = "received"

(* If no request has come since the last probes were triggered, then they  *)
(* have reached the pool or are on their way to it.  (The ticker may stamp *)
(* and trigger none: it counted the servers before there were any.)        *)
Sent ==
  mode = "per_query" /\ lastProbe > lastRequest =>
    \/ \E e \in pool : at[e] >= lastProbe
    \/ lastProbe = now /\ Coming

(* One gap after the last request and the first registration, the pool     *)
(* holds an entry that is younger than a gap.                              *)
Waited ==
  /\ mode = "per_query" /\ loop # "done"
  /\ now - lastRequest >= Gap
  /\ \E s \in servers : addedAt[s] # Ago /\ now - addedAt[s] >= Gap
Recent == Waited => \E e \in pool : at[e] > now - Gap

LEMMA GapType == Gap \in Nat /\ Gap = MaxIdle + Period + MaxLate
BY ConstantsOfProbing DEF Gap

LEMMA BaseType ==
  ASSUME TypeOK, NEW s \in Servers
  PROVE  /\ Base(s) \in Int /\ lastProbe \in Int /\ addedAt[s] \in Int
         /\ Base(s) >= lastProbe /\ Base(s) >= addedAt[s] /\ Base(s) \in {lastProbe, addedAt[s]}
BY TypesOfClocks DEF Base

LEMMA BeatsStep ==
  ASSUME TypeOK, Clocks, Beats, [Next]_vars
  PROVE  Beats'
<1> USE TypesOfClocks, ConstantsOfProbing, GapType
<1> SUFFICES ASSUME mode' = "per_query", loop' # "done", NEW s \in servers'
             PROVE  /\ now' - Base(s)' < Gap
                    /\ loop' = "burst" \/ Base(s)' >= Due' - Period - MaxIdle + 1
  BY DEF Beats
<1> DEFINE Goal == /\ now' - Base(s)' < Gap
                   /\ loop' = "burst" \/ Base(s)' >= Due' - Period - MaxIdle + 1
<1>0. mode = "per_query" /\ loop # "done" /\ s \in Servers
  BY DEF Next, Tick, Fire, IdleTick, IdleBurst, TickerTick, TickerBurst, Stop, LoopReturns, AddServer, Settle,
     ProbeError, ProbeBadStatus, ProbeAnswered, Ends, QueryArrives, Launch, vars, TypeOK
<1>1. s \in servers => /\ now - Base(s) < Gap
                       /\ loop = "burst" \/ Base(s) >= Due - Period - MaxIdle + 1
  BY <1>0 DEF Beats
<1>2. Due - Period <= now /\ lastProbe <= now /\ Base(s) \in Int /\ addedAt[s] <= now
  BY <1>0, BaseType DEF Clocks, Due
<1>3. ASSUME UNCHANGED <<now, servers, lastProbe, addedAt>>, Due' = Due, loop' = loop PROVE Goal
  BY <1>1, <1>3 DEF Base
<1>4. CASE Tick
  <2>1. UNCHANGED <<servers, addedAt, lastProbe, loop>> /\ now' = now + 1 /\ loop # "burst" /\ Due' = Due
    BY <1>4 DEF Tick, Due
  <2>2. now + 1 - Due <= MaxLate
    BY <1>0, <1>4 DEF Tick, Due
  <2>3. Base(s)' = Base(s)
    BY <2>1 DEF Base
  <2> QED BY <1>1, <1>2, <2>1, <2>2, <2>3
<1>5. CASE Fire
  BY <1>3, <1>5 DEF Fire, Due, NoTick
<1>6. CASE IdleTick
  <2>1. UNCHANGED <<now, servers, lastProbe, addedAt>> /\ Due' = nextTick /\ Base(s)' = Base(s)
    BY <1>6 DEF IdleTick, Due, Base
  <2>2. nextTick <= now + Period
    BY <1>0 DEF Clocks
  <2>3. CASE Idle
    BY <1>1, <1>6, <2>1, <2>3 DEF IdleTick
  <2>4. CASE ~Idle
    <3>1. now - lastProbe < MaxIdle
      BY <2>4 DEF Idle
    <3> QED BY <1>0, <1>2, <1>1, <2>1, <2>2, <3>1, BaseType
  <2> QED BY <2>3, <2>4
<1>7. ASSUME lastProbe' = now, UNCHANGED <<now, servers, addedAt, nextTick, tickAt>> PROVE Goal
  <2>1. Base(s)' = now /\ Due' = Due
    BY <1>0, <1>2, <1>7, BaseType DEF Base, Due
  <2> QED BY <1>2, <1>7, <2>1
<1>8. CASE IdleBurst
  <2>1. UNCHANGED <<now, servers, addedAt, nextTick, tickAt>>
    BY <1>8 DEF IdleBurst
  <2>2. servers # {}
    BY <2>1
  <2> QED BY <1>7, <1>8, <2>1, <2>2, IdleBurstEffect DEF Triggers
<1>9. ~TickerTick /\ ~TickerBurst /\ ~LoopReturns
  BY <1>0 DEF TickerTick, TickerBurst, LoopReturns
<1>10. ASSUME NEW q \in Queries, QueryArrives(q) PROVE Goal
  <2>1. UNCHANGED <<now, servers, addedAt, nextTick, tickAt, loop>>
    BY <1>10 DEF QueryArrives
  <2> QED BY <1>3, <1>7, <1>10, <2>1, QueryEffect DEF Due, Triggers
<1>11. ASSUME NEW t \in Servers, AddServer(t) PROVE Goal
  <2>1. UNCHANGED <<now, lastProbe, loop>> /\ Due' = Due
    BY <1>11 DEF AddServer, Due
  <2>2. CASE s = t
    <3>1. addedAt'[s] = now
      BY <1>11, <2>2 DEF AddServer, TypeOK
    <3>2. Base(s)' = now
      BY <1>0, <1>2, <2>1, <3>1, BaseType DEF Base
    <3> QED BY <1>2, <2>1, <3>2
  <2>3. CASE s # t
    <3>1. s \in servers /\ addedAt'[s] = addedAt[s]
      BY <1>0, <1>11, <2>3 DEF AddServer, TypeOK
    <3>2. Base(s)' = Base(s)
      BY <2>1, <3>1 DEF Base
    <3> QED BY <1>1, <2>1, <3>1, <3>2
  <2> QED BY <2>2, <2>3
<1>12. CASE UNCHANGED <<now, servers, lastProbe, addedAt, nextTick, tickAt, loop>>
  BY <1>3, <1>12 DEF Due
<1> QED
  BY <1>4, <1>5, <1>6, <1>8, <1>9, <1>10, <1>11, <1>12
  DEF Next, Stop, Settle, ProbeError, ProbeBadStatus, ProbeAnswered, Ends, Launch, vars

(* What was triggered comes nearer to the pool.                            *)
LEMMA SentStep ==
  ASSUME RProbe >= RateDen, TypeOK, Clocks, Shape, Sent, [SystemNext]_systemVars
  PROVE  Sent'
<1> USE TypesOfClocks, ConstantsOfProbing
<1> SUFFICES ASSUME mode = "per_query", mode' = mode
             PROVE  Sent'
  <2>1. mode' = mode
    BY StepProbes DEF Next, Tick, Fire, IdleTick, IdleBurst, TickerTick, TickerBurst, Stop,
       LoopReturns, AddServer, Settle, ProbeError, ProbeBadStatus, ProbeAnswered, Ends, QueryArrives,
       Launch, vars
  <2> QED BY <2>1 DEF Sent
<1> DEFINE There == \E e \in pool : at[e] >= lastProbe
<1>0. lastRequest \in Int /\ lastProbe \in Int /\ lastProbe <= now /\ now \in Nat
  BY DEF Shape, Clocks
<1>1. lastProbe > lastRequest => There \/ (lastProbe = now /\ Coming)
  BY DEF Sent
<1>2. ASSUME UNCHANGED <<now, lastProbe, lastRequest, pool, at>>, Coming => Coming' PROVE Sent'
  BY <1>1, <1>2 DEF Sent
<1>3. ASSUME UNCHANGED <<now, lastProbe, lastRequest, pool, at, targets, inflight, stage>> PROVE Sent'
  <2>1. Coming => Coming'
    BY <1>3 DEF Coming, Pending
  <2> QED BY <1>2, <1>3, <2>1
<1>4. ASSUME NEW c \in Callers, Triggers(c), targets'[c] # {}, now' = now PROVE Sent'
  BY <1>4 DEF Sent, Coming, Pending, Triggers
<1>5. CASE Pass
  <2>1. ~Coming
    BY <1>5 DEF Pass, Tick, Coming, Pending, TypeOK
  <2>2. UNCHANGED <<lastProbe, lastRequest, pool, at>>
    BY <1>5 DEF Pass, Tick, poolVars, requestVars
  <2> QED BY <1>1, <2>1, <2>2 DEF Sent
<1>6. CASE ProbingStep
  <2>1. UNCHANGED <<lastRequest, pool, at, stage>>
    BY <1>6 DEF ProbingStep, poolVars, requestVars
  <2>2. CASE Fire \/ IdleTick \/ Stop \/ LoopReturns
    BY <1>3, <2>1, <2>2 DEF Fire, IdleTick, Stop, LoopReturns
  <2>3. CASE IdleBurst
    <3>1. UNCHANGED <<now, inflight>>
      BY <2>3 DEF IdleBurst
    <3> QED BY <1>3, <1>4, <2>1, <2>3, <3>1, IdleBurstEffect
  <2>4. ~TickerTick /\ ~TickerBurst
    BY DEF TickerTick, TickerBurst
  <2>5. ASSUME NEW s \in Servers, AddServer(s) PROVE Sent'
    BY <1>3, <2>1, <2>5 DEF AddServer
  <2>6. ASSUME NEW c \in Callers, Launch(c) PROVE Sent'
    <3>1. PICK s \in targets[c] : inflight' = [inflight EXCEPT ![s] = @ + 1]
      BY <2>6 DEF Launch
    <3>2. s \in Servers /\ inflight[s] \in Nat /\ inflight' [s] > 0
      BY <3>1 DEF TypeOK
    <3>3. Coming'
      BY <3>2 DEF Coming
    <3>4. UNCHANGED <<now, lastProbe>>
      BY <2>6 DEF Launch
    <3> QED BY <1>2, <2>1, <3>3, <3>4
  <2> QED BY <1>6, <2>2, <2>3, <2>4, <2>5, <2>6 DEF ProbingStep
<1>7. CASE PoolStep
  <2>1. UNCHANGED <<lastProbe, lastRequest, targets, inflight>>
    BY <1>7 DEF PoolStep, probingVars, requestVars
  <2>2. ASSUME NEW p \in Probes, Pool!Append(p) PROVE Sent'
    <3>1. p \in pool' /\ at'[p] >= lastProbe'
      BY <1>0, <2>1, <2>2, AppendShape
    <3> QED BY <3>1 DEF Sent
  <2>3. ASSUME NEW w \in Workers, pc[w] # "idle", Pool!Request(w) PROVE Sent'
    <3>1. lastRequest = now
      BY <2>3 DEF Shape
    <3> QED BY <1>0, <2>1, <3>1 DEF Sent
  <2> QED BY <1>7, <2>2, <2>3 DEF PoolStep
<1>8. ASSUME NEW s \in Servers, Answered(s) PROVE Sent'
  <2>1. PICK p \in Probes : Pool!Receive(p) /\ ProbeAnswered(s) /\ UNCHANGED lastRequest
    BY <1>8 DEF Answered, requestVars
  <2>2. UNCHANGED <<now, lastProbe, pool>>
    BY <2>1, ReceiveShape DEF ProbeAnswered, Ends
  <2>3. stage'[p] = "received" /\ at' = [at EXCEPT ![p] = now] /\ p \notin pool
    BY <2>1, ReceiveShape DEF Shape, InPool
  <2>4. Coming'
    BY <2>3 DEF Coming
  <2>5. There => There'
    BY <2>2, <2>3 DEF Shape, InPool
  <2> QED BY <1>1, <2>1, <2>2, <2>4, <2>5 DEF Sent
<1>9. ASSUME NEW w \in Workers, ServeHTTP(w) PROVE Sent'
  BY <1>0, <1>9 DEF ServeHTTP, probingVars, Sent
<1>10. ASSUME NEW q \in Queries, OnQueryArrival(q) PROVE Sent'
  <2>1. QueryArrives(q) /\ UNCHANGED <<lastRequest, pool, at, stage>>
    BY <1>10 DEF OnQueryArrival, poolVars
  <2>2. UNCHANGED <<now, inflight>>
    BY <2>1 DEF QueryArrives
  <2> QED BY <1>3, <1>4, <2>1, <2>2, QueryEffect
<1>11. CASE UNCHANGED systemVars
  BY <1>3, <1>11 DEF systemVars, vars, poolVars, requestVars
<1> QED BY <1>5, <1>6, <1>7, <1>8, <1>9, <1>10, <1>11 DEF SystemNext

(* The clock moves on only when what was triggered has reached the pool.   *)
LEMMA RecentStep ==
  ASSUME TypeOK, Shape, Sent, Recent, Clocks', Beats', Shape', TypeOK', [SystemNext]_systemVars
  PROVE  Recent'
<1> USE TypesOfClocks, ConstantsOfProbing, GapType
<1>0. /\ lastRequest \in Int /\ now \in Nat /\ lastProbe \in Int
      /\ \A e \in pool : at[e] \in Nat
  BY DEF Shape, InPool
<1>1. ASSUME UNCHANGED <<now, lastRequest, mode, pool, at>>, loop' # "done" => loop # "done",
             \A s \in servers' : now - addedAt'[s] >= Gap => s \in servers /\ addedAt'[s] = addedAt[s]
      PROVE  Recent'
  <2> SUFFICES ASSUME Waited' PROVE \E e \in pool' : at'[e] > now' - Gap
    BY DEF Recent
  <2>1. Waited
    BY <1>1 DEF Waited
  <2> QED BY <1>1, <2>1 DEF Recent
<1>2. ASSUME UNCHANGED <<now, lastRequest, mode, pool, at, loop, servers, addedAt>> PROVE Recent'
  BY <1>1, <1>2
<1>3. CASE Pass
  <2> SUFFICES ASSUME Waited' PROVE \E e \in pool' : at'[e] > now' - Gap
    BY DEF Recent
  <2>1. UNCHANGED <<lastProbe, lastRequest, pool, at, servers, addedAt>> /\ now' = now + 1
    BY <1>3 DEF Pass, Tick, poolVars, requestVars
  <2>2. PICK s \in servers : now' - addedAt[s] >= Gap
    BY <2>1 DEF Waited
  <2>3. s \in Servers /\ s \in servers'
    BY <2>1, <2>2 DEF TypeOK
  <2>4. now' - Base(s)' < Gap /\ Base(s)' = Base(s)
    BY <2>1, <2>3 DEF Beats, Waited, Base
  <2>5. lastProbe > now' - Gap
    BY <1>0, <2>1, <2>2, <2>3, <2>4, BaseType
  <2>6. lastProbe > lastRequest
    BY <1>0, <2>1, <2>5 DEF Waited
  <2>7. ~Coming
    BY <1>3 DEF Pass, Tick, Coming, Pending, TypeOK
  <2>8. mode = "per_query"
    BY <1>3 DEF Pass, Tick, Waited
  <2>9. PICK e \in pool : at[e] >= lastProbe
    BY <2>6, <2>7, <2>8 DEF Sent
  <2> QED BY <1>0, <2>1, <2>5, <2>9
<1>4. CASE ProbingStep
  <2>1. UNCHANGED <<lastRequest, pool, at>>
    BY <1>4 DEF ProbingStep, poolVars, requestVars
  <2>2. ASSUME NEW s \in Servers, AddServer(s) PROVE Recent'
    <3>1. /\ UNCHANGED <<now, mode, loop>>
          /\ \A t \in servers' : \/ t = s /\ addedAt'[t] = now
                                 \/ t \in servers /\ addedAt'[t] = addedAt[t]
      BY <2>2 DEF AddServer, TypeOK
    <3>2. now - now < Gap
      BY DEF TypeOK
    <3> QED BY <1>1, <2>1, <3>1, <3>2
  <2>3. ASSUME NEW c \in Callers, Launch(c) PROVE Recent'
    BY <1>2, <2>1, <2>3 DEF Launch
  <2>4. CASE Fire \/ IdleTick \/ IdleBurst \/ TickerTick \/ TickerBurst \/ Stop \/ LoopReturns
    BY <1>1, <2>1, <2>4 DEF Fire, IdleTick, IdleBurst, TickerTick, TickerBurst, Stop, LoopReturns
  <2> QED BY <1>4, <2>2, <2>3, <2>4 DEF ProbingStep
<1>5. ASSUME lastRequest' = now', now' = now PROVE Recent'
  BY <1>0, <1>5 DEF Recent, Waited
<1>6. CASE PoolStep
  <2>1. UNCHANGED lastRequest
    BY <1>6 DEF PoolStep, requestVars
  <2>2. ASSUME NEW p \in Probes, Pool!Append(p) PROVE Recent'
    <3>1. p \in pool' /\ at'[p] > now' - Gap
      BY <1>0, <2>2, AppendShape
    <3> QED BY <3>1 DEF Recent
  <2>3. ASSUME NEW w \in Workers, pc[w] # "idle", Pool!Request(w) PROVE Recent'
    <3>1. lastRequest = now /\ now' = now
      BY <2>3, RequestShape DEF Shape
    <3> QED BY <1>5, <2>1, <3>1
  <2> QED BY <1>6, <2>2, <2>3 DEF PoolStep
<1>7. ASSUME NEW s \in Servers, Answered(s) PROVE Recent'
  <2>1. PICK p \in Probes : Pool!Receive(p) /\ ProbeAnswered(s) /\ UNCHANGED lastRequest
    BY <1>7 DEF Answered, requestVars
  <2>2. UNCHANGED <<now, mode, loop, servers, addedAt, pool>>
    BY <2>1, ReceiveShape DEF ProbeAnswered, Ends
  <2>3. at' = [at EXCEPT ![p] = now] /\ p \notin pool
    BY <2>1, ReceiveShape DEF Shape, InPool
  <2>4. \A e \in pool : at'[e] = at[e]
    BY <2>3 DEF Shape, InPool
  <2> QED BY <2>1, <2>2, <2>4 DEF Recent, Waited
<1>8. ASSUME NEW w \in Workers, ServeHTTP(w) PROVE Recent'
  BY <1>5, <1>8 DEF ServeHTTP, probingVars, Pool!BeginRequest
<1>9. ASSUME NEW q \in Queries, OnQueryArrival(q) PROVE Recent'
  BY <1>2, <1>9 DEF OnQueryArrival, QueryArrives, poolVars
<1>10. CASE UNCHANGED systemVars
  BY <1>2, <1>10 DEF systemVars, vars, poolVars, requestVars
<1> QED BY <1>3, <1>4, <1>6, <1>7, <1>8, <1>9, <1>10 DEF SystemNext

(* An entry younger than a gap has not expired.                            *)
LEMMA RecentIsFresh ==
  ASSUME PoolTTL = 0 \/ PoolTTL >= Gap - 1, TypeOK, Shape, Recent
  PROVE  PoolRecovers
<1> SUFFICES ASSUME mode = "per_query", Running, now - lastRequest >= Gap,
                    \E s \in servers : addedAt[s] # Ago /\ now - addedAt[s] >= Gap
             PROVE  Pool!Fresh # {}
  BY DEF PoolRecovers
<1>1. PICK e \in pool : at[e] > now - Gap
  BY DEF Recent, Waited, Running
<1>2. at[e] \in Nat /\ now \in Nat /\ PoolTTL \in Nat
  BY SystemAssumption DEF Shape, InPool, TypeOK, SystemAssumption
<1>3. PoolTTL = 0 \/ at[e] >= now - PoolTTL
  BY <1>1, <1>2, GapType
<1> QED BY <1>3 DEF Pool!Fresh

(* With a pool whose entries live as long as one gap at least, and with    *)
(* config.RProbe of one at least, the pool holds an entry that has not     *)
(* expired once requests have stayed away for one gap.                     *)
THEOREM PoolIsKeptAlive ==
  ASSUME RProbe >= RateDen, PoolTTL = 0 \/ PoolTTL >= Gap - 1
  PROVE  SystemSpec => []PoolRecovers
<1> DEFINE Alive == Beats /\ Sent /\ Recent
<1>1. SystemInit /\ TypeOK => Alive
  <2> SUFFICES ASSUME SystemInit, TypeOK PROVE Alive
    OBVIOUS
  <2>1. Ago \in Int /\ Gap \in Nat
    BY ConstantsOfProbing, GapType
  <2>2. Beats /\ Recent
    BY DEF SystemInit, Init, Beats, Recent, Waited
  <2>3. Sent
    BY <2>1 DEF SystemInit, Init, Sent
  <2> QED BY <2>2, <2>3
<1>2. TypeOK /\ Clocks /\ Shape /\ Alive /\ [SystemNext]_systemVars /\ (TypeOK /\ Clocks /\ Shape)' => Alive'
  <2> SUFFICES ASSUME TypeOK, Clocks, Shape, Beats, Sent, Recent, [SystemNext]_systemVars, TypeOK', Clocks', Shape'
               PROVE  Alive'
    OBVIOUS
  <2>1. Beats'
    BY StepProbes, BeatsStep
  <2>2. Sent'
    BY SentStep
  <2> QED BY <2>1, <2>2, RecentStep
<1>3. TypeOK /\ Shape /\ Alive => PoolRecovers
  BY RecentIsFresh
<1>4. SystemSpec => []Alive
  BY <1>1, <1>2, ShapeHolds, PTL DEF SystemSpec
<1> QED BY <1>3, <1>4, ShapeHolds, PTL
=============================================================================
