------------------------------ MODULE ProbePool ------------------------------
(***************************************************************************)
(* The probe pool of pkg/loadbalancer/balancer.go: the slice of probe      *)
(* results that handleProbeResult appends to, that applyRRemove and        *)
(* consumeEntry remove from, and that selectServerPrequal scans to choose  *)
(* a server.                                                               *)
(*                                                                         *)
(* The slice is published through an atomic pointer (poolPtr) and copied   *)
(* on write.  Its writers hold poolWriteMutex; the requests that scan it,  *)
(* and the atomic fields RIF and RemainingUses of its entries, are not     *)
(* protected by that mutex, so a request works on a snapshot that other    *)
(* requests and probe results make stale while it is being used.           *)
(*                                                                         *)
(* Every writer keeps the relative order of the entries and appends at the *)
(* end, so the slice is represented by the set of its entries and by the   *)
(* function ord, the rank at which each entry was appended.  An entry is   *)
(* identified with the probe that produced it.                             *)
(*                                                                         *)
(* What the same functions do to other components is not part of this      *)
(* module: the sample a result adds to rifDist and the threshold a request *)
(* gets from it (RIFDistribution), the counters of probeStats (Probing),   *)
(* the pick log, and the fields RIF and Latency of Server, which nothing   *)
(* reads.                                                                  *)
(***************************************************************************)
EXTENDS Integers, FiniteSets

CONSTANTS
  Probes,         \* probes whose result comes back, one pool entry each
  Workers,        \* slots for concurrent requests; a slot serves many in turn
  Results,        \* what a probe may report: records [srv, rif, lat]
  Budgets,        \* the values computeBReuse may return
  Thetas,         \* the thresholds rifDist.Quantile may return (-1 for none)
  PoolCap,        \* config.PoolCap
  PoolTTL,        \* config.PoolTTL, 0 when disabled
  RemoveNum, RemoveDen, \* config.RRemove = RemoveNum / RemoveDen
  QNum, QDen,     \* config.QRIF = QNum / QDen
  EnableMetrics,  \* config.EnableMetrics
  MaxTime,        \* bound on the clock
  None            \* no worker, no probe

ASSUME ProbePoolAssumption ==
  /\ IsFiniteSet(Probes) /\ IsFiniteSet(Workers)
  /\ Results # {} /\ \A r \in Results : r.rif \in Nat /\ r.lat \in Nat
  /\ Budgets \subseteq Nat \ {0}
  /\ Thetas \subseteq Int
  /\ PoolCap \in Nat \ {0}
  /\ PoolTTL \in Nat
  /\ RemoveNum \in Nat /\ RemoveDen \in Nat \ {0}
  /\ QNum \in Nat /\ QDen \in Nat \ {0}
  /\ EnableMetrics \in BOOLEAN
  /\ MaxTime \in Nat
  /\ None \notin Probes \cup Workers

VARIABLES
  now,        \* the clock
  stage,      \* of each probe: in flight, received, in the pool, published
  report,     \* the probe's result, fixed once received
  at,         \* ReceivedAt
  rif,        \* the entry's RIF, incremented by the requests it attracts
  uses,       \* the entry's RemainingUses
  ord,        \* the entry's rank in the order of appends
  appends,    \* appends so far
  pool,       \* the entries poolPtr points to
  mutex,      \* the worker inside applyRRemove's critical section, or None
  debt,       \* removeDebt, in units of 1 / RemoveDen
  altOldest,  \* removeAltOldest
  work,       \* the copy of the slice that applyRRemove works on
  left,       \* removals still to make in applyRRemove's loop
  thr,        \* removeWorst's threshold
  unloaded,   \* entries whose RIF the current pass of removeWorst has still to load
  loaded,     \* the RIFs it has loaded
  pc,         \* where each worker is
  theta,      \* the threshold the worker's request selects with
  snap,       \* the fresh entries of the slice the request loaded
  unread,     \* those whose RIF it has still to read
  seen,       \* the RIF it read of each
  winner,     \* the entry it chose
  todo,       \* entries whose RIF consumeEntry has still to increment
  over,       \* history: the workers that took the entry's budget to 0 or less
  size,       \* the pool size a probe goroutine is about to publish
  gauge       \* metrics.poolSize

entryVars   == <<stage, report, at, rif, uses, ord, appends>>
sectionVars == <<mutex, debt, altOldest, work, left, thr, unloaded, loaded>>
scanVars    == <<theta, snap, unread, seen, winner, todo>>
gaugeVars   == <<size, gauge>>
vars == <<now, entryVars, pool, sectionVars, pc, scanVars, over, gaugeVars>>

Locations == {"idle", "lock", "remove", "victim", "load", "scan", "bump", "drop"}

Srv(e) == report[e].srv
Lat(e) == report[e].lat

(* The entry of S that comes first in the slice, as a set of at most one.  *)
Earliest(S) == {e \in S : \A f \in S : ord[e] <= ord[f]}

TypeOK ==
  /\ now \in Nat
  /\ stage \in [Probes -> {"inflight", "received", "pooled", "done"}]
  /\ report \in [Probes -> Results]
  /\ at \in [Probes -> Nat]
  /\ rif \in [Probes -> Nat]
  /\ uses \in [Probes -> Int]
  /\ ord \in [Probes -> Nat]
  /\ appends \in Nat
  /\ pool \subseteq Probes
  /\ mutex \in Workers \cup {None}
  /\ debt \in 0 .. RemoveDen - 1
  /\ altOldest \in BOOLEAN
  /\ work \subseteq Probes
  /\ left \in Nat
  /\ thr \in Nat
  /\ unloaded \subseteq Probes
  /\ loaded \in [Probes -> Nat]
  /\ pc \in [Workers -> Locations]
  /\ theta \in [Workers -> Thetas \cup {-1}]
  /\ snap \in [Workers -> SUBSET Probes]
  /\ unread \in [Workers -> SUBSET Probes]
  /\ seen \in [Workers -> [Probes -> Nat]]
  /\ winner \in [Workers -> Probes \cup {None}]
  /\ todo \in [Workers -> SUBSET Probes]
  /\ over \in [Probes -> SUBSET Workers]
  /\ size \in [Probes -> Nat]
  /\ gauge \in Nat

Init ==
  /\ now = 0
  /\ stage = [p \in Probes |-> "inflight"]
  /\ report = [p \in Probes |-> CHOOSE r \in Results : TRUE]
  /\ at = [p \in Probes |-> 0]
  /\ rif = [p \in Probes |-> 0]
  /\ uses = [p \in Probes |-> 0]
  /\ ord = [p \in Probes |-> 0]
  /\ appends = 0
  /\ pool = {}
  /\ mutex = None
  /\ debt = 0
  /\ altOldest = FALSE
  /\ work = {}
  /\ left = 0
  /\ thr = 0
  /\ unloaded = {}
  /\ loaded = [p \in Probes |-> 0]
  /\ pc = [w \in Workers |-> "idle"]
  /\ theta = [w \in Workers |-> -1]
  /\ snap = [w \in Workers |-> {}]
  /\ unread = [w \in Workers |-> {}]
  /\ seen = [w \in Workers |-> [p \in Probes |-> 0]]
  /\ winner = [w \in Workers |-> None]
  /\ todo = [w \in Workers |-> {}]
  /\ over = [p \in Probes |-> {}]
  /\ size = [p \in Probes |-> 0]
  /\ gauge = 0

Tick ==
  /\ now < MaxTime
  /\ now' = now + 1
  /\ UNCHANGED <<entryVars, pool, sectionVars, pc, scanVars, over, gaugeVars>>

-----------------------------------------------------------------------------
(* The goroutine of one probe, once probeServer has a result.              *)

(* probeServer returns a result stamped with the current time, and the     *)
(* entry is built from it with the budget that computeBReuse draws.        *)
Receive(p) ==
  /\ stage[p] = "inflight"
  /\ stage' = [stage EXCEPT ![p] = "received"]
  /\ at' = [at EXCEPT ![p] = now]
  /\ \E r \in Results, b \in Budgets :
       /\ report' = [report EXCEPT ![p] = r]
       /\ rif' = [rif EXCEPT ![p] = r.rif]
       /\ uses' = [uses EXCEPT ![p] = b]
  /\ UNCHANGED <<now, ord, appends, pool, sectionVars, pc, scanVars, over, gaugeVars>>

(* The entries that handleProbeResult does not prune.                      *)
Kept == IF PoolTTL = 0 THEN pool ELSE {e \in pool : at[e] > now - PoolTTL}

(* Mutants of Exceeds: one entry too many fits; one too few.               *)
ExceedsLate(n) == n > PoolCap + 1
ExceedsEarly(n) == n >= PoolCap
Exceeds(n) == n > PoolCap

(* appendPool: the new entry goes last, and when that exceeds the capacity *)
(* the first entry of the slice goes.                                      *)
AppendPool(S, p) ==
  (IF Exceeds(Cardinality(S \cup {p})) THEN S \ Earliest(S) ELSE S) \cup {p}

(* Whether poolWriteMutex can be had; the mutant does not wait for it.     *)
NoWait == TRUE
MayLock == mutex = None

(* The critical section of handleProbeResult: prune, append, publish.      *)
Append(p) ==
  /\ stage[p] = "received"
  /\ MayLock
  /\ pool' = AppendPool(Kept, p)
  /\ ord' = [ord EXCEPT ![p] = appends + 1]
  /\ appends' = appends + 1
  /\ stage' = [stage EXCEPT ![p] = IF EnableMetrics THEN "pooled" ELSE "done"]
  /\ size' = [size EXCEPT ![p] = IF EnableMetrics THEN Cardinality(pool') ELSE 0]
  /\ UNCHANGED <<now, report, at, rif, uses, sectionVars, pc, scanVars, over, gauge>>

(* After the mutex is released the goroutine sets the gauge to the size it *)
(* computed inside.                                                        *)
PublishSize(p) ==
  /\ stage[p] = "pooled"
  /\ stage' = [stage EXCEPT ![p] = "done"]
  /\ gauge' = size[p]
  /\ size' = [size EXCEPT ![p] = 0]
  /\ UNCHANGED <<now, report, at, rif, uses, ord, appends, pool, sectionVars, pc,
                 scanVars, over>>

-----------------------------------------------------------------------------
(* A request: selectServerPrequal, beginning with applyRRemove.            *)

(* A request calls applyRRemove, which goes on to wait for poolWriteMutex, *)
(* or with RRemove = 0 returns at once.                                    *)
BeginRequest(w) ==
  /\ pc[w] = "idle"
  /\ pc' = [pc EXCEPT ![w] = IF RemoveNum > 0 THEN "lock" ELSE "load"]
  /\ UNCHANGED <<now, entryVars, pool, sectionVars, scanVars, over, gaugeVars>>

(* What is left of the debt when whole entries are taken off it, and the   *)
(* mutant that leaves them in.                                             *)
KeepDebt(owed) == owed
Remainder(owed) == owed % RemoveDen

(* applyRRemove has the mutex and adds RRemove to the debt.  It removes    *)
(* nothing when no whole entry is owed or the pool is empty.               *)
StartRemove(w) ==
  LET owed == debt + RemoveNum
      n    == owed \div RemoveDen
  IN
  /\ pc[w] = "lock"
  /\ MayLock
  /\ debt' = Remainder(owed)
  /\ IF n = 0 \/ pool = {}
       THEN /\ pc' = [pc EXCEPT ![w] = "load"]
            /\ UNCHANGED <<mutex, work, left, unloaded>>
       ELSE /\ pc' = [pc EXCEPT ![w] = "remove"]
            /\ mutex' = w
            /\ work' = pool
            /\ left' = n
            /\ unloaded' = pool
  /\ UNCHANGED <<now, entryVars, pool, altOldest, thr, loaded, scanVars, over, gaugeVars>>

(* The deferred unlock of applyRRemove, and the mutant that forgets it.    *)
KeepLock == UNCHANGED mutex
Unlock == mutex' = None

(* The end of one iteration of applyRRemove's loop, which publishes the    *)
(* copy and releases the mutex when the loop is over.                      *)
EndIteration(w, victims) ==
  LET next == work \ victims IN
  /\ altOldest' = ~altOldest
  /\ IF left > 1 /\ next # {}
       THEN /\ work' = next
            /\ left' = left - 1
            /\ unloaded' = next
            /\ pc' = [pc EXCEPT ![w] = "remove"]
            /\ UNCHANGED <<pool, mutex>>
       ELSE /\ pool' = next
            /\ Unlock
            /\ work' = {}
            /\ left' = 0
            /\ unloaded' = {}
            /\ pc' = [pc EXCEPT ![w] = "load"]
  /\ thr' = 0
  /\ loaded' = [p \in Probes |-> 0]

RemoveOldest(w) ==
  /\ pc[w] = "remove"
  /\ altOldest
  /\ EndIteration(w, Earliest(work))
  /\ UNCHANGED <<now, entryVars, debt, scanVars, over, gaugeVars>>

(* removeWorst makes two passes over the copy: one atomic load at a time,  *)
(* in between which requests that hold no lock increment RIFs.             *)
LoadRIF(w) ==
  /\ pc[w] \in {"remove", "victim"}
  /\ ~altOldest
  /\ \E e \in Earliest(unloaded) :
       /\ loaded' = [loaded EXCEPT ![e] = rif[e]]
       /\ unloaded' = unloaded \ {e}
  /\ UNCHANGED <<now, entryVars, pool, mutex, debt, altOldest, work, left, thr, pc, scanVars,
                 over, gaugeVars>>

(* The element at position QRIF of the RIFs of S as loaded, when sorted.   *)
QuantileIn(S) ==
  LET k == ((Cardinality(S) - 1) * QNum) \div QDen
      qIdx == IF k < Cardinality(S) THEN k ELSE Cardinality(S) - 1
  IN {t \in {loaded[e] : e \in S} :
        /\ Cardinality({e \in S : loaded[e] < t}) <= qIdx
        /\ Cardinality({e \in S : loaded[e] <= t}) > qIdx}

(* The end of the first pass.                                              *)
ReadThreshold(w) ==
  /\ pc[w] = "remove"
  /\ ~altOldest
  /\ unloaded = {}
  /\ thr' \in QuantileIn(work)
  /\ unloaded' = work
  /\ loaded' = [p \in Probes |-> 0]
  /\ pc' = [pc EXCEPT ![w] = "victim"]
  /\ UNCHANGED <<now, entryVars, pool, mutex, debt, altOldest, work, left, scanVars,
                 over, gaugeVars>>

(* Hot is above the threshold; the mutant has an entry at the threshold    *)
(* hot, too.                                                               *)
IsHotAt(r, t) == r >= t
IsHot(r, t) == r > t

(* removeWorst's victim by the RIFs of the second pass: the hot entry of   *)
(* highest RIF, or without a hot entry the cold one of highest latency;    *)
(* the first of several.                                                   *)
Worst(S, t) ==
  LET hot == {e \in S : IsHot(loaded[e], t)} IN
  IF hot # {}
    THEN Earliest({e \in hot : \A f \in hot : loaded[f] <= loaded[e]})
    ELSE Earliest({e \in S : \A f \in S : Lat(f) <= Lat(e)})

(* The end of the second pass.                                             *)
RemoveWorst(w) ==
  /\ pc[w] = "victim"
  /\ unloaded = {}
  /\ EndIteration(w, Worst(work, thr))
  /\ UNCHANGED <<now, entryVars, debt, scanVars, over, gaugeVars>>

(* The entries that the scan does not skip as older than the TTL.          *)
Fresh == IF PoolTTL = 0 THEN pool ELSE {e \in pool : at[e] >= now - PoolTTL}

(* The request gets its threshold and loads the slice.                     *)
Load(w) ==
  /\ pc[w] = "load"
  /\ Cardinality(Fresh) >= 2
  /\ \E t \in Thetas : theta' = [theta EXCEPT ![w] = t]
  /\ snap' = [snap EXCEPT ![w] = Fresh]
  /\ unread' = [unread EXCEPT ![w] = Fresh]
  /\ pc' = [pc EXCEPT ![w] = "scan"]
  /\ UNCHANGED <<now, entryVars, pool, sectionVars, seen, winner, todo, over, gaugeVars>>

(* With fewer than two fresh entries the request goes to a random server.  *)
PickRandom(w) ==
  /\ pc[w] = "load"
  /\ Cardinality(Fresh) < 2
  /\ pc' = [pc EXCEPT ![w] = "idle"]
  /\ UNCHANGED <<now, entryVars, pool, sectionVars, scanVars, over, gaugeVars>>

(* One iteration of the scan: an atomic load of the next entry's RIF.      *)
ReadRIF(w) ==
  /\ pc[w] = "scan"
  /\ \E e \in Earliest(unread[w]) :
       /\ seen' = [seen EXCEPT ![w][e] = rif[e]]
       /\ unread' = [unread EXCEPT ![w] = @ \ {e}]
  /\ UNCHANGED <<now, entryVars, pool, sectionVars, pc, theta, snap, winner, todo, over,
                 gaugeVars>>

(* Cold is at the threshold or below; the mutant has an entry at the       *)
(* threshold hot.                                                          *)
IsColdBelow(r, t) == r < t
IsCold(r, t) == r <= t

(* The entries of S of lowest RIF in f; the mutant takes the highest.      *)
Hottest(S, f) == {e \in S : \A x \in S : f[x] <= f[e]}
Coolest(S, f) == {e \in S : \A x \in S : f[e] <= f[x]}

(* Hot-cold lexicographic selection over the entries S with the RIFs read  *)
(* in f: the cold entry of lowest latency, or without a cold entry the hot *)
(* one of lowest RIF; the first of several.                                *)
HCL(S, f, t) ==
  LET cold == {e \in S : IsCold(f[e], t)} IN
  IF cold # {}
    THEN Earliest({e \in cold : \A x \in cold : Lat(e) <= Lat(x)})
    ELSE Earliest(Coolest(S, f))

(* The scan is over: the winner is known and consumeEntry loads the slice  *)
(* to find the entries of the winner's server.                             *)
Select(w) ==
  /\ pc[w] = "scan"
  /\ unread[w] = {}
  /\ \E e \in HCL(snap[w], seen[w], theta[w]) :
       /\ winner' = [winner EXCEPT ![w] = e]
       /\ todo' = [todo EXCEPT ![w] = {f \in pool : Srv(f) = Srv(e)}]
  /\ pc' = [pc EXCEPT ![w] = "bump"]
  /\ UNCHANGED <<now, entryVars, pool, sectionVars, theta, snap, unread, seen, over,
                 gaugeVars>>

(* consumeEntry counts the request it is about to send on the entries of   *)
(* the server, one atomic add at a time.                                   *)
BumpRIF(w) ==
  /\ pc[w] = "bump"
  /\ \E e \in Earliest(todo[w]) :
       /\ rif' = [rif EXCEPT ![e] = @ + 1]
       /\ todo' = [todo EXCEPT ![w] = @ \ {e}]
  /\ UNCHANGED <<now, stage, report, at, uses, ord, appends, pool, sectionVars, pc, theta,
                 snap, unread, seen, winner, over, gaugeVars>>

(* The request leaves with the winner's server.                            *)
Leave(w) ==
  /\ theta' = [theta EXCEPT ![w] = -1]
  /\ snap' = [snap EXCEPT ![w] = {}]
  /\ seen' = [seen EXCEPT ![w] = [p \in Probes |-> 0]]
  /\ winner' = [winner EXCEPT ![w] = None]
  /\ pc' = [pc EXCEPT ![w] = "idle"]
  /\ UNCHANGED <<unread, todo>>

(* Whether a budget is spent; the mutant goes one use further.             *)
SpentLate(n) == n < 0
Spent(n) == n <= 0

(* The atomic decrement of RemainingUses.  Whoever takes it to zero, or    *)
(* below, goes on to remove the entry.                                     *)
ConsumeUse(w) ==
  LET e == winner[w] IN
  /\ pc[w] = "bump"
  /\ todo[w] = {}
  /\ uses' = [uses EXCEPT ![e] = @ - 1]
  /\ IF ~Spent(uses'[e])
       THEN /\ Leave(w)
            /\ UNCHANGED over
       ELSE /\ pc' = [pc EXCEPT ![w] = "drop"]
            /\ over' = [over EXCEPT ![e] = @ \cup {w}]
            /\ UNCHANGED scanVars
  /\ UNCHANGED <<now, stage, report, at, rif, ord, appends, pool, sectionVars, gaugeVars>>

(* consumeEntry's critical section removes the entry from the current      *)
(* slice, unless another writer already has.                               *)
DropEntry(w) ==
  /\ pc[w] = "drop"
  /\ MayLock
  /\ pool' = pool \ {winner[w]}
  /\ Leave(w)
  /\ UNCHANGED <<now, entryVars, sectionVars, over, gaugeVars>>

-----------------------------------------------------------------------------
Handler(p) == Receive(p) \/ Append(p) \/ PublishSize(p)

Request(w) ==
  \/ BeginRequest(w) \/ StartRemove(w)
  \/ RemoveOldest(w) \/ LoadRIF(w) \/ ReadThreshold(w) \/ RemoveWorst(w)
  \/ Load(w) \/ PickRandom(w) \/ ReadRIF(w) \/ Select(w)
  \/ BumpRIF(w) \/ ConsumeUse(w) \/ DropEntry(w)

Next ==
  \/ Tick
  \/ \E p \in Probes : Handler(p)
  \/ \E w \in Workers : Request(w)

Spec == Init /\ [][Next]_vars

(* The steps of a request that has begun and that need no lock they do not *)
(* already hold.                                                           *)
Progress(w) ==
  \/ RemoveOldest(w) \/ LoadRIF(w) \/ ReadThreshold(w) \/ RemoveWorst(w)
  \/ Load(w) \/ PickRandom(w) \/ ReadRIF(w) \/ Select(w)
  \/ BumpRIF(w) \/ ConsumeUse(w)

(* The scheduler runs every goroutine that can run, and sync.Mutex hands   *)
(* over to a waiter it has starved for long enough, hence strong fairness  *)
(* for the steps that wait for poolWriteMutex.  Neither requests nor probe *)
(* results need ever arrive.                                               *)
Fairness ==
  /\ \A w \in Workers : WF_vars(Progress(w)) /\ SF_vars(StartRemove(w)) /\ SF_vars(DropEntry(w))
  /\ \A p \in Probes : SF_vars(Append(p)) /\ WF_vars(PublishSize(p))

FairSpec == Spec /\ Fairness

-----------------------------------------------------------------------------
(* Properties *)

(* appendPool never lets the slice grow beyond PoolCap, although it drops  *)
(* at most one entry per append.                                           *)
PoolWithinCap == Cardinality(pool) <= PoolCap

(* consumeEntry decrements RemainingUses without the lock and removes the  *)
(* entry under it: whenever an entry without uses is still in the slice,   *)
(* some request that chose it is on its way to remove it.                  *)
ExhaustedHasRemover ==
  \A e \in pool :
    uses[e] <= 0 => \E w \in Workers : pc[w] = "drop" /\ winner[w] = e

(* Requests that loaded the slice before an exhausted entry left it can    *)
(* still choose the entry, so RemainingUses may become negative, but every *)
(* concurrent request overdraws an entry once at the most.                 *)
OveruseBounded ==
  \A e \in Probes : stage[e] # "inflight" => uses[e] + Cardinality(Workers) > 0

(* The most entries one call of applyRRemove removes.                      *)
MaxOwed == (RemoveDen - 1 + RemoveNum) \div RemoveDen

(* applyRRemove works on a copy: as long as it does, the published slice   *)
(* holds what the copy holds and what the loop has removed from it, so     *)
(* that publishing the copy loses no other writer's append or removal.     *)
SectionIsCurrent ==
  mutex # None => work \subseteq pool /\ Cardinality(pool \ work) + left <= MaxOwed

(* A request chooses with RIFs it read one by one while other requests     *)
(* were incrementing them.  When it settles on a hot entry, every entry it *)
(* considered is hot now, and none has a lower RIF than it read there.     *)
HotPickHolds ==
  \A w \in Workers :
    winner[w] # None /\ seen[w][winner[w]] > theta[w] =>
      \A e \in snap[w] : rif[e] > theta[w] /\ rif[e] >= seen[w][winner[w]]

(* When it settles on a cold entry, no entry it considered that is cold    *)
(* now has a lower latency.                                                *)
ColdPickHolds ==
  \A w \in Workers :
    winner[w] # None /\ seen[w][winner[w]] <= theta[w] =>
      \A e \in snap[w] : rif[e] <= theta[w] => Lat(winner[w]) <= Lat(e)

(* removeWorst fixes its threshold with RIFs of one pass and its victim    *)
(* with those of another, while requests increment them.  Even so, an      *)
(* entry that is not above that threshold when it is removed as the worst  *)
(* has the highest latency of all, so a slower one is never kept instead.  *)
ColdVictimSlowest ==
  [][\A w \in Workers : pc[w] = "victim" /\ pc'[w] # "victim" =>
       \A v \in work \ (IF mutex' = w THEN work' ELSE pool') :
         rif[v] <= thr => \A e \in work : Lat(e) <= Lat(v)]_vars

(* An entry that has left the slice never comes back: no writer publishes  *)
(* a slice computed from one that another writer has replaced.             *)
NoReturn ==
  [][\A e \in Probes : stage[e] \in {"pooled", "done"} /\ e \notin pool => e \notin pool']_vars

(* handleProbeResult gives up an entry that has not expired only when the  *)
(* slice is full of entries that have not expired either and were appended *)
(* later.                                                                  *)
EvictsOnlyWhenFull ==
  [][\A e \in pool \ pool' :
       appends' # appends /\ (PoolTTL = 0 \/ at[e] > now - PoolTTL) =>
         /\ Cardinality(pool') = PoolCap
         /\ \A f \in pool' : /\ ord'[f] > ord[e]
                             /\ PoolTTL = 0 \/ f \notin pool \/ at[f] > now - PoolTTL]_vars

(* The slice, its copies and its lock together keep what AbstractPool      *)
(* promises: entries die once, in batches no larger than applyRRemove owes,*)
(* or when an append finds the slice full or prunes it.                    *)
Abstract == INSTANCE AbstractPool WITH
  Entries <- Probes,
  Cap     <- PoolCap,
  Batch   <- IF MaxOwed > 1 THEN MaxOwed ELSE 1,
  Expires <- PoolTTL > 0,
  live    <- pool,
  dead    <- {e \in Probes : stage[e] \in {"pooled", "done"} /\ e \notin pool}

ImplementsAbstractPool == Abstract!Spec

(* Every request that has begun leaves with a server, although it waits    *)
(* for poolWriteMutex once or twice on its way.                            *)
RequestsLeave == \A w \in Workers : pc[w] # "idle" ~> pc[w] = "idle"

(* Every probe result that has been received reaches the slice.            *)
ResultsLand == \A p \in Probes : stage[p] = "received" ~> stage[p] = "done"

(* An entry whose uses are spent leaves the slice.                         *)
ExhaustedLeave == \A e \in Probes : e \in pool /\ uses[e] <= 0 ~> e \notin pool

(* The reuse limit as the report states it: an entry serves at most as     *)
(* many requests as its budget allows.                                     *)
ReuseLimit == \A e \in Probes : uses[e] >= 0


=============================================================================
