------------------------------- MODULE Probing -------------------------------
(***************************************************************************)
(* When probes are sent and what becomes of them: triggerProbes and its    *)
(* callers in pkg/loadbalancer/balancer.go.  A query that arrives triggers *)
(* probes in a goroutine of its own (onQueryArrival); in the per-query     *)
(* mode idleProbeLoop watches lastProbeNanos to keep a floor under the     *)
(* probe rate; in the ticker mode runTickerProbeLoop probes every server   *)
(* at each tick.  The loop runs from NewLoadBalancer on, while main is     *)
(* still adding servers, until Stop closes stopCh.                         *)
(*                                                                         *)
(* Time is discrete.  A ticker's channel holds one tick and drops those it *)
(* has no room for; the loop receives a tick at most MaxLate after it      *)
(* fired, and starting a goroutine takes no time.  The algorithm is        *)
(* prequal and MinProbeRate is positive: otherwise NewLoadBalancer starts  *)
(* no loop.                                                                *)
(***************************************************************************)
EXTENDS ProbeRate, FiniteSets, FiniteSetsExt

CONSTANTS
  Servers,      \* the servers main registers
  Queries,      \* slots for goroutines of onQueryArrival
  Modes,        \* config.ProbeMode, a subset of {"per_query", "ticker"}
  Period,       \* the ticker's period: maxIdle / 2, or ProbeInterval
  MaxLate,      \* how late a goroutine may run
  MaxForwards,  \* bound on activeForwards
  MaxArrivals,  \* bound on the queries that arrive
  MaxTime,      \* bound on the clock
  MaxInflight,  \* bound on a server's probes in flight while time passes
  CounterWrap,  \* probeStats counts modulo this: 2^64 in the code
  Parsed,       \* whether the headers of an answer can be parsed
  Loop          \* the probe loop, as a caller of triggerProbes

ASSUME ProbingAssumption ==
  /\ IsFiniteSet(Servers) /\ Servers # {}
  /\ Modes \subseteq {"per_query", "ticker"}
  /\ Period \in Nat \ {0} /\ MaxLate \in Nat
  /\ MaxForwards \in Nat /\ MaxArrivals \in Nat /\ MaxTime \in Nat /\ MaxInflight \in Nat
  /\ CounterWrap \in Nat \ {0}
  /\ Parsed \subseteq BOOLEAN /\ Parsed # {}
  /\ Loop \notin Queries

VARIABLES
  now,         \* the clock
  mode,        \* config.ProbeMode
  servers,     \* lb.servers
  stopCh,      \* whether stopCh is closed
  loop,        \* "select", "burst" when about to trigger probes, "done" when returned
  counted,     \* the servers that the ticker loop counted for its burst
  nextTick,    \* when the ticker fires next
  tickAt,      \* when the tick in the ticker's channel fired, or NoTick
  lastProbe,   \* lastProbeNanos
  targets,     \* of each caller of triggerProbes, the servers still to probe
  inflight,    \* of each server, its probes in flight
  arrivals,    \* queries that have arrived
  triggered, succeeded, failedError, failedHTTP,  \* probeStats
  valid,       \* history: the successes whose two headers could be parsed
  probedAt,    \* history: when a probe of the server was last sent
  addedAt      \* history: when main registered the server

statVars == <<triggered, succeeded, failedError, failedHTTP, valid>>
vars == <<now, mode, servers, stopCh, loop, counted, nextTick, tickAt, lastProbe, targets,
          inflight, arrivals, statVars, probedAt, addedAt>>

Callers == Queries \cup {Loop}
NoTick == -1
MaxIdle == 2 * Period
Ago == -MaxIdle     \* before the program started

TypeOK ==
  /\ now \in Nat
  /\ mode \in Modes
  /\ servers \subseteq Servers
  /\ stopCh \in BOOLEAN
  /\ loop \in {"select", "burst", "done"}
  /\ counted \in 0 .. Cardinality(Servers)
  /\ nextTick \in Nat
  /\ tickAt \in Nat \cup {NoTick}
  /\ lastProbe \in Nat \cup {Ago}
  /\ targets \in [Callers -> SUBSET Servers]
  /\ inflight \in [Servers -> Nat]
  /\ arrivals \in Nat
  /\ {triggered, succeeded, failedError, failedHTTP, valid} \subseteq 0 .. CounterWrap - 1
  /\ probedAt \in [Servers -> Nat \cup {Ago}]
  /\ addedAt \in [Servers -> Nat \cup {Ago}]

Init ==
  /\ now = 0
  /\ mode \in Modes
  /\ servers = {}
  /\ stopCh = FALSE
  /\ loop = "select"
  /\ counted = 0
  /\ nextTick = Period
  /\ tickAt = NoTick
  /\ lastProbe = Ago
  /\ targets = [c \in Callers |-> {}]
  /\ inflight = [s \in Servers |-> 0]
  /\ arrivals = 0
  /\ triggered = 0 /\ succeeded = 0 /\ failedError = 0 /\ failedHTTP = 0 /\ valid = 0
  /\ probedAt = [s \in Servers |-> Ago]
  /\ addedAt = [s \in Servers |-> Ago]

(* The clock moves on unless the ticker has to fire first, the loop would  *)
(* be too late for its tick, a burst of probes has still to be sent, or so *)
(* many probes are out that ProbeTimeout must end some first.              *)
Tick ==
  /\ now < MaxTime
  /\ loop # "done" => now < nextTick
  /\ tickAt # NoTick => now < tickAt + MaxLate
  /\ loop # "burst" /\ \A c \in Callers : targets[c] = {}
  /\ \A s \in Servers : inflight[s] <= MaxInflight
  /\ now' = now + 1
  /\ UNCHANGED <<mode, servers, stopCh, loop, counted, nextTick, tickAt, lastProbe, targets,
                 inflight, arrivals, statVars, probedAt, addedAt>>

(* The ticker fires; the tick is dropped if the channel still holds one.   *)
(* The loop stops the ticker when it returns.                              *)
Fire ==
  /\ loop # "done"
  /\ now = nextTick
  /\ nextTick' = now + Period
  /\ tickAt' = IF tickAt = NoTick THEN now ELSE tickAt
  /\ UNCHANGED <<now, mode, servers, stopCh, loop, counted, lastProbe, targets, inflight,
                 arrivals, statVars, probedAt, addedAt>>

(* main registers its servers one by one, before it serves.                *)
AddServer(s) ==
  /\ s \notin servers
  /\ servers' = servers \cup {s}
  /\ addedAt' = [addedAt EXCEPT ![s] = now]
  /\ UNCHANGED <<now, mode, stopCh, loop, counted, nextTick, tickAt, lastProbe, targets,
                 inflight, arrivals, statVars, probedAt>>

(* lastProbeNanos.Store(now), and the mutant that forgets it.              *)
NoStamp == UNCHANGED lastProbe
Stamp == lastProbe' = now

(* The head of triggerProbes: nothing without servers, else a random       *)
(* choice of count of them, or of all, and lastProbeNanos is set.          *)
Trigger(c, count) ==
  IF servers = {}
    THEN UNCHANGED <<lastProbe, targets>>
    ELSE /\ \E T \in SUBSET servers :
              /\ Cardinality(T) = Min({count, Cardinality(servers)})
              /\ targets' = [targets EXCEPT ![c] = T]
         /\ Stamp

(* Whether no probe has been sent for maxIdle; the mutant: for longer.     *)
IdleLonger == now - lastProbe > MaxIdle
Idle == now - lastProbe >= MaxIdle

(* idleProbeLoop receives a tick and looks at lastProbeNanos.             *)
IdleTick ==
  /\ mode = "per_query"
  /\ loop = "select" /\ targets[Loop] = {}
  /\ tickAt # NoTick
  /\ tickAt' = NoTick
  /\ loop' = IF Idle THEN "burst" ELSE "select"
  /\ UNCHANGED <<now, mode, servers, stopCh, counted, nextTick, lastProbe, targets, inflight,
                 arrivals, statVars, probedAt, addedAt>>

(* It calls triggerProbes; a query may have done so in between.            *)
IdleBurst ==
  /\ mode = "per_query"
  /\ loop = "burst"
  /\ loop' = "select"
  /\ Trigger(Loop, IdleProbes)
  /\ UNCHANGED <<now, mode, servers, stopCh, counted, nextTick, tickAt, inflight, arrivals,
                 statVars, probedAt, addedAt>>

(* The ticker loop probes all servers; the mutant as many as the idle loop.*)
AsWhenIdle == IdleProbes
AllServers == Cardinality(servers)

(* runTickerProbeLoop receives a tick and counts the servers.              *)
TickerTick ==
  /\ mode = "ticker"
  /\ loop = "select" /\ targets[Loop] = {}
  /\ tickAt # NoTick
  /\ tickAt' = NoTick
  /\ loop' = "burst"
  /\ counted' = AllServers
  /\ UNCHANGED <<now, mode, servers, stopCh, nextTick, lastProbe, targets, inflight,
                 arrivals, statVars, probedAt, addedAt>>

(* It calls triggerProbes, which counts them again to choose among them;   *)
(* main may have registered some in between.                               *)
TickerBurst ==
  /\ mode = "ticker"
  /\ loop = "burst"
  /\ loop' = "select"
  /\ counted' = 0
  /\ Trigger(Loop, counted)
  /\ UNCHANGED <<now, mode, servers, stopCh, nextTick, tickAt, inflight, arrivals, statVars,
                 probedAt, addedAt>>

Stop ==
  /\ ~stopCh
  /\ stopCh' = TRUE
  /\ UNCHANGED <<now, mode, servers, loop, counted, nextTick, tickAt, lastProbe, targets,
                 inflight, arrivals, statVars, probedAt, addedAt>>

(* The loop sees stopCh closed; select may prefer a tick that is ready.    *)
LoopReturns ==
  /\ stopCh
  /\ loop = "select" /\ targets[Loop] = {}
  /\ loop' = "done"
  /\ tickAt' = NoTick
  /\ UNCHANGED <<now, mode, servers, stopCh, counted, nextTick, lastProbe, targets, inflight,
                 arrivals, statVars, probedAt, addedAt>>

(* ServeHTTP starts onQueryArrival in a goroutine of its own, which reads  *)
(* activeForwards when it gets to run.                                     *)
QueryArrives(q) ==
  /\ mode = "per_query"
  /\ servers = Servers
  /\ arrivals < MaxArrivals
  /\ targets[q] = {}
  /\ arrivals' = arrivals + 1
  /\ \E f \in 0 .. MaxForwards : \E count \in QueryProbes(f) :
       IF count = 0 THEN UNCHANGED <<lastProbe, targets>> ELSE Trigger(q, count)
  /\ UNCHANGED <<now, mode, servers, stopCh, loop, counted, nextTick, tickAt, inflight,
                 statVars, probedAt, addedAt>>

(* An atomic add to a uint64.                                              *)
Inc(counter) == (counter + 1) % CounterWrap

(* One iteration of triggerProbes' loop.                                   *)
Launch(c) ==
  \E s \in targets[c] :
    /\ targets' = [targets EXCEPT ![c] = @ \ {s}]
    /\ triggered' = Inc(triggered)
    /\ inflight' = [inflight EXCEPT ![s] = @ + 1]
    /\ probedAt' = [probedAt EXCEPT ![s] = now]
    /\ UNCHANGED <<now, mode, servers, stopCh, loop, counted, nextTick, tickAt, lastProbe,
                   arrivals, succeeded, failedError, failedHTTP, valid, addedAt>>

(* One probe fewer is in flight; the mutant: two.                          *)
TwoFewer(n) == n - 2
OneFewer(n) == n - 1

(* The ways in which probeServer ends.                                     *)
Ends(s) ==
  /\ inflight[s] > 0
  /\ inflight' = [inflight EXCEPT ![s] = OneFewer(@)]
  /\ UNCHANGED <<now, mode, servers, stopCh, loop, counted, nextTick, tickAt, lastProbe,
                 targets, arrivals, triggered, probedAt, addedAt>>

(* The request could not be built, failed, or ran into ProbeTimeout.       *)
ProbeError(s) ==
  /\ Ends(s)
  /\ failedError' = Inc(failedError)
  /\ UNCHANGED <<succeeded, failedHTTP, valid>>

(* What a bad status counts as; the mutant counts it as an error as well.  *)
CountTwice == failedHTTP' = Inc(failedHTTP) /\ failedError' = Inc(failedError)
CountHTTP == failedHTTP' = Inc(failedHTTP) /\ UNCHANGED failedError

(* Any status that is not 2xx.                                             *)
ProbeBadStatus(s) ==
  /\ Ends(s)
  /\ CountHTTP
  /\ UNCHANGED <<succeeded, valid>>

(* handleProbeResult counts any other answer as a success.  A header that  *)
(* is missing or cannot be parsed leaves its value at 0.                   *)
ProbeAnswered(s) ==
  /\ Ends(s)
  /\ succeeded' = Inc(succeeded)
  /\ \E parsed \in Parsed : valid' = IF parsed THEN Inc(valid) ELSE valid
  /\ UNCHANGED <<failedError, failedHTTP>>

Settle(s) == ProbeError(s) \/ ProbeBadStatus(s) \/ ProbeAnswered(s)

Next ==
  \/ Tick \/ Fire \/ IdleTick \/ IdleBurst \/ TickerTick \/ TickerBurst
  \/ Stop \/ LoopReturns
  \/ \E s \in Servers : AddServer(s) \/ Settle(s)
  \/ \E q \in Queries : QueryArrives(q)
  \/ \E c \in Callers : Launch(c)

Spec == Init /\ [][Next]_vars

-----------------------------------------------------------------------------
(* Properties *)

(* Every probe that probeStats counts as triggered is in flight or counted *)
(* under exactly one outcome, whichever goroutine triggered it.            *)
ProbesAccounted ==
  triggered = (succeeded + failedError + failedHTTP
                 + MapThenSumSet(LAMBDA s : inflight[s], Servers)) % CounterWrap

Running == loop # "done" /\ ~stopCh

(* How long ago the server was probed, or else registered.                 *)
Unprobed(s) == now - (IF probedAt[s] > addedAt[s] THEN probedAt[s] ELSE addedAt[s])

(* The idle floor: the loop looks at lastProbeNanos only twice per maxIdle *)
(* and queries move it, but some server is always probed within one and a  *)
(* half times maxIdle of the last probe sent.                              *)
FloorHolds ==
  mode = "per_query" /\ Running /\ servers # {} =>
    \E s \in servers : Unprobed(s) < MaxIdle + Period + MaxLate

(* The servers that were not probed, nor registered, for longer than a     *)
(* period and the lateness of a tick; those registered within that time.   *)
Overdue == {s \in servers : Unprobed(s) > Period + MaxLate}
New == {s \in servers : now - addedAt[s] <= Period + MaxLate}

(* The ticker mode probes every registered server in each period, but as   *)
(* many as main registers while the loop is between its two looks at the   *)
(* servers: no more are overdue than are new.                              *)
TickerCovers == mode = "ticker" /\ Running => Cardinality(Overdue) <= Cardinality(New)

(* The idle floor only fills in: when the loop begins a burst, no probe    *)
(* has been sent for maxIdle, but by a query that came between the loop's  *)
(* look at lastProbeNanos and its burst.                                   *)
IdleOnly ==
  [][targets[Loop] = {} /\ targets'[Loop] # {} /\ mode = "per_query" =>
       \A s \in Servers : probedAt[s] = now \/ now - probedAt[s] >= MaxIdle]_vars

(* One more request in flight never raises the most probes that a query    *)
(* may trigger, also where the load steps over a watermark, and whatever   *)
(* the random rounding gives is less than one off the two rates.           *)
QueryProbesFall ==
  \A f \in 0 .. MaxForwards - 1 : \A count \in QueryProbes(f + 1) :
    /\ \E more \in QueryProbes(f) : count <= more
    /\ (count + 1) * RateDen > LeastRate /\ (count - 1) * RateDen < RProbe

(* The counter of successes as its help text states it: probes that        *)
(* returned a valid result.                                                *)
SucceededAreValid == succeeded = valid

=============================================================================
