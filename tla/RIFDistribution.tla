--------------------------- MODULE RIFDistribution ---------------------------
(***************************************************************************)
(* The sliding window of probed RIFs, pkg/loadbalancer/rif_distribution.go,*)
(* and the threshold between hot and cold entries that requests take from  *)
(* it.                                                                     *)
(*                                                                         *)
(* Each probe result adds one sample, stamped when probeServer received it *)
(* and not when Observe gets the lock, so samples are appended out of the  *)
(* order of their stamps.  Quantile answers from a cached threshold, and   *)
(* without one that is young enough it evicts old samples, computes a new  *)
(* threshold under the lock, and stores it in the cache after the lock has *)
(* been released, so a slow request may overwrite a newer threshold.       *)
(*                                                                         *)
(* The slice of samples is represented by the set of the probes they come  *)
(* from and the rank at which each was appended.                           *)
(***************************************************************************)
EXTENDS Integers, FiniteSets, FiniteSetsExt

CONSTANTS
  Probes,      \* probes whose result comes back, one sample each
  Workers,     \* requests that ask for a threshold
  Rifs,        \* the RIFs a probe may report
  MaxAge,      \* d.maxAge
  CacheTTL,    \* quantileCacheTTL
  MinSamples,  \* minRIFSamples
  QNum, QDen,  \* config.QRIF = QNum / QDen
  MaxRif,      \* math.MaxInt32
  MaxTime      \* bound on the clock

ASSUME RIFAssumption ==
  /\ IsFiniteSet(Probes)
  /\ Rifs \subseteq Nat /\ IsFiniteSet(Rifs) /\ Rifs # {}
  /\ MaxAge \in Nat \ {0} /\ CacheTTL \in Nat \ {0} /\ MinSamples \in Nat \ {0}
  /\ QNum \in Nat /\ QDen \in Nat \ {0}
  /\ MaxRif \in Nat /\ \A r \in Rifs : r <= MaxRif
  /\ MaxTime \in Nat

VARIABLES
  now,        \* the clock
  stage,      \* of each probe: in flight, stamped, observed
  stamp,      \* ProbeResult.Timestamp
  rif,        \* the RIF it reported
  observedAt, \* history: when Observe appended its sample
  ord,        \* the sample's rank in the order of appends
  appends,    \* appends so far
  samples,    \* d.samples
  counts,     \* d.counts, 0 for a key the map does not have
  cache,      \* d.cache
  pc,         \* where each worker is in Quantile
  clock,      \* the time the worker called Quantile with
  answer      \* the threshold it computed and has still to store

sampleVars == <<stage, stamp, rif, observedAt, ord, appends>>
vars == <<now, sampleVars, samples, counts, cache, pc, clock, answer>>

(* A threshold: theta is -1 for one that is not valid.  basis is history,  *)
(* the samples that had been observed when it was computed.                *)
Thresholds == [theta : Rifs \cup {-1, MaxRif}, computedAt : Nat, basis : SUBSET Probes]

(* No threshold has been computed: quantileCacheTTL or more ago.           *)
NoThreshold == [theta |-> -1, computedAt |-> 0, basis |-> {}]

Observed == {p \in Probes : stage[p] = "observed"}

TypeOK ==
  /\ now \in Nat
  /\ stage \in [Probes -> {"inflight", "stamped", "observed"}]
  /\ stamp \in [Probes -> Nat]
  /\ rif \in [Probes -> Rifs]
  /\ observedAt \in [Probes -> Nat]
  /\ ord \in [Probes -> Nat]
  /\ appends \in Nat
  /\ samples \subseteq Probes
  /\ counts \in [Rifs -> Nat]
  /\ cache \in Thresholds
  /\ pc \in [Workers -> {"idle", "check", "compute", "store"}]
  /\ clock \in [Workers -> Nat]
  /\ answer \in [Workers -> Thresholds]

Init ==
  /\ now = CacheTTL
  /\ stage = [p \in Probes |-> "inflight"]
  /\ stamp = [p \in Probes |-> 0]
  /\ rif \in [Probes -> Rifs]
  /\ observedAt = [p \in Probes |-> 0]
  /\ ord = [p \in Probes |-> 0]
  /\ appends = 0
  /\ samples = {}
  /\ counts = [r \in Rifs |-> 0]
  /\ cache = NoThreshold
  /\ pc = [w \in Workers |-> "idle"]
  /\ clock = [w \in Workers |-> 0]
  /\ answer = [w \in Workers |-> NoThreshold]

Tick ==
  /\ now < MaxTime
  /\ now' = now + 1
  /\ UNCHANGED <<sampleVars, samples, counts, cache, pc, clock, answer>>

(* probeServer stamps the result.                                          *)
Stamp(p) ==
  /\ stage[p] = "inflight"
  /\ stage' = [stage EXCEPT ![p] = "stamped"]
  /\ stamp' = [stamp EXCEPT ![p] = now]
  /\ UNCHANGED <<now, rif, observedAt, ord, appends, samples, counts, cache, pc, clock, answer>>

(* d.counts[r]++, and the mutant that forgets it.                          *)
NotCounted(r) == counts
Counted(r) == [counts EXCEPT ![r] = @ + 1]

(* handleProbeResult has appended the entry to the pool and calls Observe. *)
Observe(p) ==
  /\ stage[p] = "stamped"
  /\ stage' = [stage EXCEPT ![p] = "observed"]
  /\ observedAt' = [observedAt EXCEPT ![p] = now]
  /\ ord' = [ord EXCEPT ![p] = appends + 1]
  /\ appends' = appends + 1
  /\ samples' = samples \cup {p}
  /\ counts' = Counted(rif[p])
  /\ UNCHANGED <<now, stamp, rif, cache, pc, clock, answer>>

(* A request reads the clock and calls Quantile with it.                   *)
Ask(w) ==
  /\ pc[w] = "idle"
  /\ clock' = [clock EXCEPT ![w] = now]
  /\ pc' = [pc EXCEPT ![w] = "check"]
  /\ UNCHANGED <<now, sampleVars, samples, counts, cache, answer>>

(* Mutant of IsFresh: a threshold as old as the TTL.                       *)
IsFreshLonger(w) == clock[w] - cache.computedAt <= CacheTTL

IsFresh(w) == clock[w] - cache.computedAt < CacheTTL

(* Quantile answers from the cache.                                        *)
Hit(w) ==
  /\ pc[w] = "check"
  /\ IsFresh(w)
  /\ clock' = [clock EXCEPT ![w] = 0]
  /\ pc' = [pc EXCEPT ![w] = "idle"]
  /\ UNCHANGED <<now, sampleVars, samples, counts, cache, answer>>

Miss(w) ==
  /\ pc[w] = "check"
  /\ ~IsFresh(w)
  /\ pc' = [pc EXCEPT ![w] = "compute"]
  /\ UNCHANGED <<now, sampleVars, samples, counts, cache, clock, answer>>

(* Mutants of OldPrefix: a sample as old as the window stays; everything   *)
(* up to the last old sample goes.                                         *)
OldPrefixStrict(cutoff) ==
  {s \in samples : \A f \in samples : ord[f] <= ord[s] => stamp[f] < cutoff}

OldPrefixToLast(cutoff) ==
  {s \in samples : \E f \in samples : ord[f] >= ord[s] /\ stamp[f] <= cutoff}

(* evictLocked: the old samples at the front of the slice, up to the first *)
(* that is not old.                                                        *)
OldPrefix(cutoff) ==
  {s \in samples : \A f \in samples : ord[f] <= ord[s] => stamp[f] <= cutoff}

(* The samples of a RIF not above r, as computeQuantile accumulates them.  *)
UpTo(c, r) == MapThenSumSet(LAMBDA x : c[x], {x \in Rifs : x <= r})

(* Whether count samples are the fraction q of n; the mutant: of n - 1.    *)
ReachesShort(count, n) == QDen * count >= QNum * (n - 1)
Reaches(count, n) == QDen * count >= QNum * n

(* The least RIF in the map at which the accumulated count reaches q times *)
(* the number n of samples; -1 with too few of them.                       *)
QuantileOf(c, n) ==
  IF n < MinSamples THEN -1
  ELSE IF QNum >= QDen THEN MaxRif
  ELSE LET reached == {r \in Rifs : c[r] > 0 /\ Reaches(UpTo(c, r), n)}
       IN  CHOOSE r \in reached : \A x \in reached : r <= x

(* The counts without the old samples, and the mutant that leaves them.    *)
NotUncounted(old) == counts
Uncounted(old) == [r \in Rifs |-> counts[r] - Cardinality({s \in old : rif[s] = r})]

(* computeQuantile, in its critical section.                               *)
Compute(w) ==
  LET old == OldPrefix(clock[w] - MaxAge) IN
  /\ pc[w] = "compute"
  /\ samples' = samples \ old
  /\ counts' = Uncounted(old)
  /\ answer' = [answer EXCEPT ![w] =
                  [theta |-> QuantileOf(counts', Cardinality(samples')),
                   computedAt |-> clock[w], basis |-> Observed]]
  /\ pc' = [pc EXCEPT ![w] = "store"]
  /\ UNCHANGED <<now, sampleVars, cache, clock>>

(* Quantile stores the threshold in the cache and returns it.              *)
Store(w) ==
  /\ pc[w] = "store"
  /\ cache' = answer[w]
  /\ answer' = [answer EXCEPT ![w] = NoThreshold]
  /\ clock' = [clock EXCEPT ![w] = 0]
  /\ pc' = [pc EXCEPT ![w] = "idle"]
  /\ UNCHANGED <<now, sampleVars, samples, counts>>

Next ==
  \/ Tick
  \/ \E p \in Probes : Stamp(p) \/ Observe(p)
  \/ \E w \in Workers : Ask(w) \/ Hit(w) \/ Miss(w) \/ Compute(w) \/ Store(w)

Spec == Init /\ [][Next]_vars

-----------------------------------------------------------------------------
(* Properties *)

(* The map that the quantile is read from agrees with the slice that       *)
(* eviction cuts, after whatever sequence of appends and evictions.        *)
CountsMatch == \A r \in Rifs : counts[r] = Cardinality({s \in samples : rif[s] = r})

(* Eviction stops at the first sample that is not old, and samples are not *)
(* in the order of their stamps, so it may leave an old one behind; but a  *)
(* threshold never counts a sample that was appended before the window.    *)
SamplesRecent ==
  [][\A w \in Workers : pc[w] = "compute" /\ pc'[w] = "store" =>
       \A s \in samples' : observedAt[s] > clock[w] - MaxAge]_vars

(* However requests with slow clocks evict, the samples stamped within the *)
(* window that ends now are all there for the next threshold.              *)
WindowComplete == \A p \in Observed : stamp[p] > now - MaxAge => p \in samples

(* Through the cache, and through slow requests that overwrite it with an  *)
(* older threshold, the threshold a request selects with still reflects    *)
(* every result that was observed quantileCacheTTL before it asked.        *)
ThresholdCurrent ==
  \A w \in Workers :
    \A p \in Observed : observedAt[p] <= clock[w] - CacheTTL =>
      /\ pc[w] = "check" /\ IsFresh(w) => p \in cache.basis
      /\ pc[w] = "store" => p \in answer[w].basis

(* A valid threshold is the q-quantile of the samples it was computed from,*)
(* by the definition: at least the fraction q of them are not above it,    *)
(* and less than that are below it.                                        *)
QuantileOfSamples ==
  [][\A w \in Workers :
       pc[w] = "compute" /\ pc'[w] = "store" /\ Cardinality(samples') >= MinSamples
         /\ 0 < QNum /\ QNum < QDen =>
       LET theta == answer'[w].theta
           below == {s \in samples' : rif[s] < theta}
           upTo  == {s \in samples' : rif[s] <= theta}
       IN  /\ QDen * Cardinality(upTo) >= QNum * Cardinality(samples')
           /\ QDen * Cardinality(below) < QNum * Cardinality(samples')]_vars

=============================================================================
