------------------------ MODULE RIFDistributionProofs ------------------------
(***************************************************************************)
(* Proofs about RIFDistribution, for any number of probes and of requests, *)
(* any window and any cache TTL.                                           *)
(*                                                                         *)
(* Everything that is stamped or asked was so at most now; samples are     *)
(* observed in the order in which they are appended, whatever the order of *)
(* their stamps; and a threshold accounts for every sample observed before *)
(* the instant it carries.  The walk over the RIFs that computes it stops  *)
(* at the quantile of the samples, since the counts add up to them.        *)
(***************************************************************************)
EXTENDS RIFDistribution, SumLemmas

USE DEF Counted, Uncounted, Reaches

Types ==
  /\ now \in Nat
  /\ stage \in [Probes -> {"inflight", "stamped", "observed"}]
  /\ stamp \in [Probes -> Nat]
  /\ rif \in [Probes -> Rifs]
  /\ observedAt \in [Probes -> Nat]
  /\ ord \in [Probes -> Nat]
  /\ appends \in Nat
  /\ samples \subseteq Observed
  /\ counts \in [Rifs -> Int]
  /\ pc \in [Workers -> {"idle", "check", "compute", "store"}]
  /\ clock \in [Workers -> Nat]
  /\ answer = [w \in Workers |-> answer[w]]

Times ==
  /\ \A p \in Probes : stage[p] # "inflight" => stamp[p] <= now
  /\ \A p \in Observed : stamp[p] <= observedAt[p] /\ observedAt[p] <= now
  /\ \A w \in Workers : clock[w] <= now

Order ==
  /\ \A p \in Observed : ord[p] <= appends
  /\ \A p, q \in Observed : ord[p] <= ord[q] => observedAt[p] <= observedAt[q]

(* t accounts for every sample observed before the time it was asked for.  *)
Accounts(t) ==
  /\ t.computedAt \in Nat /\ t.computedAt <= now
  /\ \A p \in Observed : observedAt[p] < t.computedAt => p \in t.basis

Bases ==
  /\ Accounts(cache)
  /\ \A w \in Workers :
       pc[w] = "store" => Accounts(answer[w]) /\ answer[w].computedAt = clock[w]

IInv == Types /\ Times /\ Order /\ Bases /\ CountsMatch

LEMMA Setting ==
  /\ IsFiniteSet(Probes) /\ MaxAge \in Nat \ {0} /\ CacheTTL \in Nat \ {0}
BY RIFAssumption DEF RIFAssumption

LEMMA InitHolds == Init => IInv
<1> SUFFICES ASSUME Init PROVE IInv
  OBVIOUS
<1>1. Observed = {}
  BY DEF Init, Observed
<1>2. Types
  BY <1>1, Setting DEF Init, Types
<1>3. Times /\ Order
  BY <1>1, Setting DEF Init, Times, Order
<1>4. Bases
  BY <1>1, Setting DEF Init, Bases, Accounts, NoThreshold
<1>5. CountsMatch
  <2> SUFFICES ASSUME NEW r \in Rifs
               PROVE  counts[r] = Cardinality({s \in samples : rif[s] = r})
    BY DEF CountsMatch
  <2>1. {s \in samples : rif[s] = r} = {}
    BY DEF Init
  <2> QED BY <2>1, FS_EmptySet DEF Init
<1> QED BY <1>2, <1>3, <1>4, <1>5 DEF IInv

-----------------------------------------------------------------------------
(* A sample is observed. *)

LEMMA ObserveKeeps ==
  ASSUME IInv, NEW p \in Probes, Observe(p)
  PROVE  IInv'
<1> USE DEF IInv
<1>1. /\ Observed' = Observed \cup {p} /\ p \notin Observed
      /\ stage' \in [Probes -> {"inflight", "stamped", "observed"}]
  BY DEF Observe, Types, Observed
<1>2. /\ observedAt' = [observedAt EXCEPT ![p] = now] /\ ord' = [ord EXCEPT ![p] = appends + 1]
      /\ appends' = appends + 1 /\ samples' = samples \cup {p} /\ stage[p] = "stamped"
      /\ counts' = [counts EXCEPT ![rif[p]] = @ + 1]
      /\ UNCHANGED <<now, stamp, rif, cache, pc, clock, answer>>
  BY DEF Observe
<1>3. Types'
  BY <1>1, <1>2 DEF Types
<1>4. Times'
  <2>1. \A q \in Probes : stage'[q] # "inflight" => stage[q] # "inflight"
    BY <1>2, <1>1 DEF Observe, Types
  <2>2. observedAt'[p] = now /\ \A q \in Observed : observedAt'[q] = observedAt[q]
    BY <1>1, <1>2 DEF Types, Observed
  <2> QED BY <2>1, <2>2, <1>1, <1>2 DEF Times, Types
<1>5. Order'
  <2>1. /\ ord'[p] = appends + 1 /\ observedAt'[p] = now
        /\ \A q \in Observed : ord'[q] = ord[q] /\ observedAt'[q] = observedAt[q]
    BY <1>1, <1>2 DEF Types, Observed
  <2>2. \A q \in Observed : /\ ord[q] \in Nat /\ ord[q] <= appends
                            /\ observedAt[q] \in Nat /\ observedAt[q] <= now
    BY DEF Types, Order, Times, Observed
  <2>3. appends \in Nat /\ now \in Nat /\ appends' = appends + 1
    BY <1>2 DEF Types
  <2>4. \A q \in Observed' : ord'[q] <= appends'
    BY <2>1, <2>2, <2>3, <1>1
  <2>5. \A q, x \in Observed' : ord'[q] <= ord'[x] => observedAt'[q] <= observedAt'[x]
    BY <2>1, <2>2, <2>3, <1>1 DEF Order
  <2> QED BY <2>4, <2>5 DEF Order
<1>6. Bases'
  <2>1. \A t : Accounts(t) => Accounts(t)'
    <3> SUFFICES ASSUME NEW t, Accounts(t) PROVE Accounts(t)'
      OBVIOUS
    <3>1. observedAt'[p] = now /\ \A q \in Observed : observedAt'[q] = observedAt[q]
      BY <1>1, <1>2 DEF Types, Observed
    <3> QED BY <3>1, <1>1, <1>2 DEF Accounts, Types
  <2> QED BY <1>2, <2>1 DEF Bases
<1>7. CountsMatch'
  <2> SUFFICES ASSUME NEW r \in Rifs
               PROVE  counts'[r] = Cardinality({s \in samples' : rif'[s] = r})
    BY DEF CountsMatch
  <2> DEFINE S == {s \in samples : rif[s] = r}
  <2>1. IsFiniteSet(S) /\ counts[r] = Cardinality(S) /\ p \notin S
    BY <1>1, Setting, FS_Subset DEF CountsMatch, Types, Observed
  <2>2. CASE rif[p] = r
    <3>1. {s \in samples' : rif'[s] = r} = S \cup {p}
      BY <1>2, <2>2
    <3>2. counts'[r] = counts[r] + 1
      BY <1>2, <2>2 DEF Types
    <3> QED BY <3>1, <3>2, <2>1, FS_AddElement
  <2>3. CASE rif[p] # r
    <3>1. {s \in samples' : rif'[s] = r} = S
      BY <1>2, <2>3
    <3>2. counts'[r] = counts[r]
      BY <1>2, <2>3 DEF Types
    <3> QED BY <3>1, <3>2, <2>1
  <2> QED BY <2>2, <2>3
<1> QED BY <1>3, <1>4, <1>5, <1>6, <1>7

-----------------------------------------------------------------------------
(* Time passes, a probe is stamped, a threshold is computed. *)

(* While samples stay what they are, so does what a threshold accounts for.*)
LEMMA TickKeeps ==
  ASSUME IInv, Tick
  PROVE  IInv'
<1> USE DEF IInv
<1>1. /\ now' = now + 1 /\ now \in Nat /\ Observed' = Observed
      /\ UNCHANGED <<stage, stamp, rif, observedAt, ord, appends, samples, counts, cache, pc,
                     clock, answer>>
  BY DEF Tick, sampleVars, Types, Observed
<1>2. Types' /\ Order' /\ CountsMatch'
  BY <1>1 DEF Types, Order, CountsMatch
<1>3. Times'
  BY <1>1 DEF Times, Types, Observed
<1>4. \A t : Accounts(t) => Accounts(t)'
  BY <1>1 DEF Accounts
<1>5. Bases'
  BY <1>1, <1>4 DEF Bases
<1> QED BY <1>2, <1>3, <1>5

LEMMA StampKeeps ==
  ASSUME IInv, NEW p \in Probes, Stamp(p)
  PROVE  IInv'
<1> USE DEF IInv
<1>1. /\ stage' = [stage EXCEPT ![p] = "stamped"] /\ stage[p] = "inflight"
      /\ stamp' = [stamp EXCEPT ![p] = now]
      /\ UNCHANGED <<now, rif, observedAt, ord, appends, samples, counts, cache, pc, clock, answer>>
  BY DEF Stamp
<1>2. Observed' = Observed /\ p \notin Observed
  BY <1>1 DEF Types, Observed
<1>3. Types' /\ Order' /\ CountsMatch'
  BY <1>1, <1>2 DEF Types, Order, CountsMatch
<1>4. Times'
  <2>1. stamp'[p] = now /\ \A q \in Probes : q # p => stamp'[q] = stamp[q] /\ stage'[q] = stage[q]
    BY <1>1 DEF Types
  <2>2. \A q \in Observed : q \in Probes /\ q # p
    BY <1>2 DEF Observed
  <2> QED BY <2>1, <2>2, <1>1, <1>2 DEF Times, Types
<1>5. \A t : Accounts(t) => Accounts(t)'
  BY <1>1, <1>2 DEF Accounts
<1>6. Bases'
  BY <1>1, <1>5 DEF Bases
<1> QED BY <1>3, <1>4, <1>6

LEMMA SubsetRemoved ==
  ASSUME NEW S, IsFiniteSet(S), NEW T \in SUBSET S
  PROVE  /\ Cardinality(S) \in Nat /\ Cardinality(T) \in Nat
         /\ Cardinality(S \ T) = Cardinality(S) - Cardinality(T)
<1>1. IsFiniteSet(T) /\ S \cap T = T
  BY FS_Subset
<1>2. Cardinality(S \ T) = Cardinality(S) - Cardinality(S \cap T)
  BY FS_Difference
<1> QED BY <1>1, <1>2, FS_CardinalityType

(* Removing the evicted samples from the counts of their RIFs.             *)
LEMMA ComputeCounts ==
  ASSUME IInv, NEW w \in Workers, Compute(w)
  PROVE  counts' \in [Rifs -> Int] /\ CountsMatch'
<1> USE DEF IInv
<1> DEFINE old == OldPrefix(clock[w] - MaxAge)
           of(r) == {s \in samples : rif[s] = r}
           gone(r) == {s \in old : rif[s] = r}
<1>1. /\ samples' = samples \ old /\ rif' = rif
      /\ counts' = [r \in Rifs |-> counts[r] - Cardinality(gone(r))]
  BY DEF Compute, sampleVars
<1>2. old \subseteq samples
  BY DEF OldPrefix
<1> HIDE DEF old
<1>3. ASSUME NEW r \in Rifs
      PROVE  /\ counts'[r] = Cardinality({s \in samples' : rif'[s] = r})
             /\ counts'[r] \in Int
  <2>1. IsFiniteSet(of(r)) /\ counts[r] = Cardinality(of(r))
    BY Setting, FS_Subset DEF CountsMatch, Types, Observed
  <2>2. gone(r) \in SUBSET of(r)
    BY <1>2
  <2>3. {s \in samples' : rif'[s] = r} = of(r) \ gone(r)
    BY <1>1
  <2>4. counts'[r] = counts[r] - Cardinality(gone(r))
    BY <1>1
  <2> HIDE DEF of, gone
  <2>5. /\ Cardinality(of(r)) \in Nat /\ Cardinality(gone(r)) \in Nat
        /\ Cardinality(of(r) \ gone(r)) = Cardinality(of(r)) - Cardinality(gone(r))
    BY <2>1, <2>2, SubsetRemoved
  <2>6. counts'[r] = Cardinality(of(r) \ gone(r)) /\ counts'[r] \in Int
    BY <2>1, <2>4, <2>5
  <2>7. Cardinality({s \in samples' : rif'[s] = r}) = Cardinality(of(r) \ gone(r))
    BY <2>3
  <2> QED BY <2>6, <2>7
<1> QED BY <1>1, <1>3 DEF CountsMatch

LEMMA ComputeKeeps ==
  ASSUME IInv, NEW w \in Workers, Compute(w)
  PROVE  IInv'
<1> USE DEF IInv
<1>1. /\ pc[w] = "compute" /\ pc' = [pc EXCEPT ![w] = "store"]
      /\ samples' \subseteq samples
      /\ answer'  = [answer EXCEPT ![w] =
                      [theta |-> QuantileOf(counts', Cardinality(samples')),
                       computedAt |-> clock[w], basis |-> Observed]]
      /\ UNCHANGED <<now, stage, stamp, rif, observedAt, ord, appends, cache, clock>>
  BY DEF Compute, sampleVars
<1>2. Observed' = Observed
  BY <1>1 DEF Observed
<1>3. Types'
  BY <1>1, <1>2, ComputeCounts DEF Types
<1>4. Times' /\ Order'
  BY <1>1, <1>2 DEF Times, Order
<1>5. \A t : Accounts(t) => Accounts(t)'
  BY <1>1, <1>2 DEF Accounts
<1>6. /\ answer'[w].computedAt = clock[w] /\ answer'[w].basis = Observed
      /\ pc'[w] = "store" /\ clock[w] \in Nat /\ clock[w] <= now
      /\ \A v \in Workers : v # w => answer'[v] = answer[v] /\ pc'[v] = pc[v]
  BY <1>1 DEF Types, Times
<1>7. Accounts(answer'[w])
  BY <1>6 DEF Accounts
<1>8. Bases'
  BY <1>1, <1>5, <1>6, <1>7 DEF Bases
<1> QED BY <1>3, <1>4, <1>8, ComputeCounts

(* A request asks, is answered from the cache or not, stores its threshold.*)
LEMMA AskKeeps ==
  ASSUME IInv, NEW w \in Workers, Ask(w) \/ Hit(w) \/ Miss(w) \/ Store(w)
  PROVE  IInv'
<1> USE DEF IInv
<1>1. /\ UNCHANGED <<now, stage, stamp, rif, observedAt, ord, appends, samples, counts>>
      /\ Observed' = Observed
  BY DEF Ask, Hit, Miss, Store, sampleVars, Observed
<1>2. /\ pc' \in [Workers -> {"idle", "check", "compute", "store"}]
      /\ clock' \in [Workers -> Nat]
      /\ answer' = [v \in Workers |-> answer'[v]]
      /\ \A v \in Workers : clock'[v] <= now
  BY DEF Types, Times, Ask, Hit, Miss, Store
<1>3. Types' /\ Times' /\ Order' /\ CountsMatch'
  BY <1>1, <1>2 DEF Types, Times, Order, CountsMatch
<1>4. \A t : Accounts(t) => Accounts(t)'
  BY <1>1 DEF Accounts
<1>5. Accounts(cache')
  BY DEF Ask, Hit, Miss, Store, Bases
<1>6. \A v \in Workers :
        pc'[v] = "store" => /\ pc[v] = "store" /\ answer'[v] = answer[v]
                            /\ clock'[v] = clock[v]
  BY DEF Types, Ask, Hit, Miss, Store
<1>7. Bases'
  BY <1>4, <1>5, <1>6 DEF Bases
<1> QED BY <1>3, <1>7

(* The strengthened invariant: times, the order of the samples, and what   *)
(* each threshold accounts for.                                            *)
THEOREM WindowInvariant == Spec => []IInv
<1>1. IInv /\ [Next]_vars => IInv'
  <2> SUFFICES ASSUME IInv, [Next]_vars PROVE IInv'
    OBVIOUS
  <2>1. CASE Tick
    BY <2>1, TickKeeps
  <2>2. ASSUME NEW p \in Probes, Stamp(p) \/ Observe(p) PROVE IInv'
    BY <2>2, StampKeeps, ObserveKeeps
  <2>3. ASSUME NEW w \in Workers, Ask(w) \/ Hit(w) \/ Miss(w) \/ Store(w) PROVE IInv'
    BY <2>3, AskKeeps
  <2>4. ASSUME NEW w \in Workers, Compute(w) PROVE IInv'
    BY <2>4, ComputeKeeps
  <2>5. CASE UNCHANGED vars
    BY <2>5 DEF vars, sampleVars, IInv, Types, Times, Order, Bases, Accounts, CountsMatch,
                Observed
  <2> QED BY <2>1, <2>2, <2>3, <2>4, <2>5 DEF Next
<1> QED BY <1>1, InitHolds, PTL DEF Spec

(* The counts that the quantile is read from are those of the samples that *)
(* eviction has left, after any appends and evictions.                     *)
THEOREM CountsAgree == Spec => []CountsMatch
<1>1. IInv => CountsMatch
  BY DEF IInv
<1> QED BY <1>1, WindowInvariant, PTL

(* A request selects with a threshold that accounts for every result that  *)
(* was observed quantileCacheTTL before it asked, although slow requests   *)
(* overwrite the cache with older thresholds.                              *)
THEOREM ThresholdStaysCurrent == Spec => []ThresholdCurrent
<1>1. IInv => ThresholdCurrent
  <2> SUFFICES ASSUME IInv, NEW w \in Workers, NEW p \in Observed,
                      observedAt[p] <= clock[w] - CacheTTL
               PROVE  /\ pc[w] = "check" /\ IsFresh(w) => p \in cache.basis
                      /\ pc[w] = "store" => p \in answer[w].basis
    BY DEF ThresholdCurrent
  <2>1. /\ observedAt[p] \in Nat /\ clock[w] \in Nat /\ CacheTTL \in Nat /\ CacheTTL > 0
        /\ cache.computedAt \in Nat
    BY Setting DEF IInv, Types, Bases, Accounts, Observed
  <2>2. ASSUME IsFresh(w) PROVE observedAt[p] < cache.computedAt
    BY <2>1, <2>2 DEF IsFresh
  <2>3. observedAt[p] < clock[w]
    BY <2>1
  <2> QED BY <2>2, <2>3 DEF IInv, Bases, Accounts
<1> QED BY <1>1, WindowInvariant, PTL

(* A threshold counts no sample that was appended before the window of its *)
(* request: what eviction leaves behind a sample that is not old was       *)
(* appended after it.                                                      *)
THEOREM WindowsHold == Spec => SamplesRecent
<1>1. ASSUME IInv, [Next]_vars, NEW w \in Workers, pc[w] = "compute", pc'[w] = "store",
             NEW s \in samples'
      PROVE  observedAt[s] > clock[w] - MaxAge
  <2>1. samples' = samples \ OldPrefix(clock[w] - MaxAge)
    <3>1. PICK v \in Workers : Compute(v)
      BY <1>1 DEF Next, vars, Tick, Stamp, Observe, Ask, Hit, Miss, Store, IInv, Types
    <3>2. v = w
      BY <1>1, <3>1 DEF Compute, IInv, Types
    <3> QED BY <3>1, <3>2 DEF Compute
  <2>2. PICK f \in samples : ord[f] <= ord[s] /\ ~(stamp[f] <= clock[w] - MaxAge)
    BY <1>1, <2>1 DEF OldPrefix
  <2>3. f \in Observed /\ s \in Observed
    BY <2>1, <2>2, <1>1 DEF IInv, Types
  <2>4. observedAt[f] <= observedAt[s] /\ stamp[f] <= observedAt[f]
    BY <2>2, <2>3, <1>1 DEF IInv, Order, Times
  <2>5. /\ observedAt[f] \in Nat /\ observedAt[s] \in Nat /\ stamp[f] \in Nat
        /\ clock[w] - MaxAge \in Int
    BY <2>3, <1>1, Setting DEF IInv, Types, Observed
  <2> QED BY <2>2, <2>4, <2>5
<1>2. IInv /\ [Next]_vars =>
        [\A w \in Workers : pc[w] = "compute" /\ pc'[w] = "store" =>
           \A s \in samples' : observedAt[s] > clock[w] - MaxAge]_vars
  BY <1>1
<1> QED BY <1>2, WindowInvariant, PTL DEF Spec, SamplesRecent

(* No request, however slow its clock, evicts a sample that is within the  *)
(* window that ends now: every recent result counts for the next threshold.*)
THEOREM WindowIsComplete == Spec => []WindowComplete
<1>1. Init => WindowComplete
  BY DEF Init, Observed, WindowComplete
<1>2. WindowComplete /\ IInv /\ [Next]_vars => WindowComplete'
  <2> SUFFICES ASSUME WindowComplete, IInv, [Next]_vars, NEW p \in Observed',
                      stamp'[p] > now' - MaxAge
               PROVE  p \in samples'
    BY DEF WindowComplete
  <2>0. now \in Nat /\ MaxAge \in Nat /\ p \in Probes
    BY Setting DEF IInv, Types, Observed
  <2>1. CASE Tick
    <3>1. p \in Observed /\ stamp[p] \in Nat /\ stamp'[p] = stamp[p] /\ now' = now + 1
      BY <2>1, <2>0 DEF Tick, sampleVars, Observed, IInv, Types
    <3>2. p \in samples
      BY <3>1, <2>0 DEF WindowComplete
    <3> QED BY <3>2, <2>1 DEF Tick
  <2>2. ASSUME NEW q \in Probes, Stamp(q) PROVE p \in samples'
    <3>1. p \in Observed /\ p # q
      BY <2>2 DEF Stamp, Observed, IInv, Types
    <3>2. stamp'[p] = stamp[p] /\ now' = now /\ samples' = samples
      BY <2>2, <3>1, <2>0 DEF Stamp, IInv, Types
    <3> QED BY <3>1, <3>2 DEF WindowComplete
  <2>3. ASSUME NEW q \in Probes, Observe(q) PROVE p \in samples'
    BY <2>3 DEF Observe, Observed, IInv, Types, WindowComplete
  <2>4. ASSUME NEW w \in Workers, Compute(w) PROVE p \in samples'
    <3>1. p \in Observed /\ UNCHANGED <<stamp, now>>
      BY <2>4 DEF Compute, sampleVars, Observed
    <3>2. p \in samples
      BY <3>1 DEF WindowComplete
    <3>3. stamp[p] \in Nat /\ clock[w] \in Nat /\ clock[w] <= now
      BY <2>0 DEF IInv, Types, Times
    <3>4. ~(stamp[p] <= clock[w] - MaxAge)
      BY <3>1, <3>3, <2>0
    <3>5. ord[p] <= ord[p]
      BY <2>0 DEF IInv, Types
    <3>6. p \notin OldPrefix(clock[w] - MaxAge)
      BY <3>2, <3>4, <3>5 DEF OldPrefix
    <3> QED BY <3>2, <3>6, <2>4 DEF Compute
  <2>5. ASSUME NEW w \in Workers, Ask(w) \/ Hit(w) \/ Miss(w) \/ Store(w) PROVE p \in samples'
    BY <2>5 DEF Ask, Hit, Miss, Store, sampleVars, Observed, WindowComplete
  <2>6. CASE UNCHANGED vars
    BY <2>6 DEF vars, sampleVars, Observed, WindowComplete
  <2> QED BY <2>1, <2>2, <2>3, <2>4, <2>5, <2>6 DEF Next
<1> QED BY <1>1, <1>2, WindowInvariant, PTL DEF Spec

-----------------------------------------------------------------------------
(* The quantile                                                            *)

(* How computeQuantile's map stands for a set of samples.                  *)
CountsOf(c, S, reported) ==
  /\ IsFiniteSet(S) /\ c \in [Rifs -> Int]
  /\ \A s \in S : reported[s] \in Rifs
  /\ \A r \in Rifs : c[r] = Cardinality({s \in S : reported[s] = r})

LEMMA RifsAreNaturals ==
  /\ IsFiniteSet(Rifs) /\ \A r \in Rifs : r \in Nat /\ r <= MaxRif
  /\ MaxRif \in Nat /\ MinSamples \in Nat \ {0} /\ QNum \in Nat /\ QDen \in Nat \ {0}
BY RIFAssumption DEF RIFAssumption

LEMMA LargestRif ==
  ASSUME NEW S, S # {}, NEW reported, \A s \in S : reported[s] \in Rifs
  PROVE  \E s \in S : \A t \in S : reported[t] <= reported[s]
<1> DEFINE gaps == {MaxRif - reported[s] : s \in S}
<1>1. gaps \subseteq Nat /\ gaps # {}
  BY RifsAreNaturals
<1>2. \A t \in S : MaxRif - reported[t] \in gaps
  OBVIOUS
<1>3. \A g \in gaps : \E s \in S : g = MaxRif - reported[s]
  OBVIOUS
<1> HIDE DEF gaps
<1>4. PICK m \in gaps : \A g \in gaps : m <= g
  BY <1>1, LeastNatural
<1>5. PICK s \in S : m = MaxRif - reported[s]
  BY <1>3
<1>6. ASSUME NEW t \in S PROVE reported[t] <= reported[s]
  <2>1. MaxRif - reported[s] <= MaxRif - reported[t]
    BY <1>2, <1>4, <1>5
  <2>2. reported[s] \in Nat /\ reported[t] \in Nat /\ MaxRif \in Nat
    BY RifsAreNaturals
  <2> QED BY <2>1, <2>2
<1> QED BY <1>6

(* The accumulated count is the number of samples not above r.             *)
LEMMA UpToCounts ==
  ASSUME NEW c, NEW S, NEW reported, CountsOf(c, S, reported), NEW r
  PROVE  UpTo(c, r) = Cardinality({s \in S : reported[s] <= r})
<1> DEFINE R == {x \in Rifs : x <= r}
<1>1. IsFiniteSet(S) /\ IsFiniteSet(Rifs) /\ R \in SUBSET Rifs
  BY RifsAreNaturals DEF CountsOf
<1>2. Total(c, R) = Cardinality({s \in S : reported[s] \in R})
  <2>1. c \in [Rifs -> Int] /\ \A x \in Rifs : c[x] = Cardinality({s \in S : reported[s] = x})
    BY DEF CountsOf
  <2> HIDE DEF R
  <2> QED BY <1>1, <2>1, TotalOfClasses
<1>3. {s \in S : reported[s] \in R} = {s \in S : reported[s] <= r}
  BY DEF CountsOf
<1>4. UpTo(c, r) = Total(c, R)
  BY DEF UpTo, Total
<1> QED BY <1>2, <1>3, <1>4

(* The map has every RIF that a sample reported.                           *)
LEMMA SampleCounts ==
  ASSUME NEW c, NEW S, NEW reported, CountsOf(c, S, reported), NEW s \in S
  PROVE  c[reported[s]] > 0
<1> DEFINE T == {t \in S : reported[t] = reported[s]}
<1>1. IsFiniteSet(T) /\ s \in T
  BY FS_Subset DEF CountsOf
<1>2. Cardinality(T) \in Nat /\ Cardinality(T) # 0
  BY <1>1, FS_CardinalityType, FS_EmptySet
<1>3. c[reported[s]] = Cardinality(T)
  BY DEF CountsOf
<1> QED BY <1>2, <1>3

Reached(c, n) == {r \in Rifs : c[r] > 0 /\ Reaches(UpTo(c, r), n)}

(* With enough samples and q below one, some RIF reaches the fraction, and *)
(* computeQuantile returns the least.                                      *)
LEMMA QuantileIsLeast ==
  ASSUME NEW c, NEW S, NEW reported, CountsOf(c, S, reported), QNum < QDen,
         Cardinality(S) >= MinSamples
  PROVE  LET theta == QuantileOf(c, Cardinality(S))
         IN  /\ theta \in Reached(c, Cardinality(S))
             /\ \A x \in Reached(c, Cardinality(S)) : theta <= x
<1> DEFINE n == Cardinality(S)
           reached == Reached(c, n)
<1>1. n \in Nat /\ n > 0 /\ n >= MinSamples /\ IsFiniteSet(S) /\ S # {}
  BY RifsAreNaturals, FS_CardinalityType, FS_EmptySet DEF CountsOf
<1>2. \A s \in S : reported[s] \in Rifs
  BY DEF CountsOf
<1>3. PICK s \in S : \A t \in S : reported[t] <= reported[s]
  BY <1>1, <1>2, LargestRif
<1>4. reported[s] \in reached
  <2>1. {t \in S : reported[t] <= reported[s]} = S
    BY <1>3
  <2>2. UpTo(c, reported[s]) = n
    BY <2>1, UpToCounts
  <2>3. QDen * n >= QNum * n
    BY <1>1, RifsAreNaturals, SMTT(30)
  <2> QED BY <1>2, <2>2, <2>3, SampleCounts DEF Reached
<1>5. reached \subseteq Nat
  BY RifsAreNaturals DEF Reached
<1>6. QuantileOf(c, n) = CHOOSE r \in reached : \A x \in reached : r <= x
  BY <1>1, RifsAreNaturals DEF QuantileOf, Reached
<1> HIDE DEF reached, n
<1>7. \E r \in reached : \A x \in reached : r <= x
  BY <1>4, <1>5, LeastNatural
<1>8. QuantileOf(c, n) \in reached /\ \A x \in reached : QuantileOf(c, n) <= x
  BY <1>6, <1>7
<1> QED BY <1>8 DEF n, reached

LEMMA QuantileType ==
  ASSUME NEW c, NEW S, NEW reported, CountsOf(c, S, reported)
  PROVE  QuantileOf(c, Cardinality(S)) \in Rifs \cup {-1, MaxRif}
<1>0. Cardinality(S) \in Nat /\ MinSamples \in Nat /\ QNum \in Nat /\ QDen \in Nat
  BY RifsAreNaturals, FS_CardinalityType DEF CountsOf
<1>1. CASE Cardinality(S) < MinSamples
  BY <1>1 DEF QuantileOf
<1>2. CASE ~(Cardinality(S) < MinSamples) /\ QNum >= QDen
  BY <1>2 DEF QuantileOf
<1>3. CASE Cardinality(S) >= MinSamples /\ QNum < QDen
  BY <1>3, QuantileIsLeast DEF Reached
<1> QED BY <1>0, <1>1, <1>2, <1>3

(* The quantile by its definition.                                         *)
LEMMA QuantileDivides ==
  ASSUME NEW c, NEW S, NEW reported, CountsOf(c, S, reported), 0 < QNum, QNum < QDen,
         Cardinality(S) >= MinSamples
  PROVE  LET theta == QuantileOf(c, Cardinality(S))
         IN  /\ QDen * Cardinality({s \in S : reported[s] <= theta}) >= QNum * Cardinality(S)
             /\ QDen * Cardinality({s \in S : reported[s] < theta}) < QNum * Cardinality(S)
<1> DEFINE n == Cardinality(S)
           theta == QuantileOf(c, n)
           below == {s \in S : reported[s] < theta}
<1>1. theta \in Reached(c, n) /\ \A x \in Reached(c, n) : theta <= x
  BY QuantileIsLeast
<1>0. /\ n \in Nat /\ n > 0 /\ QNum \in Nat /\ QDen \in Nat /\ IsFiniteSet(S)
      /\ \A s \in S : reported[s] \in Rifs /\ reported[s] \in Nat
  BY RifsAreNaturals, FS_CardinalityType DEF CountsOf
<1> HIDE DEF theta, n
<1>2. QDen * Cardinality({s \in S : reported[s] <= theta}) >= QNum * n
  BY <1>1, UpToCounts DEF Reached
<1>3. QDen * Cardinality(below) < QNum * n
  <2>1. CASE below = {}
    <3>1. Cardinality(below) = 0 /\ QNum * n > 0
      BY <1>0, <2>1, FS_EmptySet, SMTT(30)
    <3> QED BY <1>0, <3>1
  <2>2. CASE below # {}
    <3>1. PICK s \in below : \A t \in below : reported[t] <= reported[s]
      BY <1>0, <2>2, LargestRif
    <3>2. theta \in Nat /\ reported[s] \in Nat /\ reported[s] < theta /\ reported[s] \in Rifs /\ s \in S
      BY <1>0, <1>1, <3>1, RifsAreNaturals DEF Reached
    <3>3. reported[s] \notin Reached(c, n)
      BY <1>1, <3>2
    <3>4. {t \in S : reported[t] <= reported[s]} = below
      BY <1>0, <3>1, <3>2
    <3>5. UpTo(c, reported[s]) = Cardinality(below)
      BY <3>4, UpToCounts
    <3>6. c[reported[s]] > 0
      BY <3>2, SampleCounts
    <3>7. ~(QDen * Cardinality(below) >= QNum * n)
      BY <3>2, <3>3, <3>5, <3>6 DEF Reached
    <3>8. QDen * Cardinality(below) \in Int /\ QNum * n \in Int
      <4>1. Cardinality(below) \in Nat
        BY <1>0, FS_Subset, FS_CardinalityType
      <4> HIDE DEF below
      <4> QED BY <1>0, <4>1, SMTT(30)
    <3> HIDE DEF below
    <3> QED BY <3>7, <3>8
  <2> QED BY <2>1, <2>2
<1> QED BY <1>2, <1>3 DEF theta, n

(* What Compute reads is the map of the samples it leaves.                 *)
LEMMA ComputeReads ==
  ASSUME IInv, NEW w \in Workers, Compute(w)
  PROVE  CountsOf(counts', samples', rif)
<1>1. counts' \in [Rifs -> Int] /\ CountsMatch' /\ rif' = rif
  BY ComputeCounts DEF Compute, sampleVars
<1>2. samples' \subseteq samples
  BY DEF Compute, OldPrefix
<1>3. samples \subseteq Probes /\ IsFiniteSet(Probes) /\ rif \in [Probes -> Rifs]
  BY Setting DEF IInv, Types, Observed
<1>4. IsFiniteSet(samples') /\ \A s \in samples' : rif[s] \in Rifs
  BY <1>2, <1>3, FS_Subset
<1>5. \A r \in Rifs : counts'[r] = Cardinality({s \in samples' : rif[s] = r})
  BY <1>1 DEF CountsMatch
<1> QED BY <1>1, <1>4, <1>5 DEF CountsOf

(* Every variable keeps its type: no count falls below zero, and a         *)
(* threshold is a RIF some probe reported or one of the two special ones.  *)
THEOREM WindowTypes == Spec => []TypeOK
<1> DEFINE Answers == cache \in Thresholds /\ answer \in [Workers -> Thresholds]
<1>1. Init => Answers
  BY DEF Init, NoThreshold, Thresholds
<1>2. IInv /\ IInv' /\ Answers /\ [Next]_vars => Answers'
  <2> SUFFICES ASSUME IInv, IInv', Answers, [Next]_vars PROVE Answers'
    OBVIOUS
  <2>1. CASE UNCHANGED <<cache, answer>>
    BY <2>1
  <2>2. ASSUME NEW w \in Workers, Compute(w) PROVE Answers'
    <3> DEFINE t == [theta |-> QuantileOf(counts', Cardinality(samples')),
                     computedAt |-> clock[w], basis |-> Observed]
    <3>1. t.theta \in Rifs \cup {-1, MaxRif}
      BY <2>2, ComputeReads, QuantileType
    <3>2. clock[w] \in Nat /\ Observed \subseteq Probes
      BY DEF IInv, Types, Observed
    <3>3. t \in Thresholds
      BY <3>1, <3>2 DEF Thresholds
    <3>4. cache' = cache /\ answer' = [answer EXCEPT ![w] = t]
      BY <2>2 DEF Compute
    <3> HIDE DEF t
    <3> QED BY <3>3, <3>4
  <2>3. ASSUME NEW w \in Workers, Store(w) PROVE Answers'
    <3>1. NoThreshold \in Thresholds
      BY DEF NoThreshold, Thresholds
    <3>2. cache' = answer[w] /\ answer' = [answer EXCEPT ![w] = NoThreshold]
      BY <2>3 DEF Store
    <3> QED BY <3>1, <3>2
  <2> QED BY <2>1, <2>2, <2>3 DEF Next, Tick, Stamp, Observe, Ask, Hit, Miss, vars
<1>3. IInv /\ Answers => TypeOK
  <2> SUFFICES ASSUME IInv, Answers PROVE TypeOK
    OBVIOUS
  <2>1. counts \in [Rifs -> Nat]
    <3>1. \A r \in Rifs : counts[r] \in Nat
      <4> TAKE r \in Rifs
      <4>1. {s \in samples : rif[s] = r} \subseteq Probes
        BY DEF IInv, Types, Observed
      <4> QED BY <4>1, Setting, FS_Subset, FS_CardinalityType DEF IInv, CountsMatch
    <3> QED BY <3>1 DEF IInv, Types
  <2> QED BY <2>1 DEF IInv, Types, TypeOK, Observed
<1> QED BY <1>1, <1>2, <1>3, WindowInvariant, PTL DEF Spec

(* A threshold that is valid is the q-quantile of the samples that eviction*)
(* has left: at least the fraction q of them are not above it, and less    *)
(* than that are below it, whatever has been appended and evicted.         *)
THEOREM ThresholdsAreQuantiles == Spec => QuantileOfSamples
<1>1. ASSUME IInv, [Next]_vars, NEW w \in Workers, pc[w] = "compute", pc'[w] = "store",
             Cardinality(samples') >= MinSamples, 0 < QNum, QNum < QDen
      PROVE  LET theta == answer'[w].theta
                 below == {s \in samples' : rif[s] < theta}
                 upTo  == {s \in samples' : rif[s] <= theta}
             IN  /\ QDen * Cardinality(upTo) >= QNum * Cardinality(samples')
                 /\ QDen * Cardinality(below) < QNum * Cardinality(samples')
  <2>1. Compute(w)
    <3>1. PICK v \in Workers : Compute(v)
      BY <1>1 DEF Next, vars, Tick, Stamp, Observe, Ask, Hit, Miss, Store, IInv, Types
    <3>2. v = w
      BY <1>1, <3>1 DEF Compute, IInv, Types
    <3> QED BY <3>1, <3>2
  <2>2. answer'[w].theta = QuantileOf(counts', Cardinality(samples'))
    BY <2>1, <1>1 DEF Compute, IInv, Types
  <2>3. CountsOf(counts', samples', rif)
    BY <1>1, <2>1, ComputeReads
  <2> QED BY <1>1, <2>2, <2>3, QuantileDivides
<1>2. IInv /\ [Next]_vars =>
        [\A w \in Workers :
           pc[w] = "compute" /\ pc'[w] = "store" /\ Cardinality(samples') >= MinSamples
             /\ 0 < QNum /\ QNum < QDen =>
           LET theta == answer'[w].theta
               below == {s \in samples' : rif[s] < theta}
               upTo  == {s \in samples' : rif[s] <= theta}
           IN  /\ QDen * Cardinality(upTo) >= QNum * Cardinality(samples')
               /\ QDen * Cardinality(below) < QNum * Cardinality(samples')]_vars
  BY <1>1
<1> QED BY <1>2, WindowInvariant, PTL DEF Spec, QuantileOfSamples
=============================================================================
