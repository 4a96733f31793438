---------------------------- MODULE ProbingProofs ----------------------------
(***************************************************************************)
(* Proofs about ProbeRate and Probing: the rates, types, the accounting of *)
(* probes, the ticker's coverage of the servers and the idle floor, for    *)
(* any number of servers and queries, any period and lateness, any width   *)
(* of the counters and every configuration of the rates; the floor needs   *)
(* config.RProbe to be one at least.                                       *)
(***************************************************************************)
EXTENDS Probing, SumLemmas

USE DEF IsHigh, Idle, AllServers, Stamp, OneFewer, CountHTTP

-----------------------------------------------------------------------------
(* The rates, for every configuration.                                     *)

(* Random rounding gives a natural number between the bounds of what is    *)
(* rounded, when the bounds are whole.                                     *)
LEMMA RoundedBetween ==
  ASSUME NEW num \in Nat, NEW den \in Nat \ {0}, NEW low \in Nat, NEW high \in Nat,
         low * den <= num, num <= high * den
  PROVE  Rounded(num, den) \subseteq low .. high
<1> DEFINE whole == num \div den
<1>1. /\ whole \in Int /\ num % den \in 0 .. den - 1
      /\ num = den * whole + (num % den)
  OBVIOUS
<1>2. low <= whole
  <2> SUFFICES ASSUME whole + 1 <= low PROVE FALSE
    BY <1>1
  <2>1. den * (whole + 1) <= den * low
    BY <1>1, SMTT(30)
  <2> QED BY <2>1, <1>1
<1>3. whole <= high
  <2> SUFFICES ASSUME high + 1 <= whole PROVE FALSE
    BY <1>1
  <2>1. den * (high + 1) <= den * whole
    BY <1>1, SMTT(30)
  <2> QED BY <2>1, <1>1
<1>4. ASSUME num % den # 0 PROVE whole + 1 <= high
  <2> SUFFICES ASSUME high <= whole PROVE FALSE
    BY <1>1
  <2>1. den * high <= den * whole
    BY <1>1, SMTT(30)
  <2> QED BY <2>1, <1>1, <1>4
<1> HIDE DEF whole
<1>5. Rounded(num, den) \subseteq {whole} \cup (IF num % den = 0 THEN {} ELSE {whole + 1})
  BY DEF Rounded, whole
<1> QED BY <1>1, <1>2, <1>3, <1>4, <1>5

(* Products keep the order, and their factors associate.                   *)
LEMMA ProductsKeepOrder ==
  ASSUME NEW a \in Nat, NEW b \in Nat, NEW c \in Nat, a <= b
  PROVE  a * c <= b * c
BY SMTT(30)

LEMMA FactorsAssociate ==
  ASSUME NEW a \in Nat, NEW b \in Nat, NEW c \in Nat
  PROVE  (a * b) * c = a * (b * c)
BY SMTT(30)

LEMMA SpanType == Span \in Nat \ {0}
BY ProbeRateAssumption DEF ProbeRateAssumption, Span

LEMMA LeastType == LeastRate \in Nat /\ LeastRate <= RProbe
BY ProbeRateAssumption DEF ProbeRateAssumption, LeastRate

(* However many requests are in flight, effectiveRProbe lies between the   *)
(* least rate and config.RProbe.                                           *)
THEOREM RateWithin ==
  ASSUME NEW f \in Nat
  PROVE  /\ EffectiveRProbe(f) \in Nat
         /\ LeastRate * Span <= EffectiveRProbe(f)
         /\ EffectiveRProbe(f) <= RProbe * Span
<1> DEFINE fall == RProbe - LeastRate
<1>1. fall \in Nat /\ RProbe = LeastRate + fall /\ RProbe \in Nat
  BY LeastType, ProbeRateAssumption DEF ProbeRateAssumption
<1>2. /\ LeastRate * Span \in Nat /\ RProbe * Span \in Nat /\ fall * Span \in Nat
      /\ RProbe * Span = LeastRate * Span + fall * Span
  BY <1>1, SpanType, LeastType, SMTT(30)
<1>3. CASE ~AdaptiveProbe \/ LoadHigh <= LoadLow \/ f <= LoadLow
  BY <1>3, <1>2 DEF EffectiveRProbe
<1>4. CASE ~(~AdaptiveProbe \/ LoadHigh <= LoadLow \/ f <= LoadLow) /\ f >= LoadHigh
  BY <1>4, <1>2 DEF EffectiveRProbe
<1>5. CASE ~(~AdaptiveProbe \/ LoadHigh <= LoadLow \/ f <= LoadLow) /\ ~(f >= LoadHigh)
  <2>1. LoadLow \in Nat /\ LoadHigh \in Nat /\ Span = LoadHigh - LoadLow
    BY <1>5, ProbeRateAssumption DEF ProbeRateAssumption, Span
  <2>2. f - LoadLow \in Nat /\ f - LoadLow <= Span
    BY <1>5, <2>1
  <2>3. (f - LoadLow) * fall \in Nat /\ (f - LoadLow) * fall <= fall * Span
    BY <2>2, <1>1, SpanType, SMTT(30)
  <2>4. EffectiveRProbe(f) = RProbe * Span - (f - LoadLow) * fall
    BY <1>5 DEF EffectiveRProbe
  <2> QED BY <2>3, <2>4, <1>2
<1> QED BY <1>3, <1>4, <1>5

(* More requests in flight never raise the probe rate.                     *)
THEOREM RateFalls ==
  ASSUME NEW f \in Nat, NEW g \in Nat, f <= g
  PROVE  EffectiveRProbe(g) <= EffectiveRProbe(f)
<1> DEFINE fall == RProbe - LeastRate
           low(x)  == ~AdaptiveProbe \/ LoadHigh <= LoadLow \/ x <= LoadLow
           high(x) == ~low(x) /\ x >= LoadHigh
<1>1. /\ LoadLow \in Nat /\ LoadHigh \in Nat /\ fall \in Nat
      /\ RProbe * Span \in Nat /\ LeastRate * Span \in Nat
  BY LeastType, SpanType, ProbeRateAssumption, SMTT(30) DEF ProbeRateAssumption
<1>2. CASE low(f)
  <2>1. EffectiveRProbe(f) = RProbe * Span
    BY <1>2 DEF EffectiveRProbe
  <2> QED BY <2>1, RateWithin, <1>1
<1>3. CASE high(g)
  <2>1. EffectiveRProbe(g) = LeastRate * Span
    BY <1>3 DEF EffectiveRProbe
  <2> QED BY <2>1, RateWithin, <1>1
<1>4. CASE ~low(f) /\ ~high(g)
  <2>1. ~low(g) /\ ~high(f)
    BY <1>4, <1>1
  <2>2. /\ EffectiveRProbe(f) = RProbe * Span - (f - LoadLow) * fall
        /\ EffectiveRProbe(g) = RProbe * Span - (g - LoadLow) * fall
    BY <2>1, <1>4 DEF EffectiveRProbe
  <2>3. f - LoadLow \in Nat /\ g - LoadLow \in Nat /\ f - LoadLow <= g - LoadLow
    BY <1>4, <2>1, <1>1
  <2>4. /\ (f - LoadLow) * fall \in Nat /\ (g - LoadLow) * fall \in Nat
        /\ (f - LoadLow) * fall <= (g - LoadLow) * fall
    BY <2>3, <1>1, ProductsKeepOrder
  <2> QED BY <2>2, <2>4, <1>1
<1> QED BY <1>2, <1>3, <1>4

(* With a least rate of whole probes low and config.RProbe not above the   *)
(* whole number high, every query triggers between low and high probes.    *)
THEOREM QueryProbesWithin ==
  ASSUME NEW f \in Nat, NEW low \in Nat, NEW high \in Nat,
         low * RateDen <= LeastRate, RProbe <= high * RateDen
  PROVE  QueryProbes(f) \subseteq low .. high
<1>1. RateDen \in Nat \ {0} /\ RProbe \in Nat
  BY ProbeRateAssumption DEF ProbeRateAssumption
<1>2. RateDen * Span \in Nat \ {0}
  BY <1>1, SpanType, SMTT(30)
<1>3. low * (RateDen * Span) <= LeastRate * Span
  <2>1. low * RateDen \in Nat /\ Span \in Nat /\ LeastRate \in Nat
    BY <1>1, SpanType, LeastType
  <2>2. (low * RateDen) * Span <= LeastRate * Span
    BY <2>1, ProductsKeepOrder
  <2>3. (low * RateDen) * Span = low * (RateDen * Span)
    BY <1>1, <2>1, FactorsAssociate
  <2> QED BY <2>2, <2>3
<1>4. RProbe * Span <= high * (RateDen * Span)
  <2>1. high * RateDen \in Nat /\ Span \in Nat
    BY <1>1, SpanType
  <2>2. RProbe * Span <= (high * RateDen) * Span
    BY <1>1, <2>1, ProductsKeepOrder
  <2>3. (high * RateDen) * Span = high * (RateDen * Span)
    BY <1>1, <2>1, FactorsAssociate
  <2> QED BY <2>2, <2>3
<1>5. LeastRate * Span \in Nat /\ RProbe * Span \in Nat /\ high * (RateDen * Span) \in Nat
      /\ low * (RateDen * Span) \in Nat
  BY <1>1, <1>2, SpanType, LeastType, SMTT(30)
<1>6. /\ EffectiveRProbe(f) \in Nat
      /\ low * (RateDen * Span) <= EffectiveRProbe(f)
      /\ EffectiveRProbe(f) <= high * (RateDen * Span)
  BY <1>3, <1>4, <1>5, RateWithin
<1> HIDE DEF Rounded
<1> QED BY <1>2, <1>6, RoundedBetween DEF QueryProbes

(* The idle loop's bursts hold a probe exactly when config.RProbe is one   *)
(* or more: a smaller rate is rounded down to none.                        *)
THEOREM IdleNeedsWholeProbe == IdleProbes >= 1 <=> RProbe >= RateDen
<1>1. /\ RateDen \in Nat \ {0} /\ RProbe \in Nat
  BY ProbeRateAssumption DEF ProbeRateAssumption
<1>2. /\ IdleProbes \in Int /\ RProbe % RateDen \in 0 .. RateDen - 1
      /\ RProbe = RateDen * IdleProbes + (RProbe % RateDen)
  BY <1>1, SMTT(30) DEF IdleProbes
<1>3. ASSUME IdleProbes >= 1 PROVE RateDen <= RateDen * IdleProbes
  BY <1>3, <1>1, <1>2, SMTT(30)
<1>4. ASSUME IdleProbes <= 0 PROVE RateDen * IdleProbes <= 0
  BY <1>4, <1>1, <1>2, SMTT(30)
<1>5. RateDen * IdleProbes \in Int
  BY <1>1, <1>2
<1> QED BY <1>1, <1>2, <1>3, <1>4, <1>5

(* computeBReuse gives every entry at least one use and never more than    *)
(* MaxReusePool, or one when that is smaller: the pool may rely on it.     *)
THEOREM BudgetsWithin ==
  ReuseBudgets \subseteq 1 .. (IF MaxReusePool < 1 THEN 1 ELSE MaxReusePool)
<1>1. /\ RateDen \in Nat \ {0} /\ RProbe \in Nat /\ RRemove \in Nat /\ Delta \in Nat
      /\ MaxReusePool \in Int
  BY ProbeRateAssumption DEF ProbeRateAssumption
<1>2. CASE ~ReuseLimited
  BY <1>1, <1>2 DEF ReuseBudgets
<1>3. CASE ReuseLimited
  <2> DEFINE num == RateDen + Delta
             den == RProbe - RRemove
  <2>1. num \in Nat \ {0} /\ den \in Nat \ {0} /\ num < MaxReusePool * den
    BY <1>1, <1>3 DEF ReuseLimited
  <2>2. MaxReusePool \in Nat \ {0}
    <3> HIDE DEF num, den
    <3>1. ASSUME MaxReusePool <= 0 PROVE MaxReusePool * den <= 0
      BY <3>1, <2>1, <1>1, SMTT(30)
    <3>2. MaxReusePool * den \in Int
      BY <2>1, <1>1
    <3> QED BY <3>1, <3>2, <2>1, <1>1
  <2>3. CASE num < den
    BY <2>3, <2>2, <1>3 DEF ReuseBudgets
  <2>4. CASE ~(num < den)
    <3>1. ReuseBudgets = Rounded(num, den)
      BY <2>4, <1>3 DEF ReuseBudgets
    <3>2. 1 * den <= num /\ num <= MaxReusePool * den
      BY <2>1, <2>2, <2>4, SMTT(30)
    <3> HIDE DEF num, den
    <3>3. Rounded(num, den) \subseteq 1 .. MaxReusePool
      BY <3>2, <2>1, <2>2, RoundedBetween
    <3> QED BY <3>1, <3>3, <2>2
  <2> QED BY <2>3, <2>4
<1> QED BY <1>2, <1>3

(* What the random rounding may give is less than one off the fraction.    *)
LEMMA RoundedNear ==
  ASSUME NEW num \in Nat, NEW den \in Nat \ {0}, NEW c \in Rounded(num, den)
  PROVE  c \in Nat /\ (c - 1) * den < num /\ num < (c + 1) * den
<1> DEFINE whole == num \div den
           rest == num % den
<1>1. /\ whole \in Int /\ rest \in 0 .. den - 1
      /\ num = den * whole + rest
  OBVIOUS
<1>2. whole \in Nat
  <2>1. ASSUME whole <= -1 PROVE den * whole <= -den
    BY <1>1, <2>1, SMTT(30)
  <2> HIDE DEF whole, rest
  <2> QED BY <1>1, <2>1
<1>3. c \in {whole, whole + 1} /\ (rest = 0 => c = whole)
  BY DEF Rounded
<1> HIDE DEF whole, rest
<1>4. /\ (whole + 2) * den = den * whole + 2 * den /\ (whole + 1) * den = den * whole + den
      /\ (whole - 1) * den = den * whole - den /\ den * whole \in Int /\ whole * den = den * whole
  BY <1>1, SMTT(30)
<1>5. CASE c = whole
  <2>1. c - 1 = whole - 1 /\ c + 1 = whole + 1
    BY <1>5
  <2> QED BY <1>1, <1>2, <1>4, <1>5, <2>1
<1>6. CASE c = whole + 1 /\ rest > 0
  <2>1. c - 1 = whole /\ c + 1 = whole + 2
    BY <1>2, <1>6
  <2> QED BY <1>1, <1>2, <1>4, <1>6, <2>1
<1> QED BY <1>1, <1>3, <1>5, <1>6

(* A smaller fraction is not rounded to more than a greater one may be.    *)
LEMMA RoundedOrdered ==
  ASSUME NEW a \in Nat, NEW b \in Nat, NEW den \in Nat \ {0}, a <= b, NEW c \in Rounded(a, den)
  PROVE  \E more \in Rounded(b, den) : c <= more
<1> DEFINE whole == b \div den
           rest == b % den
           more == IF rest = 0 THEN whole ELSE whole + 1
<1>1. whole \in Int /\ rest \in 0 .. den - 1 /\ b = den * whole + rest
  OBVIOUS
<1>2. more \in Rounded(b, den)
  BY DEF Rounded
<1> HIDE DEF whole, rest
<1>3. b <= more * den /\ more \in Int
  <2>1. (whole + 1) * den = den * whole + den /\ whole * den = den * whole /\ den * whole \in Int
    BY <1>1, SMTT(30)
  <2> QED BY <1>1, <2>1
<1>4. c \in Nat /\ (c - 1) * den < a
  BY RoundedNear
<1> HIDE DEF more
<1>5. ASSUME more <= c - 1 PROVE more * den <= (c - 1) * den
  BY <1>3, <1>4, <1>5, SMTT(30)
<1> QED
  <2>1. (c - 1) * den \in Int /\ more * den \in Int
    BY <1>3, <1>4, SMTT(30)
  <2> QED BY <1>2, <1>3, <1>4, <1>5, <2>1

(* One more request in flight never raises the most probes that a query    *)
(* asks for, and what it asks for is less than one off the two rates.      *)
THEOREM QueryProbesFallWith ==
  ASSUME NEW f \in Nat, NEW count \in QueryProbes(f + 1)
  PROVE  /\ \E more \in QueryProbes(f) : count <= more
         /\ (count + 1) * RateDen > LeastRate /\ (count - 1) * RateDen < RProbe
<1> DEFINE rate(x) == EffectiveRProbe(x)
           den == RateDen * Span
<1>1. /\ RateDen \in Nat \ {0} /\ RProbe \in Nat /\ Span \in Nat \ {0} /\ LeastRate \in Nat
  BY ProbeRateAssumption, SpanType, LeastType DEF ProbeRateAssumption
<1>2. den \in Nat \ {0}
  BY <1>1, SMTT(30)
<1>3. /\ rate(f) \in Nat /\ rate(f + 1) \in Nat
      /\ LeastRate * Span <= rate(f + 1) /\ rate(f + 1) <= RProbe * Span
      /\ rate(f + 1) <= rate(f)
  BY RateWithin, RateFalls
<1>4. count \in Rounded(rate(f + 1), den)
  BY DEF QueryProbes
<1>5. QueryProbes(f) = Rounded(rate(f), den)
  BY DEF QueryProbes
<1> HIDE DEF rate, den
<1>6. \E more \in QueryProbes(f) : count <= more
  BY <1>2, <1>3, <1>4, <1>5, RoundedOrdered
<1>7. count \in Nat /\ (count - 1) * den < rate(f + 1) /\ rate(f + 1) < (count + 1) * den
  BY <1>2, <1>3, <1>4, RoundedNear
<1>8. ASSUME NEW n \in Nat
      PROVE  /\ n * den = (n * RateDen) * Span /\ n * RateDen \in Nat /\ n * den \in Nat
  BY <1>1, <1>8, FactorsAssociate, SMTT(30) DEF den
<1>9. LeastRate * Span \in Nat /\ RProbe * Span \in Nat
  BY <1>1, SMTT(30)
<1>10. (count + 1) * RateDen > LeastRate
  <2> DEFINE m == count + 1
  <2>1. m \in Nat
    BY <1>7
  <2>2. LeastRate * Span < (m * RateDen) * Span
    BY <1>3, <1>7, <1>8, <1>9, <2>1
  <2>3. m * RateDen \in Nat
    BY <1>8, <2>1
  <2> HIDE DEF m
  <2>4. ~ (m * RateDen <= LeastRate)
    BY <1>1, <1>9, <2>1, <2>2, <2>3, <1>8, ProductsKeepOrder
  <2>5. m * RateDen > LeastRate
    BY <1>1, <2>3, <2>4
  <2> QED BY <2>5 DEF m
<1>11. CASE count = 0
  <2>1. (count - 1) * RateDen = -RateDen
    BY <1>1, <1>11, SMTT(30)
  <2> QED BY <1>1, <1>6, <1>10, <2>1
<1>12. CASE count # 0
  <2> DEFINE m == count - 1
  <2>1. m \in Nat
    BY <1>7, <1>12
  <2>2. (m * RateDen) * Span < RProbe * Span
    BY <1>3, <1>7, <1>8, <1>9, <2>1
  <2>3. m * RateDen \in Nat
    BY <1>8, <2>1
  <2> HIDE DEF m
  <2>4. ~ (RProbe <= m * RateDen)
    BY <1>1, <1>8, <1>9, <2>1, <2>2, <2>3, ProductsKeepOrder
  <2>5. m * RateDen < RProbe
    BY <1>1, <2>3, <2>4
  <2> QED BY <1>6, <1>10, <2>5 DEF m
<1> QED BY <1>11, <1>12

-----------------------------------------------------------------------------
(* What the callers of triggerProbes do.                                   *)

(* When the server was probed last, or else registered.                    *)
Ref(s) == IF probedAt[s] > addedAt[s] THEN probedAt[s] ELSE addedAt[s]

LEMMA MinOfTwo ==
  ASSUME NEW a \in Nat, NEW b \in Nat
  PROVE  Min({a, b}) = IF a <= b THEN a ELSE b
<1> DEFINE m == IF a <= b THEN a ELSE b
<1>1. m \in {a, b} /\ \A y \in {a, b} : m <= y
  OBVIOUS
<1>2. \A x \in {a, b} : (\A y \in {a, b} : x <= y) => x = m
  OBVIOUS
<1>3. Min({a, b}) = CHOOSE x \in {a, b} : \A y \in {a, b} : x <= y
  BY DEF Min
<1> HIDE DEF m
<1> QED BY <1>1, <1>2, <1>3 DEF m

LEMMA ConstantsOfProbing ==
  /\ Period \in Nat \ {0} /\ MaxLate \in Nat /\ MaxIdle \in Nat /\ MaxIdle = 2 * Period
  /\ Ago \in Int /\ Ago < 0
  /\ CounterWrap \in Nat \ {0}
  /\ Loop \in Callers /\ Loop \notin Queries /\ Queries \subseteq Callers
BY ProbingAssumption DEF ProbingAssumption, MaxIdle, Ago, Callers

(* What triggerProbes does when it does anything.                          *)
LEMMA TriggerEffect ==
  ASSUME TypeOK, NEW c \in Callers, NEW count \in Nat, Trigger(c, count)
  PROVE  \/ UNCHANGED <<lastProbe, targets>> /\ servers = {}
         \/ /\ servers # {} /\ lastProbe' = now
            /\ \E T \in SUBSET servers :
                 /\ targets' = [targets EXCEPT ![c] = T]
                 /\ count > 0 => T # {}
                 /\ Cardinality(T) = IF count <= Cardinality(servers) THEN count
                                     ELSE Cardinality(servers)
<1>1. CASE servers = {}
  BY <1>1 DEF Trigger
<1>2. CASE servers # {}
  <2>1. IsFiniteSet(servers)
    BY FS_Subset, ProbingAssumption DEF TypeOK, ProbingAssumption
  <2>2. Cardinality(servers) \in Nat /\ Cardinality(servers) # 0
    BY <1>2, <2>1, FS_CardinalityType, FS_EmptySet
  <2>3. PICK T \in SUBSET servers :
          Cardinality(T) = Min({count, Cardinality(servers)}) /\ targets' = [targets EXCEPT ![c] = T]
    BY <1>2 DEF Trigger
  <2>4. Cardinality(T) = IF count <= Cardinality(servers) THEN count ELSE Cardinality(servers)
    BY <2>2, <2>3, MinOfTwo
  <2>5. count > 0 => T # {}
    BY <2>2, <2>4, FS_EmptySet
  <2> QED BY <1>2, <2>3, <2>4, <2>5 DEF Trigger
<1> QED BY <1>1, <1>2

(* A query asks for a natural number of probes.                            *)
LEMMA QueryProbesNat ==
  ASSUME NEW f \in Nat
  PROVE  QueryProbes(f) \subseteq Nat
<1>1. RateDen \in Nat \ {0} /\ RProbe \in Nat /\ LeastRate \in Nat
  BY ProbeRateAssumption, LeastType DEF ProbeRateAssumption
<1>2. RProbe <= RProbe * RateDen
  BY <1>1, SMTT(30)
<1>3. 0 * RateDen <= LeastRate
  BY <1>1
<1>4. QueryProbes(f) \subseteq 0 .. RProbe
  BY <1>1, <1>2, <1>3, QueryProbesWithin
<1> QED BY <1>1, <1>4

(* The idle loop asks for a natural number of probes, too.                 *)
LEMMA IdleProbesNat == IdleProbes \in Nat
<1>1. /\ RateDen \in Nat \ {0} /\ RProbe \in Nat
  BY ProbeRateAssumption DEF ProbeRateAssumption
<1>2. /\ IdleProbes \in Int /\ RProbe % RateDen \in 0 .. RateDen - 1
      /\ RProbe = RateDen * IdleProbes + (RProbe % RateDen)
  BY <1>1, SMTT(30) DEF IdleProbes
<1>3. ASSUME IdleProbes <= -1 PROVE RateDen * IdleProbes <= -RateDen
  BY <1>3, <1>1, <1>2, SMTT(30)
<1> QED BY <1>1, <1>2, <1>3

(* Nothing but the caller's targets and lastProbeNanos changes, and both   *)
(* only if there are servers.                                              *)
Triggers(c) ==
  /\ servers # {} /\ lastProbe' = now
  /\ \E T \in SUBSET servers : targets' = [targets EXCEPT ![c] = T]

LEMMA QueryEffect ==
  ASSUME TypeOK, NEW q \in Queries, QueryArrives(q)
  PROVE  \/ UNCHANGED <<lastProbe, targets>>
         \/ Triggers(q) /\ targets'[q] # {}
<1>0. PICK f \in 0 .. MaxForwards : \E count \in QueryProbes(f) :
        IF count = 0 THEN UNCHANGED <<lastProbe, targets>> ELSE Trigger(q, count)
  BY DEF QueryArrives
<1>1. PICK count \in QueryProbes(f) :
        IF count = 0 THEN UNCHANGED <<lastProbe, targets>> ELSE Trigger(q, count)
  BY <1>0
<1>2. f \in Nat
  BY ProbingAssumption DEF ProbingAssumption
<1>3. count \in Nat
  BY <1>2, QueryProbesNat
<1>4. CASE count = 0
  BY <1>1, <1>4
<1>5. CASE count # 0
  <2>1. Trigger(q, count) /\ count > 0 /\ q \in Callers
    BY <1>1, <1>3, <1>5, ConstantsOfProbing
  <2> QED BY <1>3, <2>1, TriggerEffect DEF TypeOK, Triggers
<1> QED BY <1>4, <1>5

LEMMA IdleBurstEffect ==
  ASSUME TypeOK, IdleBurst
  PROVE  \/ UNCHANGED <<lastProbe, targets>> /\ servers = {}
         \/ Triggers(Loop) /\ (RProbe >= RateDen => targets'[Loop] # {})
<1>1. Trigger(Loop, IdleProbes)
  BY DEF IdleBurst
<1>2. RProbe >= RateDen => IdleProbes > 0
  BY IdleNeedsWholeProbe, IdleProbesNat
<1> QED BY <1>1, <1>2, IdleProbesNat, ConstantsOfProbing, TriggerEffect DEF TypeOK, Triggers

LEMMA TickerBurstEffect ==
  ASSUME TypeOK, TickerBurst
  PROVE  \/ UNCHANGED <<lastProbe, targets>> /\ servers = {}
         \/ /\ Triggers(Loop)
            /\ Cardinality(targets'[Loop]) =
                 IF counted <= Cardinality(servers) THEN counted ELSE Cardinality(servers)
<1>1. Trigger(Loop, counted) /\ counted \in Nat
  <2>1. Cardinality(Servers) \in Nat
    BY FS_CardinalityType, ProbingAssumption DEF ProbingAssumption
  <2> QED BY <2>1 DEF TickerBurst, TypeOK
<1>2. CASE UNCHANGED <<lastProbe, targets>> /\ servers = {}
  BY <1>2
<1>3. CASE ~ (UNCHANGED <<lastProbe, targets>> /\ servers = {})
  <2>1. servers # {} /\ lastProbe' = now
    BY <1>1, <1>3, ConstantsOfProbing, TriggerEffect
  <2>2. PICK T \in SUBSET servers :
          /\ targets' = [targets EXCEPT ![Loop] = T]
          /\ Cardinality(T) = IF counted <= Cardinality(servers) THEN counted
                              ELSE Cardinality(servers)
    BY <1>1, <1>3, ConstantsOfProbing, TriggerEffect
  <2>3. targets'[Loop] = T
    BY <2>2, ConstantsOfProbing DEF TypeOK
  <2> QED BY <2>1, <2>2, <2>3 DEF Triggers
<1> QED BY <1>2, <1>3

-----------------------------------------------------------------------------
(* Type correctness                                                        *)

LEMMA IncType == ASSUME NEW n \in Nat PROVE Inc(n) \in 0 .. CounterWrap - 1
BY ConstantsOfProbing DEF Inc

LEMMA ServersCounted ==
  /\ 0 \in 0 .. Cardinality(Servers)
  /\ \A S \in SUBSET Servers : IsFiniteSet(S) /\ Cardinality(S) \in 0 .. Cardinality(Servers)
<1>1. IsFiniteSet(Servers) /\ Cardinality(Servers) \in Nat
  BY FS_CardinalityType, ProbingAssumption DEF ProbingAssumption
<1>2. ASSUME NEW S \in SUBSET Servers
      PROVE  IsFiniteSet(S) /\ Cardinality(S) \in 0 .. Cardinality(Servers)
  <2>1. IsFiniteSet(S) /\ Cardinality(S) <= Cardinality(Servers)
    BY <1>1, FS_Subset
  <2>2. Cardinality(S) \in Nat
    BY <2>1, FS_CardinalityType
  <2> QED BY <1>1, <2>1, <2>2
<1> QED BY <1>1, <1>2

LEMMA TriggersType ==
  ASSUME TypeOK, NEW c \in Callers, Triggers(c)
  PROVE  targets' \in [Callers -> SUBSET Servers] /\ lastProbe' \in Nat
BY DEF TypeOK, Triggers

(* Every variable keeps its type, however many servers, queries and probes *)
(* there are.                                                              *)
THEOREM ProbingTypes == Spec => []TypeOK
<1>1. Init => TypeOK
  <2> SUFFICES ASSUME Init PROVE TypeOK
    OBVIOUS
  <2>1. {triggered, succeeded, failedError, failedHTTP, valid} \subseteq 0 .. CounterWrap - 1
    BY ConstantsOfProbing DEF Init
  <2>2. /\ targets \in [Callers -> SUBSET Servers]
        /\ inflight \in [Servers -> Nat]
    BY DEF Init
  <2>3. /\ probedAt \in [Servers -> Nat \cup {Ago}]
        /\ addedAt \in [Servers -> Nat \cup {Ago}]
    BY DEF Init
  <2>4. now \in Nat /\ arrivals \in Nat /\ nextTick \in Nat
    BY ConstantsOfProbing DEF Init
  <2>5. /\ mode \in Modes /\ servers \subseteq Servers /\ stopCh \in BOOLEAN
        /\ loop \in {"select", "burst", "done"}
        /\ tickAt \in Nat \cup {NoTick} /\ lastProbe \in Nat \cup {Ago}
    BY DEF Init
  <2>6. counted \in 0 .. Cardinality(Servers)
    BY ServersCounted DEF Init
  <2> QED BY <2>1, <2>2, <2>3, <2>4, <2>5, <2>6 DEF TypeOK
<1>2. TypeOK /\ [Next]_vars => TypeOK'
  <2> SUFFICES ASSUME TypeOK, [Next]_vars PROVE TypeOK'
    OBVIOUS
  <2>1. CASE Tick
    BY <2>1 DEF Tick, TypeOK, statVars
  <2>2. CASE Fire
    BY <2>2, ConstantsOfProbing DEF Fire, TypeOK, statVars
  <2>3. CASE IdleTick
    BY <2>3 DEF IdleTick, TypeOK, statVars
  <2>4. CASE IdleBurst
    <3>1. targets' \in [Callers -> SUBSET Servers] /\ lastProbe' \in Nat \cup {Ago}
      BY <2>4, IdleBurstEffect, TriggersType, ConstantsOfProbing DEF TypeOK
    <3> QED BY <2>4, <3>1 DEF IdleBurst, TypeOK, statVars
  <2>5a. CASE TickerTick
    <3>1. counted' \in 0 .. Cardinality(Servers)
      BY <2>5a, ServersCounted DEF TickerTick, TypeOK
    <3> QED BY <2>5a, <3>1 DEF TickerTick, TypeOK, statVars
  <2>5b. CASE TickerBurst
    <3>1. targets' \in [Callers -> SUBSET Servers] /\ lastProbe' \in Nat \cup {Ago}
      BY <2>5b, TickerBurstEffect, TriggersType, ConstantsOfProbing DEF TypeOK
    <3>2. counted' \in 0 .. Cardinality(Servers)
      BY <2>5b, ServersCounted DEF TickerBurst
    <3> QED BY <2>5b, <3>1, <3>2 DEF TickerBurst, TypeOK, statVars
  <2>6. CASE Stop
    BY <2>6 DEF Stop, TypeOK, statVars
  <2>7. CASE LoopReturns
    BY <2>7 DEF LoopReturns, TypeOK, statVars
  <2>8. ASSUME NEW s \in Servers, AddServer(s) PROVE TypeOK'
    BY <2>8 DEF AddServer, TypeOK, statVars
  <2>9. ASSUME NEW s \in Servers, Settle(s) PROVE TypeOK'
    <3>1. /\ Inc(failedError) \in 0 .. CounterWrap - 1 /\ Inc(failedHTTP) \in 0 .. CounterWrap - 1
          /\ Inc(succeeded) \in 0 .. CounterWrap - 1 /\ Inc(valid) \in 0 .. CounterWrap - 1
      BY IncType, ConstantsOfProbing DEF TypeOK
    <3>2. Ends(s)
      BY <2>9 DEF Settle, ProbeError, ProbeBadStatus, ProbeAnswered
    <3>3. inflight' \in [Servers -> Nat]
      BY <3>2 DEF Ends, TypeOK
    <3>4. {succeeded, failedError, failedHTTP, valid}' \subseteq 0 .. CounterWrap - 1
      BY <2>9, <3>1 DEF Settle, ProbeError, ProbeBadStatus, ProbeAnswered, TypeOK
    <3> QED BY <3>2, <3>3, <3>4 DEF Ends, TypeOK
  <2>10. ASSUME NEW q \in Queries, QueryArrives(q) PROVE TypeOK'
    <3>1. targets' \in [Callers -> SUBSET Servers] /\ lastProbe' \in Nat \cup {Ago}
      BY <2>10, QueryEffect, TriggersType, ConstantsOfProbing DEF TypeOK
    <3> QED BY <2>10, <3>1 DEF QueryArrives, TypeOK, statVars
  <2>11. ASSUME NEW c \in Callers, Launch(c) PROVE TypeOK'
    <3>1. Inc(triggered) \in 0 .. CounterWrap - 1
      BY IncType, ConstantsOfProbing DEF TypeOK
    <3> QED BY <2>11, <3>1 DEF Launch, TypeOK
  <2>12. CASE UNCHANGED vars
    BY <2>12 DEF vars, statVars, TypeOK
  <2> QED
    BY <2>1, <2>2, <2>3, <2>4, <2>5a, <2>5b, <2>6, <2>7, <2>8, <2>9, <2>10, <2>11, <2>12 DEF Next
<1> QED BY <1>1, <1>2, PTL DEF Spec

-----------------------------------------------------------------------------
(* Every probe has one outcome.                                            *)

(* The probes of all servers that are in flight.                           *)
Out == Total(inflight, Servers)
Settled == succeeded + failedError + failedHTTP

LEMMA OutType ==
  ASSUME NEW f \in [Servers -> Nat]
  PROVE  Total(f, Servers) \in Nat
BY TotalNat, ProbingAssumption DEF ProbingAssumption

LEMMA OutAfter ==
  ASSUME TypeOK, NEW s \in Servers, NEW n \in Int, inflight' = [inflight EXCEPT ![s] = n]
  PROVE  Out' = Out - inflight[s] + n
<1>1. /\ inflight \in [Servers -> Int] /\ inflight' \in [Servers -> Int] /\ IsFiniteSet(Servers)
      /\ inflight'[s] = n /\ \A t \in Servers : t # s => inflight'[t] = inflight[t]
  BY ProbingAssumption DEF TypeOK, ProbingAssumption
<1>2. \A h \in [Servers -> Int] : (\A t \in Servers : t # s => h[t] = inflight[t]) =>
        Total(h, Servers) = Total(inflight, Servers) - inflight[s] + h[s]
  BY <1>1, TotalChanged
<1>3. Total(inflight', Servers) = Total(inflight, Servers) - inflight[s] + inflight'[s]
  BY <1>1, <1>2
<1> QED BY <1>1, <1>3 DEF Out

LEMMA AccountedStep ==
  ASSUME TypeOK, TypeOK', triggered = (Settled + Out) % CounterWrap, [Next]_vars
  PROVE  triggered' = (Settled' + Out') % CounterWrap
<1>0. /\ CounterWrap \in Nat \ {0}
      /\ Out \in Nat /\ Settled \in Nat /\ Out' \in Nat /\ Settled' \in Nat
  <2>1. Out \in Nat /\ Out' \in Nat
    BY OutType DEF Out, TypeOK
  <2>2. Settled \in Nat
    BY ConstantsOfProbing DEF Settled, TypeOK
  <2>3. Settled' \in Nat
    BY ConstantsOfProbing DEF Settled, TypeOK
  <2> QED BY <2>1, <2>2, <2>3, ConstantsOfProbing
<1>1. CASE UNCHANGED <<inflight, statVars>>
  BY <1>1 DEF Out, Settled, statVars
<1>2. ASSUME NEW c \in Callers, Launch(c)
      PROVE  triggered' = (Settled' + Out') % CounterWrap
  <2>1. PICK s \in targets[c] : inflight' = [inflight EXCEPT ![s] = @ + 1] /\ triggered' = (triggered + 1) % CounterWrap
    BY <1>2 DEF Launch, Inc
  <2>2. s \in Servers /\ inflight[s] \in Nat
    BY <2>1 DEF TypeOK
  <2>3. Out' = Out + 1
    <3>1. inflight[s] + 1 \in Int /\ inflight' = [inflight EXCEPT ![s] = inflight[s] + 1]
      BY <2>1, <2>2
    <3>2. Out' = Out - inflight[s] + (inflight[s] + 1)
      BY <2>2, <3>1, OutAfter
    <3> QED BY <1>0, <2>2, <3>2
  <2>4. Settled' = Settled
    BY <1>2 DEF Launch, Settled
  <2>5. (((Settled + Out) % CounterWrap) + 1) % CounterWrap = (Settled + Out + 1) % CounterWrap
    <3>1. Settled + Out \in Nat /\ 1 \in Nat
      BY <1>0
    <3> QED BY <1>0, <3>1, RemainderAdds
  <2>6. Settled + Out + 1 = Settled' + Out'
    BY <1>0, <2>3, <2>4
  <2> QED BY <2>1, <2>5, <2>6
<1>3. ASSUME NEW s \in Servers, Settle(s)
      PROVE  triggered' = (Settled' + Out') % CounterWrap
  <2>1. Ends(s)
    BY <1>3 DEF Settle, ProbeError, ProbeBadStatus, ProbeAnswered
  <2>2. Out >= 1 /\ Out' = Out - 1 /\ triggered' = triggered
    <3>1. /\ inflight[s] \in Nat /\ inflight[s] - 1 \in Int
          /\ inflight' = [inflight EXCEPT ![s] = inflight[s] - 1]
      BY <2>1 DEF Ends, TypeOK
    <3>2. Out' = Out - inflight[s] + (inflight[s] - 1)
      BY <3>1, OutAfter
    <3>3. Out >= 1
      BY <1>0, <3>1, <3>2, <2>1 DEF Ends
    <3> QED BY <1>0, <2>1, <3>1, <3>2, <3>3 DEF Ends
  <2>3. \E a, b \in Nat : Settled = a + b /\ Settled' = Inc(a) + b
    <3>1. succeeded \in Nat /\ failedError \in Nat /\ failedHTTP \in Nat
      BY ConstantsOfProbing DEF TypeOK
    <3>2. /\ Inc(succeeded) \in Nat /\ Inc(failedError) \in Nat /\ Inc(failedHTTP) \in Nat
      BY <3>1, IncType, ConstantsOfProbing
    <3>3. \/ succeeded' = Inc(succeeded) /\ failedError' = failedError /\ failedHTTP' = failedHTTP
          \/ succeeded' = succeeded /\ failedError' = Inc(failedError) /\ failedHTTP' = failedHTTP
          \/ succeeded' = succeeded /\ failedError' = failedError /\ failedHTTP' = Inc(failedHTTP)
      BY <1>3 DEF Settle, ProbeError, ProbeBadStatus, ProbeAnswered
    <3>4. CASE succeeded' = Inc(succeeded) /\ failedError' = failedError /\ failedHTTP' = failedHTTP
      <4>1. /\ failedError + failedHTTP \in Nat
            /\ Settled = succeeded + (failedError + failedHTTP)
            /\ Settled' = Inc(succeeded) + (failedError + failedHTTP)
        BY <3>1, <3>2, <3>4 DEF Settled
      <4> QED BY <3>1, <4>1
    <3>5. CASE succeeded' = succeeded /\ failedError' = Inc(failedError) /\ failedHTTP' = failedHTTP
      <4>1. /\ succeeded + failedHTTP \in Nat
            /\ Settled = failedError + (succeeded + failedHTTP)
            /\ Settled' = Inc(failedError) + (succeeded + failedHTTP)
        BY <3>1, <3>2, <3>5 DEF Settled
      <4> QED BY <3>1, <4>1
    <3>6. CASE succeeded' = succeeded /\ failedError' = failedError /\ failedHTTP' = Inc(failedHTTP)
      <4>1. /\ succeeded + failedError \in Nat
            /\ Settled = failedHTTP + (succeeded + failedError)
            /\ Settled' = Inc(failedHTTP) + (succeeded + failedError)
        BY <3>1, <3>2, <3>6 DEF Settled
      <4> QED BY <3>1, <4>1
    <3> QED BY <3>3, <3>4, <3>5, <3>6
  <2>4. PICK a, b \in Nat : Settled = a + b /\ Settled' = Inc(a) + b
    BY <2>3
  <2>5. (((a + 1) % CounterWrap) + (b + Out')) % CounterWrap = ((a + 1) + (b + Out')) % CounterWrap
    <3>1. a + 1 \in Nat
      OBVIOUS
    <3>3. Out' \in Nat /\ b \in Nat
      BY <1>0
    <3>4. \A n \in Nat : b + n \in Nat
      OBVIOUS
    <3>2. b + Out' \in Nat
      BY <3>3, <3>4
    <3> QED BY <1>0, <3>1, <3>2, RemainderAdds
  <2>6. (a + 1) % CounterWrap \in Nat
    BY <1>0
  <2>7. Settled' + Out' = ((a + 1) % CounterWrap) + (b + Out') /\ Settled + Out = (a + 1) + (b + Out')
    BY <1>0, <2>2, <2>4, <2>6 DEF Inc
  <2> QED BY <2>2, <2>5, <2>7
<1> QED
  BY <1>1, <1>2, <1>3 DEF Next, Tick, Fire, IdleTick, IdleBurst, TickerTick, TickerBurst, Stop, LoopReturns, AddServer,
     QueryArrives, vars

(* Whichever goroutine triggers them and however they end, every probe is  *)
(* in flight or counted once, also when the counters have wrapped.         *)
THEOREM EveryProbeAccounted == Spec => []ProbesAccounted
<1> DEFINE Acc == triggered = (Settled + Out) % CounterWrap
<1>1. Init => Acc
  <2> SUFFICES ASSUME Init PROVE Acc
    OBVIOUS
  <2>1. inflight \in [Servers -> Int] /\ IsFiniteSet(Servers) /\ \A s \in Servers : inflight[s] = 0
    BY ProbingAssumption DEF Init, ProbingAssumption
  <2>2. Out = 0
    BY <2>1, TotalZero DEF Out
  <2> QED BY <2>2, ConstantsOfProbing DEF Init, Settled
<1>2. TypeOK /\ TypeOK' /\ Acc /\ [Next]_vars => Acc'
  BY AccountedStep
<1>3. Acc => ProbesAccounted
  BY DEF ProbesAccounted, Out, Settled, Total
<1> QED BY <1>1, <1>2, <1>3, ProbingTypes, PTL DEF Spec

-----------------------------------------------------------------------------
(* The invariant behind the ticker's coverage and the idle floor.          *)

Pending == \E c \in Callers : targets[c] # {}

(* The histories, the stamp and the ticker are not ahead of the clock,     *)
(* and only registered servers are probed.                                 *)
Clocks ==
  /\ lastProbe <= now
  /\ \A s \in Servers : probedAt[s] <= now /\ addedAt[s] <= now
  /\ \A s \in servers : addedAt[s] >= 0
  /\ \A c \in Callers : targets[c] \subseteq servers
  /\ loop # "done" =>
       /\ now <= nextTick /\ nextTick <= now + Period
       /\ tickAt # NoTick => tickAt <= now /\ now <= tickAt + MaxLate

(* When the tick fired, or will fire, that the loop receives next.         *)
Due == IF tickAt # NoTick THEN tickAt ELSE nextTick

(* In the ticker mode the servers not probed since the tick before the     *)
(* next one, nor about to be, are no more than those registered since: the *)
(* loop missed only as many as main registered after the loop had counted. *)
Missed == {s \in servers : Ref(s) < Due - Period /\ s \notin targets[Loop]}
Since == {s \in servers : addedAt[s] >= Due - Period}
Older == {s \in servers : addedAt[s] # now}

Covered ==
  mode = "ticker" /\ loop # "done" =>
    /\ loop = "burst" => Cardinality(Older) <= counted
    /\ loop = "select" => Cardinality(Missed) <= Cardinality(Since)
    /\ Cardinality(Overdue) <= Cardinality(New)

(* In the per-query mode the last stamp belongs to a probe sent or about   *)
(* to be sent, and unless a burst begins some server has been probed less  *)
(* than maxIdle before the last look at the stamp.                         *)
Floor ==
  mode = "per_query" /\ loop # "done" /\ servers # {} =>
    /\ Pending \/ \E s \in servers : Ref(s) >= lastProbe
    /\ Pending \/ loop = "burst" \/ \E s \in servers : Ref(s) >= Due - Period - MaxIdle + 1
    /\ \E s \in servers : now - Ref(s) < MaxIdle + Period + MaxLate

(* A burst begins when no probe has been sent for maxIdle.                 *)
Quiet ==
  /\ \A s \in Servers : probedAt[s] <= lastProbe
  /\ Pending => lastProbe = now
  /\ mode = "per_query" /\ loop = "burst" =>
       \A s \in Servers : probedAt[s] = now \/ now - probedAt[s] >= MaxIdle

LEMMA TypesOfClocks ==
  ASSUME TypeOK
  PROVE  /\ now \in Nat /\ nextTick \in Nat /\ lastProbe \in Int
         /\ tickAt # NoTick => tickAt \in Nat
         /\ tickAt \in Int /\ Due \in Int
         /\ \A s \in Servers : probedAt[s] \in Int /\ addedAt[s] \in Int /\ Ref(s) \in Int
BY ConstantsOfProbing DEF TypeOK, Due, NoTick, Ref

LEMMA ClocksInit == Init => Clocks
BY ConstantsOfProbing DEF Init, Clocks, NoTick

LEMMA ClocksStep ==
  ASSUME TypeOK, Clocks, [Next]_vars
  PROVE  Clocks'
<1> USE TypesOfClocks, ConstantsOfProbing
<1>1. CASE Tick
  BY <1>1 DEF Tick, Clocks
<1>2. CASE Fire
  BY <1>2 DEF Fire, Clocks
<1>3. CASE IdleTick
  BY <1>3 DEF IdleTick, Clocks
<1>4. ASSUME NEW c \in Callers, Triggers(c),
             UNCHANGED <<now, servers, nextTick, probedAt, addedAt>>,
             loop' # "done" => loop # "done",
             tickAt' = tickAt \/ tickAt' = NoTick
      PROVE  Clocks'
  BY <1>4 DEF Triggers, Clocks, TypeOK
<1>5. CASE IdleBurst
  <2>1. CASE UNCHANGED <<lastProbe, targets>>
    BY <1>5, <2>1 DEF IdleBurst, Clocks
  <2>2. CASE Triggers(Loop)
    BY <1>5, <2>2, <1>4 DEF IdleBurst
  <2> QED BY <1>5, <2>1, <2>2, IdleBurstEffect
<1>6a. CASE TickerTick
  BY <1>6a DEF TickerTick, Clocks
<1>6b. CASE TickerBurst
  <2>1. CASE UNCHANGED <<lastProbe, targets>>
    BY <1>6b, <2>1 DEF TickerBurst, Clocks
  <2>2. CASE Triggers(Loop)
    BY <1>6b, <2>2, <1>4 DEF TickerBurst
  <2> QED BY <1>6b, <2>1, <2>2, TickerBurstEffect
<1>7. CASE Stop
  BY <1>7 DEF Stop, Clocks
<1>8. CASE LoopReturns
  BY <1>8 DEF LoopReturns, Clocks
<1>9. ASSUME NEW s \in Servers, AddServer(s) PROVE Clocks'
  BY <1>9 DEF AddServer, Clocks, TypeOK
<1>10. ASSUME NEW s \in Servers, Settle(s) PROVE Clocks'
  BY <1>10 DEF Settle, ProbeError, ProbeBadStatus, ProbeAnswered, Ends, Clocks
<1>11. ASSUME NEW q \in Queries, QueryArrives(q) PROVE Clocks'
  <2>1. CASE UNCHANGED <<lastProbe, targets>>
    BY <1>11, <2>1 DEF QueryArrives, Clocks
  <2>2. CASE Triggers(q)
    BY <1>11, <2>2, <1>4 DEF QueryArrives, Clocks
  <2> QED BY <1>11, <2>1, <2>2, QueryEffect
<1>12. ASSUME NEW c \in Callers, Launch(c) PROVE Clocks'
  BY <1>12 DEF Launch, Clocks, TypeOK
<1>13. CASE UNCHANGED vars
  BY <1>13 DEF vars, Clocks
<1> QED
  BY <1>1, <1>2, <1>3, <1>5, <1>6a, <1>6b, <1>7, <1>8, <1>9, <1>10, <1>11, <1>12, <1>13 DEF Next

-----------------------------------------------------------------------------
(* Ref only grows, and does so to the present.                             *)
LEMMA RefGrows ==
  ASSUME TypeOK, Clocks, [Next]_vars, NEW s \in Servers
  PROVE  Ref(s)' = Ref(s) \/ Ref(s)' = now
<1> USE TypesOfClocks
<1>1. CASE UNCHANGED <<probedAt, addedAt>>
  BY <1>1 DEF Ref
<1>2. ASSUME NEW t \in Servers, AddServer(t) PROVE Ref(s)' = Ref(s) \/ Ref(s)' = now
  BY <1>2 DEF AddServer, Clocks, TypeOK, Ref
<1>3. ASSUME NEW c \in Callers, Launch(c) PROVE Ref(s)' = Ref(s) \/ Ref(s)' = now
  BY <1>3 DEF Launch, Clocks, TypeOK, Ref
<1> QED
  BY <1>1, <1>2, <1>3 DEF Next, Tick, Fire, IdleTick, IdleBurst, TickerTick, TickerBurst, Stop, LoopReturns, Settle,
     ProbeError, ProbeBadStatus, ProbeAnswered, Ends, QueryArrives, vars

LEMMA RefBelowNow ==
  ASSUME TypeOK, Clocks, NEW s \in Servers
  PROVE  Ref(s) <= now
BY TypesOfClocks DEF Clocks, Ref

(* A server is probed, or registered, now.                                 *)
LEMMA Refreshed ==
  ASSUME TypeOK, Clocks, NEW s \in Servers
  PROVE  /\ AddServer(s) => Ref(s)' = now
         /\ probedAt' = [probedAt EXCEPT ![s] = now] /\ UNCHANGED addedAt => Ref(s)' = now
BY TypesOfClocks DEF AddServer, Clocks, TypeOK, Ref

(* The bound on the one set is kept when that set shrinks and the other    *)
(* grows.                                                                  *)
LEMMA FewerThanMore ==
  ASSUME NEW A \in SUBSET Servers, NEW B \in SUBSET Servers,
         NEW C \in SUBSET A, NEW D \in SUBSET Servers, B \subseteq D,
         Cardinality(A) <= Cardinality(B)
  PROVE  Cardinality(C) <= Cardinality(D)
<1>1. /\ IsFiniteSet(A) /\ IsFiniteSet(D)
      /\ {Cardinality(A), Cardinality(B), Cardinality(C), Cardinality(D)} \subseteq Nat
  BY ServersCounted
<1>2. Cardinality(C) <= Cardinality(A) /\ Cardinality(B) <= Cardinality(D)
  BY <1>1, FS_Subset
<1> QED BY <1>1, <1>2

(* What the burst leaves out is no more than what was registered now.      *)
LEMMA LeftOut ==
  ASSUME NEW S \in SUBSET Servers, NEW T \in SUBSET S, NEW old \in SUBSET S, NEW n \in Nat,
         Cardinality(old) <= n,
         Cardinality(T) = IF n <= Cardinality(S) THEN n ELSE Cardinality(S)
  PROVE  Cardinality(S \ T) <= Cardinality(S \ old)
<1>1. IsFiniteSet(S)
  BY ServersCounted
<1>2. /\ {Cardinality(S), Cardinality(T), Cardinality(old)} \subseteq Nat
      /\ Cardinality(old) <= Cardinality(S)
  BY <1>1, ServersCounted, FS_Subset
<1>3. S \cap T = T /\ S \cap old = old
  OBVIOUS
<1>4. /\ Cardinality(S \ T) = Cardinality(S) - Cardinality(T)
      /\ Cardinality(S \ old) = Cardinality(S) - Cardinality(old)
  <2>1. \A X : Cardinality(S \ X) = Cardinality(S) - Cardinality(S \cap X)
    BY <1>1, FS_Difference
  <2> QED BY <1>3, <2>1
<1> QED BY <1>2, <1>3, <1>4

LEMMA CoveredStep ==
  ASSUME TypeOK, Clocks, Covered, [Next]_vars
  PROVE  Covered'
<1> USE TypesOfClocks, ConstantsOfProbing
<1> SUFFICES ASSUME mode' = "ticker", loop' # "done" PROVE Covered'
  BY DEF Covered
<1>0. /\ mode = "ticker" /\ loop # "done" /\ loop \in {"select", "burst"}
      /\ servers \in SUBSET Servers /\ servers' \in SUBSET Servers /\ servers \subseteq servers'
  <2>1. /\ mode' = mode /\ servers' \in SUBSET Servers /\ servers \subseteq servers'
        /\ loop' # "done" => loop # "done"
    BY DEF Next, Tick, Fire, IdleTick, IdleBurst, TickerTick, TickerBurst, Stop, LoopReturns,
       AddServer, Settle, ProbeError, ProbeBadStatus, ProbeAnswered, Ends, QueryArrives, Launch, vars,
       TypeOK
  <2> QED BY <2>1 DEF TypeOK
<1>1. /\ loop = "burst" => Cardinality(Older) <= counted
      /\ loop = "select" => Cardinality(Missed) <= Cardinality(Since)
      /\ Cardinality(Overdue) <= Cardinality(New)
  BY <1>0 DEF Covered
<1>2. \A s \in Servers : Ref(s)' = Ref(s) \/ Ref(s)' = now
  BY RefGrows
<1>3. Due - Period <= now /\ \A s \in Servers : Ref(s) <= now
  BY <1>0, RefBelowNow DEF Clocks, Due
<1>4. /\ Missed \in SUBSET Servers /\ Since \in SUBSET Servers /\ Older \in SUBSET Servers
      /\ Overdue \in SUBSET Servers /\ New \in SUBSET Servers
      /\ Since' \in SUBSET Servers /\ New' \in SUBSET Servers
  BY <1>0 DEF Missed, Since, Older, Overdue, New
<1>5. \A s \in Servers : Unprobed(s) = now - Ref(s) /\ Unprobed(s)' = now' - Ref(s)'
  BY DEF Unprobed, Ref
<1>6. ASSUME UNCHANGED now, \A s \in servers' \ servers : Ref(s)' = now,
             \A s \in servers : addedAt'[s] = addedAt[s]
      PROVE  Cardinality(Overdue') <= Cardinality(New')
  <2>1. Overdue' \in SUBSET Overdue
    BY <1>0, <1>2, <1>5, <1>6 DEF Overdue
  <2>2. New \subseteq New'
    BY <1>0, <1>6 DEF New
  <2> QED BY <1>1, <1>4, <2>1, <2>2, FewerThanMore
<1>7. ASSUME UNCHANGED <<now, loop, nextTick, tickAt, counted>>,
             \A s \in servers' \ servers : Ref(s)' = now /\ addedAt'[s] = now,
             \A s \in servers : addedAt'[s] = addedAt[s],
             \A s \in servers : s \in targets[Loop] => s \in targets'[Loop] \/ Ref(s)' = now
      PROVE  Covered'
  <2>1. UNCHANGED Due
    BY <1>7 DEF Due
  <2>2. Missed' \in SUBSET Missed /\ Since \subseteq Since'
    BY <1>0, <1>2, <1>3, <1>7, <2>1 DEF Missed, Since
  <2>3. Older' = Older
    BY <1>0, <1>7 DEF Older
  <2>4. Cardinality(Missed) <= Cardinality(Since) => Cardinality(Missed') <= Cardinality(Since')
    BY <1>4, <2>2, FewerThanMore
  <2>5. Cardinality(Overdue') <= Cardinality(New')
    BY <1>6, <1>7
  <2> QED BY <1>1, <1>7, <2>3, <2>4, <2>5 DEF Covered
<1>8. CASE Tick
  <2>1. /\ UNCHANGED <<servers, loop, nextTick, tickAt, targets, probedAt, addedAt>>
        /\ now' = now + 1 /\ loop = "select" /\ targets[Loop] = {}
    BY <1>0, <1>8 DEF Tick
  <2>2. Due' = Due /\ now + 1 - Due <= MaxLate
    BY <1>0, <1>8, <2>1 DEF Tick, Due
  <2>3. Missed' = Missed /\ Since' = Since
    BY <2>1, <2>2 DEF Missed, Since, Ref
  <2>4. \A s \in Servers : Ref(s)' = Ref(s)
    BY <2>1 DEF Ref
  <2>5. Overdue' \in SUBSET Missed
    BY <1>0, <1>5, <2>1, <2>2, <2>4 DEF Overdue, Missed
  <2>6. Since \subseteq New'
    BY <1>0, <2>1, <2>2 DEF Since, New
  <2>7. Cardinality(Overdue') <= Cardinality(New')
    BY <1>1, <1>4, <2>1, <2>5, <2>6, FewerThanMore
  <2> QED BY <1>1, <2>1, <2>3, <2>7 DEF Covered
<1>9. CASE Fire
  <2>1. UNCHANGED <<now, servers, loop, counted, targets, probedAt, addedAt>> /\ Due' = Due
    BY <1>9 DEF Fire, Due, NoTick
  <2>2. Missed' = Missed /\ Since' = Since /\ Older' = Older
    BY <2>1 DEF Missed, Since, Older, Ref
  <2>3. Cardinality(Overdue') <= Cardinality(New')
    BY <1>6, <2>1
  <2> QED BY <1>1, <2>1, <2>2, <2>3 DEF Covered
<1>10. CASE TickerTick
  <2>1. UNCHANGED <<now, servers, addedAt>> /\ loop' = "burst" /\ counted' = Cardinality(servers)
    BY <1>10 DEF TickerTick
  <2>2. Older' \in SUBSET servers
    BY <2>1 DEF Older
  <2>3. Cardinality(Older') <= Cardinality(servers)
    <3>1. IsFiniteSet(servers)
      BY <1>0, ServersCounted
    <3> QED BY <2>2, <3>1, FS_Subset
  <2>4. Cardinality(Overdue') <= Cardinality(New')
    BY <1>6, <2>1
  <2> QED BY <2>1, <2>3, <2>4 DEF Covered
<1>11. CASE TickerBurst
  <2>1. UNCHANGED <<now, servers, nextTick, tickAt, probedAt, addedAt>> /\ loop = "burst" /\ loop' = "select"
    BY <1>11 DEF TickerBurst
  <2>2. Due' = Due /\ \A s \in Servers : Ref(s)' = Ref(s)
    BY <2>1 DEF Due, Ref
  <2>3. Missed' \in SUBSET (servers \ targets'[Loop])
    BY <2>1 DEF Missed
  <2>4. servers \ Older \in SUBSET Since'
    BY <1>3, <2>1, <2>2 DEF Since, Older
  <2>5. Cardinality(servers \ targets'[Loop]) <= Cardinality(servers \ Older)
    <3>1. CASE servers = {}
      <4>1. servers \ targets'[Loop] = {} /\ servers \ Older = {}
        BY <3>1
      <4>2. 0 <= 0 /\ Cardinality({}) = 0
        BY FS_EmptySet
      <4> QED BY <4>1, <4>2
    <3>2. CASE servers # {}
      <4>1. /\ Triggers(Loop)
            /\ Cardinality(targets'[Loop]) =
                 IF counted <= Cardinality(servers) THEN counted ELSE Cardinality(servers)
        BY <1>11, <3>2, TickerBurstEffect
      <4>2. targets'[Loop] \in SUBSET servers
        BY <4>1 DEF Triggers, TypeOK
      <4>3. counted \in Nat /\ Older \in SUBSET servers
        BY ServersCounted DEF TypeOK, Older
      <4> QED BY <1>0, <1>1, <2>1, <4>1, <4>2, <4>3, LeftOut
    <3> QED BY <3>1, <3>2
  <2>6. Cardinality(Missed') <= Cardinality(Since')
    <3>1. servers \ targets'[Loop] \in SUBSET Servers /\ servers \ Older \in SUBSET Servers
      BY <1>0
    <3> QED BY <1>4, <2>3, <2>4, <2>5, <3>1, FewerThanMore
  <2>7. Cardinality(Overdue') <= Cardinality(New')
    BY <1>6, <2>1
  <2> QED BY <2>1, <2>6, <2>7 DEF Covered
<1>12. ASSUME NEW t \in Servers, AddServer(t) PROVE Covered'
  BY <1>0, <1>7, <1>12, Refreshed DEF AddServer, TypeOK
<1>13. ASSUME NEW c \in Callers, Launch(c) PROVE Covered'
  <2>1. PICK t \in targets[c] : /\ targets' = [targets EXCEPT ![c] = @ \ {t}]
                                /\ probedAt' = [probedAt EXCEPT ![t] = now]
                                /\ UNCHANGED addedAt
    BY <1>13 DEF Launch
  <2>2. t \in Servers /\ Ref(t)' = now
    BY <2>1, Refreshed DEF TypeOK
  <2>3. \A s \in servers : s \in targets[Loop] => s \in targets'[Loop] \/ Ref(s)' = now
    BY <2>1, <2>2 DEF TypeOK
  <2>4. UNCHANGED <<now, servers, loop, nextTick, tickAt, counted>>
    BY <1>13 DEF Launch
  <2> QED BY <1>7, <2>1, <2>3, <2>4
<1>14. CASE UNCHANGED <<now, servers, loop, nextTick, tickAt, counted, targets, probedAt, addedAt>>
  BY <1>7, <1>14
<1>15. ASSUME NEW q \in Queries, QueryArrives(q) PROVE FALSE
  BY <1>0, <1>15 DEF QueryArrives
<1>16. ~ IdleTick /\ ~ IdleBurst
  BY <1>0 DEF IdleTick, IdleBurst
<1>17. ~ LoopReturns
  BY <1>0 DEF LoopReturns
<1> QED
  BY <1>8, <1>9, <1>10, <1>11, <1>12, <1>13, <1>14, <1>15, <1>16, <1>17
  DEF Next, Stop, Settle, ProbeError, ProbeBadStatus, ProbeAnswered, Ends, vars

(* A burst that sends at least one probe keeps the floor.                  *)
LEMMA FloorStep ==
  ASSUME RProbe >= RateDen, TypeOK, Clocks, Floor, [Next]_vars
  PROVE  Floor'
<1> USE TypesOfClocks, ConstantsOfProbing
<1> SUFFICES ASSUME mode' = "per_query", loop' # "done", servers' # {} PROVE Floor'
  BY DEF Floor
<1> DEFINE A == \E s \in servers : Ref(s) >= lastProbe
           B == \E s \in servers : Ref(s) >= Due - Period - MaxIdle + 1
           D == \E s \in servers : now - Ref(s) < MaxIdle + Period + MaxLate
           Goal == (Pending \/ A)' /\ (Pending \/ loop = "burst" \/ B)' /\ D'
<1>0. mode = "per_query" /\ loop # "done" /\ servers \subseteq Servers
  BY DEF Next, Tick, Fire, IdleTick, IdleBurst, TickerTick, TickerBurst, Stop, LoopReturns, AddServer, Settle,
     ProbeError, ProbeBadStatus, ProbeAnswered, Ends, QueryArrives, Launch, vars, TypeOK
<1>1. servers # {} => (Pending \/ A) /\ (Pending \/ loop = "burst" \/ B) /\ D
  BY <1>0 DEF Floor
<1>2. Due - Period <= now /\ lastProbe <= now
  BY <1>0 DEF Clocks, Due
<1> SUFFICES Goal
  BY DEF Floor
<1>3. ASSUME servers # {}, UNCHANGED <<now, servers, probedAt, addedAt>>
      PROVE  D' /\ (lastProbe' = lastProbe => A' = A) /\ (Due' = Due => B' = B)
  BY <1>1, <1>3 DEF Ref
<1>4. CASE Tick
  <2>1. /\ UNCHANGED <<servers, probedAt, addedAt, lastProbe, loop, targets>> /\ now' = now + 1
        /\ ~Pending /\ loop # "burst" /\ servers # {} /\ Due' = Due
    BY <1>4 DEF Tick, Pending, Due
  <2>2. now + 1 - Due <= MaxLate
    BY <1>0, <1>4 DEF Tick, Due
  <2>3. PICK s \in servers : Ref(s) >= Due - Period - MaxIdle + 1
    BY <1>1, <2>1
  <2>4. s \in Servers /\ Ref(s)' = Ref(s) /\ s \in servers'
    BY <1>0, <2>1 DEF Ref
  <2>5. now' - Ref(s)' < MaxIdle + Period + MaxLate
    BY <2>1, <2>2, <2>3, <2>4
  <2>6. A' /\ B'
    BY <1>1, <2>1 DEF Ref
  <2> QED BY <2>4, <2>5, <2>6
<1>5. CASE Fire
  <2>1. UNCHANGED <<now, servers, probedAt, addedAt, lastProbe, loop, targets>> /\ Due' = Due
    BY <1>5 DEF Fire, Due, NoTick
  <2> QED BY <1>1, <1>3, <2>1 DEF Pending
<1>6. CASE IdleTick
  <2>1. UNCHANGED <<now, servers, probedAt, addedAt, lastProbe, targets>> /\ Due' = nextTick
    BY <1>6 DEF IdleTick, Due
  <2>2. CASE Idle
    BY <1>1, <1>3, <1>6, <2>1, <2>2 DEF IdleTick, Pending
  <2>3. CASE ~Idle
    <3>1. now - lastProbe < MaxIdle
      BY <2>3
    <3>2. nextTick <= now + Period
      BY <1>0 DEF Clocks
    <3>3. ASSUME A PROVE B'
      <4>1. PICK s \in servers : Ref(s) >= lastProbe
        BY <3>3
      <4>2. s \in servers' /\ s \in Servers /\ Ref(s)' = Ref(s)
        BY <1>0, <2>1 DEF Ref
      <4> QED BY <2>1, <3>1, <3>2, <4>1, <4>2
    <3> QED BY <1>1, <1>3, <2>1, <3>3 DEF Pending
  <2> QED BY <2>2, <2>3
<1>7. ASSUME NEW c \in Callers, Triggers(c), targets'[c] # {},
             UNCHANGED <<now, servers, probedAt, addedAt>>
      PROVE  Goal
  BY <1>3, <1>7 DEF Pending, Triggers
<1>8. CASE IdleBurst
  <2>1. UNCHANGED <<now, servers, probedAt, addedAt>>
    BY <1>8 DEF IdleBurst
  <2> QED BY <1>7, <1>8, <2>1, IdleBurstEffect
<1>9. ~ TickerTick /\ ~ TickerBurst
  BY <1>0 DEF TickerTick, TickerBurst
<1>10. ASSUME NEW q \in Queries, QueryArrives(q) PROVE Goal
  <2>1. UNCHANGED <<now, servers, probedAt, addedAt, nextTick, tickAt, loop>>
    BY <1>10 DEF QueryArrives
  <2>2. CASE UNCHANGED <<lastProbe, targets>>
    BY <1>1, <1>3, <2>1, <2>2 DEF Pending, Due
  <2> QED BY <1>7, <1>10, <2>1, <2>2, QueryEffect
<1>11. ASSUME NEW s \in servers', s \in Servers, Ref(s)' = now,
              UNCHANGED <<now, lastProbe>>, Due' = Due
       PROVE  Goal
  <2>1. Ref(s)' >= lastProbe' /\ Ref(s)' >= Due' - Period - MaxIdle + 1
    BY <1>2, <1>11
  <2>2. now' - Ref(s)' < MaxIdle + Period + MaxLate
    BY <1>11
  <2> QED BY <1>11, <2>1, <2>2
<1>12. ASSUME NEW s \in Servers, AddServer(s) PROVE Goal
  <2>1. s \in servers' /\ UNCHANGED <<now, lastProbe>> /\ Due' = Due
    BY <1>12 DEF AddServer, Due
  <2>2. Ref(s)' = now
    BY <1>12, Refreshed
  <2> QED BY <1>11, <2>1, <2>2
<1>13. ASSUME NEW c \in Callers, Launch(c) PROVE Goal
  <2>1. PICK s \in targets[c] : probedAt' = [probedAt EXCEPT ![s] = now] /\ UNCHANGED addedAt
    BY <1>13 DEF Launch
  <2>2. UNCHANGED <<now, lastProbe, servers>> /\ Due' = Due
    BY <1>13 DEF Launch, Due
  <2>3. s \in servers' /\ s \in Servers
    BY <1>0, <2>1, <2>2 DEF Clocks
  <2>4. Ref(s)' = now
    BY <2>1, <2>3, Refreshed
  <2> QED BY <1>11, <2>2, <2>3, <2>4
<1>14. CASE UNCHANGED <<now, servers, probedAt, addedAt, lastProbe, targets, loop, nextTick, tickAt>>
  BY <1>1, <1>3, <1>14 DEF Pending, Due
<1>15. ~ LoopReturns
  BY <1>0 DEF LoopReturns
<1> QED
  BY <1>4, <1>5, <1>6, <1>8, <1>9, <1>10, <1>12, <1>13, <1>14, <1>15
  DEF Next, Stop, Settle, ProbeError, ProbeBadStatus, ProbeAnswered, Ends, vars

LEMMA QuietStep ==
  ASSUME TypeOK, Clocks, Quiet, [Next]_vars
  PROVE  Quiet'
<1> USE TypesOfClocks, ConstantsOfProbing
<1>1. CASE Tick
  BY <1>1 DEF Tick, Quiet, Pending
<1>2. CASE UNCHANGED <<now, mode, lastProbe, targets, probedAt, loop>>
  BY <1>2 DEF Quiet, Pending
<1>3. CASE IdleTick
  BY <1>3 DEF IdleTick, Quiet, Pending
<1>4. ASSUME NEW c \in Callers, Triggers(c), UNCHANGED <<now, mode, probedAt>>,
             loop' = "burst" => loop = "burst"
      PROVE  Quiet'
  BY <1>4 DEF Triggers, Quiet, Clocks
<1>5. ASSUME UNCHANGED <<now, mode, lastProbe, targets, probedAt>>,
             mode = "per_query" /\ loop' = "burst" => loop = "burst"
      PROVE  Quiet'
  BY <1>5 DEF Quiet, Pending
<1>6. CASE IdleBurst
  BY <1>4, <1>5, <1>6, IdleBurstEffect DEF IdleBurst
<1>7a. CASE TickerTick
  BY <1>5, <1>7a DEF TickerTick
<1>7b. CASE TickerBurst
  BY <1>4, <1>5, <1>7b, TickerBurstEffect DEF TickerBurst
<1>8. CASE LoopReturns
  BY <1>5, <1>8 DEF LoopReturns
<1>9. ASSUME NEW q \in Queries, QueryArrives(q) PROVE Quiet'
  BY <1>4, <1>5, <1>9, QueryEffect DEF QueryArrives
<1>10. ASSUME NEW c \in Callers, Launch(c) PROVE Quiet'
  BY <1>10 DEF Launch, Quiet, Pending, TypeOK, Clocks
<1> QED
  BY <1>1, <1>2, <1>3, <1>6, <1>7a, <1>7b, <1>8, <1>9, <1>10
  DEF Next, Fire, Stop, AddServer, Settle, ProbeError, ProbeBadStatus, ProbeAnswered, Ends, vars

-----------------------------------------------------------------------------
(* The theorems                                                            *)

LEMMA ClocksHold == Spec => [](TypeOK /\ Clocks)
<1>1. TypeOK /\ TypeOK' /\ Clocks /\ [Next]_vars => Clocks'
  BY ClocksStep
<1> QED BY <1>1, ClocksInit, ProbingTypes, PTL DEF Spec

(* In the ticker mode no more servers are left unprobed for longer than a  *)
(* period and the lateness of a tick than main registered within that time:*)
(* a server that the burst misses, because it was counted too early, is    *)
(* paid for by one that was registered meanwhile.                          *)
THEOREM TickerCoversServers == Spec => []TickerCovers
<1>1. Init => Covered
  <2> SUFFICES ASSUME Init PROVE Covered
    OBVIOUS
  <2>1. Missed = {} /\ Since = {} /\ Overdue = {} /\ New = {} /\ loop = "select"
    BY DEF Init, Missed, Since, Overdue, New
  <2> QED BY <2>1, FS_EmptySet DEF Covered
<1>2. TypeOK /\ Clocks /\ Covered /\ [Next]_vars => Covered'
  BY CoveredStep
<1>3. Covered => TickerCovers
  BY DEF Covered, TickerCovers, Running
<1> QED BY <1>1, <1>2, <1>3, ClocksHold, PTL DEF Spec

(* With config.RProbe of one at least, some server is always probed within *)
(* one and a half times maxIdle of the last probe.                         *)
THEOREM IdleFloorHolds ==
  ASSUME RProbe >= RateDen
  PROVE  Spec => []FloorHolds
<1>1. Init => Floor
  BY DEF Init, Floor
<1>2. TypeOK /\ Clocks /\ Floor /\ [Next]_vars => Floor'
  BY FloorStep
<1>3. Floor => FloorHolds
  BY DEF Floor, FloorHolds, Running, Unprobed, Ref
<1> QED BY <1>1, <1>2, <1>3, ClocksHold, PTL DEF Spec

(* The idle floor only fills in.                                           *)
THEOREM IdleFillsIn == Spec => IdleOnly
<1>1. Init => Quiet
  BY TypesOfClocks, ConstantsOfProbing DEF Init, Quiet, Pending
<1>2. TypeOK /\ Clocks /\ Quiet /\ [Next]_vars => Quiet'
  BY QuietStep
<1>3. TypeOK /\ Quiet /\ [Next]_vars =>
        [targets[Loop] = {} /\ targets'[Loop] # {} /\ mode = "per_query" =>
           \A s \in Servers : probedAt[s] = now \/ now - probedAt[s] >= MaxIdle]_vars
  <2> SUFFICES ASSUME TypeOK, Quiet, [Next]_vars, targets[Loop] = {}, targets'[Loop] # {},
                      mode = "per_query"
               PROVE  loop = "burst"
    BY DEF Quiet
  <2>1. ASSUME NEW q \in Queries, QueryArrives(q) PROVE FALSE
    BY <2>1, QueryEffect, ConstantsOfProbing DEF Triggers, TypeOK
  <2>2. ASSUME NEW c \in Callers, Launch(c) PROVE FALSE
    BY <2>2, ConstantsOfProbing DEF Launch, TypeOK
  <2> QED
    BY <2>1, <2>2 DEF Next, Tick, Fire, IdleTick, IdleBurst, TickerTick, TickerBurst, Stop, LoopReturns, AddServer,
       Settle, ProbeError, ProbeBadStatus, ProbeAnswered, Ends, vars
<1> QED BY <1>1, <1>2, <1>3, ClocksHold, PTL DEF Spec, IdleOnly

(* However many requests are in flight, one more never makes a query       *)
(* trigger more probes.                                                    *)
THEOREM ProbesFallWithLoad == Spec => []QueryProbesFall
<1>1. QueryProbesFall
  <2> SUFFICES ASSUME NEW f \in 0 .. MaxForwards - 1, NEW count \in QueryProbes(f + 1)
               PROVE  /\ \E more \in QueryProbes(f) : count <= more
                      /\ (count + 1) * RateDen > LeastRate /\ (count - 1) * RateDen < RProbe
    BY DEF QueryProbesFall
  <2>1. f \in Nat
    BY ProbingAssumption DEF ProbingAssumption
  <2> QED BY <2>1, QueryProbesFallWith
<1> QED BY <1>1, PTL

=============================================================================
