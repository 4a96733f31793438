------------------------------ MODULE ProbeRate ------------------------------
(***************************************************************************)
(* The two rates that pkg/loadbalancer/balancer.go computes from its       *)
(* configuration: how many probes a query triggers (effectiveRProbe and    *)
(* onQueryArrival) and how often a probe result may be used                *)
(* (computeBReuse).  The code computes with floats; here a rate is a       *)
(* fraction of integers, and the random rounding of a fraction is the set  *)
(* of the values it may give.                                              *)
(***************************************************************************)
EXTENDS Integers

CONSTANTS
  RateDen,          \* denominator of the rates below
  RProbe,           \* config.RProbe    = RProbe / RateDen
  RProbeMin,        \* config.RProbeMin = RProbeMin / RateDen
  RRemove,          \* config.RRemove   = RRemove / RateDen
  Delta,            \* config.Delta     = Delta / RateDen
  MaxReusePool,     \* config.MaxReusePool
  AdaptiveProbe,    \* config.AdaptiveProbe
  LoadLow, LoadHigh \* config.ProbeLoadLow, config.ProbeLoadHigh

ASSUME ProbeRateAssumption ==
  /\ RateDen \in Nat \ {0}
  /\ RProbe \in Nat \ {0} /\ RProbeMin \in Nat
  /\ RRemove \in Nat /\ Delta \in Nat
  /\ MaxReusePool \in Int
  /\ AdaptiveProbe \in BOOLEAN
  /\ LoadLow \in Nat /\ LoadHigh \in Nat

Rounded(num, den) ==
  LET whole == num \div den IN
  IF num % den = 0 THEN {whole} ELSE {whole, whole + 1}

(* rMin, lowered to rMax by a configuration that has it higher.            *)
LeastRate == IF RProbeMin > RProbe THEN RProbe ELSE RProbeMin

Span == IF LoadHigh > LoadLow THEN LoadHigh - LoadLow ELSE 1

(* Whether the load is at the high watermark; the mutant never is.         *)
NeverHigh(inflight) == FALSE
IsHigh(inflight) == inflight >= LoadHigh

(* effectiveRProbe, in units of 1 / (RateDen * Span): it falls linearly    *)
(* from RProbe to LeastRate as the requests in flight grow from LoadLow to *)
(* LoadHigh.                                                               *)
EffectiveRProbe(inflight) ==
  IF ~AdaptiveProbe \/ LoadHigh <= LoadLow \/ inflight <= LoadLow THEN RProbe * Span
  ELSE IF IsHigh(inflight) THEN LeastRate * Span
  ELSE RProbe * Span - (inflight - LoadLow) * (RProbe - LeastRate)

(* The probes that onQueryArrival asks triggerProbes for.                  *)
QueryProbes(inflight) == Rounded(EffectiveRProbe(inflight), RateDen * Span)

(* The probes that idleProbeLoop asks for: int(RProbe), never rounded up.  *)
IdleProbes == RProbe \div RateDen

(* computeBReuse with n > 0 servers, before it is rounded.                 *)
ReuseLimited ==
  /\ RProbe > RRemove
  /\ RateDen + Delta < MaxReusePool * (RProbe - RRemove)

ReuseBudgets ==
  IF ReuseLimited
    THEN IF RateDen + Delta < RProbe - RRemove THEN {1}
         ELSE Rounded(RateDen + Delta, RProbe - RRemove)
    ELSE IF MaxReusePool < 1 THEN {1} ELSE {MaxReusePool}
=============================================================================
