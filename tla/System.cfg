CONSTANTS
  Loop = Loop
  None = None
  Servers = {s1, s2}
  Queries = {q1}
  Workers = {w1}
  Probes <- MCProbes
  Modes = {"per_query"}
  Period = 1
  MaxLate = 1
  MaxForwards = 0
  MaxArrivals = 1
  MaxTime = 5
  MaxInflight = 0
  CounterWrap = 1
  Parsed = {TRUE}
  RateDen = 1
  RProbe = 1
  RProbeMin = 1
  RRemove = 1
  Delta = 1
  MaxReusePool = 1
  AdaptiveProbe = FALSE
  LoadLow = 0
  LoadHigh = 0
  PoolCap = 2
  PoolTTL = 3
SPECIFICATION SystemSpec
SYMMETRY Symmetry
INVARIANT PoolRecovers
CHECK_DEADLOCK FALSE
