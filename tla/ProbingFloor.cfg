CONSTANTS
  Loop = Loop
  Servers = {s1, s2}
  Queries = {q1}
  Modes = {"per_query"}
  Period = 2
  MaxLate = 1
  MaxForwards = 3
  MaxArrivals = 1
  MaxTime = 8
  MaxInflight = 1
  CounterWrap = 2
  Parsed = {TRUE}
  RateDen = 2
  RProbe = 1
  RProbeMin = 1
  RRemove = 2
  Delta = 2
  MaxReusePool = 3
  AdaptiveProbe = TRUE
  LoadLow = 1
  LoadHigh = 3
SPECIFICATION Spec
INVARIANT FloorHolds
CHECK_DEADLOCK FALSE
