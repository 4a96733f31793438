CONSTANTS
  Loop = Loop
  Servers = {s1, s2}
  Queries = {q1}
  Modes = {"per_query"}
  Period = 1
  MaxLate = 1
  MaxForwards = 3
  MaxArrivals = 1
  MaxTime = 3
  MaxInflight = 1
  CounterWrap = 2
  Parsed = {TRUE, FALSE}
  RateDen = 2
  RProbe = 3
  RProbeMin = 1
  RRemove = 2
  Delta = 2
  MaxReusePool = 3
  AdaptiveProbe = TRUE
  LoadLow = 1
  LoadHigh = 3
SPECIFICATION Spec
INVARIANT SucceededAreValid
CHECK_DEADLOCK FALSE
