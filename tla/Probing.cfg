CONSTANTS
  Loop = Loop
  Servers = {s1, s2}
  Queries = {q1}
  Modes = {"per_query", "ticker"}
  Period = 2
  MaxLate = 1
  MaxForwards = 5
  MaxArrivals = 2
  MaxTime = 7
  MaxInflight = 1
  CounterWrap = 2
  Parsed = {TRUE}
  RateDen = 2
  RProbe = 3
  RProbeMin = 1
  RRemove = 2
  Delta = 2
  MaxReusePool = 3
  AdaptiveProbe = TRUE
  LoadLow = 1
  LoadHigh = 3
SPECIFICATION Spec
SYMMETRY Symmetry
INVARIANTS TypeOK ProbesAccounted FloorHolds TickerCovers QueryProbesFall
PROPERTY IdleOnly
CHECK_DEADLOCK FALSE
