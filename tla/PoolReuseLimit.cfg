CONSTANTS
  s1 = s1
  s2 = s2
  None = None
  Workers = {w1, w2}
  Probes = {p1, p2}
  Budgets = {1, 2}
  Results <- OneServer
  Thetas <- NoThreshold
  PoolCap = 2
  PoolTTL = 0
  RemoveNum = 0
  RemoveDen = 1
  QNum = 84
  QDen = 100
  EnableMetrics = FALSE
  MaxTime = 0
SPECIFICATION Spec
INVARIANT ReuseLimit
