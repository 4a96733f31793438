CONSTANTS
  s1 = s1
  s2 = s2
  None = None
  Workers = {w1, w2}
  Probes = {p1, p2, p3}
  Budgets = {1}
  Results <- OneServer
  Thetas <- NoThreshold
  PoolCap = 2
  PoolTTL = 1
  RemoveNum = 0
  RemoveDen = 1
  QNum = 84
  QDen = 100
  EnableMetrics = TRUE
  MaxTime = 2
SPECIFICATION Spec
PROPERTY EvictsOnlyWhenFull
SYMMETRY Symmetry
