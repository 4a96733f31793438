CONSTANTS
  s1 = s1
  s2 = s2
  None = None
  Workers = {w1, w2}
  Probes = {p1, p2}
  Budgets = {1}
  Results <- OneServer
  Thetas <- NoThreshold
  PoolCap = 2
  PoolTTL = 0
  RemoveNum = 1
  RemoveDen = 2
  QNum = 84
  QDen = 100
  EnableMetrics = TRUE
  MaxTime = 0
SPECIFICATION FairSpec
PROPERTIES RequestsLeave ResultsLand ExhaustedLeave
