CONSTANTS
  s1 = s1
  s2 = s2
  None = None
  Workers = {w1, w2}
  Probes = {p1, p2, p3}
  Budgets = {1}
  Results <- TwoServers
  Thetas <- Thresholds
  PoolCap = 2
  PoolTTL = 0
  RemoveNum = 1
  RemoveDen = 2
  QNum = 84
  QDen = 100
  EnableMetrics = FALSE
  MaxTime = 0
SPECIFICATION Spec
SYMMETRY Symmetry
INVARIANTS TypeOK PoolWithinCap SectionIsCurrent HotPickHolds ColdPickHolds ExhaustedHasRemover OveruseBounded
PROPERTIES ColdVictimSlowest NoReturn ImplementsAbstractPool
