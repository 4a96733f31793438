CONSTANTS
  Probes = {p1, p2, p3}
  Workers = {w1, w2}
  Rifs = {0, 2}
  MaxAge = 1
  CacheTTL = 1
  MinSamples = 2
  QNum = 3
  QDen = 5
  MaxRif = 9
  MaxTime = 3
SPECIFICATION Spec
SYMMETRY Symmetry
INVARIANTS TypeOK CountsMatch WindowComplete ThresholdCurrent
PROPERTIES SamplesRecent QuantileOfSamples
