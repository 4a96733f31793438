CONSTANTS
  Requests = {r1, r2, r3}
  Probers = {h1}
  Latencies = {0, 1}
  RifDelta = 0
  MaxTotal = 4
  Size = 2
  Items <- MCItems
  Blank <- MCBlank
SPECIFICATION Spec
SYMMETRY Symmetry
INVARIANTS TypeOK RequestsAccounted
PROPERTIES EstimateFitsCount ImplementsLog
CHECK_DEADLOCK FALSE
