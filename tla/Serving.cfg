CONSTANTS
  Clients = {c1, c2}
  NumServers = 2
  Algorithms <- BothAlgorithms
  PerQuery = TRUE
  ForwardTimeout = 1
  EnablePickLog = TRUE
  PicksCap = 3
  IndexWrap = 3
  MaxRequests = 4
SPECIFICATION FairSpec
INVARIANTS TypeOK RequestsAccounted ForwardsBalance RoundRobinEven RecentPicksLogged
PROPERTIES RequestsEnd 
CHECK_DEADLOCK FALSE
