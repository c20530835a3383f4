CONSTANTS
  c1 = c1
  c2 = c2
  c3 = c3
  Conns = {c1}
  MaxConnections = 1
  FallbackDirect = TRUE
  Traffic <- MCTraffic
SPECIFICATION FairSpec
PROPERTIES DialSettles
CHECK_DEADLOCK FALSE
