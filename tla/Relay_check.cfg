CONSTANTS
  c1 = c1
  c2 = c2
  c3 = c3
  Conns = {c1, c2, c3}
  MaxConnections = 1
  FallbackDirect = TRUE
  Traffic <- MCTraffic
SPECIFICATION FairSpec
INVARIANTS BooksBalance StopLeavesNothing NoSocketLeaks
PROPERTIES ImplementsLedger RefusedOnlyWhenFull StopHeldOnlyByPeers AcceptLoopNeverStalls
CHECK_DEADLOCK FALSE
