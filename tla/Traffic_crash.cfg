CONSTANTS
  EnableIPv6 = TRUE
  HostForward = {{}, {"fwd4"}, {"fwd6"}, {"fwd4", "fwd6"}}
  MaxStarts = 2
  MaxFaults = 0
  MaxConns = 1
  BlockQUIC = TRUE
SPECIFICATION Spec
INVARIANTS ServingIsComplete ForwardingNeverLost CleanRemovesResidue NoPacketIsLost
PROPERTIES ForwardLoweredByItsRaiser
CHECK_DEADLOCK FALSE
