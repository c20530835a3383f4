CONSTANTS
  EnableIPv6 = FALSE
  HostForward = {{}, {"fwd4"}}
  MaxStarts = 1
  MaxFaults = 4
  MaxConns = 1
SPECIFICATION FairSpec
INVARIANTS TypeOK OrderlyTeardown ResidueCostsFaults
PROPERTIES StopReachesRelay StartHeldOnlyByPeers
CHECK_DEADLOCK FALSE
