CONSTANTS
  EnableIPv6 = FALSE
  HostForward = {{}, {"fwd4"}, {"fwd6"}, {"fwd4", "fwd6"}}
  MaxStarts = 1
  MaxFaults = 1
  MaxConns = 0
SPECIFICATION Spec
INVARIANTS StopNeverPanics
CHECK_DEADLOCK FALSE
