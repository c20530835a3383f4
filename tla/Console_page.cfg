CONSTANTS
  MaxRequests = 2
  MaxLogins = 2
SPECIFICATION FairSpec
INVARIANT AppIsPolled
PROPERTIES EndedSessionsRefused SessionLossNoticed
CHECK_DEADLOCK FALSE
