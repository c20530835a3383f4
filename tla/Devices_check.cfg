CONSTANTS
  MaxEdits = 3
  IPs = {ip1}
  Names = {n1, n2}
  Hour = 1
SPECIFICATION DevicesFairSpec
INVARIANTS LoneSavesKeepFileWhole RestIsSaved
PROPERTIES LoneSavesGoForward EditsAreCopied ResolvedNamesExpire LeaseNameWins
CHECK_DEADLOCK FALSE
