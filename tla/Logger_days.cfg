CONSTANTS
  Writers = {w1, w2}
  Errors = {w1}
  MaxAgeDays = 2
  Limit = 1
  ReadAhead = 2
  DayLength = 2
  MaxZone = 1
  MaxTime = 7
  MaxLines = 3
SPECIFICATION Spec
INVARIANTS LinesAreKept CurrentFileExists LinkLeadsToOpenFile PageShowsNewest
CHECK_DEADLOCK FALSE
