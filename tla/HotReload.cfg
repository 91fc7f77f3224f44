SPECIFICATION FairSpec
CONSTANTS
  Files = {a, t}
  TheFile = a
  TempFiles = {t}
  Missing = Missing
  MaxVersion = 3
  Unreadable = {2}
  Refused = {}
  Reloaders = {r1, r2}
  QueueCap = 1
INVARIANTS
  ReloadsExact
PROPERTIES
  NothingBeginsAfterEnd
  ChangesArrive
  StopEndsTheLoop
CHECK_DEADLOCK FALSE
