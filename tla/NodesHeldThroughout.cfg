SPECIFICATION NodesSpec
CONSTANTS
  Threads = {t1}
  None = None
  MaxTime = 6
  Duration = 2
  Window = 2
  Period = 2
  Count = 2
  RateLimit = 1
  Skew = 2
INVARIANT HeldThroughout
CHECK_DEADLOCK FALSE
