SPECIFICATION Spec
CONSTANTS
  Threads = {t1, t2}
  None = None
  MaxTime = 5
  Duration = 2
  Window = 2
  Period = 2
  Count = 2
  RateLimit = 1
  Skew = 2
  MaxDepth = 2
  MaxConditionDepth = 2
  MaxActionChainLength = 2
  Ids <- OrderedIds
  ChainConfigs <- SmallConfigs
  Evaluations = {e1, e2}
  LastSecond = 1
  EventLimit = 1
  BufferSize = 1
  MaxEvents = 3
  MaxModes = 1
  Points = {1, 2, 3, 4}
  Contexts = {c1, c2}
  LastTick = 3
  Interval = 2
  CacheTTL = 2
  RetryCount = 2
  NoPoint = NoPoint
  Missing = Missing
  Wrong = Wrong
  NaN = NaN
  MaxArrivals = 2
  MaxMishaps = 1
SYMMETRY Interchangeable
INVARIANTS
  FiresAreEarned
  StoredStateIsExact
  LoadedAsConfigured
  OutsideEffectsKept
  ModeIsAsked
  CapturesAddUp
  ChangesAreOfData
  PointsAreExact
CHECK_DEADLOCK FALSE
