SPECIFICATION Spec
CONSTANTS
  Fronts = {"breaker", "limiter"}
  s1 = s1
  s2 = s2
  w1 = w1
  k1 = k1
  k2 = k2
  Callers = {s1, s2}
  Waiters = {w1}
  Users = {s1, s2, w1}
  Keys = {k1, k2}
  ServiceKey = k1
  WaiterKey = k2
  Ids = {1, 2, 3, 4, 5, 6}
  NoBucket = NoBucket
  FailureThreshold = 2
  RecoveryTimeout = 1
  HalfOpenRequests = 2
  Token = 1
  Rate = 1
  Burst = 2
  IdleTTL = 0
  GCPeriod = 1
  IdleCap = 2
INVARIANTS
  NotStuckHalfOpen
  BucketsExact
PROPERTIES
  TransitionsEarned
  Recovers
  WaiterServed
CHECK_DEADLOCK FALSE
