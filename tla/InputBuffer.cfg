SPECIFICATION Spec
CONSTANTS
  d1 = d1
  d2 = d2
  c1 = c1
  c2 = c2
  p1 = p1
  p2 = p2
  o1 = o1
  o2 = o2
  o3 = o3
  Devices = {d1, d2}
  Chains = {c1, c2}
  Points = {p1, p2}
  Inputs <- MCInputs
  Values = {0, 1}
  Nil = Nil
  Objects = {o1, o2}
  Timeout = 1
INVARIANTS
  ContextsExact
  FiredUntouched
PROPERTIES
  CompleteLeaves
  StaleIsCleaned
CHECK_DEADLOCK FALSE
