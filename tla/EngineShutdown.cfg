CONSTANTS
    Evals = {e1, e2, e3}
    Callers = {s1, s2}
    Cancellable = {s1}
SPECIFICATION FairSpec
INVARIANTS
  CountersExact
  DrainMissesOnlyTheRace
  PanicNeedsTheRace
PROPERTIES
  ShutdownCompletes
\* When every call has returned nothing is left to do.
CHECK_DEADLOCK FALSE
