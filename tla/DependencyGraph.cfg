CONSTANTS
    Chains = {a, b, c}
    MaxParallel = 3
SPECIFICATION SearchSpec
INVARIANTS
  WellFormed
  CycleSearchIsExact
PROPERTIES
  RejectionChangesNothing
  MethodsAreAtomic
