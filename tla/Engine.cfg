CONSTANTS
    A = A
    B = B
    r1 = r1
    r2 = r2
    r3 = r3
    Chains = {A, B}
    Rules = {r1, r2, r3}
    Defs <- DefsTwo
    Loaders = {l1, l2}
    Evals = {e1}
    MaxCalls = 3
SPECIFICATION FairSpec
INVARIANTS
  BooksExact
  GraphCoversLoaded
  RefsLostOnlyByUnload
PROPERTIES
  ImplementsRegistry
  CallsReturn
