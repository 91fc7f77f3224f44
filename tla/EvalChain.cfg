CONSTANT SortedRules <- ThreeRules
SPECIFICATION FairSpec
INVARIANTS
  EachRuleOnceInOrder
  AccountsExact
  ReportedDropIsReal
  FirstHasOneEffect
  AbortIsFinal
PROPERTIES
  Terminates
\* A call that has returned makes no more steps.
CHECK_DEADLOCK FALSE
