CONSTANT SortedRules <- ThreeRules
SPECIFICATION Spec
INVARIANTS
    FlowAsDocumented
\* A call that has returned makes no more steps.
CHECK_DEADLOCK FALSE
