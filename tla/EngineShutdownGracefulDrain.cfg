CONSTANTS
    Evals = {e1, e2}
    Callers = {s1}
    Cancellable = {}
SPECIFICATION Spec
INVARIANT GracefulDrain
CHECK_DEADLOCK FALSE
