SPECIFICATION Spec
CONSTANT HandlerAsks = FALSE
INVARIANT LeavingIsSafe
CHECK_DEADLOCK FALSE
