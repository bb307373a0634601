SPECIFICATION Spec
CONSTANT HandlerAsks = FALSE
INVARIANT LossIsSurvived
CHECK_DEADLOCK FALSE
