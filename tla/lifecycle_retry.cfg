SPECIFICATION Spec
CONSTANT HandlerAsks = FALSE
PROPERTY RetrySucceeds
CHECK_DEADLOCK FALSE
