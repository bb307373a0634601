SPECIFICATION Spec
CONSTANT HandlerAsks = FALSE
INVARIANT OnlineIsConnected
CHECK_DEADLOCK FALSE
