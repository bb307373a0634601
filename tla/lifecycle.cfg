SPECIFICATION Spec
CONSTANT HandlerAsks = FALSE
INVARIANTS TypeOK SocketStays
PROPERTIES ConnectionIsServed LeavingEnds
CHECK_DEADLOCK FALSE
