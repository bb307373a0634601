SPECIFICATION Spec
CONSTANT HandlerAsks = TRUE
PROPERTY ConnectionIsServed
CHECK_DEADLOCK FALSE
