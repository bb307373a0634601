CONSTANTS
  Sizes = {2, 3, 5}
  MaxFrames = 2
  Garbage = {0, 2, 3, 100}
SPECIFICATION Spec
PROPERTIES SplitHeaderIsKept
CHECK_DEADLOCK FALSE
