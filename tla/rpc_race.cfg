CONSTANTS
  c1 = c1
  c2 = c2
  Callers <- TwoCallers
  IdMod = 4
  MaxCalls = 1
  AllCalls = 2
  SerialIds = FALSE
  NULL = NULL
  Absent = Absent
SPECIFICATION Spec
INVARIANT ReplyIsMine
CHECK_DEADLOCK FALSE
