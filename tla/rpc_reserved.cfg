CONSTANTS
  c1 = c1
  c2 = c2
  Callers <- OneCaller
  IdMod = 3
  MaxCalls = 2
  AllCalls = 2
  SerialIds = TRUE
  NULL = NULL
  Absent = Absent
SPECIFICATION FairSpec
PROPERTY AnsweredRpcReturns
CHECK_DEADLOCK FALSE
