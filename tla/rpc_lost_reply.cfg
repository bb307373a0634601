CONSTANTS
  c1 = c1
  c2 = c2
  Callers <- OneCaller
  IdMod = 4
  MaxCalls = 1
  AllCalls = 2
  SerialIds = TRUE
  NULL = NULL
  Absent = Absent
SPECIFICATION FairSpec
PROPERTY RpcReturns
CHECK_DEADLOCK FALSE
