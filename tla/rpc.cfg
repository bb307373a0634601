CONSTANTS
  c1 = c1
  c2 = c2
  Callers <- TwoCallers
  IdMod = 8
  MaxCalls = 2
  AllCalls = 2
  SerialIds = TRUE
  NULL = NULL
  Absent = Absent
SPECIFICATION FairSpec
INVARIANTS TypeOK NoLostWakeup WatchReadFresh NoLeakBeforeAbort
PROPERTIES CallsAreKept ResolvedRpcReturns AnsweredRpcReturns
CHECK_DEADLOCK FALSE
