CONSTANTS
  MaxRequests = 4
  MaxPrints = 5
SPECIFICATION Spec
INVARIANTS TypeOK PrintReturns NothingSwallowed QueryReturnsItsOutput
CHECK_DEADLOCK FALSE
