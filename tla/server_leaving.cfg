CONSTANTS
  c1 = c1
  c2 = c2
  Clients <- TwoClients
  Commands <- RawOnly
  MaxSent <- OneEach
  AllSent = 2
  SendBuffer = 1
  MaxEffects = 1
SPECIFICATION Spec
INVARIANTS LeavingIsHarmless
CHECK_DEADLOCK FALSE
