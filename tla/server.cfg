CONSTANTS
  c1 = c1
  c2 = c2
  Clients <- TwoClients
  Commands <- AllKinds
  MaxSent <- TwoOne
  AllSent = 2
  SendBuffer = 1
  MaxEffects = 2
SPECIFICATION FairSpec
INVARIANTS TypeOK AnsweredInOrder BroadcastComplete StatusBeforeAck
PROPERTIES CommandAnswered
CHECK_DEADLOCK FALSE
