CONSTANTS
  t1 = t1
  t2 = t2
  t3 = t3
  Threads <- ThreeThreads
  MaxCalls = 5
SPECIFICATION FairSpec
INVARIANTS TypeOK EveryValueHasATaker
PROPERTIES FifoLive
CHECK_DEADLOCK FALSE
