CONSTANTS
  Sizes = {2, 3, 5}
  MaxFrames = 4
  Garbage = {0, 2, 3, 100}
SPECIFICATION FairSpec
INVARIANTS TypeOK InOrder
PROPERTIES FollowedIsDelivered
CHECK_DEADLOCK FALSE
