SPECIFICATION FairSpec
CONSTANTS
  Prices = {1, 2, 3}
  Clip = 2
  MaxOrderSize = 2
  MaxPosition = 3
  MaxOrders = 5
INVARIANT TypeOK
INVARIANT OneOrderPerSide
INVARIANT PositionWithinLimit
INVARIANT QuietManagerIsRight
PROPERTY PendingResolves
CHECK_DEADLOCK FALSE
