SPECIFICATION Spec
CONSTANTS
  Clients = {c1, c2}
  Prices = {1, 2, 3}
  Qtys = {0, 1, 2}
  Levels = 4
  MaxOrders = 4
  MaxRejects = 1
SYMMETRY ClientSymmetry
INVARIANT TypeOK
INVARIANT Uncrossed
INVARIANT OldestFirst
INVARIANT FeedMirrorsBook
INVARIANT BookIsConsistent
INVARIANT ResponsesAddUp
PROPERTY PriceTimePriority
