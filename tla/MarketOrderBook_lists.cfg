SPECIFICATION Spec
CONSTANTS
  OrderPoolSize = 5
  LevelPoolSize = 4
  OrderIds = {1, 2, 3, 4}
  Levels = 8
  Null = Null
  Prices = {1, 2, 3}
  Qtys = {1, 2}
  ClearsMidway = FALSE
INVARIANT TypeOK
INVARIANT ListsShowOrders
INVARIANT BBOExactOrUnset
INVARIANT BlocksAreAccountedFor
