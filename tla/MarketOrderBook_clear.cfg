SPECIFICATION Spec
CONSTANTS
  OrderPoolSize = 3
  LevelPoolSize = 3
  OrderIds = {1, 2}
  Levels = 8
  Null = Null
  Prices = {1}
  Qtys = {1}
  ClearsMidway = TRUE
INVARIANT ListsShowOrders
