SPECIFICATION Spec
CONSTANTS
  NumTickers = 1
  Ids = {1}
  Qtys = {1, 2}
  MaxUpdates = 3
  MaxLosses = 1
  MaxStale = 0
  MaxTorn = 2
INVARIANT ClientBookIsExact
CHECK_DEADLOCK FALSE
