SPECIFICATION FairSpec
CONSTANTS
  NumTickers = 1
  Ids = {1, 2}
  Qtys = {1}
  MaxUpdates = 3
  MaxLosses = 1
  MaxStale = 1
  MaxTorn = 1
INVARIANT TypeOK
INVARIANT ClientBookIsExact
PROPERTY RecoveryKeepsQueued
PROPERTY RecoveryEnds
CHECK_DEADLOCK FALSE
