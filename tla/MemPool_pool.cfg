SPECIFICATION PoolSpec
CONSTANTS
  PoolSize = 4
  Objects = {o1, o2, o3, o4, o5}
  NoBlock = NoBlock
INVARIANT PoolTypeOK
INVARIANT BlockIsFree
INVARIANT Exclusive
INVARIANT GivesUpAtCapacity
CHECK_DEADLOCK FALSE
