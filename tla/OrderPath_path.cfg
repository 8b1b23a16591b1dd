SPECIFICATION MCSpec
CONSTANTS
  Processes = {p1, p2}
  Clients = {c1, c2}
  None = none
  AProcess = p1
  AClient = c1
  MaxPending = 2
  StableUpTo = 16
  MaxRequests = 3
  MaxFills = 1
  MaxShort = 1
  MaxTime = 2
INVARIANT TypeOK
INVARIANT RequestsInOrder
INVARIANT ResponsesInOrder
PROPERTY Served
CHECK_DEADLOCK FALSE
