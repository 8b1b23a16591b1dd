SPECIFICATION Spec
CONSTANTS
  Elements = {"c", "%", "a", "b"}
  Lines <- MCLines
  MaxIterations = 2
  MaxWaits = 1
  MaxUpdates = 1
  MaxOrders = 1
  MaxResponses = 1
INVARIANT TypeOK
INVARIANT LogComplete
INVARIANT StopDrains
PROPERTY Exits
CHECK_DEADLOCK FALSE
