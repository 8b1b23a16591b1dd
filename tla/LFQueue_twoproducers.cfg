SPECIFICATION Spec
CONSTANTS
  N = 3
  Producers = {p1, p2}
  MaxLead = 3
  MaxWrites = 8
  ReadAfterRelease = FALSE
INVARIANT FIFO
CHECK_DEADLOCK FALSE
