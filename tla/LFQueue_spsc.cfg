SPECIFICATION FairSpec
CONSTANTS
  N = 3
  Producers = {p1}
  MaxLead = 2
  MaxWrites = 8
  ReadAfterRelease = TRUE
INVARIANT TypeOK
INVARIANT FIFO
INVARIANT ReadIsValid
PROPERTY ImplementsChannel
PROPERTY PublishedIsTaken
CHECK_DEADLOCK FALSE
