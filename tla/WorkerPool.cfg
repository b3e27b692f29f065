SPECIFICATION FairSpec
CONSTANTS
  NumItems = 5
  MaxInFlight = 3
INVARIANTS
  BoundedConcurrency
  ResultsInOrder
PROPERTIES
  PoolEnds
CHECK_DEADLOCK FALSE
