SPECIFICATION FairScanSpec
CONSTANTS
  NumItems = 3
  MaxInFlight = 2
  MaxTurns = 1
  Workers = {w1}
  w1 = w1
  QueueMax = 1
  FailFast = TRUE
  Sentinel = Sentinel
  NoRequest = NoRequest
INVARIANTS
  ReturnedSentAll
PROPERTIES
  AbandonedAreContained
  UnwindsUnlessDrained
CHECK_DEADLOCK FALSE
