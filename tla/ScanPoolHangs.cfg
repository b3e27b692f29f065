SPECIFICATION FairScanSpec
CONSTANTS
  NumItems = 2
  MaxInFlight = 2
  MaxTurns = 1
  Workers = {w1, w2}
  w1 = w1
  w2 = w2
  QueueMax = 2
  FailFast = TRUE
  Sentinel = Sentinel
  NoRequest = NoRequest
PROPERTIES
  ScanUnwinds
CHECK_DEADLOCK FALSE
