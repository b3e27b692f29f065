SPECIFICATION FairSpec
CONSTANTS
  Chunks = {c1, c2}
  c1 = c1
  c2 = c2
INVARIANTS
  CompleteMeansCovered
  StoriesAgree
  SchedulerOwnership
PROPERTIES
  ScanEnds
CHECK_DEADLOCK FALSE
