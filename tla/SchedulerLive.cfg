SPECIFICATION FairSpec
CONSTANTS
  Requests = {r1, r2}
  ToolCalls = {t1}
  Workers = {w1, w2}
  QueueMax = 1
  MaxUserSteps = 3
  Sentinel = Sentinel
  NoRequest = NoRequest
  r1 = r1
  r2 = r2
  t1 = t1
  w1 = w1
  w2 = w2
PROPERTIES
  EveryCallEnds
  AcceptedIsAnswered
  ToolCallsEnd
  CloseCompletes
CHECK_DEADLOCK FALSE
