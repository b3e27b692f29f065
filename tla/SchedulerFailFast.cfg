SPECIFICATION Spec
CONSTANTS
  Requests = {r1, r2, r3}
  ToolCalls = {}
  Workers = {w1, w2}
  QueueMax = 2
  FailFast = TRUE
  Sentinel = Sentinel
  NoRequest = NoRequest
  r1 = r1
  r2 = r2
  r3 = r3
  w1 = w1
  w2 = w2
SYMMETRY Symmetric
INVARIANTS
  NoLostRequest
  SentAtMostOnce
  AnswersAreReal
  SentInOrder
  FewLateSends
PROPERTIES
  KeepsService
CHECK_DEADLOCK FALSE
