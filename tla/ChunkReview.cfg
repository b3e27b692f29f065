SPECIFICATION FairSpec
CONSTANTS
  MaxTurns = 3
  Budget = 1
  VerifyTurns = 2
  VerifyBudget = 1
  MaxCost = 1
  Chunk = c1
INVARIANTS
  ConversationBounded
  TokensCounted
  NothingLost
  VerdictsProven
PROPERTIES
  StepsOfScanRun
  ReviewEnds
CHECK_DEADLOCK FALSE
