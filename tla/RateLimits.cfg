SPECIFICATION FairSpec
CONSTANTS
  Callers = {c1, c2, c3}
  c1 = c1
  c2 = c2
  c3 = c3
  MaxRetries = 2
  BaseDelay = 1
  Interval = 2
  Second = 2
PROPERTIES
  GrantsSpaced
  CooldownStaggers
  EveryCallEnds
