SPECIFICATION Spec
CONSTANTS
  Budget = 4
  HeaderSize = 3
  Files <- NoisyFiles
  LinesPerPage = 2
  MatchesPerPage = 2
  PathsPerPage = 2
  Finds <- NoFinds
  MaxText = 0
  MaxTools = 0
  MaxPieces = 1
  MaxAttempts = 1
INVARIANTS
  NoiseIsNoise
CHECK_DEADLOCK FALSE
