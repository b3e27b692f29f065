SPECIFICATION Spec
CONSTANTS
  Budget = 2
  HeaderSize = 3
  Files <- MCFiles
  LinesPerPage = 2
  MatchesPerPage = 2
  PathsPerPage = 2
  Finds <- MCFinds
  MaxText = 2
  MaxTools = 2
  MaxPieces = 2
  MaxAttempts = 2
INVARIANTS
  ChunksFaithful
  PagesComplete
  StreamAssembled
CHECK_DEADLOCK FALSE
