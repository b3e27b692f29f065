SPECIFICATION FairSpec
CONSTANTS
  r1 = r1
  r2 = r2
  NoLimit = NoLimit
  NoCode = NoCode
  Raised = Raised
  PerMajorLimit = 3
  ChronoLimit = 2
  MaxConcurrency = 2
  MaxReleases = 2
  RepoList <- MCRepoList
  Histories <- MCHistories
INVARIANTS
  PairsCorrect
  NothingUnaccounted
  SharedOutliveScans
PROPERTIES
  BatchEnds
CHECK_DEADLOCK FALSE
