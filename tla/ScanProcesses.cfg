SPECIFICATION Spec
CONSTANTS
  Procs = {p1, p2}
  Files = {f1, f2, f3}
  NoFile = NoFile
  Refs = {a, b}
  MaxRuns = 3
  a = a
  b = b
  p1 = p1
  p2 = p2
  f1 = f1
  f2 = f2
  f3 = f3
SYMMETRY Symmetric
VIEW UsedFiles
INVARIANTS
  OpenMeansCurrent
  SavedScansKept
  ProfileGrounded
PROPERTIES
  CloneStays
CHECK_DEADLOCK FALSE
