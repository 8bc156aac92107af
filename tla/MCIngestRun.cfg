SPECIFICATION Spec
CONSTANTS
  f1 = f1
  f2 = f2
  f3 = f3
  f4 = f4
  n1 = n1
  Files = {f1, f2, f3, f4}
  Text <- TwinText
  Workers = {w1, w2}
  CheckpointEvery = 2
  Notes = {}
  Forgets = {}
  OpenFails = FALSE
  PowerCut = FALSE
  NULL = NULL
SYMMETRY WorkerSymmetry
INVARIANTS
  TypeOK
  DoneIsRecoverable
  ContentsDistinct
  ResultsAccounted
  WorkIsKept
PROPERTIES
  ExitIsDurable
