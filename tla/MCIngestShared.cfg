SPECIFICATION FairSpec
CONSTANTS
  f1 = f1
  f2 = f2
  f3 = f3
  f4 = f4
  n1 = n1
  Files = {f1, f2}
  Text <- TwinText
  Workers = {w1}
  CheckpointEvery = 1
  Notes = {n1}
  Forgets = {f2}
  OpenFails = TRUE
  PowerCut = TRUE
  NULL = NULL
PROPERTIES
  RunEnds
