SPECIFICATION Spec
CONSTANTS
  Ids <- SortedIds
  RRFK = 1
  Iterations = 1
  TopFacts = 2
  CapNodes = 2
  Inputs <- AllInputs
  NULL = NULL
INVARIANTS
  ChunksHoldTheText
  RankingIsSound
CHECK_DEADLOCK FALSE
