SPECIFICATION FairSpec
CONSTANTS
  Vectors <- Directions
  Dist <- Distances
  M = 2
  EfConstruction = 2
  MaxLevel = 1
  Capacity = 4
  Queries <- Searches
INVARIANTS
  TypeOK
  Degrees
  WalkInLayer
  BestSoFar
  SearchIsComplete
PROPERTY CallEnds
