SPECIFICATION Spec
CONSTANTS
  d1 = d1
  d2 = d2
  x = x
  y = y
  Docs = {d1, d2}
  Texts = {x, y}
  Names <- MCNames
  Models = {"m1", "m2"}
  Says <- TwoModels
  Clients = {c1, c2}
  Uses <- Programs
  NULL = NULL
SYMMETRY Symmetry
INVARIANTS
  GraphFitsStore
  VectorsDescribeEntities
  CacheIsLive
PROPERTIES
  AnswersKept
