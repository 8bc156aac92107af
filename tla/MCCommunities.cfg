SPECIFICATION CommunitiesSpec
CONSTANTS
  d1 = d1
  d2 = d2
  d3 = d3
  Docs = {d1, d2, d3}
  Contents <- MCContents
  Pieces <- MCPieces
  Similarity <- MCSimilarity
  GraphKNN = 2
  SequentialWeight = 1
  MaxIter = 20
  MinSize = 1
  MaxPassages = 2
  GlobalK = 2
  Orders <- MCOrders
  Clients = {k1, k2}
  Uses <- Programs
  NULL = NULL
INVARIANTS
  PartitionFits
  AnswerFitsAlone
PROPERTIES
  SweepsProgress
  CallsEnd
