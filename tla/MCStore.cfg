SPECIFICATION Spec
CONSTANTS
  Docs = {d1, d2}
  Contents <- MCContents
  Pieces <- MCPieces
  Clients = {c1, c2}
  Uses <- Programs
  NULL = NULL
SYMMETRY Symmetry
INVARIANTS
  SearchSeesCorpus
  VectorsFit
  CorpusIsRegistry
PROPERTIES
  ImplementsCorpus
