SPECIFICATION Spec
CONSTANTS
  Docs = {d1, d2}
  Contents <- MCContents
  Pieces <- MCPieces
  Clients = {c1, c2}
  Uses <- Updating
  NULL = NULL
SYMMETRY Symmetry
INVARIANTS
  EmbedsMatchChunks
