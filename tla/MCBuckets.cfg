SPECIFICATION Spec
CONSTANTS
  default = default
  x = x
  y = y
  Names = {default, other}
  Default = default
  Docs = {d1}
  Texts = {x, y}
  Objects = {h1, h2, h3, h4, h5, h6, h7}
  Clients = {c1, c2}
  Uses <- Servers
  NULL = NULL
SYMMETRY Symmetry
INVARIANTS
  RestartFindsBuckets
PROPERTIES
  StoreNotReplaced
  BlobGoesWithBucket
  BuildReachesBucket
