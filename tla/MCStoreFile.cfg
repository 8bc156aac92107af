SPECIFICATION FairSpec
CONSTANTS
  a = a
  b = b
  d1 = d1
  d2 = d2
  x = x
  y = y
  Paths = {a, b}
  Docs = {d1, d2}
  Texts = {x, y}
  Procs = {p1, p2, p3}
  Initial <- SomeFiles
  Commands <- MCCommands
  NULL = NULL
INVARIANT
  EditorsExclude
PROPERTIES
  NothingIsLost
  CommandsEnd
CHECK_DEADLOCK FALSE
