SPECIFICATION Spec
CONSTANTS
  d1 = d1
  d2 = d2
  Flags <- MCFlags
  BadUrls = {"bad"}
  Env <- MCEnv
  EnvKey = "k0"
  Strategies = {"", "recursive", "word"}
  Sizes = {0, 50}
  Pieces <- MCPieces
  Dim <- MCDim
  Docs = {d1, d2}
  Contents = {"a", "b", "c", "z"}
  Buckets = {"b1"}
  Requests <- MCRequests
  Clients = {c1, c2}
  Uses <- Programs
  Score <- MCScore
  DocOrder <- MCDocOrder
  Guesses = {0, 1, 2}
  Rewrites <- MCRewrites
  Splits <- MCSplits
  NULL = NULL
  Torn = Torn
INVARIANTS
  ConfigTakesEffect
  IndexedAsAsked
  HopsAgree
PROPERTIES
  
  KeysAreKept
  PromptHoldsSources
