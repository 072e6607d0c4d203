SPECIFICATION Spec
CONSTANTS
  Tokens <- MCAllTokens
  Types <- MCTypes
  MaxTokens = 6
  MaxFields = 1
  Rests <- MCRests
  InitIfNeeded = TRUE
INVARIANTS
  CreationSucceeds
  ChecksAreWhole
CHECK_DEADLOCK FALSE
