SPECIFICATION Spec
CONSTANTS
  Runes <- MCRunes
  Blocks <- MCBlocks
  MaxBlocks = 3
  Limits = {0, 4, 5, 7, 8}
  ContextTokens = {0, 1024}
  MaxChunks = 3
  Objects <- MCObjects
INVARIANTS LimitRespected NoTextLost RepairFaithful NoItemLost GapsAreReported
CHECK_DEADLOCK FALSE
