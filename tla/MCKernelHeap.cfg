SPECIFICATION Spec
CONSTANTS
  HeaderSize = 1
  PageSize = 5
  HeapSize = 10
  SizeMod = 256
  Sizes <- MixedSizes
CHECK_DEADLOCK FALSE
INVARIANTS
  HeadersTile
  BlocksAreChunks
  BlocksDisjoint
