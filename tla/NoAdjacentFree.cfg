SPECIFICATION Spec
CONSTANTS
  MEMORY_POOL_SIZE = 13
  HeaderSize = 2
  Sizes <- MCSizes
INVARIANTS
  NoAdjacentFree
