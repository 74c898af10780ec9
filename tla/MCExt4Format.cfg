SPECIFICATION FairSpec
CONSTANTS
  MEMORY_POOL_SIZE = 104857600
  HeaderSize = 24
  PartitionSizes <- MCPartitionSizes
INVARIANTS
  TypeOK
  FreeCountExact
  BufferSound
  FollowsPlan
  BlocksAddUp
PROPERTIES
  FormatReturns
