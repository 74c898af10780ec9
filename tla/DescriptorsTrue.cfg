SPECIFICATION Spec
CONSTANTS
  MEMORY_POOL_SIZE = 104857600
  HeaderSize = 24
  PartitionSizes <- MCPartitionSizes
INVARIANTS
  DescriptorsTrue
