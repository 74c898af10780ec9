SPECIFICATION FairSpec
CONSTANTS
  MEMORY_POOL_SIZE = 13
  HeaderSize = 2
  Sizes <- MCSizes
INVARIANTS
  TypeOK
  ListInOrder
  UsedIsGranted
  PassedAreUnfit
  FreedReusable
PROPERTIES
  ImplementsHeap
  CallsReturn
