SPECIFICATION FairSpec
CONSTANTS
  WORDS = 2
  Lbas <- MCLbas
  Contents <- MCContents
  Machines <- MCMachines
  Initial <- MCInitial
INVARIANTS
  TypeOK
  OthersQuiet
PROPERTIES
  ImplementsStore
  CallsReturn
