SPECIFICATION FairSpec
CONSTANTS
  Drives <- MCDrives
  Capacity <- MCCapacity
  InitialTable <- MCInitialTable
  SizeArgs <- MCSizeArgs
  MaxCommands = 3
  MaxCrashes = 1
INVARIANTS
  TypeOK
  SelectionSound
  FormatOnlyListed
  SuccessMeansDone
  SizesExact
  MetadataSound
PROPERTIES
  SelectionStable
  OnlySelectedWritten
  ImplementsTable
  CommandsReturn
