SPECIFICATION Spec
CONSTANTS
  Drives <- MCDrives
  Capacity <- MCCapacity
  InitialTable <- MCInitialTable
  SizeArgs <- MCEdgeSizes
  MaxCommands = 2
  MaxCrashes = 0
INVARIANTS
  CreatedMeansListed
