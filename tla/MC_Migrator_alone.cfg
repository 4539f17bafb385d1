SPECIFICATION Spec
CONSTANTS
  a1 = a1
  a2 = a2
  a3 = a3
  Adapters <- MCAdapters
  OtherColumns = 0
  MaxFaults = 3
INVARIANTS
  MigratedHasV6
  IInv
PROPERTIES
  FailedWasOvertaken
  RetriesMigrate
