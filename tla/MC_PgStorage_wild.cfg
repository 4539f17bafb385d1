SPECIFICATION Spec
CONSTANTS
  NULL = NULL
  Texts <- MCTexts
  Rules <- WildRules
  Filters <- WildFilters
  Models <- TwoModels
  UIntRange = 16
  SizeRange = 64
  MaxQuotes = 2
INVARIANTS
  EveryRowLoadable
PROPERTIES
  OverrunOnlyBelow
  SavesLoaded
CHECK_DEADLOCK FALSE
