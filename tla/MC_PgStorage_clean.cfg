SPECIFICATION Spec
CONSTANTS
  NULL = NULL
  Texts <- MCTexts
  Rules <- CleanSet
  Filters <- CleanFilterSet
  Models <- OneModel
  UIntRange = 16
  SizeRange = 64
  MaxQuotes = 1
INVARIANTS
  SameRules
  CallsSucceed
PROPERTIES
  IsStorage
