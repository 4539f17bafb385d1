SPECIFICATION Spec
CONSTANTS
  NULL = NULL
  Texts <- MCTexts
  Rules <- FewRules
  Filters <- EmptyValue
  Models <- OneModel
  UIntRange = 16
  SizeRange = 64
  MaxQuotes = 1
PROPERTIES
  RemovesMatching
CHECK_DEADLOCK FALSE
