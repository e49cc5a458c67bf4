SPECIFICATION Spec
CONSTANTS
  Null = Null
  Unbound = Unbound
  Columns <- MCColumns
  NameOf <- MCNameOf
  Indices <- MCIndices
  BlockSize = 2
  Threshold = 100
  Databases <- MCDatabases
  Recipes <- UnsortedRecipes
  MaxChanges = 2
  RebindsObserved = FALSE
INVARIANTS PassesKeepTheAnswer
CHECK_DEADLOCK FALSE
