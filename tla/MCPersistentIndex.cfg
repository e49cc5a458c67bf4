SPECIFICATION PSpec
CONSTANTS
  MAX_COUNT = 6
  RowIds = {1}
  MaxCalls = 2
  Keys <- MCKeys
  CallKeys = {3, 5, 15}
  InitialRuns <- MCRuns
INVARIANT KeysFound
CHECK_DEADLOCK FALSE
