SPECIFICATION Spec
CONSTANTS
  MAX_COUNT = 6
  RowIds = {1, 2}
  MaxCalls = 3
  Keys <- MCKeys
  CallKeys <- MCCallKeys
  InitialRuns <- MCRuns
CHECK_DEADLOCK FALSE
INVARIANTS WellFormed LookupsAgree RangesAgree
PROPERTY ImplementsIndex
