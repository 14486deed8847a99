SPECIFICATION Spec
CONSTANTS
  IntMax = 127
  Fallback = 5
  Narrow = "a"
  Wide = "w"
  Columns <- MCColumns
  CTypes <- MCCTypes
  FaultSets <- MCFaultSets
INVARIANT ValueKept
