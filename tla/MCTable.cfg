SPECIFICATION Spec
CONSTANTS
  Indexes = {0, 1, 2}
  Nullable = {1}
  Keys = {2}
  Unmapped = {0}
  Unreported = {1}
  AccessChoices <- MCAccess
  FlagChoices <- MCFlags
  KeyChoices <- MCKeys
  FaultSets <- MCFaultSets
INVARIANTS StatementsMatchAccess PreparedWhenOpen ManualColumnsKeptUnmixed KeysAsRequested
INVARIANTS ReadsIntoColumns FlagsWithinAccess
