SPECIFICATION Spec
CONSTANTS
  Works = {w1, w2, w3}
  FaultSets <- MCAllFaultSets
INVARIANTS CacheTruthful PendingIsProtected OpenFullySetUp
PROPERTY TransactionsKeepContract
