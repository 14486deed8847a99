SPECIFICATION StatementSpec
CONSTANTS
  Queries = {q1, q2, u1}
  Selects = {q1, q2}
  NoQuery = NoQuery
  StatementFaultSets <- MCAllFaultSets
SYMMETRY Symmetry
INVARIANTS PreparedTruthful NoInvalidCursor ScrollableReported NothingBoundAfterReset
