SPECIFICATION Spec
CONSTANTS
  Queries <- MCQueries
  NoQuery = NoQuery
  NrOfColumns <- MCNrOfColumns
  NrOfRows <- MCNrOfRows
  MaxExecutions = 2
  ArgLists <- MCArgLists
  FindArgs <- MCFindArgs
  TestTables = {"t", "t_tmp"}
  TmpTables = {"t_tmp"}
INVARIANTS ColumnsOfResult EndsAsTold SearchesAsMeant PageWhole
