SPECIFICATION Spec
CONSTANTS
  t_x = t_x
  tax = tax
  s1 = s1
  NoName = NoName
  Null = Null
  All = All
  Empty = Empty
  Names <- MCNames
  Spaces <- MCSpaces
  MatchedBy <- MCMatchedBy
  Tables <- MCTables
  FaultSets <- MCFaultSets
INVARIANTS NoCursorLeft AnswersWhole OfThatTable HandleDiesWithConnection RowsTruthful
