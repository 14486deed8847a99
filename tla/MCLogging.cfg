SPECIFICATION Spec
CONSTANTS
  Threads = {t1, t2}
  Handlers = {s1, s2, f1}
  StdHandlers = {s1, s2}
  Tunable = {}
  Levels = {5, 9}
  Warning = 9
  MaxMessages = 3
  MaxSetters = 2
  NoLevel = NoLevel
  FaultSets <- MCSetters
SYMMETRY Symmetry
INVARIANTS SameOrder NoTwins OnlyRegisteredCalled LinesNotTorn LevelRestored
