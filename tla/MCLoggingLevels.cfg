SPECIFICATION Spec
CONSTANTS
  Threads = {t1, t2}
  Handlers = {s1, f1}
  StdHandlers = {s1}
  Tunable = {s1}
  Levels = {5, 9}
  Warning = 9
  MaxMessages = 2
  MaxSetters = 1
  NoLevel = NoLevel
  FaultSets <- MCCustom
PROPERTIES MessagesKeepContract CallsReturn
