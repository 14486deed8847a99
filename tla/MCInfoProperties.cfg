SPECIFICATION InfoSpec
CONSTANTS
  old = old
  ninety = ninety
  three = three
  post = post
  four = four
  odd = odd
  None = None
  Connections <- MCConnections
  Product <- MCProduct
  DriverVersion <- MCDriverVersion
  Fragile <- MCFragile
  InfoFaultSets <- MCFaultSets
INVARIANTS OfThisConnection VersionRespected DatesMapped
