SPECIFICATION Spec
CONSTANTS
  e1 = e1
  e2 = e2
  None = None
  MaxLength = 2
  Envs <- MCEnvs
  Dsns <- MCDsns
  SystemDsns <- MCSystemDsns
  FaultSets <- MCFaultSets
INVARIANTS ListingWhole NothingInvented
