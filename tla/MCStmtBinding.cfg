SPECIFICATION Spec
CONSTANTS
  Objects = {o1, o2}
  RawHandles = {r1, r2}
  NullHandle = NullHandle
  Buffers = {b1, b2}
  Slots = {s1}
  FaultSets <- MCFaultSets
SYMMETRY Symmetry
INVARIANTS NoDanglingIfDisciplined MapsAgree HandlesOwnedOnce NoOrphanHandle
