SPECIFICATION Spec
CONSTANTS
  Objects = {o1, o2}
  RawHandles = {r1, r2}
  NullHandle = NullHandle
  Buffers = {b1, b2}
  Slots = {s1}
  FaultSets <- MCFreeBound
SYMMETRY Symmetry
INVARIANT NoDanglingBinding
