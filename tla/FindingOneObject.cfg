SPECIFICATION Spec
CONSTANTS
  Readers = {r1, r2, r3}
  NoObject = NoObject
  SharedPtr = TRUE
  MaxLoads = 5
SYMMETRY Symmetry
INVARIANT CurrentWhole
