SPECIFICATION Spec
CONSTANTS
  AP = {a1, a2, a3}
  DelIndexMax = 8
  WordSize = 4
  LowByteFirst = FALSE
  MaxChanges = 5
SYMMETRY Alike
INVARIANT MatrixInv
PROPERTY GrowthKeepsData
