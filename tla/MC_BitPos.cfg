CONSTANTS
  WIDTH <- MCWidth
  Inputs <- MCInputs
SPECIFICATION Spec
INVARIANTS
  LeftmostIsHighestBit
