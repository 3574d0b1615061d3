SPECIFICATION Spec
CONSTANTS
  handle1 = handle1
  handle2 = handle2
  Ar = Ar
  Readers <- ThreeReaders
  Lengths <- OneOrTwo
  MaxSize = 3
  MaxFaults = 2
SYMMETRY Symmetry
INVARIANTS TypeOK SizesAgree SuccessRemapsAll
CHECK_DEADLOCK FALSE
