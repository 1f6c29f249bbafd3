CONSTANTS
  KernelWords = 7
  UserWords = 7
  RunWords = 4
  Lengths = {1, 2}
  MaxSent = 5
SPECIFICATION Spec
INVARIANTS NoneTwice
CHECK_DEADLOCK FALSE
