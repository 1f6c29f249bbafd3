CONSTANTS
  KernelWords = 7
  UserWords = 5
  RunWords = 4
  Lengths = {1}
  MaxSent = 5
SPECIFICATION Spec
INVARIANTS AwakeWithSignals
CHECK_DEADLOCK FALSE
