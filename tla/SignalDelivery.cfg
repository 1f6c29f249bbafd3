CONSTANTS
  KernelWords = 7
  UserWords = 7
  RunWords = 4
  Lengths = {1, 2}
  MaxSent = 5
SPECIFICATION CalmSpec
INVARIANTS TypeOK MasksAddUp NoLostWakeup CountsAreExact
PROPERTIES ImplementsMailbox
CHECK_DEADLOCK FALSE
