CONSTANTS
  Size = 16
  KeyBatches <- OfKeyboard
  MouseBatches <- OfMouse
  MaxBatches = 5
  MaxKeys = 2
  MaxNacks = 1
SPECIFICATION ClientSpec
INVARIANTS TypeOK FreeIsExact StartsEmpty NoBreakpoint AnswersAreNotKeys LampsAreRight
PROPERTIES ImplementsQueue EndsAtLast
CHECK_DEADLOCK FALSE
