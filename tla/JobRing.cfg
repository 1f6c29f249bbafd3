CONSTANTS
  JOBLIST_SIZE = 7
  Word    <- MCWord
  Cmd     <- MCCmd
  Arity   <- MCArity
  Batches <- MCBatches
  Starts  <- MCStarts
  Garbage <- MCGarbage
SPECIFICATION FairSpec
INVARIANTS TypeOK Framing
PROPERTIES ImplementsJobList QueuedJobStarts
