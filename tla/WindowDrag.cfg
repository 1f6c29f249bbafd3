CONSTANTS
  w1 = w1
  w2 = w2
  w3 = w3
  None = None
  Win <- MCWin
  Place <- MCPlace
  Meets <- MCMeets
  JobCap = 127
  Home = 1
  Inputs = {"open", "close", "F12", "click", "title", "pointer"}
  Eager = {}
  MaxJobs = 1
  MaxKeys = 1
  Stack0 <- NoWindows
  Place0 <- AllAtHome
  Free0 <- Two
SPECIFICATION FairSpec
INVARIANTS TasksKnow FrameExclusion SlotsAreSafe ClosedIsLast
PROPERTIES JobSettles CloseCompletes OpenCompletes
