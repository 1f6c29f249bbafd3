CONSTANTS
  w1 = w1
  w2 = w2
  w3 = w3
  None = None
  Win <- MCWin
  Place <- MCPlace
  Meets <- MCMeets
  JobCap = 127
  Home = 1
  Inputs = {"F12"}
  Eager = {"F12"}
  MaxJobs = 1
  MaxKeys = 2
  Stack0 <- Two
  Place0 <- Row
  Free0 <- NoWindows
SPECIFICATION Spec
INVARIANTS SlotsAreSafe
