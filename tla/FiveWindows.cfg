CONSTANTS
  w1 = w1
  w2 = w2
  w3 = w3
  w4 = w4
  w5 = w5
  None = None
  Win <- MCWin
  Place <- MCPlace
  Meets <- MCMeets
  JobCap = 127
  Home = 1
  Inputs = {"close"}
  Eager = {}
  MaxJobs = 1
  MaxKeys = 1
  Stack0 <- Five
  Place0 <- Row5
  Free0 <- NoWindows
SPECIFICATION Spec
INVARIANTS RedrawsAbove
