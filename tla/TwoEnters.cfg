CONSTANTS
  w1 = w1
  w2 = w2
  w3 = w3
  None = None
  Win <- MCWin
  Place <- MCPlace
  Meets <- MCMeets
  JobCap = 127
  Home = 1
  Inputs = {"F10", "F11", "arrow", "enter"}
  Eager = {"enter"}
  MaxJobs = 2
  MaxKeys = 2
  Stack0 <- Two
  Place0 <- Row
  Free0 <- NoWindows
SPECIFICATION Spec
INVARIANTS TopIsActive
