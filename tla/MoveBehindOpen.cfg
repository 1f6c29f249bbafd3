CONSTANTS
  w1 = w1
  w2 = w2
  w3 = w3
  None = None
  Win <- MCWin
  Place <- MCPlace
  Meets <- MCMeets
  JobCap = 127
  Home = 1
  Inputs = {"open", "F11", "enter"}
  Eager = {"F11"}
  MaxJobs = 2
  MaxKeys = 1
  Stack0 <- Two
  Place0 <- Row
  Free0 <- Third
SPECIFICATION Spec
PROPERTIES MoveStartsOnTop
