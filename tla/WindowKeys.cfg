CONSTANTS
  w1 = w1
  w2 = w2
  w3 = w3
  None = None
  Win <- MCWin
  Place <- MCPlace
  Meets <- MCMeets
  JobCap = 127
  Home = 1
  Inputs = {"open", "F9", "F10", "F11", "F12", "arrow", "enter"}
  Eager = {}
  MaxJobs = 1
  MaxKeys = 1
  Stack0 <- Two
  Place0 <- Row
  Free0 <- Third
SPECIFICATION Spec
INVARIANTS TypeOK TasksKnow ScreenIsPainted FrameExclusion EnabledExclusion DrawExclusion TopIsActive AnswersAwaited SlotsAreSafe ClosedIsLast
PROPERTIES MoveStartsOnTop
