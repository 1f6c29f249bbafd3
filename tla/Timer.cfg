CONSTANTS
  Node = {t1, t2}
  last = last
  Unit = 1
  Delays = {3, 7}
  Horizon = 8
  Period <- OneIsPeriodic
  MaxTime = 18
SPECIFICATION ClientSpec
INVARIANTS TypeOK ChainIsExact EachOnce NowIsRight
PROPERTIES KeepsTime
CHECK_DEADLOCK FALSE
