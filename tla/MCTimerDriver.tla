--------------------------- MODULE MCTimerDriver ---------------------------
(***************************************************************************)
(* Words of four bits, so that times cross the sign of a word, the clock   *)
(* counts all a word can count more than once and intervals do not fit.    *)
(* Timers are set for less than half of what a word can count: 24 days at  *)
(* 1 kHz; and not between 24 and 28 days after the clock last had to do    *)
(* (DailySpec).                                                            *)
(***************************************************************************)
EXTENDS TimerDriver

OneIsPeriodic == [n \in Node |-> IF n = CHOOSE m \in Node : TRUE THEN 2 ELSE 0]

(* Bounds: the ticks in which clients call the driver, and how old the time *)
(* is to which they add.                                                    *)
CallTimes == {0, 1, 4, 8, 9, 15, 16}
Fresh(n)  == time[n] \in now - 1 .. now

ClientNext ==
  \/ now \in CallTimes /\ \E n \in Node : SetNowTimeNode(n)
  \/ now \in CallTimes /\ \E n \in Node : Fresh(n) /\ AddTimeNode(n) /\ Near(n)
  \/ now \in CallTimes /\ ~IdleTooLong /\ \E n \in Node : SetTimer(n)
  \/ now \in CallTimes /\ \E n \in Node : CancelTimer(n)
  \/ Tick
  \/ TimesOut
  \/ FindInterval
  \/ Call
  \/ Wait

ClientSpec == Init /\ [][ClientNext]_vars /\ Fairness

=============================================================================
