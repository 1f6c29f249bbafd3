----------------------------- MODULE AlarmClock -----------------------------
(***************************************************************************)
(* What the timer driver promises: an alarm rings at the tick for which it *)
(* was set, neither before nor after; at the next tick if it was set too   *)
(* late for that; not after it was cancelled; and a periodic one again at  *)
(* each multiple of its period, those that have passed already at once.    *)
(***************************************************************************)
EXTENDS Integers

CONSTANTS
  Alarm, Moment,
  Period,  (* the period of each alarm, 0 for one that rings once          *)
  MaxTime

VARIABLES
  now,     (* ticks so far                                                 *)
  due,     (* when an alarm should ring, Off if it is off                  *)
  late     (* the alarms set in this tick for a moment that had come       *)

clockVars == <<now, due, late>>

Off == -1

Init ==
  /\ now = 0
  /\ due = [a \in Alarm |-> Off]
  /\ late = {}

Set(a) ==
  /\ due[a] = Off
  /\ due'[a] \in Moment
  /\ due' = [due EXCEPT ![a] = due'[a]]
  /\ late' = (IF due'[a] <= now THEN late \cup {a} ELSE late)
  /\ UNCHANGED now

Cancel(a) ==
  /\ due' = [due EXCEPT ![a] = Off]
  /\ late' = late \ {a}
  /\ UNCHANGED now

Ring(a) ==
  /\ due[a] # Off /\ due[a] <= now /\ a \notin late
  /\ due' = [due EXCEPT ![a] = IF Period[a] = 0 THEN Off ELSE @ + Period[a]]
  /\ UNCHANGED <<now, late>>

(* Time does not pass over an alarm. *)
Tick ==
  /\ now < MaxTime
  /\ \A a \in Alarm \ late : due[a] # Off => due[a] > now
  /\ now' = now + 1
  /\ late' = {}
  /\ UNCHANGED due

Rings == \E a \in Alarm : Ring(a)

Next ==
  \/ \E a \in Alarm : Set(a)
  \/ \E a \in Alarm : Cancel(a)
  \/ Rings
  \/ Tick

Spec == Init /\ [][Next]_clockVars /\ WF_clockVars(Rings) /\ WF_clockVars(Tick)

=============================================================================
