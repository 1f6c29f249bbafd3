---------------------------- MODULE TimerDriver ----------------------------
(***************************************************************************)
(* pcat/timerdrv.ask: timers in a chain in the order of their times, each  *)
(* with the interval to the next one, so that the interrupt handler of the *)
(* clock counts one word down and looks at intervals of one signed word    *)
(* only.  Times themselves have three words and do not overflow; they are  *)
(* integers here.  An interval that does not fit is marked Invalid, which  *)
(* is itself a word that one can calculate with.                           *)
(*                                                                         *)
(* Every call and the whole handler run with interrupts disabled; the      *)
(* handler is cut into steps, between which nothing else happens, one for  *)
(* each turn of its loops.                                                 *)
(***************************************************************************)
EXTENDS Integers, SequencesExt

CONSTANTS
  Node,        (* the timers                                              *)
  last,        (* the node at the end of the chain                        *)
  Unit,        (* a sixteenth of what a word counts, 0x10000000           *)
  Delays,      (* what clients add to the current time                    *)
  Horizon,     (* how far ahead of it they set timers, in DailySpec       *)
  Period,      (* the period of each timer, 0 for one that rings once     *)
  MaxTime      (* bound: how many ticks there are                         *)

ASSUME WordAssumption == Unit \in Nat \ {0}
ASSUME NodeAssumption == last \notin Node
ASSUME DelayAssumption == Delays \subseteq Nat /\ Period \in [Node -> Nat] /\ MaxTime \in Nat

Word == 16 * Unit
Half == 8 * Unit

ASSUME HorizonAssumption == Horizon \in 1 .. Half /\ \A n \in Node : Period[n] < Horizon

Signed(n)   == ((n + Half) % Word) - Half
Unsigned(n) == n % Word
Fits(n)     == -Half <= n /\ n < Half

Invalid     == Signed(9 * Unit)                \* 0x90000000
Calculated  == Signed(10 * Unit)               \* 0xa0000000
Longest     == Word - 1                        \* 0xffffffff
Never       == MaxTime + 3 * Word              \* the time of last

VARIABLES
  head,        (* time and interval of head: up to when the clock counts  *)
  longcounter, (* how many ticks are left until then                      *)
  status,      (* 0: counting; 1: timers are being handled                *)
  chain,       (* the nodes behind head, the first first; ends in last    *)
  timeout,     (* the nodes that have timed out                           *)
  time,        (* the time of each node                                   *)
  interval,    (* of each node, up to the next one                        *)
  linked,      (* the nodes in one of them: no mark in their back         *)
  pc,          (* where the handler is, "idle" when it is not running     *)
  left, late,  (* its registers EAX and EBX                               *)
  now          (* history: ticks so far                                   *)

chainVars == <<head, chain, timeout, time, interval, linked>>
vars == <<chainVars, longcounter, status, pc, left, late, now>>

Init ==
  /\ head = [time |-> 1, interval |-> Invalid]
  /\ longcounter = 1
  /\ status = 0
  /\ chain = <<last>>
  /\ timeout = <<>>
  /\ time = [n \in Node \cup {last} |-> IF n = last THEN Never ELSE 0]
  /\ interval = [n \in Node \cup {last} |-> 0]
  /\ linked = {}
  /\ pc = "idle"
  /\ left = 0 /\ late = 0
  /\ now = 0

(* From one time to a later one as an interval, or Invalid.  The code      *)
(* subtracts the low words and takes the difference if, as signed words,   *)
(* the one is not less than the other; that is not whether it fits.        *)
Interval(from, to) ==
  IF Signed(to) >= Signed(from) /\ 0 <= to - from /\ to - from < Word
  THEN Signed(to - from) ELSE Invalid

-----------------------------------------------------------------------------
(* TimerRegister, with the state of the chain as a record. *)

Chain == [head |-> head, chain |-> chain, timeout |-> timeout, interval |-> interval,
          longcounter |-> longcounter]

(* GetTimeAndFixZero: the clock is made to count only to the next tick,    *)
(* and what it would have counted more goes to head's interval.            *)
FixZero(c) ==
  LET more == c.longcounter - 1
      sum  == c.head.interval + Signed(more)
  IN [c EXCEPT !.head = [time     |-> @.time - more,
                         interval |-> IF Signed(more) < 0 \/ sum < 0 THEN Invalid ELSE Signed(sum)],
               !.longcounter = 1]

(* A node for time t goes behind k others, or behind head if k = 0.  The   *)
(* interval before it becomes before, the one behind it after.             *)
Link(c, n, k, before, after) ==
  LET c1 == IF k = 0 THEN [c EXCEPT !.head.interval = before]
            ELSE [c EXCEPT !.interval[c.chain[k]] = before]
  IN [c1 EXCEPT !.chain = InsertAt(@, k + 1, n), !.interval[n] = after]

(* comp_time: find the place by comparing times, which is slower.  No time *)
(* is later than that of last.                                             *)
LinkByTime(c, n, t) ==
  LET earlier == {i \in 1 .. Len(c.chain) - 1 : time[c.chain[i]] <= t}
      k       == Cardinality(earlier)
      from    == IF k = 0 THEN c.head.time ELSE time[c.chain[k]]
  IN Link(c, n, k, Interval(from, t), Interval(t, time[c.chain[k + 1]]))

(* Behind(c)[i]: how far the node after the i-th is behind the first one.   *)
Behind(c) ==
  LET Sum[i \in 0 .. Len(c.chain)] ==
        IF i = 0 THEN 0 ELSE Sum[i - 1] + Unsigned(c.interval[c.chain[i]])
  IN Sum

(* insert: by subtracting intervals, that of head first, for as long as    *)
(* something is left; an invalid interval is, unsigned, longer than all,   *)
(* and so is the one before last.                                          *)
LinkByInterval(c, n, t) ==
  LET x      == t - c.head.time - c.head.interval
      passed == {i \in 0 .. Len(c.chain) - 2 : Behind(c)[i] <= x}
      k      == IF x < 0 \/ c.head.interval < Calculated THEN 0 ELSE Cardinality(passed)
      before == IF k = 0 THEN t - c.head.time ELSE Signed(x - Behind(c)[k - 1])
      old    == IF k = 0 THEN c.head.interval ELSE c.interval[c.chain[k]]
      next   == time[c.chain[k + 1]]
  IN Link(c, n, k, before, IF old < 0 THEN Interval(t, next) ELSE Signed(next - t))

(* A time that has come already goes to the nodes that have timed out; if  *)
(* the clock is counting, head's time is in the future and is fixed first. *)
Register(n, t, handling) ==
  LET c == IF t < head.time /\ handling = 0 THEN FixZero(Chain) ELSE Chain
      d == t - c.head.time
  IN IF d < 0 THEN [c EXCEPT !.timeout = Append(@, n)]
     ELSE IF d >= Half \/ ~Fits(d - c.head.interval) THEN LinkByTime(c, n, t)
     ELSE LinkByInterval(c, n, t)

SetChain(c) ==
  /\ head' = c.head
  /\ chain' = c.chain
  /\ timeout' = c.timeout
  /\ interval' = c.interval
  /\ longcounter' = c.longcounter

-----------------------------------------------------------------------------
(* The calls. *)

(* GetNowTime.                                                             *)
NowTime == head.time - longcounter

(* SetNowTimeNode and AddTimeNode: clients use them while the node is not  *)
(* linked.                                                                 *)
SetNowTimeNode(n) ==
  /\ pc = "idle" /\ n \notin linked
  /\ time' = [time EXCEPT ![n] = NowTime]
  /\ UNCHANGED <<head, chain, timeout, interval, linked, longcounter, status, pc, left,
                 late, now>>

AddTimeNode(n) ==
  /\ pc = "idle" /\ n \notin linked
  /\ \E d \in Delays : time' = [time EXCEPT ![n] = @ + d]
  /\ UNCHANGED <<head, chain, timeout, interval, linked, longcounter, status, pc, left,
                 late, now>>

(* SetTimer, after SetMsgDataNode, which stops if the node is linked.      *)
SetTimer(n) ==
  /\ pc = "idle" /\ n \notin linked
  /\ SetChain(Register(n, time[n], status))
  /\ status' = 0
  /\ linked' = linked \cup {n}
  /\ UNCHANGED <<time, pc, left, late, now>>

(* The two intervals become one; the sum of two that are not negative is   *)
(* not looked at.                                                          *)
Joined(a, b) == IF a < 0 \/ b < 0 THEN Invalid ELSE Signed(a + b)

(* Where the links of a node are.                                         *)
Place(s, n) == CHOOSE i \in DOMAIN s : s[i] = n

(* CancelTimer: the clock counts on as it did.  A node that has timed out  *)
(* but was not called yet is taken from there.                             *)
(* Mutant: a node that has timed out stays there. *)
BugCancelLate(n) ==
  /\ pc = "idle"
  /\ n \in linked
  /\ IF n \in Range(timeout)
     THEN UNCHANGED <<head, chain, timeout, interval>>
     ELSE LET k == Place(chain, n) IN
          /\ chain' = RemoveAt(chain, k)
          /\ IF k = 1
             THEN /\ head' = [head EXCEPT !.interval = Joined(interval[n], @)]
                  /\ UNCHANGED interval
             ELSE /\ interval' = [interval EXCEPT ![chain[k - 1]] = Joined(interval[n], @)]
                  /\ UNCHANGED head
          /\ UNCHANGED timeout
  /\ linked' = linked \ {n}
  /\ UNCHANGED <<time, longcounter, status, pc, left, late, now>>
(* Mutant: the interval before the node stays. *)
BugCancelTimer(n) ==
  /\ pc = "idle"
  /\ n \in linked
  /\ chain' = Remove(chain, n)
  /\ timeout' = Remove(timeout, n)
  /\ linked' = linked \ {n}
  /\ UNCHANGED <<head, interval, time, longcounter, status, pc, left, late, now>>
CancelTimer(n) ==
  /\ pc = "idle"
  /\ n \in linked
  /\ IF n \in Range(timeout)
     THEN /\ timeout' = RemoveAt(timeout, Place(timeout, n))
          /\ UNCHANGED <<head, chain, interval>>
     ELSE LET k == Place(chain, n) IN
          /\ chain' = RemoveAt(chain, k)
          /\ IF k = 1
             THEN /\ head' = [head EXCEPT !.interval = Joined(interval[n], @)]
                  /\ UNCHANGED interval
             ELSE /\ interval' = [interval EXCEPT ![chain[k - 1]] = Joined(interval[n], @)]
                  /\ UNCHANGED head
          /\ UNCHANGED timeout
  /\ linked' = linked \ {n}
  /\ UNCHANGED <<time, longcounter, status, pc, left, late, now>>

-----------------------------------------------------------------------------
(* The interrupt handler. *)

(* TimerLongcount.                                                         *)
Tick ==
  /\ pc = "idle" /\ now < MaxTime
  /\ now' = now + 1
  /\ longcounter' = Unsigned(longcounter - 1)
  /\ IF longcounter' = 0
     THEN pc' = "check" /\ left' = head.interval /\ late' = 0
     ELSE UNCHANGED <<pc, left, late>>
  /\ UNCHANGED <<chainVars, status>>

(* check_timeout: the first node has timed out if its interval is used up  *)
(* by what the ones before it are late.                                    *)
First == Head(chain)

TimesOut ==
  /\ pc = "check" /\ left >= 0
  /\ left - late <= 0
  /\ First # last
  /\ timeout' = Append(timeout, First)
  /\ chain' = Tail(chain)
  /\ late' = late - left
  /\ left' = interval[First]
  /\ UNCHANGED <<head, time, interval, linked, longcounter, status, pc, now>>

(* It has not: what is left is the interval of head; an invalid one is     *)
(* calculated from the times if it fits by now.                            *)
FindInterval ==
  LET d == time[First] - head.time
      calculated == IF 0 < d /\ d < Half THEN d ELSE Invalid
  IN
  /\ pc = "check"
  /\ \/ left < 0 /\ head' = [head EXCEPT !.interval = calculated]
     \/ left >= 0 /\ left - late > 0 /\ head' = [head EXCEPT !.interval = left - late]
  /\ pc' = (IF timeout # <<>> THEN "call" ELSE "wait")
  /\ left' = 0 /\ late' = 0
  /\ UNCHANGED <<chain, timeout, time, interval, linked, longcounter, status, now>>

(* exec3: the first node that timed out is called, and registered again if *)
(* it is periodic; then the chain is looked at again.                      *)
(* Mutant: a periodic timer counts from head's time, not from its own. *)
BugCall ==
  LET n == Head(timeout)
      t == head.time + Period[n] + 1
      c == [Register(n, t, 1) EXCEPT !.timeout = Tail(@)]
  IN
  /\ pc = "call"
  /\ status' = 1
  /\ IF Period[n] = 0
     THEN /\ timeout' = Tail(timeout)
          /\ linked' = linked \ {n}
          /\ UNCHANGED <<head, chain, interval, time, longcounter>>
          /\ left' = head.interval
     ELSE /\ time' = [time EXCEPT ![n] = t]
          /\ SetChain(c)
          /\ UNCHANGED linked
          /\ left' = c.head.interval
  /\ pc' = "check" /\ late' = 0
  /\ UNCHANGED now
Call ==
  LET n == Head(timeout)
      t == time[n] + Period[n]
      c == [Register(n, t, 1) EXCEPT !.timeout = Tail(@)]
  IN
  /\ pc = "call"
  /\ status' = 1
  /\ IF Period[n] = 0
     THEN /\ timeout' = Tail(timeout)
          /\ linked' = linked \ {n}
          /\ UNCHANGED <<head, chain, interval, time, longcounter>>
          /\ left' = head.interval
     ELSE /\ time' = [time EXCEPT ![n] = t]
          /\ SetChain(c)
          /\ UNCHANGED linked
          /\ left' = c.head.interval
  /\ pc' = "check" /\ late' = 0
  /\ UNCHANGED now

(* short_wait and long32_wait: count up to the first node, or as far as a  *)
(* word can count if it is farther.                                        *)
(* Mutant: a wait may be longer than a word can count. *)
BugWaitLong ==
  LET d     == time[First] - head.time
      ticks == IF head.interval >= 0 THEN head.interval ELSE d
  IN
  /\ pc = "wait"
  /\ longcounter' = ticks
  /\ head' = [time |-> time[First], interval |-> 0]
  /\ status' = 0
  /\ pc' = "idle"
  /\ UNCHANGED <<chain, timeout, time, interval, linked, left, late, now>>
(* Mutant: head's interval is not reset. *)
BugWait ==
  LET d     == time[First] - head.time
      ticks == IF head.interval >= 0 THEN head.interval ELSE d
  IN
  /\ pc = "wait"
  /\ IF 0 <= ticks /\ ticks < Word
     THEN /\ longcounter' = ticks
          /\ head' = [head EXCEPT !.time = time[First]]
     ELSE /\ longcounter' = Longest
          /\ head' = [time |-> head.time + Longest,
                      interval |-> IF d - Longest \in 1 .. Half - 1 THEN d - Longest ELSE Invalid]
  /\ status' = 0
  /\ pc' = "idle"
  /\ UNCHANGED <<chain, timeout, time, interval, linked, left, late, now>>
Wait ==
  LET d     == time[First] - head.time
      ticks == IF head.interval >= 0 THEN head.interval ELSE d
  IN
  /\ pc = "wait"
  /\ IF 0 <= ticks /\ ticks < Word
     THEN /\ longcounter' = ticks
          /\ head' = [time |-> time[First], interval |-> 0]
     ELSE /\ longcounter' = Longest
          /\ head' = [time |-> head.time + Longest,
                      interval |-> IF d - Longest \in 1 .. Half - 1 THEN d - Longest ELSE Invalid]
  /\ status' = 0
  /\ pc' = "idle"
  /\ UNCHANGED <<chain, timeout, time, interval, linked, left, late, now>>

-----------------------------------------------------------------------------
Handler == TimesOut \/ FindInterval \/ Call \/ Wait

Next ==
  \/ \E n \in Node : SetNowTimeNode(n)
  \/ \E n \in Node : AddTimeNode(n)
  \/ \E n \in Node : SetTimer(n)
  \/ \E n \in Node : CancelTimer(n)
  \/ Tick
  \/ TimesOut
  \/ FindInterval
  \/ Call
  \/ Wait

(* The clock ticks, and its handler ends. *)
Fairness == WF_vars(Tick) /\ WF_vars(Handler)

Spec == Init /\ [][Next]_vars

(* What clients do from day to day: they set timers for a time not too far *)
(* ahead, and not in the few moments when the clock has counted so long    *)
(* that what GetTimeAndFixZero adds to an invalid interval makes it look   *)
(* valid.                                                                  *)
Near(n) == time'[n] < now + Horizon

IdleTooLong == head.interval < 0 /\ Signed(longcounter - 1) + head.interval >= 0

DailyNext ==
  \/ \E n \in Node : SetNowTimeNode(n)
  \/ \E n \in Node : AddTimeNode(n) /\ Near(n)
  \/ ~IdleTooLong /\ \E n \in Node : SetTimer(n)
  \/ \E n \in Node : CancelTimer(n)
  \/ Tick
  \/ Handler

DailySpec == Init /\ [][DailyNext]_vars

-----------------------------------------------------------------------------
(* The state has the right shape; a node is linked where its mark says. *)
TypeOK ==
  /\ head.time \in Int /\ Fits(head.interval)
  /\ longcounter \in 0 .. Longest
  /\ status \in {0, 1}
  /\ last \in Range(chain) /\ Range(chain) \subseteq Node \cup {last}
  /\ Range(timeout) \subseteq Node
  /\ pc \in {"idle", "check", "call", "wait"}
  /\ linked \subseteq Node

(* The chain is sorted, and every interval in it is exact unless it is     *)
(* marked: that the handler adds, subtracts and joins intervals and never  *)
(* looks at times gives the same as if it did.                             *)
Times     == <<head.time>> \o [i \in DOMAIN chain |-> time[chain[i]]]
Intervals == <<head.interval>> \o [i \in DOMAIN chain |-> interval[chain[i]]]
ChainIsExact ==
  pc = "idle" =>
    \A i \in DOMAIN chain :
      /\ Times[i] <= Times[i + 1]
      /\ Intervals[i] \in {Invalid, Times[i + 1] - Times[i]}

(* Each linked timer is in exactly one of the two chains, once.            *)
EachOnce ==
  \A n \in Node :
    Cardinality({i \in DOMAIN chain : chain[i] = n})
      + Cardinality({i \in DOMAIN timeout : timeout[i] = n})
    = IF n \in linked THEN 1 ELSE 0

(* While the clock counts, the time can be told from head and the counter, *)
(* whoever has made the clock count less (GetTimeAndFixZero).              *)
NowIsRight == pc = "idle" => NowTime = now

(* Every timer rings at its tick: the chain is an alarm clock.             *)
Clock == INSTANCE AlarmClock WITH
  Alarm  <- Node,
  Moment <- 0 .. Never,
  due    <- [n \in Node |-> IF n \in linked THEN time[n] ELSE -1],
  late   <- IF pc = "idle" THEN Range(timeout) ELSE {}
KeepsTime == Clock!Spec

=============================================================================
