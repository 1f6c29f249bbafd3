------------------------------- MODULE WinMan -------------------------------
(***************************************************************************)
(* winman0, the window manager: one task that handles one signal after the *)
(* other (the loop in main) and does its work as jobs, one at a time.  A   *)
(* job that must wait for a task leaves a function to be called with the   *)
(* answer (pjob->func) and goes on when the last answer has come.  Here    *)
(* are the four jobs about windows; how the job list itself is kept is in  *)
(* JobRing.                                                                *)
(*                                                                         *)
(* job_flag0 and condition are sets of named bits: "show" is bit 0 (the    *)
(* task may draw when it likes) and "input" bit 1 of either; "must",       *)
(* "dif", "override", "waitredraw", "waitdisable" and "nowindow" are the   *)
(* WINFLG_ bits of job_flag0.                                              *)
(***************************************************************************)
EXTENDS WindowSignals, SequencesExt

CONSTANTS
  JobCap,     (* jobs that fit into the list: (JOBLIST_SIZE - 1) \div 2   *)
  Home        (* the place of the first window, the shell's (16, 32)     *)

ASSUME HomeAssumption == Home \in Place

VARIABLES
  unuse,      (* the free slots, the next one to be taken first            *)
  condition,  (* for each slot the condition its task was told last        *)
  job_flag0,  (* for each slot what the job in progress notes about it     *)
  closing,    (* the slots whose closing was asked for (flags bit 0)       *)
  iactive,    (* the window that gets the keys                             *)
  pokon0,     (* the first window, the shell's                             *)
  list,       (* the jobs that wait                                        *)
  job,        (* STR_JOB: the job in progress                              *)
  press,      (* the window held by its title bar (press0), or None        *)
  keys,       (* the keys that are signals to winman0                      *)
  wild        (* the code followed a pointer to no window, or to a closed  *)
              (* one; what happens then is not modelled                    *)

winmanVars == <<stack, place, unuse, condition, job_flag0, closing, iactive, pokon0,
                list, job, press, keys, wild>>

Bits == Condition \cup {"must", "dif", "override", "waitredraw", "waitdisable", "nowindow"}
Jobs == [cmd : {"open", "activate", "move", "close"}, win : Win \cup {None}]
Progress == [now : {"none", "open", "activate", "move", "close"},
             func : {"none", "movewin1", "movewin6", "general2"},
             count : Int, win : Win \cup {None}, ready : BOOLEAN, pos : Place]

Top == IF stack = <<>> THEN None ELSE Head(stack)

(* The list is full or it is not: writejob_n's answer is not looked at. *)
WriteJob(cmd, w) ==
  list' = IF Len(list) < JobCap THEN Append(list, [cmd |-> cmd, win |-> w]) ELSE list

Wild ==
  /\ wild' = TRUE
  /\ UNCHANGED <<stack, place, unuse, condition, job_flag0, closing, iactive, pokon0, list,
                 job, press, keys, toWinman, toTask, screenVars>>

(* putwallpaper: the wallpaper goes over whatever of s stands at p. *)
Wallpaper(s, pl, p) ==
  damaged' = damaged \cup { w \in ToSet(s) : Overlap(p, pl[w]) }

(* redirect_input: the keys go to w, but for those that are winman0's. *)
RedirectInput(w) == iactive' = w /\ keys' = FunctionKeys

(* job_movewin3: the frame is drawn with exclusive or, so twice is never. *)
Frame(f, p) == IF p \in f THEN f \ {p} ELSE f \cup {p}

-----------------------------------------------------------------------------
(* job_general1 and job_general2: how every job that changes the picture   *)
(* ends.  cd, fl, box and j are condition, job_flag0, toTask and job as    *)
(* they are when these functions begin.                                    *)

(* The new condition: free to draw unless hidden, input for the top.       *)
NewCondition(s, pl, w) ==
  (IF Hiding(s, pl, w) = {} THEN {"show"} ELSE {}) \cup (IF w = Head(s) THEN {"input"} ELSE {})

Noted(s, pl, cd, fl, w) ==
  (fl[w] \ {"show", "input", "waitredraw", "waitdisable"})
    \cup NewCondition(s, pl, w)
    \cup (IF "show" \in cd[w] THEN {} ELSE {"override"})

Own(s, pl, cd, fl, w) ==
  LET f == Noted(s, pl, cd, fl, w) IN
  f \cup (IF {"override", "show"} \subseteq f \/ cd[w] # f \cap Condition
          THEN { IF "show" \in cd[w] THEN "dif" ELSE "must" } ELSE {})

(* Mutant of the next: redrawing a window redraws nothing above it. *)
BugAlone(s, own, pl, i) == "must" \in own[i]

(* Which windows must be redrawn because of those below them.  The loop    *)
(* starts at the bottom and then goes on from the top down, so the marks a *)
(* window gets from below, the bottom excepted, come after its turn.       *)
Spread(s, own, pl, i) ==
  LET n == Len(s)
      over(k, m) == Overlap(pl[s[k]], pl[s[m]])
      inTurn(k) == "must" \in own[k] \/ (k < n /\ "must" \in own[n] /\ over(k, n))
  IN inTurn(i) \/ \E k \in i + 1 .. n - 1 : inTurn(k) /\ over(i, k)

NewFlags(s, pl, cd, fl) ==
  LET own == [i \in 1 .. Len(s) |-> Own(s, pl, cd, fl, s[i])] IN
  [w \in Win |-> IF w \in ToSet(s)
                 THEN own[At(s, w)] \cup (IF Spread(s, own, pl, At(s, w)) THEN {"must"} ELSE {})
                 ELSE fl[w]]

(* Mutants of the next: a window that stays hidden is set free; the status *)
(* is not masked with 3.                                                   *)
BugEnablesHidden(f, c) ==
  (IF "override" \in f THEN <<Order("enable")>>
   ELSE IF f \cap {"override", "show"} = {} THEN <<Order("disable")>> ELSE <<>>)
    \o (IF f \cap Condition = c THEN <<>> ELSE <<Mode(f \cap Condition)>>)
    \o <<Order(IF "must" \in f THEN "redraw" ELSE "redrawdif")>>
BugNoMask(f, c) == <<[sig |-> "mode", cond |-> f], Order("redraw")>>

(* What a window with flags f and condition c is told when its turn to be  *)
(* redrawn has come.                                                       *)
RedrawOrders(f, c) ==
  (IF {"override", "show"} \subseteq f THEN <<Order("enable")>>
   ELSE IF f \cap {"override", "show"} = {} THEN <<Order("disable")>> ELSE <<>>)
    \o (IF f \cap Condition = c THEN <<>> ELSE <<Mode(f \cap Condition)>>)
    \o <<Order(IF "must" \in f THEN "redraw" ELSE "redrawdif")>>

(* The loop of job_general2: from the place-th window of the stack up to   *)
(* the top, the first that is due is redrawn, and its answers awaited.     *)
RedrawFrom(from, cd, fl, box, j) ==
  LET s == stack'
      due == { k \in 1 .. from : fl[s[k]] \cap {"must", "dif"} # {} }
      at == IF due = {} THEN 0 ELSE Max(due)
      passed == { s[k] : k \in at + 1 .. from }
      freed == [v \in Win |-> IF v \in passed /\ {"override", "show"} \subseteq fl[v]
                              THEN Append(box[v], Order("enable")) ELSE box[v]]
      cleared == [v \in Win |-> IF v \in passed THEN {} ELSE fl[v]]
      w == s[at]
      freeze == fl[w] \cap {"override", "show"} = {}
  IN IF due = {}
     THEN /\ job' = [j EXCEPT !.now = "none"]
          /\ job_flag0' = cleared
          /\ condition' = cd
          /\ toTask' = freed
     ELSE /\ job' = [j EXCEPT !.win = w, !.count = (IF freeze THEN 1 ELSE @) + 1]
          /\ job_flag0' = [cleared EXCEPT ![w] = {"waitredraw"} \cup
                                              (IF freeze THEN {"waitdisable"} ELSE {})]
          /\ condition' = [cd EXCEPT ![w] = fl[w] \cap Condition]
          /\ toTask' = [freed EXCEPT ![w] = @ \o RedrawOrders(fl[w], cd[w])]

(* job_general1, then the first turn of job_general2. *)
General1(cd, fl, box, j) ==
  IF stack' = <<>>
  THEN /\ job' = [j EXCEPT !.now = "none"]
       /\ job_flag0' = fl
       /\ condition' = cd
       /\ toTask' = box
  ELSE RedrawFrom(Len(stack'), cd, NewFlags(stack', place', cd, fl), box,
                  [j EXCEPT !.func = "general2", !.count = 0, !.win = None])

(* job_general2 called with an answer.  An answer nobody waits for is      *)
(* thrown away.                                                            *)
General2(w, waited) ==
  LET fl == [job_flag0 EXCEPT ![w] = @ \ {waited}]
      j == [job EXCEPT !.count = @ - 1]
      at == At(stack, job.win)
  IN /\ UNCHANGED <<stack, place, damaged, frame>>
     /\ IF waited \notin job_flag0[w]
        THEN UNCHANGED <<job, job_flag0, condition, toTask>>
        ELSE IF j.count # 0
        THEN job' = j /\ job_flag0' = fl /\ UNCHANGED <<condition, toTask>>
        ELSE IF job.win = Top /\ fl[Top] = {}
        THEN job' = [j EXCEPT !.now = "none"] /\ job_flag0' = fl /\ UNCHANGED <<condition, toTask>>
        ELSE RedrawFrom(IF at = 1 THEN Len(stack) ELSE at - 1, condition, fl, toTask, j)

-----------------------------------------------------------------------------
(* The main loop runs jobs before it looks at the next signal, as long as  *)
(* none is in progress and one waits (runjobnext).                         *)
JobsFirst == job.now = "none" /\ list # <<>>
Starts(cmd) == ~ wild /\ JobsFirst /\ Head(list).cmd = cmd
Listens == ~ wild /\ ~ JobsFirst

(* job_openwin0.  A window that does not fit on the screen is left alone,  *)
(* and its task is asked to close it.                                      *)
OpenWindow(w, p) ==
  /\ stack' = <<w>> \o stack
  /\ place' = [place EXCEPT ![w] = p]
  /\ pokon0' = IF stack = <<>> THEN w ELSE pokon0
  /\ RedirectInput(w)
  /\ damaged' = damaged \cup {w}
  /\ General1([condition EXCEPT ![w] = Condition],
              [job_flag0 EXCEPT ![w] = {"must", "override"}],
              [toTask EXCEPT ![w] = Append(@, Mode(Condition))],
              [job EXCEPT !.now = "open"])

(* Mutant of the next: the task is not asked to close the window. *)
BugTooLargeSilent(w) ==
  /\ stack # <<>>
  /\ condition' = [condition EXCEPT ![w] = {}]
  /\ job_flag0' = [job_flag0 EXCEPT ![w] = {"nowindow"}]
  /\ UNCHANGED <<stack, place, pokon0, iactive, keys, damaged, job, toTask>>

TooLarge(w) ==
  /\ stack # <<>>
  /\ condition' = [condition EXCEPT ![w] = {}]
  /\ job_flag0' = [job_flag0 EXCEPT ![w] = {"nowindow"}]
  /\ toTask' = [toTask EXCEPT ![w] = Append(@, Order("close"))]
  /\ UNCHANGED <<stack, place, pokon0, iactive, keys, damaged, job>>
RunOpen ==
  /\ Starts("open")
  /\ LET w == Head(list).win IN
       \/ TooLarge(w)
       \/ \E p \in IF stack = <<>> THEN {Home} ELSE Place : OpenWindow(w, p)
  /\ list' = Tail(list)
  /\ UNCHANGED <<unuse, closing, press, wild, toWinman, frame>>

(* job_activewin0: w goes to the top of the ring and is handed the keys.   *)
ActivateWindow(w) ==
  /\ stack' = <<w>> \o RemoveAt(stack, At(stack, w))
  /\ RedirectInput(w)
  /\ damaged' = damaged \cup (IF Hiding(stack, place, w) = {} THEN {} ELSE {w})
  /\ UNCHANGED place
  /\ General1(condition, job_flag0, toTask, [job EXCEPT !.now = "activate"])
RunActivate ==
  /\ Starts("activate")
  /\ LET w == Head(list).win IN
       \/ w \notin Open /\ Wild
       \/ /\ w \in Open
          /\ IF w = Top
             THEN UNCHANGED <<stack, place, iactive, keys, damaged, job, job_flag0,
                              condition, toTask>>
             ELSE ActivateWindow(w)
          /\ list' = Tail(list)
          /\ UNCHANGED <<unuse, closing, pokon0, press, wild, toWinman, frame>>

(* Mutant of the next: that the window stops is not noted. *)
BugKeepsCondition(w) ==
  /\ toTask' = [toTask EXCEPT ![w] = Append(@, Order("disable"))]
  /\ job_flag0' = [v \in Win |-> IF v \in Open /\ At(stack, v) >= At(stack, w)
                                 THEN {} ELSE job_flag0[v]]
  /\ keys' = {}
  /\ job' = [job EXCEPT !.now = "move", !.func = "movewin1", !.count = 1,
                        !.win = Top, !.pos = place[Top]]
  /\ UNCHANGED condition

(* job_movewin0.  It is the top that will move, but w that is told to stop *)
(* drawing, and the notes are cleared from w down to the bottom.  No key   *)
(* is a signal to anyone now.                                              *)
StartMove(w) ==
  /\ condition' = [condition EXCEPT ![w] = {}]
  /\ toTask' = [toTask EXCEPT ![w] = Append(@, Order("disable"))]
  /\ job_flag0' = [v \in Win |-> IF v \in Open /\ At(stack, v) >= At(stack, w)
                                 THEN {} ELSE job_flag0[v]]
  /\ keys' = {}
  /\ job' = [job EXCEPT !.now = "move", !.func = "movewin1", !.count = 1,
                        !.win = Top, !.pos = place[Top]]
RunMove ==
  /\ Starts("move")
  /\ LET w == Head(list).win IN
       \/ w \notin Open /\ Wild
       \/ /\ w \in Open
          /\ StartMove(w)
          /\ list' = Tail(list)
          /\ UNCHANGED <<stack, place, unuse, closing, iactive, pokon0, press, wild,
                         toWinman, screenVars>>

(* job_closewin0.  The windows the closed one touched must be redrawn.     *)
CloseMarks(s, w) ==
  [v \in Win |-> IF v \in ToSet(s) /\ Overlap(place[w], place[v])
                 THEN job_flag0[v] \cup {"must"} ELSE job_flag0[v]]

(* Mutant of the next: the keys stay with the window that is gone. *)
BugKeepsInput(s, w) == UNCHANGED <<iactive, keys>>

CloseInput(s, w) ==
  IF w = Top THEN RedirectInput(IF s = <<>> THEN None ELSE Head(s))
             ELSE UNCHANGED <<iactive, keys>>

(* What the fields of a free slot hold is not read before the slot is used *)
(* again and they are set; here they go back to what they were at first.   *)
CloseWindow(w) ==
  LET s == RemoveAt(stack, At(stack, w)) IN
  /\ stack' = s
  /\ unuse' = Append(unuse, w)
  /\ CloseInput(s, w)
  /\ damaged' = (damaged \cup { v \in ToSet(s) : Overlap(place[w], place[v]) }) \ {w}
  /\ place' = [place EXCEPT ![w] = Home]
  /\ closing' = closing \ {w}
  /\ General1([condition EXCEPT ![w] = {}], [CloseMarks(s, w) EXCEPT ![w] = {}],
              [toTask EXCEPT ![w] = Append(@, Order("closed"))],
              [job EXCEPT !.now = "close"])

(* Mutant of the next: the task is not told. *)
BugHiddenNotTold(w) ==
  UNCHANGED <<stack, place, unuse, condition, job_flag0, closing, iactive, keys, job, damaged,
              toTask>>

(* A window that was never shown gives its slot back to nobody. *)
CloseHidden(w) ==
  /\ toTask' = [toTask EXCEPT ![w] = Append(@, Order("closed"))]
  /\ UNCHANGED <<stack, place, unuse, condition, job_flag0, closing, iactive, keys, job,
                 damaged>>
RunClose ==
  /\ Starts("close")
  /\ LET w == Head(list).win IN
       \/ w \notin Open /\ "nowindow" \notin job_flag0[w] /\ Wild
       \/ /\ \/ w \in Open /\ CloseWindow(w)
             \/ "nowindow" \in job_flag0[w] /\ CloseHidden(w)
          /\ list' = Tail(list)
          /\ UNCHANGED <<pokon0, press, wild, toWinman, frame>>

RunJobNext == RunOpen \/ RunActivate \/ RunMove \/ RunClose

-----------------------------------------------------------------------------
(* Signals from the tasks. *)
Hears(sig) == Listens /\ toWinman # <<>> /\ Head(toWinman).sig = sig
Sender == Head(toWinman).win

(* Mutant of the next: the slot stays in the ring of the free ones. *)
BugNotTaken ==
  /\ Hears("open") /\ unuse # <<>>
  /\ closing' = closing \ {Head(unuse)}
  /\ WriteJob("open", Head(unuse))
  /\ toWinman' = Tail(toWinman)
  /\ UNCHANGED <<stack, place, unuse, condition, job_flag0, iactive, pokon0, job, press,
                 keys, wild, toTask, screenVars>>

(* 0x20: a slot for a window that opens. *)
HearOpen ==
  /\ Hears("open")
  /\ \/ unuse = <<>> /\ Wild
     \/ /\ unuse # <<>>
        /\ unuse' = Tail(unuse)
        /\ closing' = closing \ {Head(unuse)}
        /\ WriteJob("open", Head(unuse))
        /\ toWinman' = Tail(toWinman)
        /\ UNCHANGED <<stack, place, condition, job_flag0, iactive, pokon0, job, press,
                       keys, wild, toTask, screenVars>>

(* Mutant of the next: the task is told at once that its window is closed. *)
BugClosedEarly ==
  /\ Hears("close")
  /\ closing' = closing \cup {Sender}
  /\ WriteJob("close", Sender)
  /\ toTask' = [toTask EXCEPT ![Sender] = Append(@, Order("closed"))]
  /\ toWinman' = Tail(toWinman)
  /\ UNCHANGED <<stack, place, unuse, condition, job_flag0, iactive, pokon0, job,
                 press, keys, wild, screenVars>>

(* 0x24: a window is closed once, as long as it has its handle.  The       *)
(* handle of one that has been closed is that of no window (chain_unuse),  *)
(* or of another that got it meanwhile: line 1495 asks neither.            *)
HearClose ==
  /\ Hears("close")
  /\ \/ Contains(unuse, Sender) /\ Wild
     \/ /\ ~ Contains(unuse, Sender)
        /\ IF Sender \in closing THEN UNCHANGED <<closing, list>>
           ELSE closing' = closing \cup {Sender} /\ WriteJob("close", Sender)
        /\ toWinman' = Tail(toWinman)
        /\ UNCHANGED <<stack, place, unuse, condition, job_flag0, iactive, pokon0, job,
                       press, keys, wild, toTask, screenVars>>

(* job_movewin1 and job_movewin2: the window that moves is still, so the   *)
(* frame is drawn and the keys that move it are declared.                  *)
FrameAppears ==
  /\ job' = [job EXCEPT !.count = @ - 1, !.ready = (job.count = 1) \/ @]
  /\ frame' = IF job.count = 1 THEN Frame(frame, job.pos) ELSE frame
  /\ keys' = IF job.count = 1 THEN keys \cup MoveKeys ELSE keys
  /\ UNCHANGED <<stack, place, condition, job_flag0, toTask, damaged>>

(* job_movewin6: every window the frame met or left has answered. *)
FrameReturns ==
  /\ job' = [job EXCEPT !.count = @ - 1]
  /\ frame' = IF job.count = 1 THEN Frame(frame, job.pos) ELSE frame
  /\ UNCHANGED <<stack, place, condition, job_flag0, keys, toTask, damaged>>

(* 0xc0 and 0xc4: the answer goes to the function the job left. *)
HearAnswer(sig, waited) ==
  /\ Hears(sig)
  /\ \/ (job.func = "none" \/ (job.func = "general2" /\ Contains(unuse, Sender))) /\ Wild
     \/ /\ \/ job.func = "movewin1" /\ sig = "stopped" /\ FrameAppears
           \/ /\ job.func = "movewin1" /\ sig = "drawn"
              /\ UNCHANGED <<stack, place, condition, job_flag0, keys, job, toTask, screenVars>>
           \/ job.func = "movewin6" /\ FrameReturns
           \/ /\ job.func = "general2" /\ ~ Contains(unuse, Sender)
              /\ General2(Sender, waited) /\ UNCHANGED keys
        /\ toWinman' = Tail(toWinman)
        /\ UNCHANGED <<unuse, closing, iactive, pokon0, list, press, wild>>
HearStopped == HearAnswer("stopped", "waitdisable")
HearDrawn == HearAnswer("drawn", "waitredraw")

-----------------------------------------------------------------------------
(* A window is moved: by arrows and Enter (job_movewin4) and by the mouse  *)
(* (job_movewin4m).                                                        *)

(* Mutant of the next: the frame is drawn before the answers have come. *)
BugFrameEarly(n, p) == Frame(Frame(frame, job.pos), p)

FrameAt(n, p) ==
  LET erased == Frame(frame, job.pos) IN IF n = 0 THEN Frame(erased, p) ELSE erased

(* job_movewin5: windows the frame would meet are told to stop, those it   *)
(* leaves to go on.                                                        *)
MoveFrame(p) ==
  LET shown == { v \in Open : "show" \in condition[v] }
      met == { v \in shown : Overlap(place[v], p) /\ "override" \notin job_flag0[v] }
      left == { v \in shown : ~ Overlap(place[v], p) /\ "override" \in job_flag0[v] }
      n == Cardinality(met \cup left)
  IN /\ job' = [job EXCEPT !.pos = p, !.count = n, !.func = IF n = 0 THEN @ ELSE "movewin6"]
     /\ job_flag0' = [v \in Win |-> IF v \in met THEN job_flag0[v] \cup {"override"}
                                    ELSE IF v \in left THEN job_flag0[v] \ {"override"}
                                    ELSE job_flag0[v]]
     /\ toTask' = [v \in Win |-> IF v \in met THEN Append(toTask[v], Order("disable"))
                     ELSE IF v \in left THEN toTask[v] \o <<Order("enable"), Order("redrawdif")>>
                     ELSE toTask[v]]
     /\ frame' = FrameAt(n, p)
     /\ UNCHANGED <<stack, place, condition, iactive, keys, damaged>>

(* Enter: the window goes where the frame is.  Whether job_movewin5 still  *)
(* waits for answers, or a move is in progress at all, is not asked.       *)
FinishMove ==
  LET w == job.win
      marks == [v \in Win |->
                  IF v = w \/ (v \in Open /\ "show" \notin condition[v]
                               /\ Overlap(place[w], place[v]))
                  THEN job_flag0[v] \cup {"must"} ELSE job_flag0[v]]
  IN /\ stack' = stack
     /\ place' = [place EXCEPT ![w] = job.pos]
     /\ RedirectInput(w)
     /\ Wallpaper(stack, place, place[w])
     /\ UNCHANGED frame
     /\ General1(condition, marks, toTask, [job EXCEPT !.ready = FALSE])

moveRest == <<unuse, closing, pokon0, list, wild>>

HearArrow ==
  /\ Hears("arrow")
  /\ \/ job.win \notin Open /\ Wild
     \/ /\ job.win \in Open
        /\ \E p \in Place :
             IF job.count = 0 /\ p # job.pos THEN MoveFrame(p)
             ELSE UNCHANGED <<stack, place, condition, job_flag0, iactive, keys, job,
                              toTask, screenVars>>
        /\ toWinman' = Tail(toWinman)
        /\ UNCHANGED <<moveRest, press>>

HearEnter ==
  /\ Hears("enter")
  /\ \/ job.win \notin Open /\ Wild
     \/ /\ job.win \in Open
        /\ FinishMove
        /\ toWinman' = Tail(toWinman)
        /\ UNCHANGED <<moveRest, press>>

-----------------------------------------------------------------------------
(* The keys F9 .. F12 (0x200 .. 0x203), which are about the window that is *)
(* on top by then; nothing is done to one that is to be closed.            *)
keyRest == <<stack, place, unuse, condition, job_flag0, closing, iactive, pokon0, job, press,
             keys, wild, screenVars>>

HearJobKey(sig, cmd, w) ==
  /\ Hears(sig)
  /\ \/ stack = <<>> /\ Wild
     \/ /\ stack # <<>>
        /\ IF Top \in closing THEN UNCHANGED list ELSE WriteJob(cmd, w)
        /\ toWinman' = Tail(toWinman)
        /\ UNCHANGED <<keyRest, toTask>>
HearBottomKey == HearJobKey("F9", "activate", Last(stack))
HearSecondKey == HearJobKey("F10", "activate", IF Len(stack) = 1 THEN Top ELSE stack[2])

(* Mutant of the next: it is the bottom that is to be moved. *)
BugMovesBottom == HearJobKey("F11", "move", Last(stack))

HearMoveKey == HearJobKey("F11", "move", Top)
HearCloseKey ==
  /\ Hears("F12")
  /\ toTask' = IF Top = pokon0 \/ Top \in closing THEN toTask
               ELSE [toTask EXCEPT ![Top] = Append(@, Order("close"))]
  /\ toWinman' = Tail(toWinman)
  /\ UNCHANGED <<keyRest, list>>

(* The left button goes down (mousesignal).  While a window is moved that  *)
(* means Enter; on a window that is not the top it activates the window;   *)
(* on the title bar of the top it starts a move.                           *)
ClickEnter ==
  /\ Listens /\ job.ready /\ press = None
  /\ FinishMove
  /\ UNCHANGED <<moveRest, press, toWinman>>
Click(w) ==
  /\ Listens /\ ~ job.ready /\ press = None
  /\ w \in Open \ {Top}
  /\ \A v \in Hiding(stack, place, w) : place[v] # place[w]
  /\ WriteJob("activate", w)
  /\ UNCHANGED <<keyRest, toWinman, toTask>>
PressTitle ==
  /\ Listens /\ ~ job.ready /\ press = None /\ stack # <<>>
  /\ Len(list) < JobCap
  /\ press' = Top
  /\ WriteJob("move", Top)
  /\ UNCHANGED <<stack, place, unuse, condition, job_flag0, closing, iactive, pokon0, job,
                 keys, wild, toWinman, toTask, screenVars>>

(* The button goes up, which ends a move that was begun with it. *)
Release ==
  /\ Listens /\ press # None
  /\ IF job.ready /\ press = job.win THEN FinishMove
     ELSE UNCHANGED <<stack, place, condition, job_flag0, iactive, keys, job, toTask, screenVars>>
  /\ press' = None
  /\ UNCHANGED <<moveRest, toWinman>>

(* The mouse goes somewhere else. *)
Pointer(p) ==
  /\ Listens /\ job.ready /\ press \in {None, job.win}
  /\ job.count = 0 /\ p # job.pos
  /\ MoveFrame(p)
  /\ UNCHANGED <<moveRest, press, toWinman>>

=============================================================================
