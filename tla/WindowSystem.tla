---------------------------- MODULE WindowSystem ----------------------------
(***************************************************************************)
(* winman0, the tasks that own windows, and the user, composed.  The keys  *)
(* that are signals to winman0 when they are pressed wait in its signal    *)
(* box like the answers of the tasks.  What the mouse does means what it   *)
(* means when winman0 looks at it, so it is modelled as done then.         *)
(***************************************************************************)
EXTENDS WinMan, PioneerWindow

CONSTANTS
  Inputs,    (* what the user does: see User                              *)
  Eager,     (* what the user does even while the last thing is not done  *)
  MaxJobs,   (* bound: no new key or click while so many jobs wait        *)
  MaxKeys,   (* bound: keys that wait at the same time, and 0x43 that    *)
             (* wait in the box of a task when F12 is pressed             *)
  Stack0,    (* the windows that are open at first, all drawn ...         *)
  Place0,    (* ... and where each slot's window is                       *)
  Free0      (* the free slots                                            *)

ASSUME StartAssumption ==
  /\ Stack0 \in Seq(Win) /\ Free0 \in Seq(Win)
  /\ IsInjective(Stack0 \o Free0)
  /\ Place0 \in [Win -> Place]
ASSUME BoundAssumption == JobCap \in Nat /\ MaxJobs \in Nat /\ MaxKeys \in Nat

vars == <<winmanVars, toWinman, toTask, screenVars, client>>

Cond0(w) == IF w \in ToSet(Stack0) THEN NewCondition(Stack0, Place0, w) ELSE {}

Init ==
  /\ stack = Stack0
  /\ place = Place0
  /\ unuse = Free0
  /\ condition = [w \in Win |-> Cond0(w)]
  /\ job_flag0 = [w \in Win |-> {}]
  /\ closing = {}
  /\ iactive = IF Stack0 = <<>> THEN None ELSE Head(Stack0)
  /\ pokon0 = IF Stack0 = <<>> THEN None ELSE Last(Stack0)
  /\ list = <<>>
  /\ job \in [now : {"none"}, func : {"none"}, count : {0}, win : {None}, ready : {FALSE},
              pos : {Home}]
  /\ press = None
  /\ keys = IF Stack0 = <<>> THEN {} ELSE FunctionKeys
  /\ wild = FALSE
  /\ toWinman = <<>>
  /\ toTask = [w \in Win |-> <<>>]
  /\ damaged = {}
  /\ frame = {}
  /\ client = [w \in Win |->
                 IF w \in ToSet(Stack0)
                 THEN [phase |-> "open", draw_enable |-> "show" \in Cond0(w),
                       drawing |-> "no", mode0 |-> Cond0(w)]
                 ELSE NoClient]

-----------------------------------------------------------------------------
(* The user.  A patient one asks for something only when nothing else is   *)
(* being asked of winman0, by a key or by a task, and no job waits; does   *)
(* not press F12 again while the task of the top has yet to hear of it;    *)
(* uses the keys and the mouse to move a window only while its frame is    *)
(* shown; and lets go of its title bar only then.                          *)
KeysSent == Cardinality({ i \in 1 .. Len(toWinman) : toWinman[i].win = None })
Quiet == list = <<>> /\ \A i \in 1 .. Len(toWinman) : toWinman[i].sig \in {"stopped", "drawn"}
FrameShown == job.ready /\ job.count = 0 /\ KeysSent = 0

CloseKeys(w) == Cardinality({ i \in 1 .. Len(toTask[w]) : toTask[w][i].sig = "close" })
TopNotAsked == stack # <<>> => CloseKeys(Top) = 0

Asks(i) ==
  /\ i \in Inputs /\ Len(list) < MaxJobs
  /\ i \in Eager \/ (Quiet /\ (i = "F12" => TopNotAsked))
Steers(i) == i \in Inputs /\ (i \in Eager \/ FrameShown)

Press(key) ==
  /\ key \in keys /\ KeysSent < MaxKeys /\ ~ wild
  /\ Tell(None, key)
  /\ UNCHANGED <<winmanVars, toTask, screenVars>>

User ==
  \/ \E k \in FunctionKeys :
       /\ Asks(k) /\ Press(k)
       /\ k = "F12" /\ stack # <<>> => CloseKeys(Top) < MaxKeys
  \/ \E k \in MoveKeys : Steers(k) /\ Press(k)
  \/ Asks("click") /\ \E w \in Win : Click(w)
  \/ Asks("title") /\ PressTitle
  \/ Steers("enter") /\ ClickEnter
  \/ Steers("pointer") /\ \E p \in Place : Pointer(p)
  \/ Release /\ ("title" \in Eager \/ FrameShown \/ ~ (job.ready /\ press = job.win))

HearKey == HearBottomKey \/ HearSecondKey \/ HearMoveKey \/ HearCloseKey \/ HearArrow \/ HearEnter
Hear == HearOpen \/ HearClose \/ HearStopped \/ HearDrawn \/ HearKey

(* A task opens a window: the slot is the one it will get, since only one  *)
(* request is under way at a time, and whoever had it has learnt that it   *)
(* is closed.  The shell never closes its window, and a program closes its *)
(* own again after its library did only if it is eager.                    *)
OpensWindow ==
  /\ "open" \in Inputs
  /\ unuse # <<>>
  /\ \A i \in 1 .. Len(toWinman) : toWinman[i].sig # "open"
  /\ AppOpen(Head(unuse))
ClosesWindow(w) ==
  /\ "close" \in Inputs
  /\ w # pokon0 /\ pokon0 # None
  /\ client[w].phase = "open" \/ "close" \in Eager
  /\ AppClose(w)

Task(w) == Answer(w) \/ AppDraw(w) \/ ClosesWindow(w)

Next ==
  \/ (RunJobNext \/ Hear \/ User) /\ UNCHANGED client
  \/ OpensWindow /\ UNCHANGED winmanVars
  \/ \E w \in Win : Task(w) /\ UNCHANGED winmanVars

(* winman0 handles every signal in its box, which is one queue: no signal  *)
(* is overtaken for ever.  Each task handles the signals it gets and ends  *)
(* what it draws.  Nobody has to open, close, click or press anything.     *)
Fairness ==
  /\ WF_vars(RunJobNext /\ UNCHANGED client)
  /\ SF_vars(Hear /\ UNCHANGED client)
  /\ \A w \in Win : WF_vars(Answer(w) /\ UNCHANGED winmanVars)

Spec == Init /\ [][Next]_vars
FairSpec == Spec /\ Fairness

-----------------------------------------------------------------------------
(* The state has the right shape. *)
TypeOK ==
  /\ stack \in Seq(Win) /\ unuse \in Seq(Win)
  /\ place \in [Win -> Place]
  /\ condition \in [Win -> SUBSET Condition]
  /\ job_flag0 \in [Win -> SUBSET Bits]
  /\ closing \subseteq Win
  /\ iactive \in Win \cup {None} /\ pokon0 \in Win \cup {None}
  /\ list \in Seq(Jobs)
  /\ job \in Progress
  /\ press \in Win \cup {None}
  /\ keys \subseteq FunctionKeys \cup MoveKeys /\ wild \in BOOLEAN
  /\ toWinman \in Seq(Requests \cup Keys)
  /\ toTask \in [Win -> Seq(Orders)]
  /\ damaged \subseteq Win /\ frame \subseteq Place
  /\ client \in [Win -> Clients]

(* Whenever no job is in progress, no frame is left on the screen and each *)
(* task knows whether it may draw: it may exactly when nothing hides it.   *)
TasksKnow ==
  job.now = "none" =>
    /\ frame = {}
    /\ \A w \in Open :
         /\ client[w].draw_enable <=> Hiding(stack, place, w) = {}
         /\ client[w].mode0 = NewCondition(stack, place, w)
         /\ condition[w] = client[w].mode0
         /\ ~ Drawing(w)

(* Then every window is painted as it must be, too: whatever a job has     *)
(* uncovered or drawn over has been drawn again.                           *)
ScreenIsPainted == job.now = "none" => damaged = {}

(* While the frame of a moving window is on the screen (it is drawn with   *)
(* exclusive or), no task may draw, or is drawing, where it stands.        *)
FrameExclusion ==
  job.ready => \A w \in Open : \A p \in frame :
    Overlap(place[w], p) => ~ client[w].draw_enable /\ ~ Drawing(w)

(* Two windows that overlap are never both free to draw. *)
EnabledExclusion ==
  \A v, w \in Open : v # w /\ Overlap(place[v], place[w])
                       => ~ (client[v].draw_enable /\ client[w].draw_enable)

(* Two windows that overlap are never being drawn at the same time, so     *)
(* that the upper one is drawn over the lower one and not the other way.   *)
DrawExclusion ==
  \A v, w \in Open : v # w /\ Overlap(place[v], place[w]) => ~ (Drawing(v) /\ Drawing(w))

(* The keys go to the window on top (winman0.c:2747 relies on it). *)
TopIsActive == stack # <<>> => iactive = Top

(* The job in progress waits for exactly the answers that are under way:   *)
(* none is missing, none comes that nobody waits for, and no window owes   *)
(* two of a kind.  An answer is owed from the order to the answer's being  *)
(* heard.                                                                  *)
Kinds == {"stopped", "drawn"}
Asking(kind) == IF kind = "stopped" THEN {"disable"} ELSE {"redraw", "redrawdif"}
Owes(w, kind) ==
  Cardinality({ i \in 1 .. Len(toTask[w]) : toTask[w][i].sig \in Asking(kind) })
    + (IF kind = "drawn" /\ Drawing(w) THEN 1 ELSE 0)
    + Cardinality({ i \in 1 .. Len(toWinman) : toWinman[i] = [sig |-> kind, win |-> w] })
Owed == { wk \in Win \X Kinds : Owes(wk[1], wk[2]) # 0 }
AnswersAwaited ==
  ~ wild => /\ job.count = Cardinality(Owed)
            /\ \A w \in Win, kind \in Kinds : Owes(w, kind) <= 1

(* The two rings of slots never mix, and no job, key or answer ever leads  *)
(* to a window that is in neither: a closed window is never touched again. *)
SlotsAreSafe == ~ wild /\ IsInjective(stack \o unuse)

(* The last a task hears about its window is that it is closed. *)
ClosedIsLast ==
  \A w \in Win : \A i \in 1 .. Len(toTask[w]) :
    toTask[w][i].sig = "closed" => i = Len(toTask[w])

(* A job comes to its end, or to the point where the user must say where   *)
(* the window goes.                                                        *)
Settled == job.now = "none" \/ job.ready
JobSettles == job.now # "none" ~> Settled

(* A window that is to be closed is closed, unless the user leaves a move  *)
(* unfinished (0x24, job_closewin0, sig0045).                              *)
CloseCompletes ==
  \A w \in Win : client[w].phase \in {"ending", "closing"} ~>
                   (client[w].phase = "none" \/ job.ready)
(* A window that is to be opened gets on the screen, unless it is too      *)
(* large and asked to close, or the user leaves a move unfinished.         *)
OpenCompletes ==
  \A w \in Win : (client[w].phase = "open" /\ w \notin Open) ~>
                   (w \in Open \/ client[w].phase # "open" \/ job.ready)

-----------------------------------------------------------------------------
(* What comments of winman0.c say, and what a user who does not wait, or   *)
(* enough windows, can refute.                                             *)

(* The window that is asked to move is the top, and has the keys           *)
(* (winman0.c:2778).                                                       *)
MoveStartsOnTop == [][RunMove => Head(list).win = Top /\ iactive = Top]_vars

(* When a window is redrawn, so are all above it that overlap it           *)
(* (winman0.c:3226).                                                       *)
RedrawsAbove ==
  job.func = "general2" =>
    \A i \in 1 .. Len(stack) : "must" \in job_flag0[stack[i]] =>
      \A k \in 1 .. i - 1 : Overlap(place[stack[k]], place[stack[i]])
                              => "must" \in job_flag0[stack[k]]

=============================================================================
