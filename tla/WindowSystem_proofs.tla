------------------------ MODULE WindowSystem_proofs ------------------------
(***************************************************************************)
(* That the window manager never follows a pointer to no window or to a    *)
(* closed one, that it and the tasks agree on the answers that are under   *)
(* way, that the keys go to the window on top, that a window is moved only *)
(* from the top, and that the last a task hears is that its window is      *)
(* closed: for any number of windows the job list has room for, any places *)
(* and any windows open at first, if Eager is empty.  That is a user who   *)
(* waits: he asks for something else only when what he asked for is under  *)
(* way, and presses F12 once for each close; and programs that do not      *)
(* close again what their library has closed.  For others the runs with a  *)
(* violation show otherwise: a second 0x43 makes a second 0x24 of a handle *)
(* that may be that of no window by then.                                  *)
(*                                                                         *)
(* The invariant says where each window is in its life (LifeInv), who has  *)
(* asked for what (AskInv, JobsInv, KeysInv), and what the job in progress *)
(* waits for (JobInv, OwedInv).                                            *)
(***************************************************************************)
EXTENDS WindowFacts_proofs

Phase(w) == client[w].phase
Opening(w) == InJobs(list, "open", w)
Hidden(w) == "nowindow" \in job_flag0[w]
DueOf(w, k) == Due(toTask[w], client[w].drawing, toWinman, w, k)
Dues == { wk \in Win \X Kinds : DueOf(wk[1], wk[2]) }

(* A slot is open, free, about to be opened or too large to be shown, and  *)
(* nothing else; most often a slot that is free has no task.               *)
SlotsInv ==
  /\ IsInjective(stack) /\ IsInjective(unuse)
  /\ \A w \in Win :
       /\ w \in ToSet(stack) => w \notin ToSet(unuse)
       /\ Opening(w) => w \notin ToSet(stack) /\ w \notin ToSet(unuse) /\ ~ Hidden(w)
       /\ Hidden(w) => w \notin ToSet(stack) /\ w \notin ToSet(unuse)

(* What the task of a slot thinks, against what winman0 has of it.         *)
Life(w) ==
  /\ Orderly(toTask[w])
  /\ w \in ToSet(stack) \/ Opening(w) => Phase(w) # "none" /\ ~ Told(toTask[w], "closed")
  /\ Opening(w) => toTask[w] = <<>> /\ Phase(w) # "ending"
  /\ Phase(w) = "none" =>
       /\ toTask[w] = <<>> /\ ~ InJobs(list, "close", w)
       /\ ~ Waiting(toWinman, "open", w) /\ ~ Waiting(toWinman, "close", w)
  /\ Phase(w) = "open" =>
       /\ ~ Told(toTask[w], "closed") /\ w \notin closing /\ ~ InJobs(list, "close", w)
       /\ ~ Waiting(toWinman, "close", w)
  /\ Phase(w) = "ending" =>
       /\ ~ Told(toTask[w], "close")
       /\ \/ Told(toTask[w], "closed")
          \/ Waiting(toWinman, "close", w)
          \/ InJobs(list, "close", w)
  /\ Phase(w) # "none" /\ ~ Told(toTask[w], "closed") =>
       w \in ToSet(stack) \/ Opening(w) \/ Hidden(w) \/ Waiting(toWinman, "open", w)
  /\ w \in ToSet(unuse) => w \notin closing /\ ~ InJobs(list, "close", w)
  /\ Told(toTask[w], "closed") =>
       ~ InJobs(list, "close", w) /\ ~ Waiting(toWinman, "close", w)
LifeInv == \A w \in Win : Life(w)

(* What the tasks ask for: the slot of a window to be opened is the next   *)
(* free one, and a window is asked to be closed once.  That is not because *)
(* the library would ask once only (it asks at every 0x43) but because a   *)
(* user who waits does not press F12 again for what has been asked.        *)
AskInv ==
  /\ BoxOK(toWinman)
  /\ \A w \in Win :
       /\ Waiting(toWinman, "open", w) =>
            unuse # <<>> /\ w = Head(unuse) /\ toTask[w] = <<>> /\ Phase(w) # "ending"
       /\ Waiting(toWinman, "close", w) =>
            ~ InJobs(list, "close", w) /\ w \notin closing /\ w # pokon0

(* What the waiting jobs are about is still there.                         *)
JobsInv ==
  /\ ListOK(list)
  /\ \A w \in Win :
       /\ InJobs(list, "close", w) => w \in closing
       /\ InJobs(list, "activate", w) => w \in ToSet(stack)
       /\ InJobs(list, "move", w) => w \in ToSet(stack) /\ w = Top

(* A key about the top finds no job before it, one to close it finds that  *)
(* it has not been asked to close, and a key of a move finds the frame     *)
(* shown and nothing awaited.                                              *)
KeysInv ==
  /\ \A k \in FunctionKeys : Waiting(toWinman, k, None) => list = <<>> /\ stack # <<>>
  /\ Waiting(toWinman, "F12", None) => Phase(Top) # "ending" /\ ~ Told(toTask[Top], "close")
  /\ \A k \in MoveKeys : Waiting(toWinman, k, None) => job.ready /\ job.count = 0
  /\ keys # {} => stack # <<>>

(* The first window is never closed, and nothing is asked before it opens. *)
ShellInv ==
  /\ stack = <<>> =>
       /\ pokon0 = None
       /\ \A w \in Win : Phase(w) \notin {"ending", "closing"} /\ ~ Told(toTask[w], "close")
  /\ stack # <<>> => pokon0 \in ToSet(stack) /\ Phase(pokon0) = "open" /\ iactive = Top
  /\ \A w \in Win : Told(toTask[w], "close") => w # pokon0

(* How far the job in progress is.                                         *)
JobInv ==
  /\ wild = FALSE
  /\ job.now = "none" => job.count = 0 /\ ~ job.ready /\ job.func \in {"none", "general2"}
  /\ job.now # "none" => stack # <<>> /\ job.func # "none"
  /\ job.func \in {"movewin1", "movewin6"} => job.now = "move" /\ job.win = Top
  /\ job.func = "movewin1" => job.count \in {0, 1} /\ (job.ready <=> job.count = 0)
  /\ job.func = "movewin6" => job.ready
  /\ job.func = "general2" => ~ job.ready
  /\ job.func = "general2" /\ job.now # "none" =>
       job.win \in ToSet(stack) /\ job_flag0[job.win] \subseteq Waits
  /\ \A w \in Win : job_flag0[w] \cap Waits # {} =>
       job.func = "general2" /\ job.now # "none" /\ w = job.win

(* What it waits for is what the tasks owe.                                *)
Awaited(w, k) ==
  /\ DueOnce(toTask[w], client[w].drawing, toWinman, w, k)
  /\ DueOf(w, k) => w \in ToSet(stack) /\ job.now # "none"
  /\ job.func = "movewin1" /\ DueOf(w, k) => w = Top /\ k = "stopped"
  /\ job.func = "general2" =>
       (DueOf(w, k) <=> (IF k = "drawn" THEN "waitredraw" ELSE "waitdisable") \in job_flag0[w])
OwedInv ==
  /\ job.count = Cardinality(Dues)
  /\ \A w \in Win, k \in Kinds : Awaited(w, k)

IInv ==
  /\ TypeOK /\ SlotsInv /\ LifeInv /\ AskInv /\ JobsInv /\ KeysInv /\ ShellInv /\ JobInv
  /\ OwedInv

-----------------------------------------------------------------------------
(* What follows from the shape of the state, and from the invariant alone. *)
LEMMA Shape ==
  ASSUME TypeOK
  PROVE  /\ stack \in Seq(Win) /\ unuse \in Seq(Win) /\ list \in Seq(Jobs)
         /\ toWinman \in Seq(Messages) /\ job \in Progress
         /\ toTask \in [Win -> Seq(Orders)] /\ client \in [Win -> Clients]
         /\ Open = ToSet(stack) /\ ToSet(stack) \subseteq Win /\ ToSet(unuse) \subseteq Win
         /\ stack = <<>> => Top = None
         /\ stack # <<>> => Top = Head(stack) /\ Top \in ToSet(stack) /\ Top \in Win
<1>1. /\ stack \in Seq(Win) /\ unuse \in Seq(Win) /\ list \in Seq(Jobs)
      /\ toWinman \in Seq(Messages) /\ job \in Progress
      /\ toTask \in [Win -> Seq(Orders)] /\ client \in [Win -> Clients]
  BY DEF TypeOK, Messages
<1>2. Open = ToSet(stack) /\ ToSet(stack) \subseteq Win /\ ToSet(unuse) \subseteq Win
  BY <1>1, MembersOf DEF Open
<1>3. stack # <<>> => Head(stack) \in ToSet(stack)
  BY <1>1, RingRest
<1> QED BY <1>1, <1>2, <1>3 DEF Top

LEMMA DuesAreFinite == IsFiniteSet(Dues) /\ Cardinality(Dues) \in Nat
<1>1. IsFiniteSet(Kinds)
  <2>1. Kinds = {"stopped"} \cup {"drawn"}
    BY DEF Kinds
  <2> QED BY <2>1, FS_Singleton, FS_AddElement
<1>2. IsFiniteSet(Win \X Kinds)
  BY <1>1, FS_Product, WinAssumption
<1>3. Dues \in SUBSET (Win \X Kinds)
  BY DEF Dues
<1> QED BY <1>2, <1>3, FS_Subset, FS_CardinalityType

(* With nothing to wait for, nobody owes anything.                         *)
LEMMA NothingDue ==
  ASSUME OwedInv, job.count = 0
  PROVE  \A w \in Win, k \in Kinds :
           /\ ~ DueOf(w, k) /\ ~ Asked(toTask[w], k) /\ AskedOnce(toTask[w], k)
           /\ ~ Draws(client[w].drawing, k) /\ ~ Waiting(toWinman, k, w)
<1>1. Dues = {}
  BY DuesAreFinite, FS_EmptySet DEF OwedInv
<1>2. ASSUME NEW w \in Win, NEW k \in Kinds PROVE ~ DueOf(w, k)
  <2>1. DueOf(w, k) => <<w, k>> \in Dues
    BY DEF Dues
  <2> QED BY <1>1, <2>1
<1> QED BY <1>2 DEF DueOf, Due, DueOnce, OwedInv, Awaited

(* While nothing is due the job has nothing to count.                      *)
LEMMA NoneDue ==
  ASSUME \A w \in Win, k \in Kinds : ~ DueOf(w, k)
  PROVE  Cardinality(Dues) = 0
<1>1. Dues = {}
  BY DEF Dues
<1> QED BY <1>1, FS_EmptySet

LEMMA DuesKept ==
  ASSUME \A w \in Win, k \in Kinds : DueOf(w, k)' <=> DueOf(w, k)
  PROVE  Dues' = Dues
BY DEF Dues

(* No signal of a key is under way when no message is sent by nobody.      *)
LEMMA NoKeySent ==
  ASSUME toWinman \in Seq(Messages), KeysSent = 0
  PROVE  \A k : ~ Waiting(toWinman, k, None)
<1> DEFINE T == { i \in 1 .. Len(toWinman) : toWinman[i].win = None }
<1>1. IsFiniteSet(T)
  BY FS_Interval, FS_Subset
<1>2. T = {}
  BY <1>1, FS_EmptySet DEF KeysSent
<1>3. \A i \in 1 .. Len(toWinman) : toWinman[i].win # None
  BY <1>2
<1> QED BY <1>3, MessageIs DEF Waiting, Has

LEMMA QuietBox ==
  ASSUME toWinman \in Seq(Messages), Quiet
  PROVE  /\ list = <<>>
         /\ \A k : ~ Waiting(toWinman, k, None)
         /\ \A w : ~ Waiting(toWinman, "open", w) /\ ~ Waiting(toWinman, "close", w)
<1>1. list = <<>> /\ \A i \in 1 .. Len(toWinman) : toWinman[i].sig \in {"stopped", "drawn"}
  BY DEF Quiet
<1>2. \A i \in 1 .. Len(toWinman) : toWinman[i] \in Messages
  OBVIOUS
<1>3. \A i \in 1 .. Len(toWinman) : toWinman[i].win # None
  BY <1>1, <1>2, WinAssumption DEF Messages, Requests, Keys, FunctionKeys, MoveKeys
<1> QED BY <1>1, <1>3, MessageIs DEF Waiting, Has

-----------------------------------------------------------------------------
(* At first.                                                               *)
LEMMA InitHolds == Init => IInv
<1> SUFFICES ASSUME Init PROVE IInv
  OBVIOUS
<1> USE DEF Init
<1>1. /\ Stack0 \in Seq(Win) /\ Free0 \in Seq(Win) /\ Place0 \in [Win -> Place]
      /\ IsInjective(Stack0) /\ IsInjective(Free0) /\ ToSet(Stack0) \cap ToSet(Free0) = {}
  BY StartAssumption, RingsApart
<1>2. \A w \in Win : Cond0(w) \in SUBSET Condition
  BY DEF Cond0, NewCondition, Condition
<1>3. Stack0 # <<>> => Head(Stack0) \in ToSet(Stack0) /\ Last(Stack0) \in ToSet(Stack0)
  <2>1. ASSUME Stack0 # <<>> PROVE Last(Stack0) \in ToSet(Stack0)
    <3>1. Len(Stack0) \in 1 .. Len(Stack0)
      BY <1>1, <2>1
    <3> QED BY <1>1, <3>1, MembersOf DEF Last
  <2> QED BY <1>1, <2>1, RingRest
<1>4. ToSet(Stack0) \subseteq Win
  BY <1>1, MembersOf
<1>5. \A w \in Win : /\ toTask[w] = <<>> /\ job_flag0[w] = {} /\ client[w].drawing = "no"
                     /\ Phase(w) = IF w \in ToSet(Stack0) THEN "open" ELSE "none"
  BY DEF Phase, NoClient
<1>6. TypeOK
  <2>1. job \in Progress
    <3>1. job \in [now : {"none"}, func : {"none"}, count : {0}, win : {None}, ready : {FALSE},
                   pos : {Home}]
      OBVIOUS
    <3>2. PICK h \in {Home} : job = [now |-> "none", func |-> "none", count |-> 0, win |-> None,
                                    ready |-> FALSE, pos |-> h]
      BY <3>1
    <3>3. h \in Place
      BY HomeAssumption
    <3> HIDE DEF Init
    <3> QED BY <3>2, <3>3 DEF Progress
  <2>2. client \in [Win -> Clients]
    <3> DEFINE c(w) == IF w \in ToSet(Stack0)
                       THEN [phase |-> "open", draw_enable |-> "show" \in Cond0(w),
                             drawing |-> "no", mode0 |-> Cond0(w)]
                       ELSE NoClient
    <3>1. \A w \in Win : c(w) \in Clients
      BY <1>2 DEF Clients, NoClient
    <3>2. client = [w \in Win |-> c(w)]
      OBVIOUS
    <3> HIDE DEF c
    <3> QED BY <3>1, <3>2
  <2>3. /\ condition \in [Win -> SUBSET Condition] /\ job_flag0 \in [Win -> SUBSET Bits]
        /\ toTask \in [Win -> Seq(Orders)]
    BY <1>2
  <2>4. iactive \in Win \cup {None} /\ pokon0 \in Win \cup {None}
    BY <1>3, <1>4
  <2>5. keys \subseteq FunctionKeys \cup MoveKeys /\ wild \in BOOLEAN
    OBVIOUS
  <2>6. list \in Seq(Jobs) /\ toWinman \in Seq(Requests \cup Keys)
    OBVIOUS
  <2>7. /\ stack \in Seq(Win) /\ unuse \in Seq(Win) /\ place \in [Win -> Place]
        /\ closing \subseteq Win /\ press \in Win \cup {None} /\ damaged \subseteq Win
        /\ frame \subseteq Place
    BY <1>1
  <2> HIDE DEF Init
  <2> QED BY <2>1, <2>2, <2>3, <2>4, <2>5, <2>6, <2>7 DEF TypeOK
<1>7. \A c, w : ~ InJobs(list, c, w)
  BY HasNone DEF InJobs
<1>8. \A s, w : ~ Waiting(toWinman, s, w)
  BY HasNone DEF Waiting
<1>9. \A w \in Win : /\ Orderly(toTask[w]) /\ \A s : ~ Told(toTask[w], s)
                     /\ \A k : ~ Asked(toTask[w], k) /\ AskedOnce(toTask[w], k)
  BY <1>5, MailEmpty
<1>10. SlotsInv
  BY <1>1, <1>5, <1>7 DEF SlotsInv, Opening, Hidden
<1>11. LifeInv
  BY <1>1, <1>5, <1>7, <1>8, <1>9 DEF LifeInv, Life, Opening
<1>12. AskInv
  BY <1>8, HasNone DEF AskInv, BoxOK
<1>13. JobsInv
  <2>1. IsInjective(<<>>)
    BY DEF IsInjective
  <2> QED BY <1>7, <2>1, HasNone DEF JobsInv, ListOK
<1>14. KeysInv
  BY <1>8 DEF KeysInv
<1>15. ShellInv
  BY <1>1, <1>3, <1>4, <1>5, <1>9, MembersOf DEF ShellInv, Top
<1>16. JobInv
  BY <1>5 DEF JobInv
<1>17. OwedInv
  <2>1. \A w \in Win, k \in Kinds : ~ DueOf(w, k)
    BY <1>5, <1>8, <1>9 DEF DueOf, Due, Draws
  <2>2. \A w \in Win, k \in Kinds : DueOnce(toTask[w], client[w].drawing, toWinman, w, k)
    BY <1>5, <1>8, <1>9, HasNone DEF DueOnce, Draws
  <2> QED BY <1>5, <2>1, <2>2, NoneDue DEF OwedInv, Awaited
<1> QED BY <1>6, <1>10, <1>11, <1>12, <1>13, <1>14, <1>15, <1>16, <1>17 DEF IInv

-----------------------------------------------------------------------------
(* What the tasks do.                                                      *)
TaskShape ==
  /\ toWinman \in Seq(Messages) /\ toTask \in [Win -> Seq(Orders)]
  /\ client \in [Win -> Clients] /\ damaged \subseteq Win /\ frame \subseteq Place

LEMMA TaskTypes ==
  ASSUME TypeOK, UNCHANGED winmanVars, TaskShape'
  PROVE  TypeOK'
BY DEF TypeOK, TaskShape, winmanVars, Messages

DuesHold == \A w \in Win, k \in Kinds :
  /\ DueOf(w, k)' <=> DueOf(w, k)
  /\ DueOnce(toTask[w], client[w].drawing, toWinman, w, k)'

LEMMA OwedKept ==
  ASSUME OwedInv, UNCHANGED <<job, stack, job_flag0>>, DuesHold
  PROVE  OwedInv'
<1>1. Dues' = Dues
  BY DuesKept DEF DuesHold
<1>2. job.count' = Cardinality(Dues)'
  BY <1>1 DEF OwedInv
<1>3. Top' = Top
  BY DEF Top
<1>4. ASSUME NEW w \in Win, NEW k \in Kinds
      PROVE  Awaited(w, k)'
  <2>1. DueOf(w, k)' <=> DueOf(w, k)
    BY DEF DuesHold
  <2>2. DueOnce(toTask[w], client[w].drawing, toWinman, w, k)'
    BY DEF DuesHold
  <2> QED BY <1>3, <2>1, <2>2 DEF OwedInv, Awaited
<1> QED BY <1>2, <1>4 DEF OwedInv

(* Orders that are not about closing are handled and answered.             *)
Answers ==
  /\ UNCHANGED winmanVars /\ TaskShape' /\ BoxOK(toWinman')
  /\ \A v \in Win :
       /\ client'[v].phase = client[v].phase /\ Orderly(toTask'[v])
       /\ \A sig \in {"close", "closed"} : Told(toTask'[v], sig) <=> Told(toTask[v], sig)
       /\ toTask[v] = <<>> => toTask'[v] = <<>>
  /\ \A v, s : s \notin Kinds => (Waiting(toWinman', s, v) <=> Waiting(toWinman, s, v))
  /\ DuesHold

LEMMA AnswersKeep ==
  ASSUME IInv, Answers
  PROVE  IInv'
<1> USE DEF IInv
<1>1. /\ UNCHANGED <<stack, unuse, closing, list, job, job_flag0, pokon0, iactive, keys, wild>>
      /\ Top' = Top
  BY DEF Answers, winmanVars, Top
<1>2. TypeOK'
  BY TaskTypes DEF Answers
<1>3. /\ \A v \in Win : Opening(v)' <=> Opening(v)
      /\ \A v \in Win : Hidden(v)' <=> Hidden(v)
      /\ \A v \in Win : Phase(v)' = Phase(v)
      /\ \A s, v : s \notin Kinds => (Waiting(toWinman, s, v)' <=> Waiting(toWinman, s, v))
  BY <1>1 DEF Answers, Opening, Hidden, Phase
<1>4. /\ \A v : Waiting(toWinman, "open", v)' <=> Waiting(toWinman, "open", v)
      /\ \A v : Waiting(toWinman, "close", v)' <=> Waiting(toWinman, "close", v)
      /\ \A k \in FunctionKeys \cup MoveKeys : \A v : Waiting(toWinman, k, v)' <=> Waiting(toWinman, k, v)
  BY <1>3 DEF Kinds, FunctionKeys, MoveKeys
<1>5. \A v \in Win :
       /\ Orderly(toTask[v])'
       /\ Told(toTask[v], "close")' <=> Told(toTask[v], "close")
       /\ Told(toTask[v], "closed")' <=> Told(toTask[v], "closed")
       /\ toTask[v] = <<>> => toTask'[v] = <<>>
  BY DEF Answers
<1>6. SlotsInv'
  BY <1>1, <1>3 DEF SlotsInv
<1>7. LifeInv'
  BY <1>1, <1>3, <1>4, <1>5 DEF LifeInv, Life
<1>8. AskInv'
  <2>1. BoxOK(toWinman)'
    BY DEF Answers
  <2> QED BY <1>1, <1>3, <1>4, <1>5, <2>1 DEF AskInv
<1>9. JobsInv'
  BY <1>1 DEF JobsInv
<1>10. KeysInv'
  <2>1. stack # <<>> => Top \in Win
    BY Shape
  <2> QED BY <1>1, <1>3, <1>4, <1>5, <2>1 DEF KeysInv, FunctionKeys
<1>11. ShellInv'
  BY <1>1, <1>3, <1>5, Shape DEF ShellInv
<1>12. JobInv'
  BY <1>1 DEF JobInv
<1>13. OwedInv'
  BY <1>1, OwedKept DEF Answers
<1> QED BY <1>2, <1>6, <1>7, <1>8, <1>9, <1>10, <1>11, <1>12, <1>13

LEMMA HidingIsOpen ==
  ASSUME NEW s \in Seq(Win), NEW pl, NEW w \in ToSet(s)
  PROVE  Hiding(s, pl, w) \subseteq ToSet(s)
<1>1. At(s, w) \in 1 .. Len(s)
  BY PlaceOf
<1>2. \A k \in 1 .. At(s, w) - 1 : k \in 1 .. Len(s)
  BY <1>1
<1> QED BY <1>2, MembersOf DEF Hiding

LEMMA PaintTypes ==
  ASSUME TypeOK, NEW w \in Win, NEW full \in BOOLEAN, Painted(w, full)
  PROVE  damaged' \subseteq Win /\ frame' \subseteq Place
<1>1. w \in Open => Hiding(stack, place, w) \subseteq Win
  BY HidingIsOpen, Shape
<1>2. damaged \subseteq Win /\ frame \subseteq Place
  BY DEF TypeOK
<1> QED BY <1>1, <1>2 DEF Painted

(* A task takes its next order.                                            *)
LEMMA OrderTaken ==
  ASSUME TypeOK, NEW w \in Win, NEW sig, HasOrder(w, sig), Handled(w)
  PROVE  /\ toTask' \in [Win -> Seq(Orders)]
         /\ \A v \in Win : v # w => toTask'[v] = toTask[v]
         /\ \A s : Told(toTask[w], s) <=> Told(toTask'[w], s) \/ s = sig
         /\ \A k : Asked(toTask[w], k) <=> Asked(toTask'[w], k) \/ sig \in Asking(k)
         /\ \A k : AskedOnce(toTask[w], k) <=>
              AskedOnce(toTask'[w], k) /\ ~ (sig \in Asking(k) /\ Asked(toTask'[w], k))
         /\ Orderly(toTask[w]) => /\ Orderly(toTask'[w]) /\ (sig = "closed" => toTask'[w] = <<>>)
                                  /\ sig = "close" => ~ Told(toTask'[w], "close")
         /\ toTask[w] # <<>> /\ Told(toTask[w], sig)
<1> DEFINE q == toTask[w]
           t == Tail(q)
<1>1. q \in Seq(Orders) /\ q # <<>> /\ Head(q).sig = sig /\ toTask \in [Win -> Seq(Orders)]
  BY Shape DEF HasOrder, Next1
<1>2. /\ t \in Seq(Orders)
      /\ \A s : Told(q, s) <=> Told(t, s) \/ s = sig
      /\ \A k : Asked(q, k) <=> Asked(t, k) \/ sig \in Asking(k)
      /\ \A k : AskedOnce(q, k) <=> AskedOnce(t, k) /\ ~ (sig \in Asking(k) /\ Asked(t, k))
      /\ Orderly(q) => /\ Orderly(t) /\ (sig = "closed" => t = <<>>)
                       /\ sig = "close" => ~ Told(t, "close")
  <2> HIDE DEF q
  <2> QED BY <1>1, MailTaken
<1>3. toTask' = [toTask EXCEPT ![w] = t]
  BY DEF Handled
<1> HIDE DEF t
<1>4. toTask' \in [Win -> Seq(Orders)] /\ toTask'[w] = t /\ \A v \in Win : v # w => toTask'[v] = toTask[v]
  BY <1>1, <1>2, <1>3
<1> QED BY <1>1, <1>2, <1>4

(* Another answers, or sends what is not about opening and closing.        *)
LEMMA AnswerSent ==
  ASSUME IInv, NEW w \in Win, NEW sig \in Kinds, Tell(w, sig)
  PROVE  /\ toWinman' \in Seq(Messages) /\ BoxOK(toWinman')
         /\ \A s, v : Waiting(toWinman', s, v) <=> Waiting(toWinman, s, v) \/ (s = sig /\ v = w)
         /\ \A s, v : OneOf(toWinman', {Msg(s, v)}) <=>
              OneOf(toWinman, {Msg(s, v)}) /\ ~ (s = sig /\ v = w /\ Waiting(toWinman, sig, w))
<1>1. toWinman \in Seq(Messages) /\ BoxOK(toWinman)
  BY Shape DEF IInv, AskInv
<1>2. Msg(sig, w) \in Messages /\ sig \notin {"open", "close"} \cup FunctionKeys /\ w # None
  BY WinAssumption DEF Msg, Messages, Requests, Kinds, FunctionKeys
<1>3. toWinman' = Append(toWinman, Msg(sig, w))
  BY DEF Tell, Msg
<1> QED BY <1>1, <1>2, <1>3, BoxTell

LEMMA AppDrawKeeps ==
  ASSUME IInv, NEW w \in Win, AppDraw(w), UNCHANGED winmanVars
  PROVE  IInv'
<1> USE DEF IInv
<1>1. UNCHANGED <<client, toTask, toWinman>> /\ damaged' \subseteq Win /\ frame' \subseteq Place
  BY PaintTypes DEF AppDraw
<1>2. TaskShape'
  BY <1>1, Shape DEF TaskShape
<1>3. \A v \in Win : Orderly(toTask[v])
  BY DEF LifeInv, Life
<1>4. DuesHold
  BY <1>1 DEF DuesHold, DueOf, OwedInv, Awaited
<1> QED BY <1>1, <1>2, <1>3, <1>4, AnswersKeep DEF Answers, AskInv

LEMMA ClientTyped ==
  ASSUME TypeOK, NEW w \in Win
  PROVE  /\ [client EXCEPT ![w].draw_enable = TRUE] \in [Win -> Clients]
         /\ [client EXCEPT ![w].draw_enable = FALSE] \in [Win -> Clients]
         /\ \A ph \in {"ending", "closing"} : [client EXCEPT ![w].phase = ph] \in [Win -> Clients]
         /\ [client EXCEPT ![w] = NoClient] \in [Win -> Clients]
         /\ [client EXCEPT ![w] = [NoClient EXCEPT !.phase = "open"]] \in [Win -> Clients]
         /\ \A d \in {"no", "full", "dif"} : [client EXCEPT ![w].drawing = d] \in [Win -> Clients]
         /\ \A c \in SUBSET Condition : [client EXCEPT ![w].mode0 = c] \in [Win -> Clients]
<1>1. client \in [Win -> Clients] /\ client[w] \in Clients
  BY DEF TypeOK
<1>2. NoClient \in Clients /\ [NoClient EXCEPT !.phase = "open"] \in Clients
  BY DEF NoClient, Clients
<1>3. \A c \in Clients : [client EXCEPT ![w] = c] \in [Win -> Clients]
  BY <1>1
<1>4. \A c \in Clients : /\ [c EXCEPT !.draw_enable = TRUE] \in Clients
                         /\ [c EXCEPT !.draw_enable = FALSE] \in Clients
                         /\ \A ph \in {"ending", "closing"} : [c EXCEPT !.phase = ph] \in Clients
                         /\ \A d \in {"no", "full", "dif"} : [c EXCEPT !.drawing = d] \in Clients
                         /\ \A m \in SUBSET Condition : [c EXCEPT !.mode0 = m] \in Clients
  BY DEF Clients
<1> QED BY <1>1, <1>2, <1>3, <1>4

(* An order that asks for no answer.                                       *)
LEMMA SetOrEnableKeeps ==
  ASSUME IInv, NEW w \in Win, SetMode(w) \/ EnableDraw(w), UNCHANGED winmanVars
  PROVE  IInv'
<1> USE DEF IInv
<1>1. PICK sig \in {"mode", "enable"} : HasOrder(w, sig) /\ Handled(w)
  BY DEF SetMode, EnableDraw
<1>2. UNCHANGED <<toWinman, damaged, frame>>
  BY DEF SetMode, EnableDraw
<1>3. /\ client' \in [Win -> Clients]
      /\ \A v \in Win : client'[v].phase = client[v].phase /\ client'[v].drawing = client[v].drawing
  <2>1. client \in [Win -> Clients] /\ Next1(w) \in Orders
    BY <1>1, Shape DEF HasOrder, Next1
  <2>2. Next1(w).cond \in SUBSET Condition
    BY <2>1 DEF Orders
  <2>3. CASE SetMode(w)
    <3>1. client' = [client EXCEPT ![w].mode0 = Next1(w).cond]
      BY <2>3 DEF SetMode
    <3>2. client' \in [Win -> Clients]
      BY <2>2, <3>1, ClientTyped
    <3> QED BY <2>1, <3>1, <3>2 DEF Clients
  <2>4. CASE EnableDraw(w)
    <3>1. client' = [client EXCEPT ![w].draw_enable = TRUE]
      BY <2>4 DEF EnableDraw
    <3>2. client' \in [Win -> Clients]
      BY <3>1, ClientTyped
    <3> QED BY <2>1, <3>1, <3>2 DEF Clients
  <2> QED BY <2>3, <2>4
<1>4. /\ toTask' \in [Win -> Seq(Orders)]
      /\ \A v \in Win : v # w => toTask'[v] = toTask[v]
      /\ \A s : Told(toTask[w], s) <=> Told(toTask'[w], s) \/ s = sig
      /\ \A k : Asked(toTask[w], k) <=> Asked(toTask'[w], k) \/ sig \in Asking(k)
      /\ \A k : AskedOnce(toTask[w], k) <=>
           AskedOnce(toTask'[w], k) /\ ~ (sig \in Asking(k) /\ Asked(toTask'[w], k))
      /\ Orderly(toTask[w]) => Orderly(toTask'[w])
      /\ toTask[w] # <<>>
  BY <1>1, OrderTaken
<1>5. \A k \in Kinds : sig \notin Asking(k)
  BY DEF Kinds, Asking
<1>6. \A v \in Win : Orderly(toTask[v])
  BY DEF LifeInv, Life
<1>7. ASSUME NEW v \in Win, NEW k \in Kinds
      PROVE  /\ DueOf(v, k)' <=> DueOf(v, k)
             /\ DueOnce(toTask[v], client[v].drawing, toWinman, v, k)'
  <2>1. DueOnce(toTask[v], client[v].drawing, toWinman, v, k)
    BY DEF OwedInv, Awaited
  <2>2. Asked(toTask'[v], k) <=> Asked(toTask[v], k)
    BY <1>4, <1>5
  <2>3. AskedOnce(toTask'[v], k) <=> AskedOnce(toTask[v], k)
    BY <1>4, <1>5
  <2> QED BY <1>2, <1>3, <2>1, <2>2, <2>3 DEF DueOf, Due, DueOnce
<1>8. ASSUME NEW v \in Win
      PROVE  /\ Orderly(toTask'[v])
             /\ \A s \in {"close", "closed"} : Told(toTask'[v], s) <=> Told(toTask[v], s)
             /\ toTask[v] = <<>> => toTask'[v] = <<>>
  BY <1>4, <1>6
<1>9. TaskShape'
  BY <1>2, <1>3, <1>4, Shape DEF TaskShape, TypeOK
<1> QED BY <1>2, <1>3, <1>7, <1>8, <1>9, AnswersKeep DEF Answers, AskInv, DuesHold

(* Only of w does the task, or what it is asked, change.                   *)
OnlyDuesOf(w) ==
  \A v \in Win, k \in Kinds : v # w =>
    /\ toTask'[v] = toTask[v] /\ client'[v].drawing = client[v].drawing
    /\ Waiting(toWinman', k, v) <=> Waiting(toWinman, k, v)
    /\ OneOf(toWinman', {Msg(k, v)}) <=> OneOf(toWinman, {Msg(k, v)})

LEMMA DuesOfOthers ==
  ASSUME OwedInv, NEW w \in Win, OnlyDuesOf(w),
         \A k \in Kinds : /\ DueOf(w, k)' <=> DueOf(w, k)
                          /\ DueOnce(toTask[w], client[w].drawing, toWinman, w, k)'
  PROVE  DuesHold
<1>1. ASSUME NEW v \in Win, NEW k \in Kinds, v # w
      PROVE  /\ DueOf(v, k)' <=> DueOf(v, k)
             /\ DueOnce(toTask[v], client[v].drawing, toWinman, v, k)'
  <2>1. DueOnce(toTask[v], client[v].drawing, toWinman, v, k)
    BY DEF OwedInv, Awaited
  <2>2. /\ toTask'[v] = toTask[v] /\ client'[v].drawing = client[v].drawing
        /\ Waiting(toWinman', k, v) <=> Waiting(toWinman, k, v)
        /\ OneOf(toWinman', {Msg(k, v)}) <=> OneOf(toWinman, {Msg(k, v)})
    BY <1>1 DEF OnlyDuesOf
  <2> QED BY <2>1, <2>2 DEF DueOf, Due, DueOnce
<1> QED BY <1>1 DEF DuesHold

(* A task that is asked to stop drawing does and answers.                  *)
LEMMA DisableDrawKeeps ==
  ASSUME IInv, NEW w \in Win, DisableDraw(w), UNCHANGED winmanVars
  PROVE  IInv'
<1> USE DEF IInv
<1>1. /\ HasOrder(w, "disable") /\ Handled(w) /\ Tell(w, "stopped")
      /\ client' = [client EXCEPT ![w].draw_enable = FALSE]
      /\ UNCHANGED <<damaged, frame>>
  BY DEF DisableDraw
<1>2. /\ client' \in [Win -> Clients]
      /\ \A v \in Win : client'[v].phase = client[v].phase /\ client'[v].drawing = client[v].drawing
  <2>1. client \in [Win -> Clients]
    BY Shape
  <2>2. client' \in [Win -> Clients]
    BY <1>1, ClientTyped
  <2> QED BY <1>1, <2>1, <2>2 DEF Clients
<1>3. PICK sig \in {"disable"} : HasOrder(w, sig)
  BY <1>1
<1>4. /\ toTask' \in [Win -> Seq(Orders)]
      /\ \A v \in Win : v # w => toTask'[v] = toTask[v]
      /\ \A s : Told(toTask[w], s) <=> Told(toTask'[w], s) \/ s = sig
      /\ \A k : Asked(toTask[w], k) <=> Asked(toTask'[w], k) \/ sig \in Asking(k)
      /\ \A k : AskedOnce(toTask[w], k) <=>
           AskedOnce(toTask'[w], k) /\ ~ (sig \in Asking(k) /\ Asked(toTask'[w], k))
      /\ Orderly(toTask[w]) => Orderly(toTask'[w])
      /\ toTask[w] # <<>>
  BY <1>1, <1>3, OrderTaken
<1>5. sig \in Asking("stopped") /\ sig \notin Asking("drawn") /\ sig \notin {"close", "closed"}
  BY DEF Asking
<1>6. /\ toWinman' \in Seq(Messages) /\ BoxOK(toWinman')
      /\ \A s, v : Waiting(toWinman', s, v) <=> Waiting(toWinman, s, v) \/ (s = "stopped" /\ v = w)
      /\ \A s, v : OneOf(toWinman', {Msg(s, v)}) <=>
           OneOf(toWinman, {Msg(s, v)}) /\ ~ (s = "stopped" /\ v = w /\ Waiting(toWinman, "stopped", w))
  BY <1>1, AnswerSent DEF Kinds
<1>7. OnlyDuesOf(w)
  BY <1>2, <1>4, <1>6 DEF OnlyDuesOf
<1>8. ASSUME NEW k \in Kinds
      PROVE  /\ DueOf(w, k)' <=> DueOf(w, k)
             /\ DueOnce(toTask[w], client[w].drawing, toWinman, w, k)'
  <2>1. DueOnce(toTask[w], client[w].drawing, toWinman, w, k)
    BY DEF OwedInv, Awaited
  <2>2. CASE k = "stopped"
    <3>1. Asked(toTask[w], k) /\ ~ Asked(toTask'[w], k) /\ AskedOnce(toTask'[w], k)
      BY <1>4, <1>5, <2>1, <2>2 DEF DueOnce
    <3>2. ~ Draws(client'[w].drawing, k)
      BY <2>2 DEF Draws
    <3>3. Waiting(toWinman', k, w) /\ OneOf(toWinman', {Msg(k, w)})
      BY <1>6, <2>1, <2>2, <3>1 DEF DueOnce
    <3> QED BY <3>1, <3>2, <3>3 DEF DueOf, Due, DueOnce
  <2>3. CASE k = "drawn"
    <3>1. /\ Asked(toTask'[w], k) <=> Asked(toTask[w], k)
          /\ AskedOnce(toTask'[w], k) <=> AskedOnce(toTask[w], k)
      BY <1>4, <1>5, <2>3
    <3>2. /\ Waiting(toWinman', k, w) <=> Waiting(toWinman, k, w)
          /\ OneOf(toWinman', {Msg(k, w)}) <=> OneOf(toWinman, {Msg(k, w)})
      BY <1>6, <2>3
    <3> QED BY <1>2, <2>1, <3>1, <3>2 DEF DueOf, Due, DueOnce
  <2> QED BY <2>2, <2>3 DEF Kinds
<1>9. DuesHold
  BY <1>7, <1>8, DuesOfOthers
<1>10. ASSUME NEW v \in Win
      PROVE  /\ Orderly(toTask'[v])
             /\ \A s \in {"close", "closed"} : Told(toTask'[v], s) <=> Told(toTask[v], s)
             /\ toTask[v] = <<>> => toTask'[v] = <<>>
  BY <1>4, <1>5 DEF LifeInv, Life
<1>11. \A v, s : s \notin Kinds => (Waiting(toWinman', s, v) <=> Waiting(toWinman, s, v))
  BY <1>6 DEF Kinds
<1>12. TaskShape'
  BY <1>1, <1>2, <1>4, <1>6 DEF TaskShape, TypeOK
<1> QED BY <1>2, <1>6, <1>9, <1>10, <1>11, <1>12, AnswersKeep DEF Answers

(* A task that is asked to draw its window begins.                         *)
LEMMA BeginDrawKeeps ==
  ASSUME IInv, NEW w \in Win, BeginDraw(w), UNCHANGED winmanVars
  PROVE  IInv'
<1> USE DEF IInv
<1>1. PICK sig \in {"redraw", "redrawdif"} : HasOrder(w, sig) /\ Handled(w)
  BY DEF BeginDraw
<1>2. PICK d \in {"full", "dif"} : client' = [client EXCEPT ![w].drawing = d]
  BY DEF BeginDraw
<1>3. UNCHANGED <<toWinman, damaged, frame>> /\ ~ Drawing(w)
  BY <1>1 DEF BeginDraw, HasOrder
<1>4. /\ client' \in [Win -> Clients]
      /\ \A v \in Win : client'[v].phase = client[v].phase
      /\ \A v \in Win : v # w => client'[v].drawing = client[v].drawing
      /\ client'[w].drawing # "no"
  <2>1. client \in [Win -> Clients]
    BY Shape
  <2>2. client' \in [Win -> Clients]
    BY <1>2, ClientTyped
  <2> QED BY <1>2, <2>1, <2>2 DEF Clients
<1>5. /\ toTask' \in [Win -> Seq(Orders)]
      /\ \A v \in Win : v # w => toTask'[v] = toTask[v]
      /\ \A s : Told(toTask[w], s) <=> Told(toTask'[w], s) \/ s = sig
      /\ \A k : Asked(toTask[w], k) <=> Asked(toTask'[w], k) \/ sig \in Asking(k)
      /\ \A k : AskedOnce(toTask[w], k) <=>
           AskedOnce(toTask'[w], k) /\ ~ (sig \in Asking(k) /\ Asked(toTask'[w], k))
      /\ Orderly(toTask[w]) => Orderly(toTask'[w])
      /\ toTask[w] # <<>>
  BY <1>1, OrderTaken
<1>6. sig \notin Asking("stopped") /\ sig \in Asking("drawn") /\ sig \notin {"close", "closed"}
  BY DEF Asking
<1>7. OnlyDuesOf(w)
  BY <1>3, <1>4, <1>5 DEF OnlyDuesOf
<1>8. ASSUME NEW k \in Kinds
      PROVE  /\ DueOf(w, k)' <=> DueOf(w, k)
             /\ DueOnce(toTask[w], client[w].drawing, toWinman, w, k)'
  <2>1. DueOnce(toTask[w], client[w].drawing, toWinman, w, k)
    BY DEF OwedInv, Awaited
  <2>2. CASE k = "stopped"
    <3>1. /\ Asked(toTask'[w], k) <=> Asked(toTask[w], k)
          /\ AskedOnce(toTask'[w], k) <=> AskedOnce(toTask[w], k)
      BY <1>5, <1>6, <2>2
    <3>2. ~ Draws(client'[w].drawing, k) /\ ~ Draws(client[w].drawing, k)
      BY <2>2 DEF Draws
    <3> QED BY <1>3, <2>1, <3>1, <3>2 DEF DueOf, Due, DueOnce
  <2>3. CASE k = "drawn"
    <3>1. Asked(toTask[w], k) /\ ~ Asked(toTask'[w], k) /\ AskedOnce(toTask'[w], k)
      BY <1>5, <1>6, <2>1, <2>3 DEF DueOnce
    <3>2. Draws(client'[w].drawing, k)
      BY <1>4, <2>3 DEF Draws
    <3> QED BY <1>3, <2>1, <3>1, <3>2 DEF DueOf, Due, DueOnce
  <2> QED BY <2>2, <2>3 DEF Kinds
<1>9. DuesHold
  BY <1>7, <1>8, DuesOfOthers
<1>10. ASSUME NEW v \in Win
      PROVE  /\ Orderly(toTask'[v])
             /\ \A s \in {"close", "closed"} : Told(toTask'[v], s) <=> Told(toTask[v], s)
             /\ toTask[v] = <<>> => toTask'[v] = <<>>
  BY <1>5, <1>6 DEF LifeInv, Life
<1>11. TaskShape'
  BY <1>3, <1>4, <1>5, Shape DEF TaskShape, TypeOK
<1> QED BY <1>3, <1>4, <1>9, <1>10, <1>11, AnswersKeep DEF Answers, AskInv

(* A task has drawn its window, and says so.                               *)
LEMMA EndDrawKeeps ==
  ASSUME IInv, NEW w \in Win, EndDraw(w), UNCHANGED winmanVars
  PROVE  IInv'
<1> USE DEF IInv
<1>1. /\ Drawing(w) /\ Tell(w, "drawn") /\ UNCHANGED toTask
      /\ client' = [client EXCEPT ![w].drawing = "no"]
  BY DEF EndDraw
<1>2. damaged' \subseteq Win /\ frame' \subseteq Place
  <2>1. (client[w].drawing = "full") \in BOOLEAN
    OBVIOUS
  <2>2. Painted(w, client[w].drawing = "full")
    BY DEF EndDraw
  <2> QED BY <2>1, <2>2, PaintTypes
<1>3. /\ client' \in [Win -> Clients]
      /\ \A v \in Win : client'[v].phase = client[v].phase
      /\ \A v \in Win : v # w => client'[v].drawing = client[v].drawing
      /\ client'[w].drawing = "no"
  <2>1. client \in [Win -> Clients]
    BY Shape
  <2>2. client' \in [Win -> Clients]
    BY <1>1, ClientTyped
  <2> QED BY <1>1, <2>1, <2>2 DEF Clients
<1>4. /\ toWinman' \in Seq(Messages) /\ BoxOK(toWinman')
      /\ \A s, v : Waiting(toWinman', s, v) <=> Waiting(toWinman, s, v) \/ (s = "drawn" /\ v = w)
      /\ \A s, v : OneOf(toWinman', {Msg(s, v)}) <=>
           OneOf(toWinman, {Msg(s, v)}) /\ ~ (s = "drawn" /\ v = w /\ Waiting(toWinman, "drawn", w))
  BY <1>1, AnswerSent DEF Kinds
<1>5. OnlyDuesOf(w)
  BY <1>1, <1>3, <1>4 DEF OnlyDuesOf
<1>6. ASSUME NEW k \in Kinds
      PROVE  /\ DueOf(w, k)' <=> DueOf(w, k)
             /\ DueOnce(toTask[w], client[w].drawing, toWinman, w, k)'
  <2>1. DueOnce(toTask[w], client[w].drawing, toWinman, w, k)
    BY DEF OwedInv, Awaited
  <2>2. ~ Draws(client'[w].drawing, k)
    BY <1>3 DEF Draws
  <2>3. CASE k = "stopped"
    <3>1. ~ Draws(client[w].drawing, k)
      BY <2>3 DEF Draws
    <3>2. /\ Waiting(toWinman', k, w) <=> Waiting(toWinman, k, w)
          /\ OneOf(toWinman', {Msg(k, w)}) <=> OneOf(toWinman, {Msg(k, w)})
      BY <1>4, <2>3
    <3> QED BY <1>1, <2>1, <2>2, <3>1, <3>2 DEF DueOf, Due, DueOnce
  <2>4. CASE k = "drawn"
    <3>1. Draws(client[w].drawing, k)
      BY <1>1, <2>4 DEF Drawing, Draws
    <3>2. Waiting(toWinman', k, w) /\ OneOf(toWinman', {Msg(k, w)})
      BY <1>4, <2>1, <2>4, <3>1 DEF DueOnce
    <3> QED BY <1>1, <2>1, <2>2, <3>1, <3>2 DEF DueOf, Due, DueOnce
  <2> QED BY <2>3, <2>4 DEF Kinds
<1>7. DuesHold
  BY <1>5, <1>6, DuesOfOthers
<1>8. \A v \in Win : Orderly(toTask[v])
  BY DEF LifeInv, Life
<1>9. \A v, s : s \notin Kinds => (Waiting(toWinman', s, v) <=> Waiting(toWinman, s, v))
  BY <1>4 DEF Kinds
<1>10. TaskShape'
  BY <1>1, <1>2, <1>3, <1>4, Shape DEF TaskShape
<1> QED BY <1>1, <1>3, <1>4, <1>7, <1>8, <1>9, <1>10, AnswersKeep DEF Answers

(* What is asked for is kept apart from what is answered.                  *)
LEMMA TaskKeeps ==
  ASSUME IInv, UNCHANGED winmanVars, TaskShape', DuesHold,
         LifeInv', AskInv', ShellInv',
         \A k \in FunctionKeys \cup MoveKeys :
           Waiting(toWinman', k, None) => Waiting(toWinman, k, None),
         Waiting(toWinman', "F12", None) => \A v \in Win :
           /\ Told(toTask'[v], "close") => Told(toTask[v], "close")
           /\ Phase(v)' = "ending" => Phase(v) = "ending" \/ Told(toTask[v], "close")
  PROVE  IInv'
<1> USE DEF IInv
<1>1. /\ UNCHANGED <<stack, unuse, closing, list, job, job_flag0, pokon0, iactive, keys, wild>>
      /\ Top' = Top
  BY DEF winmanVars, Top
<1>2. TypeOK'
  BY TaskTypes
<1>3. SlotsInv'
  BY <1>1 DEF SlotsInv, Opening, Hidden
<1>4. JobsInv'
  BY <1>1 DEF JobsInv
<1>5. KeysInv'
  <2>1. stack # <<>> => Top \in Win
    BY Shape
  <2> QED BY <1>1, <2>1 DEF KeysInv, FunctionKeys
<1>6. JobInv'
  BY <1>1 DEF JobInv
<1>7. OwedInv'
  BY <1>1, OwedKept
<1> QED BY <1>2, <1>3, <1>4, <1>5, <1>6, <1>7

LEMMA RequestSent ==
  ASSUME IInv, NEW w \in Win, NEW sig \in {"open", "close"}, Tell(w, sig),
         ~ Waiting(toWinman, "close", w),
         sig = "open" => \A v : ~ Waiting(toWinman, "open", v)
  PROVE  /\ toWinman' \in Seq(Messages) /\ BoxOK(toWinman')
         /\ \A s, v : Waiting(toWinman', s, v) <=> Waiting(toWinman, s, v) \/ (s = sig /\ v = w)
         /\ \A k \in Kinds, v \in Win :
              /\ Waiting(toWinman', k, v) <=> Waiting(toWinman, k, v)
              /\ OneOf(toWinman', {Msg(k, v)}) <=> OneOf(toWinman, {Msg(k, v)})
         /\ \A k \in FunctionKeys \cup MoveKeys :
              Waiting(toWinman', k, None) <=> Waiting(toWinman, k, None)
<1>1. toWinman \in Seq(Messages) /\ BoxOK(toWinman)
  BY Shape DEF IInv, AskInv
<1>2. Msg(sig, w) \in Messages /\ sig \notin FunctionKeys /\ w # None
  BY WinAssumption DEF Msg, Messages, Requests, FunctionKeys
<1>3. toWinman' = Append(toWinman, Msg(sig, w))
  BY DEF Tell, Msg
<1>4. /\ toWinman' \in Seq(Messages) /\ BoxOK(toWinman')
      /\ \A s, v : Waiting(toWinman', s, v) <=> Waiting(toWinman, s, v) \/ (s = sig /\ v = w)
      /\ \A s, v : OneOf(toWinman', {Msg(s, v)}) <=>
           OneOf(toWinman, {Msg(s, v)}) /\ ~ (s = sig /\ v = w /\ Waiting(toWinman, sig, w))
  BY <1>1, <1>2, <1>3, BoxTell
<1>5. \A k \in Kinds : k # sig
  BY DEF Kinds
<1>6. \A k \in FunctionKeys \cup MoveKeys : k # sig
  BY DEF FunctionKeys, MoveKeys
<1> QED BY <1>4, <1>5, <1>6

LEMMA OpensWindowKeeps ==
  ASSUME IInv, OpensWindow, UNCHANGED winmanVars
  PROVE  IInv'
<1> USE DEF IInv
<1>1. PICK w \in Win : w = Head(unuse) /\ w \in ToSet(unuse)
  BY Shape, RingRest DEF OpensWindow
<1>2. /\ unuse # <<>> /\ Phase(w) = "none" /\ toTask[w] = <<>> /\ Tell(w, "open")
      /\ client' = [client EXCEPT ![w] = [NoClient EXCEPT !.phase = "open"]]
      /\ UNCHANGED <<toTask, damaged, frame>>
      /\ UNCHANGED <<stack, unuse, closing, list, job_flag0, job, pokon0, iactive>>
  BY <1>1 DEF OpensWindow, AppOpen, Phase, winmanVars
<1>3. \A v : ~ Waiting(toWinman, "open", v)
  <2>1. \A i \in 1 .. Len(toWinman) : toWinman[i].sig # "open"
    BY DEF OpensWindow
  <2> QED BY <2>1, MessageIs DEF Waiting, Has
<1>4. ~ Waiting(toWinman, "close", w) /\ w \notin closing /\ ~ InJobs(list, "close", w)
  BY <1>2, <1>1 DEF LifeInv, Life
<1>5. /\ toWinman' \in Seq(Messages) /\ BoxOK(toWinman')
      /\ \A s, v : Waiting(toWinman', s, v) <=> Waiting(toWinman, s, v) \/ (s = "open" /\ v = w)
      /\ \A k \in Kinds, v \in Win :
           /\ Waiting(toWinman', k, v) <=> Waiting(toWinman, k, v)
           /\ OneOf(toWinman', {Msg(k, v)}) <=> OneOf(toWinman, {Msg(k, v)})
      /\ \A k \in FunctionKeys \cup MoveKeys :
           Waiting(toWinman', k, None) <=> Waiting(toWinman, k, None)
  BY <1>2, <1>1, <1>3, <1>4, RequestSent
<1>6. w \notin ToSet(stack) /\ ~ Opening(w)
  BY <1>1 DEF SlotsInv
<1>7. client[w].drawing = "no"
  <2>1. ~ DueOf(w, "drawn")
    BY <1>1, <1>6 DEF OwedInv, Awaited, Kinds
  <2> QED BY <2>1 DEF DueOf, Due, Draws
<1>8. /\ client' \in [Win -> Clients]
      /\ \A v \in Win : v # w => client'[v] = client[v]
      /\ client'[w].phase = "open" /\ client'[w].drawing = "no"
  <2>1. client' \in [Win -> Clients]
    BY <1>2, <1>1, ClientTyped
  <2>2. client \in [Win -> Clients]
    BY Shape
  <2> QED BY <1>2, <1>1, <2>1, <2>2 DEF NoClient
<1>9. DuesHold
  <2>1. ASSUME NEW v \in Win, NEW k \in Kinds
        PROVE  /\ DueOf(v, k)' <=> DueOf(v, k)
               /\ DueOnce(toTask[v], client[v].drawing, toWinman, v, k)'
    <3>1. client'[v].drawing = client[v].drawing /\ toTask'[v] = toTask[v]
      BY <1>2, <1>7, <1>8
    <3>2. DueOnce(toTask[v], client[v].drawing, toWinman, v, k)
      BY DEF OwedInv, Awaited
    <3> QED BY <1>5, <3>1, <3>2 DEF DueOf, Due, DueOnce
  <2> QED BY <2>1 DEF DuesHold
<1>10. TaskShape'
  BY <1>2, <1>5, <1>8 DEF TaskShape, TypeOK, Messages
<1>11. LifeInv'
  <2>1. ASSUME NEW v \in Win, v # w PROVE Life(v)'
    <3>1. Phase(v)' = Phase(v) /\ toTask'[v] = toTask[v] /\ Opening(v)' = Opening(v) /\ Hidden(v)' = Hidden(v)
      BY <1>2, <1>8, <2>1 DEF Phase, Opening, Hidden
    <3>2. /\ Waiting(toWinman', "open", v) <=> Waiting(toWinman, "open", v)
          /\ Waiting(toWinman', "close", v) <=> Waiting(toWinman, "close", v)
      BY <1>5, <2>1
    <3>3. Life(v)
      BY DEF LifeInv
    <3> QED BY <1>2, <3>1, <3>2, <3>3 DEF Life
  <2>2. Life(w)'
    <3>1. Phase(w)' = "open" /\ toTask'[w] = <<>>
      BY <1>2, <1>8 DEF Phase
    <3>2. Orderly(toTask'[w]) /\ \A s : ~ Told(toTask'[w], s)
      BY <3>1, MailEmpty
    <3>3. Waiting(toWinman', "open", w) /\ ~ Waiting(toWinman', "close", w)
      BY <1>4, <1>5
    <3>4. Life(w)
      BY <1>1 DEF LifeInv
    <3> QED BY <1>2, <1>4, <3>1, <3>2, <3>3, <3>4 DEF Life, Opening, Hidden
  <2> QED BY <2>1, <2>2 DEF LifeInv
<1>12. AskInv'
  <2>1. \A v \in Win : /\ Waiting(toWinman', "open", v) <=> v = w
                       /\ Waiting(toWinman', "close", v) <=> Waiting(toWinman, "close", v)
    BY <1>3, <1>5
  <2>2. Phase(w)' = "open"
    BY <1>8 DEF Phase
  <2> QED BY <1>1, <1>2, <1>5, <2>1, <2>2 DEF AskInv
<1>13. ShellInv'
  <2>1. \A v \in Win : Phase(v)' = IF v = w THEN "open" ELSE Phase(v)
    BY <1>8 DEF Phase
  <2>2. Top' = Top
    BY <1>2 DEF Top
  <2>3. stack # <<>> => pokon0 \in Win
    BY Shape DEF ShellInv
  <2> QED BY <1>2, <2>1, <2>2, <2>3 DEF ShellInv
<1>14. \A v \in Win : Phase(v)' = "ending" => Phase(v) = "ending"
  BY <1>8 DEF Phase
<1> QED BY <1>2, <1>5, <1>9, <1>10, <1>11, <1>12, <1>13, <1>14, TaskKeeps

(* A task asks for its window to be closed, of itself or because it was    *)
(* asked to; what else it was to do stays.                                 *)
LEMMA CloseSent ==
  ASSUME IInv, NEW w \in Win, UNCHANGED winmanVars, UNCHANGED <<damaged, frame>>,
         Phase(w) = "open", w # pokon0, stack # <<>>, Tell(w, "close"),
         NEW ph \in {"ending", "closing"}, client' = [client EXCEPT ![w].phase = ph],
         ph = "ending" => Told(toTask[w], "close") /\ ~ Told(toTask'[w], "close"),
         toTask' \in [Win -> Seq(Orders)],
         \A v \in Win :
           /\ Orderly(toTask'[v]) /\ (toTask[v] = <<>> => toTask'[v] = <<>>)
           /\ Told(toTask'[v], "close") => Told(toTask[v], "close")
           /\ Told(toTask'[v], "closed") <=> Told(toTask[v], "closed")
           /\ \A k \in Kinds : /\ Asked(toTask'[v], k) <=> Asked(toTask[v], k)
                               /\ AskedOnce(toTask'[v], k) <=> AskedOnce(toTask[v], k)
  PROVE  IInv'
<1> USE DEF IInv
<1>1. UNCHANGED <<stack, unuse, closing, list, job_flag0, job, pokon0, iactive>>
  BY DEF winmanVars
<1>2. ~ Waiting(toWinman, "close", w) /\ w \notin closing /\ ~ InJobs(list, "close", w)
  BY DEF LifeInv, Life
<1>3. /\ toWinman' \in Seq(Messages) /\ BoxOK(toWinman')
      /\ \A s, v : Waiting(toWinman', s, v) <=> Waiting(toWinman, s, v) \/ (s = "close" /\ v = w)
      /\ \A k \in Kinds, v \in Win :
           /\ Waiting(toWinman', k, v) <=> Waiting(toWinman, k, v)
           /\ OneOf(toWinman', {Msg(k, v)}) <=> OneOf(toWinman, {Msg(k, v)})
      /\ \A k \in FunctionKeys \cup MoveKeys :
           Waiting(toWinman', k, None) <=> Waiting(toWinman, k, None)
  BY <1>2, RequestSent
<1>4. /\ client' \in [Win -> Clients]
      /\ \A v \in Win : v # w => client'[v].phase = client[v].phase
      /\ \A v \in Win : client'[v].drawing = client[v].drawing
      /\ client'[w].phase = ph
  <2>1. client' \in [Win -> Clients]
    BY ClientTyped
  <2>2. client \in [Win -> Clients]
    BY Shape
  <2>3. \A v \in Win : v # w => client'[v] = client[v]
    BY <2>2
  <2>4. client'[w].phase = ph /\ client'[w].drawing = client[w].drawing
    BY <2>2 DEF Clients
  <2> QED BY <2>1, <2>3, <2>4
<1>5. DuesHold
  <2>1. ASSUME NEW v \in Win, NEW k \in Kinds
        PROVE  /\ DueOf(v, k)' <=> DueOf(v, k)
               /\ DueOnce(toTask[v], client[v].drawing, toWinman, v, k)'
    <3>1. DueOnce(toTask[v], client[v].drawing, toWinman, v, k)
      BY DEF OwedInv, Awaited
    <3>2. client'[v].drawing = client[v].drawing
      BY <1>4
    <3>3. Asked(toTask'[v], k) <=> Asked(toTask[v], k)
      OBVIOUS
    <3>4. AskedOnce(toTask'[v], k) <=> AskedOnce(toTask[v], k)
      OBVIOUS
    <3> QED BY <1>3, <3>1, <3>2, <3>3, <3>4 DEF DueOf, Due, DueOnce
  <2> QED BY <2>1 DEF DuesHold
<1>6. TaskShape'
  BY <1>3, <1>4 DEF TaskShape, TypeOK
<1>7. LifeInv'
  <2>1. ASSUME NEW v \in Win PROVE Life(v)'
    <3>1. Life(v)
      BY DEF LifeInv
    <3>2. Opening(v)' = Opening(v) /\ Hidden(v)' = Hidden(v) /\ Phase(v)' = client'[v].phase
      BY <1>1 DEF Opening, Hidden, Phase
    <3>3. /\ Told(toTask[v], "closed")' <=> Told(toTask[v], "closed")
          /\ Orderly(toTask[v])' /\ (toTask[v] = <<>> => toTask'[v] = <<>>)
      OBVIOUS
    <3>4. /\ Waiting(toWinman', "open", v) <=> Waiting(toWinman, "open", v)
          /\ Waiting(toWinman', "close", v) <=> Waiting(toWinman, "close", v) \/ v = w
      BY <1>3
    <3>5. CASE v = w
      <4>1. Phase(w)' = ph /\ Phase(w) = "open"
        BY <1>4 DEF Phase
      <4>2. Opening(w) => ph # "ending"
        BY <3>1, <3>5, MailEmpty DEF Life
      <4> QED BY <1>1, <3>1, <3>2, <3>3, <3>4, <3>5, <4>1, <4>2 DEF Life
    <3>6. CASE v # w
      <4>1. Phase(v)' = Phase(v)
        BY <1>4, <3>6 DEF Phase
      <4>2. Told(toTask'[v], "close") => Told(toTask[v], "close")
        OBVIOUS
      <4> QED BY <1>1, <3>1, <3>2, <3>3, <3>4, <3>6, <4>1, <4>2 DEF Life
    <3> QED BY <3>5, <3>6
  <2> QED BY <2>1 DEF LifeInv
<1>8. AskInv'
  <2>1. \A v \in Win : /\ Waiting(toWinman', "open", v) <=> Waiting(toWinman, "open", v)
                       /\ Waiting(toWinman', "close", v) <=> Waiting(toWinman, "close", v) \/ v = w
    BY <1>3
  <2>2. ASSUME NEW v \in Win, Waiting(toWinman, "open", v) PROVE Phase(v)' # "ending"
    <3>1. toTask[v] = <<>> /\ Phase(v) # "ending"
      BY <2>2 DEF AskInv
    <3> QED BY <1>4, <3>1, MailEmpty DEF Phase
  <2> QED BY <1>1, <1>2, <1>3, <2>1, <2>2 DEF AskInv
<1>9. ShellInv'
  <2>1. Top' = Top
    BY <1>1 DEF Top
  <2>2. \A v \in Win : v # w => Phase(v)' = Phase(v)
    BY <1>4 DEF Phase
  <2>3. pokon0 \in Win /\ pokon0 # w
    BY Shape DEF ShellInv
  <2>4. Phase(pokon0)' = "open"
    BY <2>2, <2>3, <1>1 DEF ShellInv, Phase
  <2> QED BY <1>1, <2>1, <2>4 DEF ShellInv
<1>10. \A v \in Win : Phase(v)' = "ending" => Phase(v) = "ending" \/ Told(toTask[v], "close")
  BY <1>4 DEF Phase
<1> QED BY <1>3, <1>5, <1>6, <1>7, <1>8, <1>9, <1>10, TaskKeeps

LEMMA ClosesWindowKeeps ==
  ASSUME IInv, Eager = {}, NEW w \in Win, ClosesWindow(w), UNCHANGED winmanVars
  PROVE  IInv'
<1> USE DEF IInv
<1>1. /\ w # pokon0 /\ Phase(w) = "open" /\ Tell(w, "close") /\ UNCHANGED <<toTask, damaged, frame>>
      /\ client' = [client EXCEPT ![w].phase = "closing"]
  BY DEF ClosesWindow, AppClose, Phase
<1>2. stack # <<>>
  BY DEF ClosesWindow, ShellInv
<1>3. toTask' \in [Win -> Seq(Orders)] /\ \A v \in Win : Orderly(toTask'[v])
  BY <1>1, Shape DEF LifeInv, Life
<1> QED BY <1>1, <1>2, <1>3, CloseSent

LEMMA CloseRequestedKeeps ==
  ASSUME IInv, NEW w \in Win, CloseRequested(w), UNCHANGED winmanVars
  PROVE  IInv'
<1> USE DEF IInv
<1>1. PICK sig \in {"close"} : HasOrder(w, sig)
  BY DEF CloseRequested
<1>2. Handled(w) /\ UNCHANGED <<damaged, frame>>
  BY DEF CloseRequested
<1>3. /\ toTask' \in [Win -> Seq(Orders)]
      /\ \A v \in Win : v # w => toTask'[v] = toTask[v]
      /\ \A s : Told(toTask[w], s) <=> Told(toTask'[w], s) \/ s = sig
      /\ \A k : Asked(toTask[w], k) <=> Asked(toTask'[w], k) \/ sig \in Asking(k)
      /\ \A k : AskedOnce(toTask[w], k) <=>
           AskedOnce(toTask'[w], k) /\ ~ (sig \in Asking(k) /\ Asked(toTask'[w], k))
      /\ Orderly(toTask[w]) => Orderly(toTask'[w]) /\ (sig = "close" => ~ Told(toTask'[w], "close"))
      /\ toTask[w] # <<>> /\ Told(toTask[w], sig)
  BY <1>1, <1>2, OrderTaken
<1>4. \A k \in Kinds : sig \notin Asking(k)
  BY DEF Kinds, Asking
<1>5. \A v \in Win :
        /\ Orderly(toTask'[v]) /\ (toTask[v] = <<>> => toTask'[v] = <<>>)
        /\ Told(toTask'[v], "close") => Told(toTask[v], "close")
        /\ Told(toTask'[v], "closed") <=> Told(toTask[v], "closed")
        /\ \A k \in Kinds : /\ Asked(toTask'[v], k) <=> Asked(toTask[v], k)
                            /\ AskedOnce(toTask'[v], k) <=> AskedOnce(toTask[v], k)
  <2>1. ASSUME NEW v \in Win
        PROVE  /\ Orderly(toTask'[v]) /\ (toTask[v] = <<>> => toTask'[v] = <<>>)
               /\ Told(toTask'[v], "close") => Told(toTask[v], "close")
               /\ Told(toTask'[v], "closed") <=> Told(toTask[v], "closed")
    <3>1. Orderly(toTask[v])
      BY DEF LifeInv, Life
    <3>2. sig = "close"
      BY <1>1
    <3> QED BY <1>3, <3>1, <3>2
  <2>2. ASSUME NEW v \in Win, NEW k \in Kinds
        PROVE  /\ Asked(toTask'[v], k) <=> Asked(toTask[v], k)
               /\ AskedOnce(toTask'[v], k) <=> AskedOnce(toTask[v], k)
    BY <1>3, <1>4
  <2> QED BY <2>1, <2>2
<1>6. /\ w # pokon0 /\ stack # <<>> /\ Phase(w) # "ending"
      /\ Told(toTask[w], "close") /\ ~ Told(toTask'[w], "close")
  BY <1>1, <1>3 DEF ShellInv, LifeInv, Life
<1>7. CASE Phase(w) = "open"
  <2>1. client' = [client EXCEPT ![w].phase = "ending"] /\ Tell(w, "close")
    BY <1>7 DEF CloseRequested, Marked, Phase
  <2> QED BY <1>2, <1>3, <1>5, <1>6, <1>7, <2>1, CloseSent
<1>8. CASE Phase(w) # "open"
  <2>1. UNCHANGED <<client, toWinman>>
    BY <1>6, <1>8 DEF CloseRequested, Marked, Phase
  <2>2. DuesHold
    <3>1. ASSUME NEW v \in Win, NEW k \in Kinds
          PROVE  /\ DueOf(v, k)' <=> DueOf(v, k)
                 /\ DueOnce(toTask[v], client[v].drawing, toWinman, v, k)'
      <4>1. DueOnce(toTask[v], client[v].drawing, toWinman, v, k)
        BY DEF OwedInv, Awaited
      <4>2. /\ Asked(toTask'[v], k) <=> Asked(toTask[v], k)
            /\ AskedOnce(toTask'[v], k) <=> AskedOnce(toTask[v], k)
        BY <1>5
      <4> QED BY <2>1, <4>1, <4>2 DEF DueOf, Due, DueOnce
    <3> QED BY <3>1 DEF DuesHold
  <2>3. TaskShape'
    BY <1>2, <1>3, <2>1, Shape DEF TaskShape, TypeOK
  <2>4. UNCHANGED <<stack, unuse, closing, list, job_flag0, pokon0, iactive>> /\ Top' = Top
    BY DEF winmanVars, Top
  <2>5. LifeInv'
    <3>1. ASSUME NEW v \in Win PROVE Life(v)'
      <4>1. /\ Orderly(toTask[v])' /\ (toTask[v] = <<>> => toTask'[v] = <<>>)
            /\ Told(toTask[v], "closed")' <=> Told(toTask[v], "closed")
            /\ Told(toTask[v], "close")' => Told(toTask[v], "close")
        BY <1>5
      <4>2. Life(v)
        BY DEF LifeInv
      <4> QED BY <2>1, <2>4, <4>1, <4>2 DEF Life, Opening, Hidden, Phase
    <3> QED BY <3>1 DEF LifeInv
  <2>6. AskInv'
    <3>1. \A v \in Win : toTask[v] = <<>> => toTask'[v] = <<>>
      BY <1>5
    <3>2. \A v \in Win : Phase(v)' = Phase(v)
      BY <2>1 DEF Phase
    <3> QED BY <2>1, <2>4, <3>1, <3>2 DEF AskInv
  <2>7. ShellInv'
    <3>1. \A v \in Win : Told(toTask[v], "close")' => Told(toTask[v], "close")
      BY <1>5
    <3>2. \A v \in Win : Phase(v)' = Phase(v)
      BY <2>1 DEF Phase
    <3>3. stack # <<>> => pokon0 \in Win
      BY Shape DEF ShellInv
    <3> QED BY <2>4, <3>1, <3>2, <3>3 DEF ShellInv
  <2>8. \A v \in Win : Phase(v)' = Phase(v)
    BY <2>1 DEF Phase
  <2> QED BY <1>5, <2>1, <2>2, <2>3, <2>5, <2>6, <2>7, <2>8, TaskKeeps
<1> QED BY <1>7, <1>8

LEMMA ClosedKeeps ==
  ASSUME IInv, NEW w \in Win, Closed(w), UNCHANGED winmanVars
  PROVE  IInv'
<1> USE DEF IInv
<1>1. PICK sig \in {"closed"} : HasOrder(w, sig)
  BY DEF Closed
<1>2. Handled(w) /\ UNCHANGED <<toWinman, damaged, frame>> /\ ~ Drawing(w)
  BY <1>1 DEF Closed, HasOrder
<1>3. /\ toTask' \in [Win -> Seq(Orders)]
      /\ \A v \in Win : v # w => toTask'[v] = toTask[v]
      /\ \A s : Told(toTask[w], s) <=> Told(toTask'[w], s) \/ s = sig
      /\ \A k : Asked(toTask[w], k) <=> Asked(toTask'[w], k) \/ sig \in Asking(k)
      /\ \A k : AskedOnce(toTask[w], k) <=>
           AskedOnce(toTask'[w], k) /\ ~ (sig \in Asking(k) /\ Asked(toTask'[w], k))
      /\ Orderly(toTask[w]) => Orderly(toTask'[w]) /\ (sig = "closed" => toTask'[w] = <<>>)
      /\ toTask[w] # <<>> /\ Told(toTask[w], sig)
  BY <1>1, <1>2, OrderTaken
<1>4. toTask'[w] = <<>> /\ Told(toTask[w], "closed")
  BY <1>1, <1>3 DEF LifeInv, Life
<1>5. \A k \in Kinds : sig \notin Asking(k)
  BY DEF Kinds, Asking
<1>6. /\ client' \in [Win -> Clients]
      /\ \A v \in Win : v # w => client'[v] = client[v]
      /\ client'[w].phase = "none" /\ client'[w].drawing = "no" /\ client[w].drawing = "no"
  <2>1. client' = [client EXCEPT ![w] = NoClient]
    BY DEF Closed
  <2>2. client' \in [Win -> Clients]
    BY <2>1, ClientTyped
  <2>3. client \in [Win -> Clients]
    BY Shape
  <2> QED BY <1>2, <2>1, <2>2, <2>3 DEF NoClient, Drawing
<1>7. DuesHold
  <2>1. ASSUME NEW v \in Win, NEW k \in Kinds
        PROVE  /\ DueOf(v, k)' <=> DueOf(v, k)
               /\ DueOnce(toTask[v], client[v].drawing, toWinman, v, k)'
    <3>1. DueOnce(toTask[v], client[v].drawing, toWinman, v, k)
      BY DEF OwedInv, Awaited
    <3>2. Asked(toTask'[v], k) <=> Asked(toTask[v], k)
      BY <1>3, <1>5
    <3>3. AskedOnce(toTask'[v], k) <=> AskedOnce(toTask[v], k)
      BY <1>3, <1>5
    <3>4. client'[v].drawing = client[v].drawing
      BY <1>6
    <3> QED BY <1>2, <3>1, <3>2, <3>3, <3>4 DEF DueOf, Due, DueOnce
  <2> QED BY <2>1 DEF DuesHold
<1>8. TaskShape'
  BY <1>2, <1>3, <1>6, Shape DEF TaskShape, TypeOK
<1>9. UNCHANGED <<stack, unuse, closing, list, job_flag0, pokon0, iactive>> /\ Top' = Top
  BY DEF winmanVars, Top
<1>10. /\ w \notin ToSet(stack) /\ ~ Opening(w) /\ ~ InJobs(list, "close", w)
       /\ ~ Waiting(toWinman, "close", w) /\ ~ Waiting(toWinman, "open", w)
  BY <1>3, <1>4 DEF LifeInv, Life, AskInv
<1>11. LifeInv'
  <2>1. ASSUME NEW v \in Win, v # w PROVE Life(v)'
    <3>1. Life(v) /\ toTask'[v] = toTask[v] /\ client'[v] = client[v]
      BY <1>3, <1>6, <2>1 DEF LifeInv
    <3> QED BY <1>2, <1>9, <3>1 DEF Life, Opening, Hidden, Phase
  <2>2. Life(w)'
    <3>1. Orderly(toTask'[w]) /\ \A s : ~ Told(toTask'[w], s)
      BY <1>4, MailEmpty
    <3>2. Phase(w)' = "none"
      BY <1>6 DEF Phase
    <3>3. Life(w)
      BY DEF LifeInv
    <3> QED BY <1>2, <1>4, <1>9, <1>10, <3>1, <3>2, <3>3 DEF Life, Opening, Hidden
  <2> QED BY <2>1, <2>2 DEF LifeInv
<1>12. AskInv'
  <2>1. \A v \in Win : toTask[v] = <<>> => toTask'[v] = <<>>
    BY <1>3, <1>4
  <2>2. \A v \in Win : Phase(v)' = "ending" => Phase(v) = "ending"
    BY <1>6 DEF Phase
  <2> QED BY <1>2, <1>9, <2>1, <2>2 DEF AskInv
<1>13. ShellInv'
  <2>1. \A v \in Win : Told(toTask[v], "close")' => Told(toTask[v], "close")
    BY <1>3
  <2>2. \A v \in Win : Phase(v)' = IF v = w THEN "none" ELSE Phase(v)
    BY <1>6 DEF Phase
  <2>3. stack # <<>> => pokon0 \in Win /\ pokon0 # w
    BY <1>10, Shape DEF ShellInv
  <2> QED BY <1>9, <2>1, <2>2, <2>3 DEF ShellInv
<1>14. \A v \in Win : /\ Told(toTask'[v], "close") => Told(toTask[v], "close")
                      /\ Phase(v)' = "ending" => Phase(v) = "ending"
  BY <1>3, <1>6 DEF Phase
<1> QED BY <1>2, <1>7, <1>8, <1>11, <1>12, <1>13, <1>14, TaskKeeps

LEMMA TaskHolds ==
  ASSUME IInv, Eager = {}, NEW w \in Win, Task(w), UNCHANGED winmanVars
  PROVE  IInv'
BY SetOrEnableKeeps, DisableDrawKeeps, BeginDrawKeeps, EndDrawKeeps, CloseRequestedKeeps,
   ClosedKeeps, AppDrawKeeps, ClosesWindowKeeps
   DEF Task, Answer

-----------------------------------------------------------------------------
(* What winman0 does when a task asks for something.                       *)
LEMMA RequestHeard ==
  ASSUME IInv, NEW sig \in {"open", "close"}, Hears(sig), toWinman' = Tail(toWinman),
         UNCHANGED <<toTask, client>>
  PROVE  /\ Sender \in Win /\ Waiting(toWinman, sig, Sender)
         /\ toWinman' \in Seq(Messages) /\ BoxOK(toWinman')
         /\ \A s, v : Waiting(toWinman, s, v) <=> Waiting(toWinman', s, v) \/ (s = sig /\ v = Sender)
         /\ \A k \in FunctionKeys : ~ Waiting(toWinman', k, None)
         /\ \A k \in MoveKeys : Waiting(toWinman', k, None) => Waiting(toWinman, k, None)
         /\ sig = "open" => \A v : ~ Waiting(toWinman', "open", v)
         /\ sig = "close" => ~ Waiting(toWinman', "close", Sender) /\ ~ Waiting(toWinman, "open", Sender)
         /\ DuesHold
<1> DEFINE h == Head(toWinman)
<1>1. toWinman \in Seq(Messages) /\ toWinman # <<>> /\ BoxOK(toWinman) /\ h.sig = sig /\ Sender = h.win
  BY Shape DEF Hears, IInv, AskInv, Sender
<1>2. /\ toWinman' \in Seq(Messages) /\ BoxOK(toWinman') /\ h \in Messages /\ h = Msg(h.sig, h.win)
      /\ Waiting(toWinman, h.sig, h.win)
      /\ \A s, v : Waiting(toWinman, s, v) <=> Waiting(toWinman', s, v) \/ (s = h.sig /\ v = h.win)
      /\ \A s, v : OneOf(toWinman, {Msg(s, v)}) => OneOf(toWinman', {Msg(s, v)})
      /\ h.sig = "open" => \A v : ~ Waiting(toWinman', "open", v)
      /\ h.sig = "close" => ~ Waiting(toWinman', "close", h.win) /\ ~ Waiting(toWinman, "open", h.win)
      /\ h.sig \in {"open", "close"} => \A k \in FunctionKeys : ~ Waiting(toWinman, k, None)
  BY <1>1, BoxHeard
<1>3. Sender \in Win
  <2>1. h \in Messages /\ h.sig \notin FunctionKeys \cup MoveKeys
    BY <1>1, <1>2 DEF FunctionKeys, MoveKeys
  <2> QED BY <1>1, <2>1 DEF Messages, Requests, Keys
<1>4. \A k \in Kinds : k # sig
  BY DEF Kinds
<1>5. ASSUME NEW v \in Win, NEW k \in Kinds
      PROVE  /\ DueOf(v, k)' <=> DueOf(v, k)
             /\ DueOnce(toTask[v], client[v].drawing, toWinman, v, k)'
  <2>1. DueOnce(toTask[v], client[v].drawing, toWinman, v, k)
    BY DEF IInv, OwedInv, Awaited
  <2>2. Waiting(toWinman', k, v) <=> Waiting(toWinman, k, v)
    BY <1>1, <1>2, <1>4
  <2>3. OneOf(toWinman, {Msg(k, v)}) => OneOf(toWinman', {Msg(k, v)})
    BY <1>2
  <2> QED BY <2>1, <2>2, <2>3 DEF DueOf, Due, DueOnce
<1>6. DuesHold
  BY <1>5 DEF DuesHold
<1> HIDE DEF h
<1> QED BY <1>1, <1>2, <1>3, <1>6

(* A request, and what the user asks for, leaves alone what only a job or  *)
(* an answer changes.                                                      *)
LEMMA RestKeeps ==
  ASSUME IInv, UNCHANGED <<stack, place, condition, job_flag0, iactive, pokon0, job, keys, wild,
                           toTask, client, damaged, frame>>,
         press' \in Win \cup {None},
         unuse' \in Seq(Win), closing' \subseteq Win, list' \in Seq(Jobs),
         toWinman' \in Seq(Messages),
         SlotsInv', LifeInv', AskInv', JobsInv', KeysInv', DuesHold
  PROVE  IInv'
<1> USE DEF IInv
<1>1. TypeOK'
  BY DEF TypeOK, Messages
<1>2. Top' = Top /\ \A v \in Win : Phase(v)' = Phase(v)
  BY DEF Top, Phase
<1>3. ShellInv'
  <2>1. stack # <<>> => pokon0 \in Win
    BY Shape DEF ShellInv
  <2> QED BY <1>2, <2>1 DEF ShellInv
<1>4. JobInv'
  BY <1>2 DEF JobInv
<1>5. OwedInv'
  BY OwedKept
<1> QED BY <1>1, <1>3, <1>4, <1>5

LEMMA RequestKeeps ==
  ASSUME IInv, UNCHANGED <<stack, place, condition, job_flag0, iactive, pokon0, job, press, keys,
                           wild, toTask, client, damaged, frame>>,
         unuse' \in Seq(Win), closing' \subseteq Win, list' \in Seq(Jobs),
         toWinman' \in Seq(Messages),
         \A k \in FunctionKeys : ~ Waiting(toWinman', k, None),
         \A k \in MoveKeys : Waiting(toWinman', k, None) => Waiting(toWinman, k, None),
         SlotsInv', LifeInv', AskInv', JobsInv', DuesHold
  PROVE  IInv'
<1>1. KeysInv'
  BY DEF IInv, KeysInv, FunctionKeys
<1>2. press' \in Win \cup {None}
  BY DEF IInv, TypeOK
<1> QED BY <1>1, <1>2, RestKeeps

Room == 2 * Cardinality(Win) < JobCap

LEMMA HearOpenKeeps ==
  ASSUME IInv, Room, HearOpen, UNCHANGED client
  PROVE  IInv'
<1> USE DEF IInv
<1>1. PICK sig \in {"open"} : Hears(sig)
  BY DEF HearOpen
<1>2. PICK w \in Win : w = Sender
  <2>1. toWinman \in Seq(Messages) /\ toWinman # <<>> /\ Head(toWinman).sig = "open"
    BY <1>1, Shape DEF Hears
  <2>2. Head(toWinman) \in Messages
    BY <2>1
  <2> QED BY <2>1, <2>2 DEF Messages, Requests, Keys, Sender, FunctionKeys, MoveKeys
<1>3. unuse # <<>> /\ w = Head(unuse) /\ toTask[w] = <<>> /\ Waiting(toWinman, "open", w)
  <2>1. Waiting(toWinman, "open", w)
    <3>1. toWinman \in Seq(Messages) /\ toWinman # <<>> /\ Head(toWinman).sig = "open"
      BY <1>1, Shape DEF Hears
    <3> QED BY <1>2, <3>1, BoxHeard DEF Sender, AskInv
  <2> QED BY <2>1 DEF AskInv
<1>4. /\ unuse' = Tail(unuse) /\ closing' = closing \ {w} /\ WriteJob("open", w)
      /\ toWinman' = Tail(toWinman)
      /\ UNCHANGED <<stack, place, condition, job_flag0, iactive, pokon0, job, press, keys,
                     wild, toTask, client, damaged, frame>>
  BY <1>3 DEF HearOpen, screenVars
<1>5. /\ toWinman' \in Seq(Messages) /\ BoxOK(toWinman')
      /\ \A s, v : Waiting(toWinman, s, v) <=> Waiting(toWinman', s, v) \/ (s = sig /\ v = w)
      /\ \A k \in FunctionKeys : ~ Waiting(toWinman', k, None)
      /\ \A k \in MoveKeys : Waiting(toWinman', k, None) => Waiting(toWinman, k, None)
      /\ \A v : ~ Waiting(toWinman', "open", v)
      /\ DuesHold
  BY <1>1, <1>2, <1>4, RequestHeard
<1>6. /\ unuse \in Seq(Win) /\ IsInjective(unuse) /\ list \in Seq(Jobs) /\ ListOK(list)
  BY Shape DEF SlotsInv, JobsInv
<1>7. /\ unuse' \in Seq(Win) /\ IsInjective(unuse') /\ w \notin ToSet(unuse')
      /\ ToSet(unuse) = ToSet(unuse') \cup {w}
  BY <1>3, <1>4, <1>6, RingRest
<1>8. /\ w \notin closing /\ ~ InJobs(list, "close", w) /\ ~ InJobs(list, "open", w)
      /\ w \notin ToSet(stack) /\ ~ Hidden(w) /\ Phase(w) # "none"
  BY <1>3, <1>7 DEF SlotsInv, LifeInv, Life, Opening
<1>9. closing' = closing /\ closing' \subseteq Win
  BY <1>4, <1>8 DEF TypeOK
<1>10. /\ list' \in Seq(Jobs) /\ ListOK(list')
       /\ \A c, v : InJobs(list', c, v) <=> InJobs(list, c, v) \/ (c = "open" /\ v = w)
  <2>1. list' = Append(list, Job("open", w))
    BY <1>4, <1>6, <1>8, ListRoom, BoundAssumption DEF WriteJob, Room, Job
  <2>2. Job("open", w) \in Jobs
    BY DEF Job, Jobs
  <2> QED BY <1>6, <1>8, <2>1, <2>2, ListAdd
<1>11. SlotsInv'
  BY <1>4, <1>6, <1>7, <1>8, <1>10 DEF SlotsInv, Opening, Hidden
<1>12. LifeInv'
  <2>1. ASSUME NEW v \in Win PROVE Life(v)'
    <3>1. Life(v)
      BY DEF LifeInv
    <3>2. /\ Phase(v)' = Phase(v) /\ Hidden(v)' = Hidden(v) /\ toTask'[v] = toTask[v]
          /\ InJobs(list', "close", v) <=> InJobs(list, "close", v)
          /\ Opening(v)' <=> Opening(v) \/ v = w
      BY <1>4, <1>10 DEF Phase, Hidden, Opening
    <3>3. /\ Waiting(toWinman', "close", v) <=> Waiting(toWinman, "close", v)
          /\ ~ Waiting(toWinman', "open", v) /\ (Waiting(toWinman, "open", v) => v = w)
      BY <1>5
    <3>4. v \in ToSet(unuse') => v \in ToSet(unuse)
      BY <1>7
    <3>5. \A s : ~ Told(toTask[w], s)
      BY <1>3, MailEmpty
    <3>6. Phase(w) # "ending"
      BY <1>3 DEF AskInv
    <3> QED BY <1>3, <1>4, <1>8, <1>9, <3>1, <3>2, <3>3, <3>4, <3>5, <3>6 DEF Life
  <2> QED BY <2>1 DEF LifeInv
<1>13. AskInv'
  <2>1. \A v \in Win : Waiting(toWinman', "close", v) => Waiting(toWinman, "close", v)
    BY <1>5
  <2> QED BY <1>4, <1>5, <1>9, <1>10, <2>1 DEF AskInv
<1>14. JobsInv'
  <2>1. Top' = Top
    BY <1>4 DEF Top
  <2> QED BY <1>4, <1>9, <1>10, <2>1 DEF JobsInv
<1> QED BY <1>4, <1>5, <1>7, <1>9, <1>10, <1>11, <1>12, <1>13, <1>14, RequestKeeps

LEMMA HearCloseKeeps ==
  ASSUME IInv, Room, HearClose, UNCHANGED client
  PROVE  IInv'
<1> USE DEF IInv
<1>1. PICK sig \in {"close"} : Hears(sig)
  BY DEF HearClose
<1>2. PICK w \in Win : w = Sender /\ Waiting(toWinman, "close", w) /\ ~ Waiting(toWinman, "open", w)
  <2>1. toWinman \in Seq(Messages) /\ toWinman # <<>> /\ BoxOK(toWinman) /\ Head(toWinman).sig = "close"
    BY <1>1, Shape DEF Hears, AskInv
  <2>2. Head(toWinman) \in Messages
    BY <2>1
  <2>3. Sender \in Win
    BY <2>1, <2>2 DEF Messages, Requests, Keys, Sender, FunctionKeys, MoveKeys
  <2> QED BY <2>1, <2>3, BoxHeard DEF Sender
<1>3. /\ Phase(w) # "none" /\ Phase(w) # "open" /\ ~ Told(toTask[w], "closed")
      /\ w \notin ToSet(unuse)
  BY <1>2 DEF LifeInv, Life, SlotsInv
<1>4. ~ Contains(unuse, Sender)
  BY <1>2, <1>3, Shape, MembersOf DEF Contains
<1>5. /\ toWinman' = Tail(toWinman)
      /\ UNCHANGED <<stack, place, unuse, condition, job_flag0, iactive, pokon0, job, press, keys,
                     wild, toTask, client, damaged, frame>>
  BY <1>4 DEF HearClose, screenVars
<1>6. /\ toWinman' \in Seq(Messages) /\ BoxOK(toWinman')
      /\ \A s, v : Waiting(toWinman, s, v) <=> Waiting(toWinman', s, v) \/ (s = sig /\ v = w)
      /\ \A k \in FunctionKeys : ~ Waiting(toWinman', k, None)
      /\ \A k \in MoveKeys : Waiting(toWinman', k, None) => Waiting(toWinman, k, None)
      /\ ~ Waiting(toWinman', "close", w)
      /\ DuesHold
  BY <1>1, <1>2, <1>5, RequestHeard
<1>7. w \notin closing /\ ~ InJobs(list, "close", w) /\ w # pokon0
  BY <1>2 DEF AskInv
<1>8. closing' = closing \cup {w} /\ WriteJob("close", w) /\ closing' \subseteq Win
  BY <1>2, <1>4, <1>7 DEF HearClose, TypeOK
<1>9. list \in Seq(Jobs) /\ ListOK(list)
  BY Shape DEF JobsInv
<1>10. /\ list' \in Seq(Jobs) /\ ListOK(list')
       /\ \A c, v : InJobs(list', c, v) <=> InJobs(list, c, v) \/ (c = "close" /\ v = w)
  <2>1. list' = Append(list, Job("close", w))
    BY <1>7, <1>8, <1>9, ListRoom, BoundAssumption DEF WriteJob, Room, Job
  <2>2. Job("close", w) \in Jobs
    BY DEF Job, Jobs
  <2> QED BY <1>7, <1>9, <2>1, <2>2, ListAdd
<1>11. SlotsInv'
  BY <1>5, <1>10 DEF SlotsInv, Opening, Hidden
<1>12. LifeInv'
  <2>1. ASSUME NEW v \in Win PROVE Life(v)'
    <3>1. Life(v)
      BY DEF LifeInv
    <3>2. /\ Phase(v)' = Phase(v) /\ Hidden(v)' = Hidden(v) /\ (Opening(v)' <=> Opening(v))
          /\ InJobs(list', "close", v) <=> InJobs(list, "close", v) \/ v = w
      BY <1>5, <1>10 DEF Phase, Hidden, Opening
    <3>3. /\ Waiting(toWinman, "close", v) <=> Waiting(toWinman', "close", v) \/ v = w
          /\ Waiting(toWinman', "open", v) <=> Waiting(toWinman, "open", v)
      BY <1>1, <1>6
    <3> QED BY <1>3, <1>5, <1>8, <3>1, <3>2, <3>3 DEF Life
  <2> QED BY <2>1 DEF LifeInv
<1>13. AskInv'
  <2>1. \A v \in Win : /\ Waiting(toWinman', "close", v) => Waiting(toWinman, "close", v) /\ v # w
                       /\ Waiting(toWinman', "open", v) <=> Waiting(toWinman, "open", v)
    BY <1>1, <1>6
  <2>2. \A v \in Win : Phase(v)' = Phase(v)
    BY <1>5 DEF Phase
  <2> QED BY <1>5, <1>6, <1>7, <1>8, <1>10, <2>1, <2>2 DEF AskInv
<1>14. JobsInv'
  <2>1. Top' = Top
    BY <1>5 DEF Top
  <2> QED BY <1>5, <1>8, <1>10, <2>1 DEF JobsInv
<1> QED BY <1>5, <1>6, <1>8, <1>10, <1>11, <1>12, <1>13, <1>14, Shape, RequestKeeps

-----------------------------------------------------------------------------
(* What changes the picture, the order of the open windows and the notes   *)
(* about them, but neither opens a window nor closes one.                  *)
PictureOnly ==
  /\ UNCHANGED <<unuse, closing, pokon0, wild, client>>
  /\ stack # <<>> /\ stack' \in Seq(Win) /\ IsInjective(stack') /\ ToSet(stack') = ToSet(stack)
  /\ iactive' = Top'
  /\ list' \in Seq(Jobs) /\ ListOK(list')
  /\ toWinman' \in Seq(Messages) /\ BoxOK(toWinman')
  /\ toTask' \in [Win -> Seq(Orders)]
  /\ \A v \in Win :
       /\ InJobs(list', "open", v) <=> InJobs(list, "open", v)
       /\ InJobs(list', "close", v) <=> InJobs(list, "close", v)
       /\ InJobs(list', "activate", v) => InJobs(list, "activate", v)
       /\ InJobs(list', "move", v) => InJobs(list, "move", v) /\ Top' = Top
       /\ Waiting(toWinman', "open", v) <=> Waiting(toWinman, "open", v)
       /\ Waiting(toWinman', "close", v) <=> Waiting(toWinman, "close", v)
       /\ Told(toTask'[v], "close") <=> Told(toTask[v], "close")
       /\ Told(toTask'[v], "closed") <=> Told(toTask[v], "closed")
       /\ ToldOnce(toTask[v]) => ToldOnce(toTask'[v])
       /\ "nowindow" \in job_flag0'[v] => "nowindow" \in job_flag0[v]
       /\ v \notin ToSet(stack) => toTask'[v] = toTask[v] /\ job_flag0'[v] = job_flag0[v]

LEMMA PictureKeeps ==
  ASSUME IInv, PictureOnly, TypeOK', KeysInv', JobInv', OwedInv'
  PROVE  IInv'
<1> USE DEF IInv
<1>1. /\ UNCHANGED <<unuse, closing, pokon0, wild, client>>
      /\ stack # <<>> /\ stack' \in Seq(Win) /\ IsInjective(stack') /\ ToSet(stack') = ToSet(stack)
      /\ iactive' = Top'
      /\ list' \in Seq(Jobs) /\ ListOK(list')
      /\ toWinman' \in Seq(Messages) /\ BoxOK(toWinman')
      /\ toTask' \in [Win -> Seq(Orders)]
  BY DEF PictureOnly
<1>2. ASSUME NEW v \in Win
      PROVE  /\ Opening(v)' <=> Opening(v)
             /\ InJobs(list', "close", v) <=> InJobs(list, "close", v)
             /\ Waiting(toWinman', "open", v) <=> Waiting(toWinman, "open", v)
             /\ Waiting(toWinman', "close", v) <=> Waiting(toWinman, "close", v)
             /\ Told(toTask'[v], "close") <=> Told(toTask[v], "close")
             /\ Told(toTask'[v], "closed") <=> Told(toTask[v], "closed")
             /\ Phase(v)' = Phase(v)
             /\ v \notin ToSet(stack) => toTask'[v] = toTask[v]
  BY <1>1 DEF PictureOnly, Opening, Phase
<1>3. ASSUME NEW v \in Win
      PROVE  Hidden(v)' <=> Hidden(v)
  <2>1. v \in ToSet(stack) => ~ Hidden(v)
    BY DEF SlotsInv
  <2> QED BY <2>1 DEF PictureOnly, Hidden
<1>4. SlotsInv'
  BY <1>1, <1>2, <1>3 DEF SlotsInv
<1>5. LifeInv'
  <2>1. ASSUME NEW v \in Win PROVE Life(v)'
    <3>1. Life(v)
      BY DEF LifeInv
    <3>2. Orderly(toTask'[v])
      <4>1. CASE v \in ToSet(stack)
        <5>1. ~ Told(toTask'[v], "closed")
          BY <1>2, <3>1, <4>1 DEF Life
        <5>2. ToldOnce(toTask'[v])
          BY <3>1, MailLast DEF Life, PictureOnly
        <5> QED BY <5>1, <5>2, MailLast
      <4>2. CASE v \notin ToSet(stack)
        BY <1>2, <3>1, <4>2 DEF Life
      <4> QED BY <4>1, <4>2
    <3>3. Opening(v) => v \notin ToSet(stack)
      BY DEF SlotsInv
    <3>4. Phase(v) = "none" => v \notin ToSet(stack)
      BY <3>1 DEF Life
    <3> QED BY <1>1, <1>2, <1>3, <3>1, <3>2, <3>3, <3>4 DEF Life
  <2> QED BY <2>1 DEF LifeInv
<1>6. AskInv'
  <2>1. ASSUME NEW v \in Win, Waiting(toWinman, "open", v)
        PROVE  toTask'[v] = <<>>
    <3>1. unuse # <<>> /\ v = Head(unuse) /\ toTask[v] = <<>>
      BY <2>1 DEF AskInv
    <3>2. v \in ToSet(unuse)
      BY <3>1, Shape, RingRest
    <3>3. v \notin ToSet(stack)
      BY <3>2 DEF SlotsInv
    <3> QED BY <1>2, <3>1, <3>3
  <2> QED BY <1>1, <1>2, <2>1 DEF AskInv
<1>7. JobsInv'
  <2>1. ASSUME NEW v \in Win
        PROVE  /\ InJobs(list', "activate", v) => InJobs(list, "activate", v)
               /\ InJobs(list', "move", v) => InJobs(list, "move", v) /\ Top' = Top
    BY DEF PictureOnly
  <2> QED BY <1>1, <1>2, <2>1 DEF JobsInv
<1>8. ShellInv'
  <2>1. stack' # <<>>
    BY <1>1, Shape, MembersOf
  <2>2. pokon0 \in Win
    BY <1>1, Shape DEF ShellInv
  <2> QED BY <1>1, <1>2, <2>1, <2>2 DEF ShellInv
<1> QED BY <1>4, <1>5, <1>6, <1>7, <1>8

LEMMA PairOf ==
  ASSUME NEW a, NEW b, a # b
  PROVE  Cardinality({a} \cup {b}) = 2
<1>1. IsFiniteSet({a}) /\ Cardinality({a}) = 1
  BY FS_Singleton
<1>2. Cardinality({a} \cup {b}) = IF b \in {a} THEN Cardinality({a}) ELSE Cardinality({a}) + 1
  BY <1>1, FS_AddElement
<1> QED BY <1>1, <1>2

(* When nothing is due, and windows are drawn, what is due is what the job *)
(* then awaits.                                                            *)
LEMMA RedrawsOwe ==
  ASSUME NEW fl, NEW box, NEW j, Redraws(fl, box, j),
         stack' \in Seq(Win), stack' # <<>>, j.now # "none", ~ j.ready, wild' = FALSE,
         \A v \in Win, k \in Kinds :
           ~ Draws(client'[v].drawing, k) /\ ~ Waiting(toWinman', k, v)
  PROVE  JobInv' /\ OwedInv'
<1>1. \A v \in Win, k \in Kinds : DueOf(v, k)' <=> Asked(toTask'[v], k)
  BY DEF DueOf, Due
<1>2. ASSUME NEW v \in Win, NEW k \in Kinds
      PROVE  DueOnce(toTask'[v], client'[v].drawing, toWinman', v, k)
  <2>1. OneOf(toWinman', {Msg(k, v)})
    BY DEF Waiting, Has, OneOf
  <2>2. AskedOnce(toTask'[v], k)
    BY DEF Redraws
  <2> QED BY <2>1, <2>2 DEF DueOnce
<1>3. /\ job' \in Progress /\ ~ job'.ready /\ job'.func = "general2"
  BY DEF Redraws
<1>4. CASE /\ job'.now = "none" /\ job'.count = 0
           /\ \A v \in Win : /\ \A k \in Kinds : ~ Asked(toTask'[v], k)
                             /\ job_flag0'[v] \cap Waits = {}
  <2>1. JobInv'
    BY <1>3, <1>4 DEF JobInv
  <2>2. \A w \in Win, k \in Kinds : ~ DueOf(w, k)'
    BY <1>1, <1>4
  <2>3. Dues' = {}
    BY <2>2 DEF Dues
  <2>4. Cardinality(Dues)' = 0
    BY <2>3, FS_EmptySet
  <2>5. ASSUME NEW v \in Win, NEW k \in Kinds PROVE Awaited(v, k)'
    <3>1. job_flag0'[v] \cap Waits = {}
      BY <1>4
    <3> QED BY <1>2, <1>3, <2>2, <3>1 DEF Awaited, Waits
  <2> QED BY <1>4, <2>1, <2>4, <2>5 DEF OwedInv
<1>5. CASE /\ job'.now = j.now /\ job'.win \in ToSet(stack')
           /\ job_flag0'[job'.win] \subseteq Waits /\ "waitredraw" \in job_flag0'[job'.win]
           /\ job'.count = IF "waitdisable" \in job_flag0'[job'.win] THEN 2 ELSE 1
           /\ \A v \in Win :
                /\ Asked(toTask'[v], "drawn") <=> v = job'.win
                /\ Asked(toTask'[v], "stopped") <=>
                     v = job'.win /\ "waitdisable" \in job_flag0'[job'.win]
                /\ v # job'.win => job_flag0'[v] \cap Waits = {}
  <2>1. JobInv'
    BY <1>3, <1>5 DEF JobInv
  <2>2. PICK w \in Win : w = job'.win /\ w \in ToSet(stack')
    BY <1>5, MembersOf
  <2>3. Dues' = { vk \in Win \X Kinds : Asked(toTask'[vk[1]], vk[2]) }
    BY <1>1 DEF Dues
  <2>4. job'.count = Cardinality(Dues')
    <3>1. CASE "waitdisable" \in job_flag0'[w]
      <4>1. Dues' = {<<w, "drawn">>} \cup {<<w, "stopped">>}
        <5>1. ASSUME NEW v \in Win, NEW k \in Kinds
              PROVE  Asked(toTask'[v], k) <=> v = w
          BY <1>5, <2>2, <3>1 DEF Kinds
        <5> QED BY <2>3, <5>1 DEF Kinds
      <4>2. <<w, "drawn">> # <<w, "stopped">>
        OBVIOUS
      <4>3. Cardinality({<<w, "drawn">>} \cup {<<w, "stopped">>}) = 2
        BY <4>2, PairOf
      <4> QED BY <1>5, <2>2, <3>1, <4>1, <4>3
    <3>2. CASE "waitdisable" \notin job_flag0'[w]
      <4>1. Dues' = {<<w, "drawn">>}
        <5>1. ASSUME NEW v \in Win, NEW k \in Kinds
              PROVE  Asked(toTask'[v], k) <=> v = w /\ k = "drawn"
          BY <1>5, <2>2, <3>2 DEF Kinds
        <5> QED BY <2>3, <5>1 DEF Kinds
      <4>2. Cardinality({<<w, "drawn">>}) = 1
        BY FS_Singleton
      <4> QED BY <1>5, <2>2, <3>2, <4>1, <4>2
    <3> QED BY <3>1, <3>2
  <2>5. ASSUME NEW v \in Win, NEW k \in Kinds PROVE Awaited(v, k)'
    <3>1. DueOf(v, k)' <=> v = w /\ (k = "stopped" => "waitdisable" \in job_flag0'[w])
      BY <1>1, <1>5, <2>2 DEF Kinds
    <3>2. DueOf(v, k)' => v \in ToSet(stack') /\ job'.now # "none"
      BY <1>5, <2>2, <3>1
    <3>3. DueOf(v, k)' <=> (IF k = "drawn" THEN "waitredraw" ELSE "waitdisable") \in job_flag0'[v]
      <4>1. CASE v = w
        BY <1>5, <2>2, <3>1, <4>1 DEF Kinds
      <4>2. CASE v # w
        <5>1. "waitredraw" \notin job_flag0'[v] /\ "waitdisable" \notin job_flag0'[v]
          BY <1>5, <2>2, <4>2 DEF Waits
        <5> QED BY <3>1, <4>2, <5>1
      <4> QED BY <4>1, <4>2
    <3> QED BY <1>2, <1>3, <3>2, <3>3 DEF Awaited
  <2> QED BY <2>1, <2>4, <2>5 DEF OwedInv
<1> QED BY <1>4, <1>5 DEF Redraws

-----------------------------------------------------------------------------
(* What winman0 does when a task answers: one answer less is due.          *)
Left(v, k) == Due(toTask[v], client[v].drawing, toWinman', v, k)

LEMMA AnswerIsDue ==
  ASSUME IInv, NEW sig \in Kinds, Hears(sig)
  PROVE  /\ Sender \in Win /\ Sender \in ToSet(stack) /\ ~ Contains(unuse, Sender)
         /\ stack # <<>> /\ job.now # "none" /\ DueOf(Sender, sig) /\ Waiting(toWinman, sig, Sender)
<1> USE DEF IInv
<1> DEFINE h == Head(toWinman)
<1>1. toWinman \in Seq(Messages) /\ toWinman # <<>> /\ BoxOK(toWinman) /\ h.sig = sig /\ Sender = h.win
  BY Shape DEF Hears, AskInv, Sender
<1>2. h \in Messages /\ Waiting(toWinman, h.sig, h.win)
  BY <1>1, BoxHeard
<1>3. Sender \in Win
  <2>1. h.sig \notin FunctionKeys \cup MoveKeys
    BY <1>1 DEF FunctionKeys, MoveKeys, Kinds
  <2> QED BY <1>1, <1>2, <2>1 DEF Messages, Requests, Keys
<1>4. PICK w \in Win : w = Sender
  BY <1>3
<1>5. Waiting(toWinman, sig, w)
  BY <1>1, <1>2, <1>4
<1> HIDE DEF h
<1>6. DueOf(w, sig) /\ w \in ToSet(stack) /\ job.now # "none"
  BY <1>5 DEF DueOf, Due, OwedInv, Awaited
<1>7. stack # <<>> /\ ~ Contains(unuse, w)
  <2>1. stack # <<>>
    BY <1>6, Shape, MembersOf
  <2>2. w \notin ToSet(unuse)
    BY <1>6 DEF SlotsInv
  <2> QED BY <2>1, <2>2, Shape, MembersOf DEF Contains, Has
<1> QED BY <1>4, <1>5, <1>6, <1>7

LEMMA AnswerHeard ==
  ASSUME IInv, NEW sig \in Kinds, Hears(sig), toWinman' = Tail(toWinman)
  PROVE  /\ Sender \in Win /\ Sender \in ToSet(stack) /\ ~ Contains(unuse, Sender)
         /\ stack # <<>> /\ job.now # "none" /\ job.count \in Nat /\ job.count # 0
         /\ toWinman' \in Seq(Messages) /\ BoxOK(toWinman')
         /\ \A s, v : s \notin Kinds => (Waiting(toWinman', s, v) <=> Waiting(toWinman, s, v))
         /\ DueOf(Sender, sig)
         /\ \A v \in Win, k \in Kinds :
              /\ Left(v, k) <=> DueOf(v, k) /\ ~ (v = Sender /\ k = sig)
              /\ DueOnce(toTask[v], client[v].drawing, toWinman', v, k)
         /\ Cardinality({ vk \in Win \X Kinds : Left(vk[1], vk[2]) }) = job.count - 1
<1> USE DEF IInv
<1> DEFINE h == Head(toWinman)
<1>1. toWinman \in Seq(Messages) /\ toWinman # <<>> /\ BoxOK(toWinman) /\ h.sig = sig /\ Sender = h.win
  BY Shape DEF Hears, AskInv, Sender
<1>2. /\ toWinman' \in Seq(Messages) /\ BoxOK(toWinman') /\ h \in Messages
      /\ Waiting(toWinman, h.sig, h.win)
      /\ \A s, v : Waiting(toWinman, s, v) <=> Waiting(toWinman', s, v) \/ (s = h.sig /\ v = h.win)
      /\ \A s, v : OneOf(toWinman, {Msg(s, v)}) =>
           OneOf(toWinman', {Msg(s, v)}) /\ ~ (s = h.sig /\ v = h.win /\ Waiting(toWinman', s, v))
  BY <1>1, BoxHeard
<1>3. /\ Sender \in Win /\ Sender \in ToSet(stack) /\ ~ Contains(unuse, Sender)
      /\ stack # <<>> /\ job.now # "none" /\ DueOf(Sender, sig)
  BY AnswerIsDue
<1>4. PICK w \in Win : w = Sender
  BY <1>3
<1>5. /\ Waiting(toWinman, sig, w)
      /\ \A s, v : Waiting(toWinman, s, v) <=> Waiting(toWinman', s, v) \/ (s = sig /\ v = w)
      /\ \A s, v : OneOf(toWinman, {Msg(s, v)}) =>
           OneOf(toWinman', {Msg(s, v)}) /\ ~ (s = sig /\ v = w /\ Waiting(toWinman', s, v))
  BY <1>1, <1>2, <1>4
<1> HIDE DEF h
<1>6. DueOf(w, sig)
  BY <1>3, <1>4
<1>7. ASSUME NEW v \in Win, NEW k \in Kinds
      PROVE  /\ Left(v, k) <=> DueOf(v, k) /\ ~ (v = w /\ k = sig)
             /\ DueOnce(toTask[v], client[v].drawing, toWinman', v, k)
  <2>1. DueOnce(toTask[v], client[v].drawing, toWinman, v, k)
    BY DEF OwedInv, Awaited
  <2>2. OneOf(toWinman', {Msg(k, v)}) /\ ~ (k = sig /\ v = w /\ Waiting(toWinman', k, v))
    BY <1>5, <2>1 DEF DueOnce
  <2>3. Waiting(toWinman', k, v) <=> Waiting(toWinman, k, v) /\ ~ (k = sig /\ v = w)
    BY <1>5, <2>2
  <2>4. k = sig /\ v = w => ~ Asked(toTask[v], k) /\ ~ Draws(client[v].drawing, k)
    BY <1>5, <2>1 DEF DueOnce
  <2> QED BY <2>1, <2>2, <2>3, <2>4 DEF Left, DueOf, Due, DueOnce
<1>8. { vk \in Win \X Kinds : Left(vk[1], vk[2]) } = Dues \ {<<w, sig>>}
  <2>1. \A vk \in Win \X Kinds : Left(vk[1], vk[2]) <=> DueOf(vk[1], vk[2]) /\ vk # <<w, sig>>
    BY <1>7
  <2> QED BY <2>1 DEF Dues
<1>9. <<w, sig>> \in Dues
  BY <1>6 DEF Dues
<1>10. Cardinality(Dues \ {<<w, sig>>}) = Cardinality(Dues) - 1
  BY <1>9, DuesAreFinite, FS_RemoveElement
<1>11. job.count \in Nat /\ job.count # 0
  <2>1. job.count = Cardinality(Dues)
    BY DEF OwedInv
  <2>2. Dues # {}
    BY <1>9
  <2> QED BY <2>1, <2>2, DuesAreFinite, FS_EmptySet
<1>12. job.count = Cardinality(Dues)
  BY DEF OwedInv
<1>13. \A s, v : s \notin Kinds => (Waiting(toWinman', s, v) <=> Waiting(toWinman, s, v))
  BY <1>5
<1> QED BY <1>2, <1>3, <1>4, <1>7, <1>8, <1>10, <1>11, <1>12, <1>13

(* An answer after which others are still due, or the job needs none.      *)
LEMMA AnswerCounted ==
  ASSUME IInv, NEW sig \in Kinds, Hears(sig), toWinman' = Tail(toWinman),
         UNCHANGED <<stack, toTask, client>>, job'.count = job.count - 1
  PROVE  /\ job'.count = Cardinality(Dues)'
         /\ \A v \in Win, k \in Kinds :
              /\ DueOf(v, k)' <=> DueOf(v, k) /\ ~ (v = Sender /\ k = sig)
              /\ DueOnce(toTask[v], client[v].drawing, toWinman, v, k)'
<1>1. \A v \in Win, k \in Kinds : DueOf(v, k)' <=> Left(v, k)
  BY DEF DueOf, Left
<1>2. Dues' = { vk \in Win \X Kinds : Left(vk[1], vk[2]) }
  BY <1>1 DEF Dues
<1>3. /\ \A v \in Win, k \in Kinds :
           /\ Left(v, k) <=> DueOf(v, k) /\ ~ (v = Sender /\ k = sig)
           /\ DueOnce(toTask[v], client[v].drawing, toWinman', v, k)
      /\ Cardinality({ vk \in Win \X Kinds : Left(vk[1], vk[2]) }) = job.count - 1
  BY AnswerHeard
<1> QED BY <1>1, <1>2, <1>3

(* What an answer leaves alone, whatever the job does with it.             *)
AnswerRest ==
  /\ UNCHANGED <<stack, place, unuse, closing, iactive, pokon0, list, press, wild, client, damaged>>

LEMMA AnswerPicture ==
  ASSUME IInv, NEW sig \in Kinds, Hears(sig), toWinman' = Tail(toWinman), AnswerRest,
         toTask' \in [Win -> Seq(Orders)],
         \A v \in Win :
           /\ Told(toTask'[v], "close") <=> Told(toTask[v], "close")
           /\ Told(toTask'[v], "closed") <=> Told(toTask[v], "closed")
           /\ ToldOnce(toTask[v]) => ToldOnce(toTask'[v])
           /\ "nowindow" \in job_flag0'[v] => "nowindow" \in job_flag0[v]
           /\ v \notin ToSet(stack) => toTask'[v] = toTask[v] /\ job_flag0'[v] = job_flag0[v]
  PROVE  PictureOnly
<1> USE DEF IInv
<1>1. /\ stack # <<>> /\ toWinman' \in Seq(Messages) /\ BoxOK(toWinman')
      /\ \A s, v : s \notin Kinds => (Waiting(toWinman', s, v) <=> Waiting(toWinman, s, v))
  BY AnswerHeard
<1>2. /\ \A v : Waiting(toWinman', "open", v) <=> Waiting(toWinman, "open", v)
      /\ \A v : Waiting(toWinman', "close", v) <=> Waiting(toWinman, "close", v)
  BY <1>1 DEF Kinds
<1>3. /\ UNCHANGED <<unuse, closing, pokon0, wild, client, stack, list>>
      /\ iactive' = Top' /\ Top' = Top
  BY <1>1 DEF AnswerRest, Top, ShellInv
<1>4. stack \in Seq(Win) /\ IsInjective(stack) /\ list \in Seq(Jobs) /\ ListOK(list)
  BY Shape DEF SlotsInv, JobsInv
<1> QED BY <1>1, <1>2, <1>3, <1>4 DEF PictureOnly

(* No key of a move is under way while answers are awaited.                *)
LEMMA AnswerKeys ==
  ASSUME IInv, NEW sig \in Kinds, Hears(sig), toWinman' = Tail(toWinman), AnswerRest,
         \A v \in Win : Told(toTask'[v], "close") <=> Told(toTask[v], "close")
  PROVE  KeysInv'
<1> USE DEF IInv
<1>1. /\ stack # <<>> /\ job.count # 0
      /\ \A s, v : s \notin Kinds => (Waiting(toWinman', s, v) <=> Waiting(toWinman, s, v))
  BY AnswerHeard
<1>2. \A k \in FunctionKeys \cup MoveKeys : k \notin Kinds
  BY DEF FunctionKeys, MoveKeys, Kinds
<1>3. UNCHANGED <<stack, list>>
  BY DEF AnswerRest
<1>4. \A k \in MoveKeys : ~ Waiting(toWinman, k, None)
  BY <1>1 DEF KeysInv
<1>5. Top' = Top /\ Top \in Win /\ \A v \in Win : Phase(v)' = Phase(v)
  BY <1>1, Shape DEF AnswerRest, Top, Phase
<1> QED BY <1>1, <1>2, <1>3, <1>4, <1>5 DEF KeysInv, FunctionKeys

LEMMA FrameTypes ==
  ASSUME NEW f \in SUBSET Place, NEW p \in Place
  PROVE  Frame(f, p) \in SUBSET Place
BY DEF Frame

(* The window that is to be moved stands still.                            *)
LEMMA FrameAppearsKeeps ==
  ASSUME IInv, NEW sig \in Kinds, Hears(sig), toWinman' = Tail(toWinman), AnswerRest,
         job.func = "movewin1", FrameAppears
  PROVE  IInv'
<1> USE DEF IInv
<1>1. job \in Progress
  BY Shape
<1>2. job.count = 1 /\ job.now # "none"
  BY AnswerHeard DEF JobInv
<1>3. /\ job' = [job EXCEPT !.count = @ - 1, !.ready = (job.count = 1) \/ @]
      /\ frame' = Frame(frame, job.pos) /\ keys' = keys \cup MoveKeys
      /\ UNCHANGED <<stack, place, condition, job_flag0, toTask, damaged>>
  BY <1>2 DEF FrameAppears
<1>4. job' \in Progress /\ job'.count = 0 /\ job'.ready = TRUE
  <2> DEFINE a == [job EXCEPT !.count = 0]
             b == [a EXCEPT !.ready = TRUE]
  <2>1. job' = b
    <3>1. job.count - 1 = 0 /\ ((job.count = 1) \/ job.ready) = TRUE
      BY <1>2
    <3>2. job' = [job EXCEPT !.count = job.count - 1, !.ready = (job.count = 1) \/ job.ready]
      BY <1>3
    <3>3. job' = [job EXCEPT !.count = 0, !.ready = TRUE]
      BY <3>1, <3>2
    <3> QED BY <3>3
  <2>2. a \in Progress
    BY <1>1 DEF Progress
  <2> HIDE DEF a
  <2>3. b \in Progress /\ b.ready = TRUE
    BY <2>2 DEF Progress
  <2>4. job'.count = 0
    BY <1>1, <1>2, <1>3 DEF Progress
  <2> QED BY <2>1, <2>3, <2>4
<1>5. job'.now = job.now /\ job'.func = job.func /\ job'.win = job.win
  BY <1>1, <1>3 DEF Progress
<1>6. TypeOK'
  <2>1. frame' \in SUBSET Place
    <3>1. job.pos \in Place /\ frame \in SUBSET Place
      BY <1>1 DEF Progress, TypeOK
    <3> QED BY <1>3, <3>1, FrameTypes
  <2>2. keys' \subseteq FunctionKeys \cup MoveKeys
    BY <1>3 DEF TypeOK
  <2>3. toWinman' \in Seq(Requests \cup Keys)
    BY AnswerHeard DEF Messages
  <2> QED BY <1>3, <1>4, <2>1, <2>2, <2>3 DEF TypeOK, AnswerRest
<1>7. PictureOnly
  BY <1>3, AnswerPicture, Shape
<1>8. KeysInv'
  BY <1>3, AnswerKeys
<1>9. Top' = Top /\ stack # <<>>
  BY <1>3, AnswerHeard DEF Top
<1>10. JobInv'
  BY <1>2, <1>3, <1>4, <1>5, <1>9 DEF JobInv, AnswerRest
<1>11. OwedInv'
  <2>1. UNCHANGED <<stack, toTask, client>>
    BY <1>3 DEF AnswerRest
  <2>2. job'.count = job.count - 1
    BY <1>2, <1>4
  <2>3. job'.count = Cardinality(Dues)'
    BY <2>1, <2>2, AnswerCounted
  <2>4. ASSUME NEW v \in Win, NEW k \in Kinds PROVE Awaited(v, k)'
    <3>1. Awaited(v, k)
      BY DEF OwedInv
    <3>2. /\ DueOf(v, k)' => DueOf(v, k)
          /\ DueOnce(toTask[v], client[v].drawing, toWinman, v, k)'
      BY <2>1, <2>2, AnswerCounted
    <3> QED BY <1>2, <1>3, <1>5, <1>9, <3>1, <3>2 DEF Awaited
  <2> QED BY <2>3, <2>4 DEF OwedInv
<1> QED BY <1>6, <1>7, <1>8, <1>10, <1>11, PictureKeeps

(* One of the windows the frame met or left answers.                       *)
LEMMA FrameReturnsKeeps ==
  ASSUME IInv, NEW sig \in Kinds, Hears(sig), toWinman' = Tail(toWinman), AnswerRest,
         job.func = "movewin6", FrameReturns
  PROVE  IInv'
<1> USE DEF IInv
<1>1. job \in Progress
  BY Shape
<1>2. job.now # "none"
  BY AnswerHeard
<1>3. /\ job' = [job EXCEPT !.count = @ - 1]
      /\ frame' = IF job.count = 1 THEN Frame(frame, job.pos) ELSE frame
      /\ UNCHANGED <<stack, place, condition, job_flag0, keys, toTask, damaged>>
  BY DEF FrameReturns
<1>4. /\ job' \in Progress /\ job'.count = job.count - 1
      /\ job'.now = job.now /\ job'.func = job.func /\ job'.win = job.win /\ job'.ready = job.ready
  BY <1>1, <1>3 DEF Progress
<1>5. TypeOK'
  <2>1. frame' \in SUBSET Place
    <3>1. job.pos \in Place /\ frame \in SUBSET Place
      BY <1>1 DEF Progress, TypeOK
    <3> QED BY <1>3, <3>1, FrameTypes
  <2>2. toWinman' \in Seq(Requests \cup Keys)
    BY AnswerHeard DEF Messages
  <2> QED BY <1>3, <1>4, <2>1, <2>2 DEF TypeOK, AnswerRest
<1>6. PictureOnly
  BY <1>3, AnswerPicture, Shape
<1>7. KeysInv'
  BY <1>3, AnswerKeys
<1>8. Top' = Top /\ stack # <<>>
  BY <1>3, AnswerHeard DEF Top
<1>9. JobInv'
  BY <1>2, <1>3, <1>4, <1>8 DEF JobInv, AnswerRest
<1>10. OwedInv'
  <2>1. UNCHANGED <<stack, toTask, client>>
    BY <1>3 DEF AnswerRest
  <2>2. job'.count = Cardinality(Dues)'
    BY <1>4, <2>1, AnswerCounted
  <2>3. ASSUME NEW v \in Win, NEW k \in Kinds PROVE Awaited(v, k)'
    <3>1. Awaited(v, k)
      BY DEF OwedInv
    <3>2. /\ DueOf(v, k)' => DueOf(v, k)
          /\ DueOnce(toTask[v], client[v].drawing, toWinman, v, k)'
      BY <1>4, <2>1, AnswerCounted
    <3> QED BY <1>2, <1>3, <1>4, <1>8, <3>1, <3>2 DEF Awaited
  <2> QED BY <2>2, <2>3 DEF OwedInv
<1> QED BY <1>5, <1>6, <1>7, <1>9, <1>10, PictureKeeps

(* job_general2 is called with an answer: the wait for it ends.            *)
WaitFor(sig) == IF sig = "drawn" THEN "waitredraw" ELSE "waitdisable"

LEMMA WaitEnds ==
  ASSUME IInv, NEW sig \in Kinds, Hears(sig), toWinman' = Tail(toWinman),
         job.func = "general2", NEW fl, fl = [job_flag0 EXCEPT ![Sender] = @ \ {WaitFor(sig)}]
  PROVE  /\ fl \in [Win -> SUBSET Bits] /\ WaitFor(sig) \in job_flag0[Sender] /\ Sender = job.win
         /\ \A v \in Win : /\ v # Sender => fl[v] = job_flag0[v] /\ fl[v] \cap Waits = {}
                           /\ fl[v] \subseteq job_flag0[v]
                           /\ "nowindow" \in fl[v] <=> "nowindow" \in job_flag0[v]
         /\ \A v \in Win, k \in Kinds : WaitFor(k) \in fl[v] <=> Left(v, k)
         /\ job.count = 1 => \A v \in Win, k \in Kinds :
              /\ ~ Left(v, k) /\ fl[v] \cap Waits = {}
              /\ ~ Asked(toTask[v], k) /\ AskedOnce(toTask[v], k)
              /\ ~ Draws(client[v].drawing, k) /\ ~ Waiting(toWinman', k, v)
<1> USE DEF IInv
<1>1. PICK w \in Win : w = Sender
  BY AnswerHeard
<1>2. /\ DueOf(w, sig) /\ job.now # "none" /\ job.count \in Nat
      /\ \A v \in Win, k \in Kinds :
           /\ Left(v, k) <=> DueOf(v, k) /\ ~ (v = w /\ k = sig)
           /\ DueOnce(toTask[v], client[v].drawing, toWinman', v, k)
      /\ Cardinality({ vk \in Win \X Kinds : Left(vk[1], vk[2]) }) = job.count - 1
  BY <1>1, AnswerHeard
<1>3. \A v \in Win, k \in Kinds : DueOf(v, k) <=> WaitFor(k) \in job_flag0[v]
  BY DEF OwedInv, Awaited, WaitFor
<1>4. WaitFor(sig) \in job_flag0[w] /\ WaitFor(sig) \in Waits /\ WaitFor(sig) # "nowindow"
  BY <1>2, <1>3 DEF WaitFor, Waits, Kinds
<1>5. w = job.win
  BY <1>4 DEF JobInv
<1>6. job_flag0 \in [Win -> SUBSET Bits]
  BY DEF TypeOK
<1>7. fl = [job_flag0 EXCEPT ![w] = job_flag0[w] \ {WaitFor(sig)}]
  BY <1>1
<1>8. /\ fl \in [Win -> SUBSET Bits] /\ fl[w] = job_flag0[w] \ {WaitFor(sig)}
      /\ \A v \in Win : v # w => fl[v] = job_flag0[v]
  BY <1>6, <1>7
<1>9. \A v \in Win : v # w => fl[v] \cap Waits = {}
  BY <1>5, <1>8 DEF JobInv
<1>10. ASSUME NEW v \in Win, NEW k \in Kinds
       PROVE  WaitFor(k) \in fl[v] <=> Left(v, k)
  <2>1. WaitFor(k) = WaitFor(sig) <=> k = sig
    BY DEF WaitFor, Kinds
  <2> QED BY <1>2, <1>3, <1>8, <2>1
<1>11. ASSUME job.count = 1, NEW v \in Win, NEW k \in Kinds
       PROVE  /\ ~ Left(v, k) /\ fl[v] \cap Waits = {}
              /\ ~ Asked(toTask[v], k) /\ AskedOnce(toTask[v], k)
              /\ ~ Draws(client[v].drawing, k) /\ ~ Waiting(toWinman', k, v)
  <2> DEFINE L == { vk \in Win \X Kinds : Left(vk[1], vk[2]) }
  <2>1. Cardinality(L) = 0
    BY <1>2, <1>11
  <2>2. L \subseteq Dues
    BY <1>2 DEF Dues
  <2>3. IsFiniteSet(L)
    BY <2>2, DuesAreFinite, FS_Subset
  <2>4. L = {}
    BY <2>1, <2>3, FS_EmptySet
  <2>5. \A u \in Win, m \in Kinds : ~ Left(u, m)
    <3>1. ASSUME NEW u \in Win, NEW m \in Kinds, Left(u, m) PROVE FALSE
      <4>1. <<u, m>> \in L
        BY <3>1
      <4> QED BY <2>4, <4>1
    <3> QED BY <3>1
  <2> HIDE DEF L
  <2>6. WaitFor("drawn") \notin fl[v] /\ WaitFor("stopped") \notin fl[v]
    BY <1>10, <2>5 DEF Kinds
  <2>7. fl[v] \cap Waits = {}
    BY <2>6 DEF WaitFor, Waits
  <2>8. DueOnce(toTask[v], client[v].drawing, toWinman', v, k) /\ ~ Left(v, k)
    BY <1>2, <2>5
  <2> QED BY <2>7, <2>8 DEF DueOnce, Left, Due
<1>12. \A v \in Win : /\ fl[v] \subseteq job_flag0[v]
                      /\ "nowindow" \in fl[v] <=> "nowindow" \in job_flag0[v]
  <2>1. fl[w] \subseteq job_flag0[w] /\ ("nowindow" \in fl[w] <=> "nowindow" \in job_flag0[w])
    BY <1>4, <1>8
  <2> QED BY <1>8, <2>1
<1> QED BY <1>1, <1>4, <1>5, <1>8, <1>9, <1>10, <1>11, <1>12

LEMMA General2Keeps ==
  ASSUME IInv, NEW sig \in Kinds, Hears(sig), toWinman' = Tail(toWinman), AnswerRest,
         UNCHANGED keys, job.func = "general2", General2(Sender, WaitFor(sig))
  PROVE  IInv'
<1> USE DEF IInv
<1> DEFINE fl == [job_flag0 EXCEPT ![Sender] = @ \ {WaitFor(sig)}]
           j == [job EXCEPT !.count = @ - 1]
           at == At(stack, job.win)
<1>1. /\ fl \in [Win -> SUBSET Bits] /\ WaitFor(sig) \in job_flag0[Sender] /\ Sender = job.win
      /\ \A v \in Win : /\ v # Sender => fl[v] = job_flag0[v] /\ fl[v] \cap Waits = {}
                        /\ fl[v] \subseteq job_flag0[v]
                        /\ "nowindow" \in fl[v] <=> "nowindow" \in job_flag0[v]
      /\ \A v \in Win, k \in Kinds : WaitFor(k) \in fl[v] <=> Left(v, k)
      /\ job.count = 1 => \A v \in Win, k \in Kinds :
           /\ ~ Left(v, k) /\ fl[v] \cap Waits = {}
           /\ ~ Asked(toTask[v], k) /\ AskedOnce(toTask[v], k)
           /\ ~ Draws(client[v].drawing, k) /\ ~ Waiting(toWinman', k, v)
  BY WaitEnds
<1>2. /\ UNCHANGED <<stack, place, damaged, frame>>
      /\ IF j.count # 0
         THEN job' = j /\ job_flag0' = fl /\ UNCHANGED <<condition, toTask>>
         ELSE IF job.win = Top /\ fl[Top] = {}
         THEN job' = [j EXCEPT !.now = "none"] /\ job_flag0' = fl /\ UNCHANGED <<condition, toTask>>
         ELSE RedrawFrom(IF at = 1 THEN Len(stack) ELSE at - 1, condition, fl, toTask, j)
  BY <1>1 DEF General2
<1>3. /\ Sender \in Win /\ Sender \in ToSet(stack) /\ stack # <<>> /\ job.now # "none"
      /\ job.count \in Nat /\ job.count # 0
      /\ toWinman' \in Seq(Messages)
      /\ \A v \in Win, k \in Kinds : Left(v, k) <=> DueOf(v, k) /\ ~ (v = Sender /\ k = sig)
  BY AnswerHeard
<1>4. job \in Progress /\ ~ job.ready
  BY Shape DEF JobInv
<1>5. /\ j \in Progress /\ j.count = job.count - 1
      /\ j.now = job.now /\ j.func = job.func /\ j.win = job.win /\ j.ready = job.ready
  BY <1>4 DEF Progress
<1>6. /\ toTask \in [Win -> Seq(Orders)] /\ condition \in [Win -> SUBSET Condition]
      /\ stack \in Seq(Win)
  BY DEF TypeOK
<1> HIDE DEF j, fl, at
<1>8. Top' = Top /\ wild' = FALSE
  BY <1>2 DEF Top, AnswerRest, JobInv
<1>7. TypeOK' /\ PictureOnly /\ JobInv' /\ OwedInv'
  <2>1. CASE j.count # 0
    <3>1. job' = j /\ job_flag0' = fl /\ UNCHANGED <<condition, toTask>>
      BY <1>2, <2>1
    <3>2. TypeOK'
      BY <1>1, <1>2, <1>3, <1>5, <3>1 DEF TypeOK, AnswerRest, Messages
    <3>3. PictureOnly
      <4>1. \A v \in Win : v \notin ToSet(stack) => fl[v] = job_flag0[v]
        BY <1>1, <1>3
      <4> QED BY <1>1, <1>6, <3>1, <4>1, AnswerPicture
    <3>4. JobInv'
      <4>1. fl[job.win] \subseteq Waits /\ job.win \in ToSet(stack)
        BY <1>1, <1>3 DEF JobInv
      <4>2. \A v \in Win : fl[v] \cap Waits # {} => v = job.win
        BY <1>1
      <4> QED BY <1>2, <1>3, <1>4, <1>5, <1>8, <3>1, <4>1, <4>2 DEF JobInv
    <3>5. OwedInv'
      <4>1. UNCHANGED <<stack, toTask, client>> /\ job'.count = job.count - 1
        BY <1>2, <1>5, <3>1 DEF AnswerRest
      <4>2. job'.count = Cardinality(Dues)'
        BY <4>1, AnswerCounted
      <4>3. ASSUME NEW v \in Win, NEW k \in Kinds PROVE Awaited(v, k)'
        <5>1. Awaited(v, k)
          BY DEF OwedInv
        <5>2. /\ DueOf(v, k)' <=> DueOf(v, k) /\ ~ (v = Sender /\ k = sig)
              /\ DueOnce(toTask[v], client[v].drawing, toWinman, v, k)'
          BY <4>1, AnswerCounted
        <5>3. DueOf(v, k)' <=> WaitFor(k) \in job_flag0'[v]
          BY <1>1, <1>3, <3>1, <5>2
        <5> QED BY <1>2, <1>5, <1>8, <3>1, <5>1, <5>2, <5>3 DEF Awaited, WaitFor
      <4> QED BY <4>2, <4>3 DEF OwedInv
    <3> QED BY <3>2, <3>3, <3>4, <3>5
  <2>2. CASE j.count = 0
    <3>1. job.count = 1
      BY <1>3, <1>5, <2>2
    <3>2. \A v \in Win, k \in Kinds :
            /\ ~ Left(v, k) /\ fl[v] \cap Waits = {}
            /\ ~ Asked(toTask[v], k) /\ AskedOnce(toTask[v], k)
            /\ ~ Draws(client[v].drawing, k) /\ ~ Waiting(toWinman', k, v)
      BY <1>1, <3>1
    <3>3. client' = client
      BY DEF AnswerRest
    <3>4. CASE job.win = Top /\ fl[Top] = {}
      <4>1. job' = [j EXCEPT !.now = "none"] /\ job_flag0' = fl /\ UNCHANGED <<condition, toTask>>
        BY <1>2, <2>2, <3>4
      <4>2. /\ job' \in Progress /\ job'.now = "none" /\ job'.count = 0 /\ ~ job'.ready
            /\ job'.func = "general2"
        BY <1>4, <1>5, <2>2, <4>1 DEF Progress
      <4>3. TypeOK'
        BY <1>1, <1>2, <1>3, <4>1, <4>2 DEF TypeOK, AnswerRest, Messages
      <4>4. PictureOnly
        <5>1. \A v \in Win : v \notin ToSet(stack) => fl[v] = job_flag0[v]
          BY <1>1, <1>3
        <5> QED BY <1>1, <1>6, <4>1, <5>1, AnswerPicture
      <4>5. \A v \in Win : job_flag0'[v] \cap Waits = {}
        BY <3>2, <4>1 DEF Kinds
      <4>6. JobInv'
        BY <1>8, <4>2, <4>5 DEF JobInv
      <4>7. \A v \in Win, k \in Kinds :
              /\ ~ DueOf(v, k)'
              /\ DueOnce(toTask[v], client[v].drawing, toWinman, v, k)'
        <5>1. \A v \in Win, k \in Kinds : DueOf(v, k)' <=> Left(v, k)
          BY <3>3, <4>1 DEF DueOf, Left
        <5>2. \A v \in Win, k \in Kinds : DueOnce(toTask[v], client[v].drawing, toWinman', v, k)
          BY AnswerHeard
        <5> QED BY <3>2, <3>3, <4>1, <5>1, <5>2
      <4>8. Cardinality(Dues)' = 0
        <5>1. Dues' = {}
          BY <4>7 DEF Dues
        <5> QED BY <5>1, FS_EmptySet
      <4>9. OwedInv'
        <5>1. ASSUME NEW v \in Win, NEW k \in Kinds PROVE Awaited(v, k)'
          BY <4>2, <4>5, <4>7 DEF Awaited, Waits
        <5> QED BY <4>2, <4>8, <5>1 DEF OwedInv
      <4> QED BY <4>3, <4>4, <4>6, <4>9
    <3>5. CASE ~ (job.win = Top /\ fl[Top] = {})
      <4> DEFINE from == IF at = 1 THEN Len(stack) ELSE at - 1
      <4>1. RedrawFrom(from, condition, fl, toTask, j)
        BY <1>2, <2>2, <3>5
      <4>2. from \in 0 .. Len(stack')
        <5>1. at \in 1 .. Len(stack)
          BY <1>1, <1>3, <1>6, PlaceOf DEF at
        <5> QED BY <1>2, <1>6, <5>1
      <4> HIDE DEF from
      <4>3. Redraws(fl, toTask, j)
        <5>1. j.func = "general2"
          BY <1>5
        <5>2. \A v \in Win : /\ fl[v] \cap Waits = {}
                             /\ \A k \in Kinds : ~ Asked(toTask[v], k) /\ AskedOnce(toTask[v], k)
          BY <3>2 DEF Kinds
        <5>3. stack' \in Seq(Win)
          BY <1>2, <1>6
        <5> QED BY <1>1, <1>5, <1>6, <2>2, <4>1, <4>2, <5>1, <5>2, <5>3, RedrawFromRedraws
      <4>4. JobInv' /\ OwedInv'
        BY <1>2, <1>3, <1>4, <1>5, <1>6, <1>8, <3>2, <3>3, <4>3, RedrawsOwe
      <4>5. TypeOK'
        BY <1>2, <1>3, <4>3 DEF TypeOK, AnswerRest, Messages, Redraws
      <4>6. PictureOnly
        <5>1. toTask' \in [Win -> Seq(Orders)]
          BY <4>3 DEF Redraws
        <5>2. ASSUME NEW v \in Win
              PROVE  /\ Told(toTask'[v], "close") <=> Told(toTask[v], "close")
                     /\ Told(toTask'[v], "closed") <=> Told(toTask[v], "closed")
                     /\ ToldOnce(toTask[v]) => ToldOnce(toTask'[v])
                     /\ "nowindow" \in job_flag0'[v] => "nowindow" \in job_flag0[v]
                     /\ v \notin ToSet(stack) => toTask'[v] = toTask[v] /\ job_flag0'[v] = job_flag0[v]
          BY <1>1, <1>2, <1>3, <4>3 DEF Redraws
        <5> QED BY <5>1, <5>2, AnswerPicture
      <4> QED BY <4>4, <4>5, <4>6
    <3> QED BY <3>4, <3>5
  <2> QED BY <2>1, <2>2
<1>9. KeysInv'
  BY <1>7, AnswerKeys DEF PictureOnly
<1> QED BY <1>7, <1>9, PictureKeeps

LEMMA HearAnswerKeeps ==
  ASSUME IInv, NEW sig \in Kinds, HearAnswer(sig, WaitFor(sig)), UNCHANGED client
  PROVE  IInv'
<1> USE DEF IInv
<1>1. Hears(sig)
  BY DEF HearAnswer
<1>2. ~ Contains(unuse, Sender) /\ job.now # "none" /\ DueOf(Sender, sig) /\ Sender \in Win
  BY <1>1, AnswerIsDue
<1>3. job.func # "none" /\ (job.func = "movewin1" => sig = "stopped")
  BY <1>2 DEF JobInv, OwedInv, Awaited
<1>4. /\ \/ job.func = "movewin1" /\ FrameAppears
         \/ job.func = "movewin6" /\ FrameReturns
         \/ job.func = "general2" /\ General2(Sender, WaitFor(sig)) /\ UNCHANGED keys
      /\ toWinman' = Tail(toWinman)
      /\ UNCHANGED <<unuse, closing, iactive, pokon0, list, press, wild>>
  BY <1>2, <1>3 DEF HearAnswer, Kinds
<1>5. AnswerRest
  BY <1>4 DEF AnswerRest, FrameAppears, FrameReturns, General2
<1> QED BY <1>1, <1>4, <1>5, FrameAppearsKeeps, FrameReturnsKeeps, General2Keeps

-----------------------------------------------------------------------------
(* What the jobs do: one begins when none is in progress, so nothing is    *)
(* due then and no key waits.                                              *)
LEMMA JobStarts ==
  ASSUME IInv, NEW cmd, Starts(cmd)
  PROVE  /\ list # <<>> /\ Head(list).win \in Win /\ InJobs(list, cmd, Head(list).win)
         /\ job.now = "none" /\ job.count = 0 /\ ~ job.ready /\ job.func \in {"none", "general2"}
         /\ \A v \in Win, k \in Kinds :
              /\ ~ Asked(toTask[v], k) /\ AskedOnce(toTask[v], k)
              /\ ~ Draws(client[v].drawing, k) /\ ~ Waiting(toWinman, k, v)
         /\ \A v \in Win : job_flag0[v] \cap Waits = {}
         /\ \A k \in FunctionKeys \cup MoveKeys : ~ Waiting(toWinman, k, None)
<1> USE DEF IInv
<1>1. list # <<>> /\ job.now = "none" /\ Head(list).cmd = cmd
  BY DEF Starts, JobsFirst
<1>2. job.count = 0 /\ ~ job.ready /\ job.func \in {"none", "general2"}
  BY <1>1 DEF JobInv
<1>3. Head(list).win \in Win /\ InJobs(list, cmd, Head(list).win)
  <2>1. list \in Seq(Jobs) /\ ListOK(list)
    BY Shape DEF JobsInv
  <2> DEFINE h == Head(list)
  <2>2. h.win \in Win /\ InJobs(list, h.cmd, h.win)
    BY <1>1, <2>1, ListRun
  <2> QED BY <1>1, <2>2
<1>4. \A v \in Win, k \in Kinds :
        /\ ~ Asked(toTask[v], k) /\ AskedOnce(toTask[v], k)
        /\ ~ Draws(client[v].drawing, k) /\ ~ Waiting(toWinman, k, v)
  BY <1>2, NothingDue
<1>5. \A v \in Win : job_flag0[v] \cap Waits = {}
  BY <1>1 DEF JobInv
<1>6. \A k \in FunctionKeys \cup MoveKeys : ~ Waiting(toWinman, k, None)
  BY <1>1, <1>2 DEF KeysInv
<1> QED BY <1>1, <1>2, <1>3, <1>4, <1>5, <1>6

LEMMA JobTaken ==
  ASSUME IInv, NEW cmd, Starts(cmd), NEW w, w = Head(list).win, list' = Tail(list)
  PROVE  /\ list' \in Seq(Jobs) /\ ListOK(list')
         /\ \A c, v : InJobs(list, c, v) <=> InJobs(list', c, v) \/ (c = cmd /\ v = w)
         /\ ~ InJobs(list', cmd, w)
         /\ cmd = "close" => ~ InJobs(list', "open", w)
         /\ \A v : ~ InJobs(list', "activate", v) /\ ~ InJobs(list', "move", v)
<1> DEFINE h == Head(list)
<1>1. list \in Seq(Jobs) /\ ListOK(list) /\ list # <<>> /\ h.cmd = cmd /\ w = h.win
  BY Shape DEF IInv, JobsInv, Starts, JobsFirst
<1>2. /\ list' \in Seq(Jobs) /\ ListOK(list')
      /\ \A c, v : InJobs(list, c, v) <=> InJobs(list', c, v) \/ (c = h.cmd /\ v = h.win)
      /\ ~ InJobs(list', h.cmd, h.win)
      /\ h.cmd = "close" => ~ InJobs(list', "open", h.win)
      /\ \A v : ~ InJobs(list', "activate", v) /\ ~ InJobs(list', "move", v)
  BY <1>1, ListRun
<1> HIDE DEF h
<1> QED BY <1>1, <1>2

(* A job that is over at once awaits nothing.                              *)
LEMMA NothingOwed ==
  ASSUME IInv, NEW cmd, Starts(cmd), UNCHANGED <<job, wild, client, toWinman>>,
         \A v \in Win : /\ job_flag0'[v] \cap Waits = {}
                        /\ \A k \in Kinds : ~ Asked(toTask'[v], k) /\ AskedOnce(toTask'[v], k)
  PROVE  JobInv' /\ OwedInv'
<1>1. /\ job.now = "none" /\ job.count = 0 /\ ~ job.ready /\ job.func \in {"none", "general2"}
      /\ \A v \in Win, k \in Kinds : ~ Draws(client[v].drawing, k) /\ ~ Waiting(toWinman, k, v)
  BY JobStarts
<1>2. JobInv'
  BY <1>1 DEF JobInv, IInv
<1>3. \A v \in Win, k \in Kinds : ~ DueOf(v, k)'
  BY <1>1 DEF DueOf, Due
<1>4. Cardinality(Dues)' = 0
  <2>1. Dues' = {}
    BY <1>3 DEF Dues
  <2> QED BY <2>1, FS_EmptySet
<1>5. ASSUME NEW v \in Win, NEW k \in Kinds PROVE Awaited(v, k)'
  <2>1. OneOf(toWinman', {Msg(k, v)})
    BY <1>1 DEF Waiting, Has, OneOf
  <2>2. DueOnce(toTask'[v], client'[v].drawing, toWinman', v, k)
    BY <1>1, <2>1 DEF DueOnce
  <2>3. (IF k = "drawn" THEN "waitredraw" ELSE "waitdisable") \notin job_flag0'[v]
    BY DEF Waits
  <2> QED BY <1>1, <1>3, <2>2, <2>3 DEF Awaited
<1> QED BY <1>1, <1>2, <1>4, <1>5 DEF OwedInv

(* The window that is to be opened does not fit on the screen.             *)
LEMMA TooLargeKeeps ==
  ASSUME IInv, Starts("open"), NEW w \in Win, w = Head(list).win, TooLarge(w), list' = Tail(list),
         UNCHANGED <<unuse, closing, press, wild, toWinman, frame, client>>
  PROVE  IInv'
<1> USE DEF IInv
<1>1. /\ stack # <<>>
      /\ condition' = [condition EXCEPT ![w] = {}]
      /\ job_flag0' = [job_flag0 EXCEPT ![w] = {"nowindow"}]
      /\ toTask' = [toTask EXCEPT ![w] = Append(toTask[w], Order("close"))]
      /\ UNCHANGED <<stack, place, pokon0, iactive, keys, damaged, job>>
  BY DEF TooLarge
<1>2. /\ Opening(w)
      /\ \A v \in Win, k \in Kinds : ~ Asked(toTask[v], k) /\ AskedOnce(toTask[v], k)
      /\ \A v \in Win : job_flag0[v] \cap Waits = {}
      /\ \A k \in FunctionKeys \cup MoveKeys : ~ Waiting(toWinman, k, None)
  BY JobStarts DEF Opening
<1>3. /\ list' \in Seq(Jobs) /\ ListOK(list')
      /\ \A c, v : InJobs(list, c, v) <=> InJobs(list', c, v) \/ (c = "open" /\ v = w)
      /\ ~ InJobs(list', "open", w)
      /\ \A v : ~ InJobs(list', "activate", v) /\ ~ InJobs(list', "move", v)
  BY JobTaken
<1>4. /\ w \notin ToSet(stack) /\ w \notin ToSet(unuse) /\ ~ Hidden(w)
      /\ Phase(w) \notin {"none", "ending"} /\ toTask[w] = <<>>
  BY <1>2 DEF SlotsInv, LifeInv, Life
<1>5. /\ toTask \in [Win -> Seq(Orders)] /\ job_flag0 \in [Win -> SUBSET Bits]
      /\ condition \in [Win -> SUBSET Condition]
  BY DEF TypeOK
<1>6. /\ toTask' \in [Win -> Seq(Orders)]
      /\ \A v \in Win : v # w => toTask'[v] = toTask[v]
      /\ \A s : Told(toTask'[w], s) <=> s = "close"
      /\ \A k \in Kinds : ~ Asked(toTask'[w], k) /\ AskedOnce(toTask'[w], k)
      /\ Orderly(toTask'[w])
  <2> DEFINE q == toTask[w]
             o == Order("close")
             t == Append(q, o)
  <2>1. q \in Seq(Orders) /\ o \in Orders /\ o.sig = "close"
    BY <1>5 DEF Order, Orders
  <2>2. toTask' = [toTask EXCEPT ![w] = t]
    BY <1>1
  <2>3. q = <<>>
    BY <1>4
  <2> HIDE DEF q, o
  <2>4. /\ t \in Seq(Orders)
        /\ \A s : Told(t, s) <=> Told(q, s) \/ s = o.sig
        /\ \A k : Asked(t, k) <=> Asked(q, k) \/ o.sig \in Asking(k)
        /\ \A k : AskedOnce(t, k) <=> AskedOnce(q, k) /\ ~ (o.sig \in Asking(k) /\ Asked(q, k))
        /\ ToldOnce(t) <=> ToldOnce(q) /\ ~ (o.sig = "close" /\ Told(q, "close"))
        /\ Orderly(t) <=> ToldOnce(t) /\ ~ Told(q, "closed")
    BY <2>1, MailAdd
  <2> HIDE DEF t
  <2>5. toTask'[w] = t
    BY <1>5, <2>2
  <2>6. \A k : o.sig \notin Asking(k)
    BY <2>1 DEF Asking
  <2>7. /\ ToldOnce(q) /\ \A s : ~ Told(q, s)
        /\ \A k : ~ Asked(q, k) /\ AskedOnce(q, k)
    BY <2>3, MailEmpty
  <2> QED BY <1>5, <2>1, <2>2, <2>4, <2>5, <2>6, <2>7
<1>7. /\ job_flag0' \in [Win -> SUBSET Bits] /\ job_flag0'[w] = {"nowindow"}
      /\ \A v \in Win : v # w => job_flag0'[v] = job_flag0[v]
      /\ condition' \in [Win -> SUBSET Condition]
  BY <1>1, <1>5 DEF Bits
<1>8. TypeOK'
  BY <1>1, <1>3, <1>6, <1>7 DEF TypeOK
<1>9. JobInv' /\ OwedInv'
  <2>1. \A v \in Win : /\ job_flag0'[v] \cap Waits = {}
                       /\ \A k \in Kinds : ~ Asked(toTask'[v], k) /\ AskedOnce(toTask'[v], k)
    <3>1. job_flag0'[w] \cap Waits = {}
      BY <1>7 DEF Waits
    <3> QED BY <1>2, <1>6, <1>7, <3>1
  <2> QED BY <1>1, <2>1, NothingOwed
<1>10. SlotsInv'
  <2>1. \A v \in Win : /\ Opening(v)' <=> Opening(v) /\ v # w
                       /\ Hidden(v)' <=> Hidden(v) \/ v = w
    BY <1>3, <1>7 DEF Opening, Hidden
  <2> QED BY <1>1, <1>4, <2>1 DEF SlotsInv
<1>11. LifeInv'
  <2>1. ASSUME NEW v \in Win PROVE Life(v)'
    <3>1. Life(v) /\ Phase(v)' = Phase(v)
      BY DEF LifeInv, Phase
    <3>2. /\ InJobs(list', "close", v) <=> InJobs(list, "close", v)
          /\ Opening(v)' <=> Opening(v) /\ v # w
      BY <1>3 DEF Opening
    <3>3. CASE v = w
      BY <1>1, <1>4, <1>6, <1>7, <3>1, <3>2, <3>3 DEF Life, Hidden
    <3>4. CASE v # w
      <4>1. toTask'[v] = toTask[v] /\ Hidden(v)' = Hidden(v)
        BY <1>6, <1>7, <3>4 DEF Hidden
      <4> QED BY <1>1, <3>1, <3>2, <3>4, <4>1 DEF Life
    <3> QED BY <3>3, <3>4
  <2> QED BY <2>1 DEF LifeInv
<1>12. AskInv'
  <2>1. \A v \in Win : Waiting(toWinman, "open", v) => v # w
    BY <1>4, Shape, RingRest DEF AskInv
  <2>2. \A v \in Win : Phase(v)' = Phase(v)
    BY <1>1 DEF Phase
  <2> QED BY <1>1, <1>3, <1>6, <2>1, <2>2 DEF AskInv
<1>13. JobsInv'
  BY <1>1, <1>3 DEF JobsInv
<1>14. KeysInv'
  BY <1>1, <1>2 DEF KeysInv, FunctionKeys
<1>15. ShellInv'
  <2>1. \A v \in Win : Phase(v)' = Phase(v) /\ Top' = Top
    BY <1>1 DEF Phase, Top
  <2>2. pokon0 \in Win /\ pokon0 # w
    BY <1>1, <1>4, Shape DEF ShellInv
  <2> QED BY <1>1, <1>6, <2>1, <2>2 DEF ShellInv
<1> QED BY <1>8, <1>9, <1>10, <1>11, <1>12, <1>13, <1>14, <1>15

(* The window is opened on top of the others and is drawn.                 *)
LEMMA OpenWindowKeeps ==
  ASSUME IInv, Starts("open"), NEW w \in Win, w = Head(list).win, NEW p \in Place,
         OpenWindow(w, p), list' = Tail(list),
         UNCHANGED <<unuse, closing, press, wild, toWinman, frame, client>>
  PROVE  IInv'
<1> USE DEF IInv
<1> DEFINE cd == [condition EXCEPT ![w] = Condition]
           fl == [job_flag0 EXCEPT ![w] = {"must", "override"}]
           box == [toTask EXCEPT ![w] = Append(@, Mode(Condition))]
           j == [job EXCEPT !.now = "open"]
<1>1. /\ stack' = <<w>> \o stack
      /\ place' = [place EXCEPT ![w] = p]
      /\ pokon0' = IF stack = <<>> THEN w ELSE pokon0
      /\ iactive' = w /\ keys' = FunctionKeys
      /\ damaged' = damaged \cup {w}
      /\ General1(cd, fl, box, j)
  BY DEF OpenWindow, RedirectInput
<1>2. /\ Opening(w) /\ job.now = "none" /\ ~ job.ready
      /\ \A v \in Win, k \in Kinds :
           /\ ~ Asked(toTask[v], k) /\ AskedOnce(toTask[v], k)
           /\ ~ Draws(client[v].drawing, k) /\ ~ Waiting(toWinman, k, v)
      /\ \A v \in Win : job_flag0[v] \cap Waits = {}
      /\ \A k \in FunctionKeys \cup MoveKeys : ~ Waiting(toWinman, k, None)
  BY JobStarts DEF Opening
<1>3. /\ list' \in Seq(Jobs) /\ ListOK(list')
      /\ \A c, v : InJobs(list, c, v) <=> InJobs(list', c, v) \/ (c = "open" /\ v = w)
      /\ ~ InJobs(list', "open", w)
      /\ \A v : ~ InJobs(list', "activate", v) /\ ~ InJobs(list', "move", v)
  BY JobTaken
<1>4. /\ w \notin ToSet(stack) /\ w \notin ToSet(unuse) /\ ~ Hidden(w)
      /\ Phase(w) \notin {"none", "ending"} /\ toTask[w] = <<>> /\ ~ Told(toTask[w], "closed")
  BY <1>2 DEF SlotsInv, LifeInv, Life
<1>5. /\ toTask \in [Win -> Seq(Orders)] /\ job_flag0 \in [Win -> SUBSET Bits]
      /\ condition \in [Win -> SUBSET Condition] /\ job \in Progress
      /\ stack \in Seq(Win) /\ IsInjective(stack)
  BY DEF TypeOK, SlotsInv
<1>6. /\ stack' \in Seq(Win) /\ stack' # <<>> /\ Head(stack') = w
      /\ ToSet(stack') = ToSet(stack) \cup {w} /\ IsInjective(stack')
  BY <1>1, <1>4, <1>5, RingPush
<1>7. /\ box \in [Win -> Seq(Orders)]
      /\ \A v \in Win : v # w => box[v] = toTask[v]
      /\ \A v \in Win, k \in Kinds : ~ Asked(box[v], k) /\ AskedOnce(box[v], k)
      /\ ToldOnce(box[w]) /\ \A s \in {"close", "closed"} : ~ Told(box[w], s)
  <2> DEFINE q == toTask[w]
             o == Mode(Condition)
             t == Append(q, o)
  <2>1. q \in Seq(Orders) /\ o \in Orders /\ o.sig = "mode"
    BY <1>5 DEF Mode, Orders
  <2>2. box = [toTask EXCEPT ![w] = t]
    OBVIOUS
  <2>3. q = <<>>
    BY <1>4
  <2> HIDE DEF q, o, box
  <2>4. /\ t \in Seq(Orders)
        /\ \A s : Told(t, s) <=> Told(q, s) \/ s = o.sig
        /\ \A k : Asked(t, k) <=> Asked(q, k) \/ o.sig \in Asking(k)
        /\ \A k : AskedOnce(t, k) <=> AskedOnce(q, k) /\ ~ (o.sig \in Asking(k) /\ Asked(q, k))
        /\ ToldOnce(t) <=> ToldOnce(q) /\ ~ (o.sig = "close" /\ Told(q, "close"))
    BY <2>1, MailAdd
  <2> HIDE DEF t
  <2>5. box[w] = t /\ box \in [Win -> Seq(Orders)] /\ \A v \in Win : v # w => box[v] = toTask[v]
    BY <1>5, <2>2, <2>4
  <2>6. \A k : o.sig \notin Asking(k)
    BY <2>1 DEF Asking
  <2>7. /\ ToldOnce(q) /\ \A s : ~ Told(q, s)
        /\ \A k : ~ Asked(q, k) /\ AskedOnce(q, k)
    BY <2>3, MailEmpty
  <2> QED BY <1>2, <2>1, <2>4, <2>5, <2>6, <2>7
<1>8. /\ fl \in [Win -> SUBSET Bits] /\ "nowindow" \notin fl[w]
      /\ \A v \in Win : v # w => fl[v] = job_flag0[v]
      /\ \A v \in Win : fl[v] \cap Waits = {}
  <2>1. {"must", "override"} \in SUBSET Bits /\ {"must", "override"} \cap Waits = {}
    BY DEF Bits, Waits
  <2> QED BY <1>2, <1>5, <2>1
<1>9. cd \in [Win -> SUBSET Condition] /\ place' \in [Win -> Place]
  BY <1>1, <1>5 DEF TypeOK
<1>10. j \in Progress /\ j.now # "none" /\ ~ j.ready
  BY <1>2, <1>5 DEF Progress
<1> HIDE DEF cd, fl, box, j
<1>11. Redraws(fl, box, j)
  <2>1. \A v \in Win : /\ fl[v] \cap Waits = {}
                       /\ \A k \in Kinds : ~ Asked(box[v], k) /\ AskedOnce(box[v], k)
    BY <1>7, <1>8
  <2> QED BY <1>1, <1>6, <1>7, <1>8, <1>9, <1>10, <2>1, General1Redraws
<1>12. JobInv' /\ OwedInv'
  <2>1. wild' = FALSE
    BY DEF JobInv
  <2> QED BY <1>2, <1>6, <1>10, <1>11, <2>1, RedrawsOwe
<1>13. TypeOK'
  <2>1. /\ condition' \in [Win -> SUBSET Condition] /\ job_flag0' \in [Win -> SUBSET Bits]
        /\ toTask' \in [Win -> Seq(Orders)] /\ job' \in Progress
    BY <1>11 DEF Redraws
  <2> QED BY <1>1, <1>3, <1>6, <1>9, <2>1 DEF TypeOK
<1>14. ASSUME NEW v \in Win
       PROVE  /\ Told(toTask'[v], "close") <=> Told(box[v], "close")
              /\ Told(toTask'[v], "closed") <=> Told(box[v], "closed")
              /\ ToldOnce(box[v]) => ToldOnce(toTask'[v])
              /\ v \notin ToSet(stack') => toTask'[v] = toTask[v] /\ job_flag0'[v] = job_flag0[v]
              /\ "nowindow" \in job_flag0'[v] => "nowindow" \in job_flag0[v] /\ v # w
  BY <1>6, <1>7, <1>8, <1>11 DEF Redraws
<1>15. ASSUME NEW v \in Win
       PROVE  /\ Opening(v)' <=> Opening(v) /\ v # w
              /\ Hidden(v)' <=> Hidden(v)
              /\ InJobs(list', "close", v) <=> InJobs(list, "close", v)
              /\ Phase(v)' = Phase(v)
  <2>1. Hidden(v) => v \notin ToSet(stack')
    BY <1>4, <1>6 DEF SlotsInv
  <2> QED BY <1>3, <1>14, <2>1 DEF Opening, Hidden, Phase
<1>16. SlotsInv'
  BY <1>4, <1>6, <1>15 DEF SlotsInv
<1>17. LifeInv'
  <2>1. ASSUME NEW v \in Win PROVE Life(v)'
    <3>1. Life(v)
      BY DEF LifeInv
    <3>2. CASE v = w
      <4>1. ~ Told(toTask'[v], "closed")
        BY <1>7, <1>14, <3>2
      <4>2. Orderly(toTask'[v])
        BY <1>7, <1>14, <3>2, <4>1, MailLast
      <4> QED BY <1>4, <1>6, <1>15, <3>1, <3>2, <4>1, <4>2 DEF Life
    <3>3. CASE v # w
      <4>1. /\ Told(toTask'[v], "closed") <=> Told(toTask[v], "closed")
            /\ Told(toTask'[v], "close") <=> Told(toTask[v], "close")
            /\ ToldOnce(toTask[v]) => ToldOnce(toTask'[v])
            /\ v \in ToSet(stack') <=> v \in ToSet(stack)
            /\ v \notin ToSet(stack) => toTask'[v] = toTask[v]
        BY <1>6, <1>7, <1>14, <3>3
      <4>2. Orderly(toTask'[v])
        <5>1. CASE v \in ToSet(stack)
          BY <3>1, <4>1, <5>1, MailLast DEF Life
        <5>2. CASE v \notin ToSet(stack)
          BY <3>1, <4>1, <5>2 DEF Life
        <5> QED BY <5>1, <5>2
      <4>3. (Opening(v) => v \notin ToSet(stack)) /\ (Phase(v) = "none" => v \notin ToSet(stack))
        BY <3>1 DEF SlotsInv, Life
      <4> QED BY <1>15, <3>1, <3>3, <4>1, <4>2, <4>3 DEF Life
    <3> QED BY <3>2, <3>3
  <2> QED BY <2>1 DEF LifeInv
<1>18. AskInv'
  <2>1. ASSUME NEW v \in Win, Waiting(toWinman, "open", v) PROVE toTask'[v] = <<>>
    <3>1. unuse # <<>> /\ v = Head(unuse) /\ toTask[v] = <<>>
      BY <2>1 DEF AskInv
    <3>2. v \in ToSet(unuse)
      BY <3>1, Shape, RingRest
    <3>3. v \notin ToSet(stack')
      BY <1>4, <1>6, <3>2 DEF SlotsInv
    <3> QED BY <1>14, <3>1, <3>3
  <2>2. ASSUME NEW v \in Win, Waiting(toWinman, "close", v) PROVE v # pokon0'
    <3>1. Phase(v) \in {"ending", "closing"}
      <4>1. Phase(v) \in {"none", "open", "ending", "closing"}
        BY Shape DEF Phase, Clients
      <4> QED BY <2>2, <4>1 DEF LifeInv, Life
    <3>2. stack # <<>>
      BY <3>1 DEF ShellInv
    <3> QED BY <1>1, <2>2, <3>2 DEF AskInv
  <2> QED BY <1>15, <2>1, <2>2 DEF AskInv
<1>19. JobsInv'
  BY <1>3, <1>15 DEF JobsInv
<1>20. KeysInv'
  BY <1>2, <1>6 DEF KeysInv, FunctionKeys
<1>21. ShellInv'
  <2>1. Top' = w
    BY <1>6 DEF Top
  <2>2. pokon0' \in ToSet(stack') /\ Phase(pokon0)' = "open"
    <3>1. CASE stack = <<>>
      <4>1. Phase(w) \in {"none", "open", "ending", "closing"}
        BY Shape DEF Phase, Clients
      <4>2. Phase(w) = "open"
        BY <1>4, <3>1, <4>1 DEF ShellInv
      <4> QED BY <1>1, <1>6, <1>15, <3>1, <4>2
    <3>2. CASE stack # <<>>
      <4>1. pokon0 \in Win /\ Phase(pokon0) = "open" /\ pokon0 \in ToSet(stack)
        BY <3>2, Shape DEF ShellInv
      <4> QED BY <1>1, <1>6, <1>15, <3>2, <4>1
    <3> QED BY <3>1, <3>2
  <2>3. ASSUME NEW v \in Win, Told(toTask'[v], "close") PROVE v # pokon0'
    <3>1. v # w /\ Told(toTask[v], "close")
      BY <1>7, <1>14, <2>3
    <3> QED BY <1>1, <3>1 DEF ShellInv
  <2> QED BY <1>1, <1>6, <2>1, <2>2, <2>3 DEF ShellInv
<1> QED BY <1>12, <1>13, <1>16, <1>17, <1>18, <1>19, <1>20, <1>21

LEMMA RunOpenKeeps ==
  ASSUME IInv, RunOpen, UNCHANGED client
  PROVE  IInv'
<1>1. Starts("open") /\ list' = Tail(list) /\ UNCHANGED <<unuse, closing, press, wild, toWinman, frame>>
  BY DEF RunOpen
<1>2. PICK w \in Win : w = Head(list).win
  BY <1>1, JobStarts
<1>3. TooLarge(w) \/ \E p \in IF stack = <<>> THEN {Home} ELSE Place : OpenWindow(w, p)
  BY <1>2 DEF RunOpen
<1>4. TooLarge(w) \/ \E p \in Place : OpenWindow(w, p)
  BY <1>3, HomeAssumption
<1>5. CASE TooLarge(w)
  BY <1>1, <1>2, <1>5, TooLargeKeeps
<1>6. CASE \E p \in Place : OpenWindow(w, p)
  BY <1>1, <1>2, <1>6, OpenWindowKeeps
<1> QED BY <1>4, <1>5, <1>6

(* A window comes to the top and is drawn.                                 *)
LEMMA ActivateWindowKeeps ==
  ASSUME IInv, Starts("activate"), NEW w \in ToSet(stack), ActivateWindow(w), list' = Tail(list),
         w = Head(list).win, UNCHANGED <<unuse, closing, pokon0, press, wild, toWinman, frame, client>>
  PROVE  IInv'
<1> USE DEF IInv
<1> DEFINE s == RemoveAt(stack, At(stack, w))
           j == [job EXCEPT !.now = "activate"]
<1>1. /\ stack' = <<w>> \o s /\ iactive' = w /\ keys' = FunctionKeys
      /\ damaged' = damaged \cup (IF Hiding(stack, place, w) = {} THEN {} ELSE {w})
      /\ UNCHANGED place
      /\ General1(condition, job_flag0, toTask, j)
  BY DEF ActivateWindow, RedirectInput
<1>2. /\ job.now = "none" /\ ~ job.ready
      /\ \A v \in Win, k \in Kinds :
           /\ ~ Asked(toTask[v], k) /\ AskedOnce(toTask[v], k)
           /\ ~ Draws(client[v].drawing, k) /\ ~ Waiting(toWinman, k, v)
      /\ \A v \in Win : job_flag0[v] \cap Waits = {}
      /\ \A k \in FunctionKeys \cup MoveKeys : ~ Waiting(toWinman, k, None)
  BY JobStarts
<1>3. /\ list' \in Seq(Jobs) /\ ListOK(list')
      /\ \A c, v : InJobs(list, c, v) <=> InJobs(list', c, v) \/ (c = "activate" /\ v = w)
      /\ \A v : ~ InJobs(list', "activate", v) /\ ~ InJobs(list', "move", v)
  BY JobTaken
<1>4. /\ toTask \in [Win -> Seq(Orders)] /\ job_flag0 \in [Win -> SUBSET Bits]
      /\ condition \in [Win -> SUBSET Condition] /\ job \in Progress
      /\ stack \in Seq(Win) /\ IsInjective(stack) /\ w \in Win
  BY Shape DEF TypeOK, SlotsInv
<1>5. s \in Seq(Win) /\ IsInjective(s) /\ ToSet(s) = ToSet(stack) \ {w}
  BY <1>4, RingWithout
<1> HIDE DEF s
<1>6. /\ stack' \in Seq(Win) /\ stack' # <<>> /\ Head(stack') = w
      /\ ToSet(stack') = ToSet(stack) /\ IsInjective(stack')
  <2>1. /\ stack' \in Seq(Win) /\ stack' # <<>> /\ Head(stack') = w
        /\ ToSet(stack') = ToSet(s) \cup {w} /\ IsInjective(stack')
    BY <1>1, <1>4, <1>5, RingPush
  <2> QED BY <1>5, <2>1
<1>7. j \in Progress /\ j.now # "none" /\ ~ j.ready
  BY <1>2, <1>4 DEF Progress
<1> HIDE DEF j
<1>8. Redraws(job_flag0, toTask, j)
  <2>1. \A v \in Win : /\ job_flag0[v] \cap Waits = {}
                       /\ \A k \in Kinds : ~ Asked(toTask[v], k) /\ AskedOnce(toTask[v], k)
    BY <1>2
  <2> QED BY <1>1, <1>4, <1>6, <1>7, <2>1, General1Redraws
<1>9. JobInv' /\ OwedInv'
  <2>1. wild' = FALSE
    BY DEF JobInv
  <2> QED BY <1>2, <1>6, <1>7, <1>8, <2>1, RedrawsOwe
<1>10. TypeOK'
  <2>1. /\ condition' \in [Win -> SUBSET Condition] /\ job_flag0' \in [Win -> SUBSET Bits]
        /\ toTask' \in [Win -> Seq(Orders)] /\ job' \in Progress
    BY <1>8 DEF Redraws
  <2>2. damaged' \subseteq Win
    BY <1>1, <1>4 DEF TypeOK
  <2> QED BY <1>1, <1>3, <1>4, <1>6, <2>1, <2>2 DEF TypeOK
<1>11. PictureOnly
  <2>1. stack # <<>> /\ iactive' = Top' /\ toTask' \in [Win -> Seq(Orders)]
    BY <1>1, <1>4, <1>6, <1>8, MembersOf DEF Top, Redraws
  <2>2. ASSUME NEW v \in Win
        PROVE  /\ Told(toTask'[v], "close") <=> Told(toTask[v], "close")
               /\ Told(toTask'[v], "closed") <=> Told(toTask[v], "closed")
               /\ ToldOnce(toTask[v]) => ToldOnce(toTask'[v])
               /\ "nowindow" \in job_flag0'[v] => "nowindow" \in job_flag0[v]
               /\ v \notin ToSet(stack) => toTask'[v] = toTask[v] /\ job_flag0'[v] = job_flag0[v]
    BY <1>6, <1>8 DEF Redraws
  <2>3. toWinman' \in Seq(Messages) /\ BoxOK(toWinman')
    BY Shape DEF AskInv
  <2> QED BY <1>3, <1>6, <2>1, <2>2, <2>3 DEF PictureOnly
<1>12. KeysInv'
  BY <1>2, <1>6 DEF KeysInv, FunctionKeys
<1> QED BY <1>9, <1>10, <1>11, <1>12, PictureKeeps

LEMMA RunActivateKeeps ==
  ASSUME IInv, RunActivate, UNCHANGED client
  PROVE  IInv'
<1> USE DEF IInv
<1>1. Starts("activate")
  BY DEF RunActivate
<1>2. PICK w \in Win : w = Head(list).win /\ InJobs(list, "activate", w)
  BY <1>1, JobStarts
<1>3. w \in ToSet(stack) /\ Open = ToSet(stack) /\ stack # <<>>
  <2>1. w \in ToSet(stack)
    BY <1>2 DEF JobsInv
  <2> QED BY <2>1, Shape, MembersOf
<1>4. /\ list' = Tail(list)
      /\ UNCHANGED <<unuse, closing, pokon0, press, wild, toWinman, frame>>
      /\ IF w = Top
         THEN UNCHANGED <<stack, place, iactive, keys, damaged, job, job_flag0, condition, toTask>>
         ELSE ActivateWindow(w)
  BY <1>2, <1>3 DEF RunActivate
<1>5. CASE w # Top
  BY <1>1, <1>2, <1>3, <1>4, <1>5, ActivateWindowKeeps
<1>6. CASE w = Top
  <2>1. UNCHANGED <<stack, place, iactive, keys, damaged, job, job_flag0, condition, toTask>>
    BY <1>4, <1>6
  <2>2. /\ list' \in Seq(Jobs) /\ ListOK(list')
        /\ \A c, v : InJobs(list, c, v) <=> InJobs(list', c, v) \/ (c = "activate" /\ v = w)
        /\ \A v : ~ InJobs(list', "activate", v) /\ ~ InJobs(list', "move", v)
    BY <1>1, <1>2, <1>4, JobTaken
  <2>3. /\ \A v \in Win, k \in Kinds : ~ Asked(toTask[v], k) /\ AskedOnce(toTask[v], k)
        /\ \A v \in Win : job_flag0[v] \cap Waits = {}
        /\ \A k \in FunctionKeys \cup MoveKeys : ~ Waiting(toWinman, k, None)
    BY <1>1, JobStarts
  <2>4. TypeOK'
    BY <1>4, <2>1, <2>2 DEF TypeOK
  <2>5. JobInv' /\ OwedInv'
    BY <1>1, <1>4, <2>1, <2>3, NothingOwed
  <2>6. KeysInv'
    BY <1>3, <1>4, <2>1, <2>3 DEF KeysInv, FunctionKeys
  <2>7. PictureOnly
    <3>1. /\ iactive' = Top' /\ stack' \in Seq(Win) /\ IsInjective(stack') /\ toTask' \in [Win -> Seq(Orders)]
          /\ toWinman' \in Seq(Messages) /\ BoxOK(toWinman')
      BY <1>3, <1>4, <2>1, Shape DEF ShellInv, SlotsInv, AskInv, Top
    <3> QED BY <1>3, <1>4, <2>1, <2>2, <3>1 DEF PictureOnly
  <2> QED BY <2>4, <2>5, <2>6, <2>7, PictureKeeps
<1> QED BY <1>5, <1>6

(* The top is to be moved: it is asked to stand still.                     *)
LEMMA RunMoveKeeps ==
  ASSUME IInv, RunMove, UNCHANGED client
  PROVE  IInv'
<1> USE DEF IInv
<1>1. Starts("move")
  BY DEF RunMove
<1>2. PICK w \in Win : w = Head(list).win /\ InJobs(list, "move", w)
  BY <1>1, JobStarts
<1>3. w \in ToSet(stack) /\ w = Top /\ Open = ToSet(stack) /\ stack # <<>>
  <2>1. w \in ToSet(stack) /\ w = Top
    BY <1>2 DEF JobsInv
  <2> QED BY <2>1, Shape, MembersOf
<1>4. /\ condition' = [condition EXCEPT ![w] = {}]
      /\ toTask' = [toTask EXCEPT ![w] = Append(toTask[w], Order("disable"))]
      /\ job_flag0' = [v \in Win |-> IF v \in Open /\ At(stack, v) >= At(stack, w)
                                     THEN {} ELSE job_flag0[v]]
      /\ keys' = {}
      /\ job' = [job EXCEPT !.now = "move", !.func = "movewin1", !.count = 1, !.win = w,
                            !.pos = place[w]]
      /\ list' = Tail(list)
      /\ UNCHANGED <<stack, place, unuse, closing, iactive, pokon0, press, wild, toWinman,
                     damaged, frame>>
  BY <1>2, <1>3 DEF RunMove, StartMove, screenVars
<1>5. /\ list' \in Seq(Jobs) /\ ListOK(list')
      /\ \A c, v : InJobs(list, c, v) <=> InJobs(list', c, v) \/ (c = "move" /\ v = w)
      /\ \A v : ~ InJobs(list', "activate", v) /\ ~ InJobs(list', "move", v)
  BY <1>1, <1>2, <1>4, JobTaken
<1>6. /\ \A v \in Win, k \in Kinds :
           /\ ~ Asked(toTask[v], k) /\ AskedOnce(toTask[v], k)
           /\ ~ Draws(client[v].drawing, k) /\ ~ Waiting(toWinman, k, v)
      /\ \A v \in Win : job_flag0[v] \cap Waits = {}
      /\ \A k \in FunctionKeys \cup MoveKeys : ~ Waiting(toWinman, k, None)
      /\ ~ job.ready
  BY <1>1, JobStarts
<1>7. /\ toTask \in [Win -> Seq(Orders)] /\ job_flag0 \in [Win -> SUBSET Bits]
      /\ condition \in [Win -> SUBSET Condition] /\ job \in Progress /\ place \in [Win -> Place]
  BY DEF TypeOK
<1>8. /\ toTask' \in [Win -> Seq(Orders)]
      /\ \A v \in Win : v # w => toTask'[v] = toTask[v]
      /\ \A s : Told(toTask'[w], s) <=> Told(toTask[w], s) \/ s = "disable"
      /\ \A k \in Kinds : AskedOnce(toTask'[w], k) /\ (Asked(toTask'[w], k) <=> k = "stopped")
      /\ ToldOnce(toTask[w]) => ToldOnce(toTask'[w])
  <2> DEFINE q == toTask[w]
             o == Order("disable")
             t == Append(q, o)
  <2>1. q \in Seq(Orders) /\ o \in Orders /\ o.sig = "disable"
    BY <1>7 DEF Order, Orders
  <2>2. toTask' = [toTask EXCEPT ![w] = t]
    BY <1>4
  <2>3. \A k \in Kinds : ~ Asked(q, k) /\ AskedOnce(q, k)
    BY <1>6
  <2> HIDE DEF o
  <2>4. /\ t \in Seq(Orders)
        /\ \A s : Told(t, s) <=> Told(q, s) \/ s = o.sig
        /\ \A k : Asked(t, k) <=> Asked(q, k) \/ o.sig \in Asking(k)
        /\ \A k : AskedOnce(t, k) <=> AskedOnce(q, k) /\ ~ (o.sig \in Asking(k) /\ Asked(q, k))
        /\ ToldOnce(t) <=> ToldOnce(q) /\ ~ (o.sig = "close" /\ Told(q, "close"))
    BY <2>1, MailAdd
  <2> HIDE DEF t
  <2>5. toTask'[w] = t /\ \A v \in Win : v # w => toTask'[v] = toTask[v]
    BY <1>7, <2>2
  <2>6. \A k \in Kinds : o.sig \in Asking(k) <=> k = "stopped"
    BY <2>1 DEF Asking, Kinds
  <2>7. toTask' \in [Win -> Seq(Orders)]
    BY <1>7, <2>2, <2>4
  <2> QED BY <2>1, <2>3, <2>4, <2>5, <2>6, <2>7
<1>9. /\ job_flag0' \in [Win -> SUBSET Bits]
      /\ \A v \in Win : job_flag0'[v] \subseteq job_flag0[v]
      /\ \A v \in Win : v \notin ToSet(stack) => job_flag0'[v] = job_flag0[v]
  BY <1>3, <1>4, <1>7
<1>10. condition' \in [Win -> SUBSET Condition]
  BY <1>4, <1>7
<1>11. /\ job' \in Progress /\ job'.now = "move" /\ job'.func = "movewin1" /\ job'.count = 1
       /\ job'.win = w /\ ~ job'.ready
  <2> DEFINE a == [job EXCEPT !.now = "move"]
             b == [a EXCEPT !.func = "movewin1"]
             c == [b EXCEPT !.count = 1]
             d == [c EXCEPT !.win = w]
             e == [d EXCEPT !.pos = place[w]]
  <2>1. job' = e
    BY <1>4
  <2>2. a \in Progress /\ a.now = "move" /\ ~ a.ready
    BY <1>6, <1>7 DEF Progress
  <2> HIDE DEF a
  <2>3. b \in Progress /\ b.now = "move" /\ ~ b.ready /\ b.func = "movewin1"
    BY <2>2 DEF Progress
  <2> HIDE DEF b
  <2>4. c \in Progress /\ c.now = "move" /\ ~ c.ready /\ c.func = "movewin1" /\ c.count = 1
    BY <2>3 DEF Progress
  <2> HIDE DEF c
  <2>5. d \in Progress /\ d.now = "move" /\ ~ d.ready /\ d.func = "movewin1" /\ d.count = 1 /\ d.win = w
    BY <2>4 DEF Progress
  <2> HIDE DEF d
  <2>6. e \in Progress /\ e.now = "move" /\ ~ e.ready /\ e.func = "movewin1" /\ e.count = 1 /\ e.win = w
    <3>1. place[w] \in Place
      BY <1>7
    <3> QED BY <2>5, <3>1 DEF Progress
  <2> QED BY <2>1, <2>6
<1>12. TypeOK'
  BY <1>4, <1>5, <1>8, <1>9, <1>10, <1>11 DEF TypeOK
<1>13. Top' = Top
  BY <1>4 DEF Top
<1>14. PictureOnly
  <2>1. /\ iactive' = Top' /\ stack' \in Seq(Win) /\ IsInjective(stack')
        /\ toWinman' \in Seq(Messages) /\ BoxOK(toWinman')
    BY <1>3, <1>4, <1>13, Shape DEF ShellInv, SlotsInv, AskInv
  <2>2. ASSUME NEW v \in Win
        PROVE  /\ Told(toTask'[v], "close") <=> Told(toTask[v], "close")
               /\ Told(toTask'[v], "closed") <=> Told(toTask[v], "closed")
               /\ ToldOnce(toTask[v]) => ToldOnce(toTask'[v])
               /\ "nowindow" \in job_flag0'[v] => "nowindow" \in job_flag0[v]
               /\ v \notin ToSet(stack) => toTask'[v] = toTask[v] /\ job_flag0'[v] = job_flag0[v]
    BY <1>3, <1>8, <1>9
  <2> QED BY <1>3, <1>4, <1>5, <1>8, <2>1, <2>2 DEF PictureOnly
<1>15. KeysInv'
  BY <1>3, <1>4, <1>6 DEF KeysInv, FunctionKeys
<1>16. \A v \in Win : job_flag0'[v] \cap Waits = {}
  BY <1>6, <1>9
<1>17. JobInv'
  BY <1>3, <1>4, <1>11, <1>13, <1>16 DEF JobInv
<1>18. OwedInv'
  <2>1. ASSUME NEW v \in Win, NEW k \in Kinds
        PROVE  /\ DueOf(v, k)' <=> v = w /\ k = "stopped"
               /\ DueOnce(toTask[v], client[v].drawing, toWinman, v, k)'
    <3>1. /\ ~ Draws(client'[v].drawing, k) /\ ~ Waiting(toWinman', k, v) /\ OneOf(toWinman', {Msg(k, v)})
      BY <1>4, <1>6 DEF Waiting, Has, OneOf
    <3>2. AskedOnce(toTask'[v], k) /\ (Asked(toTask'[v], k) <=> v = w /\ k = "stopped")
      BY <1>6, <1>8
    <3> QED BY <3>1, <3>2 DEF DueOf, Due, DueOnce
  <2>2. Cardinality(Dues)' = 1
    <3>1. Dues' = {<<w, "stopped">>}
      BY <2>1 DEF Dues, Kinds
    <3> QED BY <3>1, FS_Singleton
  <2>3. ASSUME NEW v \in Win, NEW k \in Kinds PROVE Awaited(v, k)'
    BY <1>3, <1>4, <1>11, <1>13, <2>1 DEF Awaited
  <2> QED BY <1>11, <2>2, <2>3 DEF OwedInv
<1> QED BY <1>12, <1>14, <1>15, <1>17, <1>18, PictureKeeps

(* The task of a window is told that it is gone, and nothing after that.   *)
ToldLast(box, w) ==
  /\ box \in [Win -> Seq(Orders)]
  /\ \A v \in Win : v # w => box[v] = toTask[v]
  /\ \A s : Told(box[w], s) <=> Told(toTask[w], s) \/ s = "closed"
  /\ \A k \in Kinds : ~ Asked(box[w], k) /\ AskedOnce(box[w], k)
  /\ Orderly(box[w])

LEMMA ToldClosed ==
  ASSUME TypeOK, NEW w \in Win, ~ Told(toTask[w], "closed"), ToldOnce(toTask[w]),
         \A k \in Kinds : ~ Asked(toTask[w], k) /\ AskedOnce(toTask[w], k),
         NEW box, box = [toTask EXCEPT ![w] = Append(@, Order("closed"))]
  PROVE  ToldLast(box, w)
<1> DEFINE q == toTask[w]
           o == Order("closed")
           t == Append(q, o)
<1>1. q \in Seq(Orders) /\ o \in Orders /\ o.sig = "closed" /\ toTask \in [Win -> Seq(Orders)]
  BY DEF Order, Orders, TypeOK
<1>2. box = [toTask EXCEPT ![w] = t]
  OBVIOUS
<1>3. /\ ~ Told(q, "closed") /\ ToldOnce(q)
      /\ \A k \in Kinds : ~ Asked(q, k) /\ AskedOnce(q, k)
  OBVIOUS
<1> HIDE DEF o
<1>4. /\ t \in Seq(Orders)
      /\ \A s : Told(t, s) <=> Told(q, s) \/ s = o.sig
      /\ \A k : Asked(t, k) <=> Asked(q, k) \/ o.sig \in Asking(k)
      /\ \A k : AskedOnce(t, k) <=> AskedOnce(q, k) /\ ~ (o.sig \in Asking(k) /\ Asked(q, k))
      /\ ToldOnce(t) <=> ToldOnce(q) /\ ~ (o.sig = "close" /\ Told(q, "close"))
      /\ Orderly(t) <=> ToldOnce(t) /\ ~ Told(q, "closed")
  BY <1>1, MailAdd
<1> HIDE DEF t
<1>5. box[w] = t /\ \A v \in Win : v # w => box[v] = toTask[v]
  BY <1>1, <1>2
<1>6. \A k : o.sig \notin Asking(k)
  BY <1>1 DEF Asking
<1>7. box \in [Win -> Seq(Orders)]
  BY <1>1, <1>2, <1>4
<1> QED BY <1>1, <1>3, <1>4, <1>5, <1>6, <1>7 DEF ToldLast

(* A window that is closed was asked to be, and has no slot but its own.   *)
LEMMA CloseStarts ==
  ASSUME IInv, Starts("close"), NEW w \in Win, w = Head(list).win
  PROVE  /\ Phase(w) \in {"ending", "closing"} /\ ~ Told(toTask[w], "closed")
         /\ ToldOnce(toTask[w]) /\ w \notin ToSet(unuse)
         /\ ~ Opening(w) /\ ~ Waiting(toWinman, "close", w)
         /\ w \in ToSet(stack) \/ Hidden(w)
         /\ stack # <<>> /\ w # pokon0
<1> USE DEF IInv
<1>1. InJobs(list, "close", w) /\ list # <<>>
  BY JobStarts
<1>2. Phase(w) \in {"none", "open", "ending", "closing"}
  BY Shape DEF Phase, Clients
<1>3. /\ Phase(w) \in {"ending", "closing"} /\ ~ Told(toTask[w], "closed")
      /\ ToldOnce(toTask[w]) /\ w \notin ToSet(unuse)
  BY <1>1, <1>2, MailLast DEF LifeInv, Life
<1>4. ~ Opening(w)
  <2> DEFINE t == Tail(list)
             h == Head(list)
  <2>1. list \in Seq(Jobs) /\ ListOK(list) /\ h.cmd = "close" /\ h.win = w
    BY Shape DEF JobsInv, Starts
  <2>2. /\ \A c, v : InJobs(list, c, v) <=> InJobs(t, c, v) \/ (c = h.cmd /\ v = h.win)
        /\ h.cmd = "close" => ~ InJobs(t, "open", h.win)
    BY <1>1, <2>1, ListRun
  <2> HIDE DEF t, h
  <2> QED BY <2>1, <2>2 DEF Opening
<1>5. ~ Waiting(toWinman, "close", w)
  BY <1>1 DEF AskInv
<1>6. ~ Waiting(toWinman, "open", w)
  <2>1. Waiting(toWinman, "open", w) => unuse # <<>> /\ w = Head(unuse)
    BY DEF AskInv
  <2>2. unuse # <<>> => Head(unuse) \in ToSet(unuse)
    BY Shape, RingRest
  <2> QED BY <1>3, <2>1, <2>2
<1>7. w \in ToSet(stack) \/ Hidden(w)
  BY <1>3, <1>4, <1>6 DEF LifeInv, Life
<1>8. stack # <<>> /\ w # pokon0
  BY <1>3 DEF ShellInv
<1> QED BY <1>3, <1>4, <1>5, <1>7, <1>8

(* A window that was never shown is closed.                                *)
LEMMA CloseHiddenKeeps ==
  ASSUME IInv, Starts("close"), NEW w \in Win, w = Head(list).win, Hidden(w), CloseHidden(w),
         list' = Tail(list), UNCHANGED <<pokon0, press, wild, toWinman, frame, client>>
  PROVE  IInv'
<1> USE DEF IInv
<1>1. /\ toTask' = [toTask EXCEPT ![w] = Append(@, Order("closed"))]
      /\ UNCHANGED <<stack, place, unuse, condition, job_flag0, closing, iactive, keys, job, damaged>>
  BY DEF CloseHidden
<1>2. /\ \A v \in Win, k \in Kinds : ~ Asked(toTask[v], k) /\ AskedOnce(toTask[v], k)
      /\ \A v \in Win : job_flag0[v] \cap Waits = {}
      /\ \A k \in FunctionKeys \cup MoveKeys : ~ Waiting(toWinman, k, None)
  BY JobStarts
<1>3. /\ list' \in Seq(Jobs) /\ ListOK(list')
      /\ \A c, v : InJobs(list, c, v) <=> InJobs(list', c, v) \/ (c = "close" /\ v = w)
      /\ ~ InJobs(list', "close", w)
      /\ \A v : ~ InJobs(list', "activate", v) /\ ~ InJobs(list', "move", v)
  BY JobTaken
<1>4. /\ Phase(w) \in {"ending", "closing"} /\ ~ Told(toTask[w], "closed")
      /\ ToldOnce(toTask[w]) /\ w \notin ToSet(unuse)
      /\ ~ Opening(w) /\ ~ Waiting(toWinman, "close", w) /\ stack # <<>>
  BY CloseStarts
<1>5. w \notin ToSet(stack)
  BY DEF SlotsInv
<1>6. /\ toTask' \in [Win -> Seq(Orders)]
      /\ \A v \in Win : v # w => toTask'[v] = toTask[v]
      /\ \A s : Told(toTask'[w], s) <=> Told(toTask[w], s) \/ s = "closed"
      /\ \A k \in Kinds : ~ Asked(toTask'[w], k) /\ AskedOnce(toTask'[w], k)
      /\ Orderly(toTask'[w])
  <2>1. ToldLast(toTask', w)
    BY <1>1, <1>2, <1>4, ToldClosed
  <2> QED BY <2>1 DEF ToldLast
<1>7. TypeOK'
  BY <1>1, <1>3, <1>6 DEF TypeOK
<1>8. JobInv' /\ OwedInv'
  BY <1>1, <1>2, <1>6, NothingOwed
<1>9. \A v \in Win : /\ Opening(v)' <=> Opening(v)
                     /\ Hidden(v)' = Hidden(v) /\ Phase(v)' = Phase(v)
                     /\ InJobs(list', "close", v) <=> InJobs(list, "close", v) /\ v # w
  BY <1>1, <1>3 DEF Opening, Hidden, Phase
<1>10. SlotsInv'
  BY <1>1, <1>9 DEF SlotsInv
<1>11. LifeInv'
  <2>1. ASSUME NEW v \in Win PROVE Life(v)'
    <3>1. Life(v)
      BY DEF LifeInv
    <3>2. CASE v = w
      BY <1>1, <1>4, <1>5, <1>6, <1>9, <3>1, <3>2 DEF Life
    <3>3. CASE v # w
      BY <1>1, <1>6, <1>9, <3>1, <3>3 DEF Life
    <3> QED BY <3>2, <3>3
  <2> QED BY <2>1 DEF LifeInv
<1>12. AskInv'
  <2>1. ASSUME NEW v \in Win, Waiting(toWinman, "open", v)
        PROVE  unuse # <<>> /\ v = Head(unuse) /\ toTask'[v] = <<>> /\ Phase(v) # "ending"
    <3>1. unuse # <<>> /\ v = Head(unuse) /\ toTask[v] = <<>> /\ Phase(v) # "ending"
      BY <2>1 DEF AskInv
    <3>2. v \in ToSet(unuse)
      BY <3>1, Shape, RingRest
    <3> QED BY <1>4, <1>6, <3>1, <3>2
  <2> QED BY <1>1, <1>9, <2>1 DEF AskInv
<1>13. JobsInv'
  BY <1>1, <1>3, <1>9 DEF JobsInv
<1>14. KeysInv'
  BY <1>1, <1>2 DEF KeysInv, FunctionKeys
<1>15. ShellInv'
  <2>1. \A v \in Win : Told(toTask'[v], "close") <=> Told(toTask[v], "close")
    BY <1>6
  <2>2. Top' = Top /\ pokon0 \in Win
    BY <1>1, <1>4, Shape DEF Top, ShellInv
  <2> QED BY <1>1, <1>4, <1>9, <2>1, <2>2 DEF ShellInv
<1> QED BY <1>7, <1>8, <1>10, <1>11, <1>12, <1>13, <1>14, <1>15

(* An open window is closed, and those under it are drawn.                 *)
LEMMA CloseWindowKeeps ==
  ASSUME IInv, Starts("close"), NEW w \in ToSet(stack), w = Head(list).win, CloseWindow(w),
         list' = Tail(list), UNCHANGED <<pokon0, press, wild, toWinman, frame, client>>
  PROVE  IInv'
<1> USE DEF IInv
<1> DEFINE s == RemoveAt(stack, At(stack, w))
           cd == [condition EXCEPT ![w] = {}]
           fl == [CloseMarks(s, w) EXCEPT ![w] = {}]
           box == [toTask EXCEPT ![w] = Append(@, Order("closed"))]
           j == [job EXCEPT !.now = "close"]
<1>1. /\ stack' = s /\ unuse' = Append(unuse, w)
      /\ CloseInput(s, w)
      /\ damaged' = (damaged \cup { v \in ToSet(s) : Overlap(place[w], place[v]) }) \ {w}
      /\ place' = [place EXCEPT ![w] = Home]
      /\ closing' = closing \ {w}
      /\ General1(cd, fl, box, j)
  BY DEF CloseWindow
<1>2. /\ job.now = "none" /\ ~ job.ready
      /\ \A v \in Win, k \in Kinds :
           /\ ~ Asked(toTask[v], k) /\ AskedOnce(toTask[v], k)
           /\ ~ Draws(client[v].drawing, k) /\ ~ Waiting(toWinman, k, v)
      /\ \A v \in Win : job_flag0[v] \cap Waits = {}
      /\ \A k \in FunctionKeys \cup MoveKeys : ~ Waiting(toWinman, k, None)
  BY JobStarts
<1>3. /\ list' \in Seq(Jobs) /\ ListOK(list')
      /\ \A c, v : InJobs(list, c, v) <=> InJobs(list', c, v) \/ (c = "close" /\ v = w)
      /\ ~ InJobs(list', "close", w)
      /\ \A v : ~ InJobs(list', "activate", v) /\ ~ InJobs(list', "move", v)
  BY JobTaken
<1>4. w \in Win
  BY Shape
<1>5. /\ Phase(w) \in {"ending", "closing"} /\ ~ Told(toTask[w], "closed")
      /\ ToldOnce(toTask[w]) /\ w \notin ToSet(unuse)
      /\ ~ Opening(w) /\ ~ Waiting(toWinman, "close", w) /\ stack # <<>> /\ w # pokon0
  BY <1>4, CloseStarts
<1>6. /\ toTask \in [Win -> Seq(Orders)] /\ job_flag0 \in [Win -> SUBSET Bits]
      /\ condition \in [Win -> SUBSET Condition] /\ job \in Progress /\ place \in [Win -> Place]
      /\ stack \in Seq(Win) /\ IsInjective(stack) /\ unuse \in Seq(Win) /\ IsInjective(unuse)
      /\ damaged \subseteq Win
  BY DEF TypeOK, SlotsInv
<1>7. /\ s \in Seq(Win) /\ IsInjective(s) /\ ToSet(s) = ToSet(stack) \ {w}
      /\ Head(stack) # w => s # <<>> /\ Head(s) = Head(stack)
  BY <1>6, RingWithout
<1>8. /\ unuse' \in Seq(Win) /\ IsInjective(unuse') /\ ToSet(unuse') = ToSet(unuse) \cup {w}
      /\ unuse' # <<>> /\ (unuse # <<>> => Head(unuse') = Head(unuse))
  <2> DEFINE t == Append(unuse, w)
  <2>0. unuse \in Seq(Win)
    BY <1>6
  <2>1. /\ t \in Seq(Win) /\ t # <<>> /\ (unuse # <<>> => Head(t) = Head(unuse))
        /\ ToSet(t) = ToSet(unuse) \cup {w}
        /\ IsInjective(unuse) /\ w \notin ToSet(unuse) => IsInjective(t)
    BY ONLY <1>4, <2>0, RingAdd
  <2>2. unuse' = t
    BY <1>1
  <2> HIDE DEF t
  <2> QED BY <1>5, <1>6, <2>1, <2>2
<1>9. /\ fl \in [Win -> SUBSET Bits] /\ fl[w] = {}
      /\ \A v \in Win : v \notin ToSet(s) /\ v # w => fl[v] = job_flag0[v]
      /\ \A v \in Win : "nowindow" \in fl[v] => "nowindow" \in job_flag0[v]
      /\ \A v \in Win : fl[v] \cap Waits = {}
  <2>1. \A v \in Win : CloseMarks(s, w)[v] = IF v \in ToSet(s) /\ Overlap(place[w], place[v])
                                             THEN job_flag0[v] \cup {"must"} ELSE job_flag0[v]
    BY DEF CloseMarks
  <2>2. \A v \in Win : job_flag0[v] \cup {"must"} \in SUBSET Bits
    BY <1>6 DEF Bits
  <2>3. CloseMarks(s, w) \in [Win -> SUBSET Bits]
    BY <1>6, <2>2 DEF CloseMarks
  <2> DEFINE m == CloseMarks(s, w)
  <2> HIDE DEF s, m
  <2>4. fl = [m EXCEPT ![w] = {}]
    BY DEF m
  <2>5. m \in [Win -> SUBSET Bits]
    BY <2>3 DEF m
  <2>6. \A v \in Win : m[v] = job_flag0[v] \/ (v \in ToSet(s) /\ m[v] = job_flag0[v] \cup {"must"})
    BY <2>1 DEF m
  <2> HIDE DEF fl
  <2>7. fl \in [Win -> SUBSET Bits] /\ fl[w] = {} /\ \A v \in Win : v # w => fl[v] = m[v]
    BY <1>4, <2>4, <2>5
  <2>8. ASSUME NEW v \in Win
        PROVE  /\ v \notin ToSet(s) /\ v # w => fl[v] = job_flag0[v]
               /\ "nowindow" \in fl[v] => "nowindow" \in job_flag0[v]
               /\ fl[v] \cap Waits = {}
    BY <1>2, <2>6, <2>7 DEF Waits
  <2> QED BY <2>7, <2>8
<1>10. /\ box \in [Win -> Seq(Orders)]
       /\ \A v \in Win : v # w => box[v] = toTask[v]
       /\ \A c : Told(box[w], c) <=> Told(toTask[w], c) \/ c = "closed"
       /\ \A v \in Win, k \in Kinds : ~ Asked(box[v], k) /\ AskedOnce(box[v], k)
       /\ Orderly(box[w])
  <2> HIDE DEF box
  <2>1. box = [toTask EXCEPT ![w] = Append(@, Order("closed"))]
    BY DEF box
  <2>2. ToldLast(box, w)
    BY <1>2, <1>4, <1>5, <2>1, ToldClosed
  <2> QED BY <1>2, <2>2 DEF ToldLast
<1>11. cd \in [Win -> SUBSET Condition] /\ place' \in [Win -> Place]
  BY <1>1, <1>6, HomeAssumption
<1>12. j \in Progress /\ j.now # "none" /\ ~ j.ready
  BY <1>2, <1>6 DEF Progress
<1> HIDE DEF s, cd, fl, box, j
<1>13. /\ stack' \in Seq(Win) /\ stack' # <<>> /\ ToSet(stack') = ToSet(stack) \ {w}
       /\ IsInjective(stack') /\ pokon0 \in ToSet(stack')
  <2>1. pokon0 \in ToSet(stack) \ {w}
    BY <1>5 DEF ShellInv
  <2>2. s # <<>>
    BY <1>7, <2>1, MembersOf
  <2> QED BY <1>1, <1>7, <2>1, <2>2
<1>14. iactive' = Top' /\ iactive' \in Win /\ keys' \in {keys, FunctionKeys}
  <2>1. Top' = Head(s) /\ Head(s) \in Win /\ s # <<>>
    BY <1>1, <1>7, <1>13, RingRest DEF Top
  <2>2. CASE w = Top
    BY <1>1, <2>1, <2>2 DEF CloseInput, RedirectInput
  <2>3. CASE w # Top
    <3>1. Head(stack) # w /\ Top = Head(stack) /\ iactive = Top
      BY <1>5, <2>3 DEF Top, ShellInv
    <3>2. iactive' = iactive /\ keys' = keys
      BY <1>1, <2>3 DEF CloseInput
    <3> QED BY <1>7, <2>1, <3>1, <3>2
  <2> QED BY <2>2, <2>3
<1>15. Redraws(fl, box, j)
  <2>1. \A v \in Win : /\ fl[v] \cap Waits = {}
                       /\ \A k \in Kinds : ~ Asked(box[v], k) /\ AskedOnce(box[v], k)
    BY <1>9, <1>10
  <2> QED BY <1>1, <1>9, <1>10, <1>11, <1>12, <1>13, <2>1, General1Redraws
<1>16. JobInv' /\ OwedInv'
  <2>1. wild' = FALSE
    BY DEF JobInv
  <2> QED BY <1>2, <1>12, <1>13, <1>15, <2>1, RedrawsOwe
<1>17. TypeOK'
  <2>1. /\ condition' \in [Win -> SUBSET Condition] /\ job_flag0' \in [Win -> SUBSET Bits]
        /\ toTask' \in [Win -> Seq(Orders)] /\ job' \in Progress
    BY <1>15 DEF Redraws
  <2>2. damaged' \subseteq Win
    BY <1>1, <1>6, <1>7, MembersOf
  <2>3. keys' \subseteq FunctionKeys \cup MoveKeys /\ closing' \subseteq Win
    BY <1>1, <1>14 DEF TypeOK
  <2> QED BY <1>3, <1>8, <1>11, <1>13, <1>14, <2>1, <2>2, <2>3 DEF TypeOK
<1>18. ASSUME NEW v \in Win
       PROVE  /\ Told(toTask'[v], "close") <=> Told(box[v], "close")
              /\ Told(toTask'[v], "closed") <=> Told(box[v], "closed")
              /\ ToldOnce(box[v]) => ToldOnce(toTask'[v])
              /\ v \notin ToSet(stack') => toTask'[v] = box[v] /\ job_flag0'[v] = fl[v]
              /\ "nowindow" \in job_flag0'[v] => "nowindow" \in fl[v]
  BY <1>15 DEF Redraws
<1>19. ~ Hidden(w) /\ ~ Hidden(w)' /\ w \notin ToSet(stack') /\ toTask'[w] = box[w]
  <2>1. ~ Hidden(w)
    BY <1>4 DEF SlotsInv
  <2> QED BY <1>4, <1>9, <1>13, <1>18, <2>1 DEF Hidden
<1>20. ASSUME NEW v \in Win
       PROVE  /\ Opening(v)' <=> Opening(v)
              /\ Hidden(v)' <=> Hidden(v)
              /\ InJobs(list', "close", v) <=> InJobs(list, "close", v) /\ v # w
              /\ Phase(v)' = Phase(v)
  <2>1. Hidden(v) => v \notin ToSet(stack') /\ v # w
    BY <1>13, <1>19 DEF SlotsInv
  <2>2. Hidden(v)' <=> Hidden(v)
    BY <1>1, <1>9, <1>18, <2>1 DEF Hidden
  <2> QED BY <1>3, <2>2 DEF Opening, Phase
<1>21. SlotsInv'
  BY <1>5, <1>8, <1>13, <1>19, <1>20 DEF SlotsInv
<1>22. LifeInv'
  <2>1. ASSUME NEW v \in Win PROVE Life(v)'
    <3>1. Life(v)
      BY DEF LifeInv
    <3>2. CASE v = w
      <4>1. Told(toTask'[v], "closed") /\ Orderly(toTask'[v])
        BY <1>10, <1>19, <3>2
      <4>2. Told(toTask'[v], "close") <=> Told(toTask[v], "close")
        BY <1>10, <1>19, <3>2
      <4> QED BY <1>1, <1>5, <1>19, <1>20, <3>1, <3>2, <4>1, <4>2 DEF Life
    <3>3. CASE v # w
      <4>1. /\ Told(toTask'[v], "closed") <=> Told(toTask[v], "closed")
            /\ Told(toTask'[v], "close") <=> Told(toTask[v], "close")
            /\ ToldOnce(toTask[v]) => ToldOnce(toTask'[v])
            /\ v \in ToSet(stack') <=> v \in ToSet(stack)
            /\ v \in ToSet(unuse') <=> v \in ToSet(unuse)
            /\ v \in closing' <=> v \in closing
            /\ v \notin ToSet(stack) => toTask'[v] = toTask[v]
        BY <1>1, <1>8, <1>10, <1>13, <1>18, <3>3
      <4>2. Orderly(toTask'[v])
        <5>1. CASE v \in ToSet(stack)
          BY <3>1, <4>1, <5>1, MailLast DEF Life
        <5>2. CASE v \notin ToSet(stack)
          BY <3>1, <4>1, <5>2 DEF Life
        <5> QED BY <5>1, <5>2
      <4>3. (Opening(v) => v \notin ToSet(stack)) /\ (Phase(v) = "none" => v \notin ToSet(stack))
        BY <3>1 DEF SlotsInv, Life
      <4> QED BY <1>20, <3>1, <3>3, <4>1, <4>2, <4>3 DEF Life
    <3> QED BY <3>2, <3>3
  <2> QED BY <2>1 DEF LifeInv
<1>23. AskInv'
  <2>1. ASSUME NEW v \in Win, Waiting(toWinman, "open", v)
        PROVE  unuse' # <<>> /\ v = Head(unuse') /\ toTask'[v] = <<>> /\ Phase(v) # "ending"
    <3>1. unuse # <<>> /\ v = Head(unuse) /\ toTask[v] = <<>> /\ Phase(v) # "ending"
      BY <2>1 DEF AskInv
    <3>2. v \in ToSet(unuse)
      BY <3>1, Shape, RingRest
    <3>3. v \notin ToSet(stack') /\ v # w
      BY <1>5, <1>13, <3>2 DEF SlotsInv
    <3> QED BY <1>8, <1>10, <1>18, <3>1, <3>3
  <2> QED BY <1>1, <1>20, <2>1 DEF AskInv
<1>24. JobsInv'
  BY <1>1, <1>3, <1>20 DEF JobsInv
<1>25. KeysInv'
  BY <1>2, <1>13 DEF KeysInv, FunctionKeys
<1>26. ShellInv'
  <2>1. \A v \in Win : Told(toTask'[v], "close") <=> Told(toTask[v], "close")
    BY <1>10, <1>18
  <2>2. pokon0 \in Win /\ Phase(pokon0)' = "open"
    BY <1>5, <1>20, Shape DEF ShellInv
  <2> QED BY <1>13, <1>14, <2>1, <2>2 DEF ShellInv
<1> QED BY <1>16, <1>17, <1>21, <1>22, <1>23, <1>24, <1>25, <1>26

LEMMA RunCloseKeeps ==
  ASSUME IInv, RunClose, UNCHANGED client
  PROVE  IInv'
<1> USE DEF IInv
<1>1. Starts("close")
  BY DEF RunClose
<1>2. PICK w \in Win : w = Head(list).win
  BY <1>1, JobStarts
<1>3. (w \in ToSet(stack) \/ Hidden(w)) /\ Open = ToSet(stack)
  BY <1>1, <1>2, CloseStarts, Shape
<1>4. /\ (w \in Open /\ CloseWindow(w)) \/ (Hidden(w) /\ CloseHidden(w))
      /\ list' = Tail(list)
      /\ UNCHANGED <<pokon0, press, wild, toWinman, frame>>
  BY <1>2, <1>3 DEF RunClose, Hidden
<1>5. CASE w \in Open /\ CloseWindow(w)
  BY <1>1, <1>2, <1>3, <1>4, <1>5, CloseWindowKeeps
<1>6. CASE Hidden(w) /\ CloseHidden(w)
  BY <1>1, <1>2, <1>4, <1>6, CloseHiddenKeeps
<1> QED BY <1>4, <1>5, <1>6

-----------------------------------------------------------------------------
(* What the keys and the mouse do.                                         *)
LEMMA KeyWaits ==
  ASSUME IInv, NEW sig \in FunctionKeys \cup MoveKeys, Hears(sig)
  PROVE  Waiting(toWinman, sig, None)
<1> DEFINE h == Head(toWinman)
<1>1. toWinman \in Seq(Messages) /\ toWinman # <<>> /\ BoxOK(toWinman) /\ h.sig = sig
  BY Shape DEF Hears, IInv, AskInv
<1>2. h \in Messages /\ Waiting(toWinman, h.sig, h.win)
  BY <1>1, BoxHeard
<1>3. h.win = None
  <2>1. sig \notin {"open", "close", "stopped", "drawn"}
    BY DEF FunctionKeys, MoveKeys
  <2> QED BY <1>1, <1>2, <2>1 DEF Messages, Requests, Keys
<1> HIDE DEF h
<1> QED BY <1>1, <1>2, <1>3

LEMMA KeyHeard ==
  ASSUME IInv, NEW sig \in FunctionKeys \cup MoveKeys, Hears(sig), toWinman' = Tail(toWinman)
  PROVE  /\ toWinman' \in Seq(Messages) /\ BoxOK(toWinman')
         /\ \A k : ~ Waiting(toWinman', k, None)
         /\ \A s, v : v # None => (Waiting(toWinman', s, v) <=> Waiting(toWinman, s, v))
         /\ \A s, v : OneOf(toWinman, {Msg(s, v)}) => OneOf(toWinman', {Msg(s, v)})
<1> DEFINE h == Head(toWinman)
<1>1. toWinman \in Seq(Messages) /\ toWinman # <<>> /\ BoxOK(toWinman) /\ h.sig = sig
  BY Shape DEF Hears, IInv, AskInv
<1>2. /\ toWinman' \in Seq(Messages) /\ BoxOK(toWinman') /\ h \in Messages
      /\ \A s, v : Waiting(toWinman, s, v) <=> Waiting(toWinman', s, v) \/ (s = h.sig /\ v = h.win)
      /\ \A s, v : OneOf(toWinman, {Msg(s, v)}) => OneOf(toWinman', {Msg(s, v)})
      /\ h.win = None => \A k : ~ Waiting(toWinman', k, None)
  BY <1>1, BoxHeard
<1>3. h.win = None
  <2>1. sig \notin {"open", "close", "stopped", "drawn"}
    BY DEF FunctionKeys, MoveKeys
  <2> QED BY <1>1, <1>2, <2>1 DEF Messages, Requests, Keys
<1> HIDE DEF h
<1> QED BY <1>2, <1>3

(* Nothing that is due changes when only keys come and go.                 *)
LEMMA KeysOwe ==
  ASSUME IInv, UNCHANGED client,
         \A v \in Win, k \in Kinds :
           /\ Asked(toTask'[v], k) <=> Asked(toTask[v], k)
           /\ AskedOnce(toTask'[v], k) <=> AskedOnce(toTask[v], k)
           /\ Waiting(toWinman', k, v) <=> Waiting(toWinman, k, v)
           /\ OneOf(toWinman, {Msg(k, v)}) => OneOf(toWinman', {Msg(k, v)})
  PROVE  DuesHold
<1>1. ASSUME NEW v \in Win, NEW k \in Kinds
      PROVE  /\ DueOf(v, k)' <=> DueOf(v, k)
             /\ DueOnce(toTask[v], client[v].drawing, toWinman, v, k)'
  <2>1. DueOnce(toTask[v], client[v].drawing, toWinman, v, k)
    BY DEF IInv, OwedInv, Awaited
  <2>2. Asked(toTask'[v], k) <=> Asked(toTask[v], k)
    OBVIOUS
  <2>3. AskedOnce(toTask'[v], k) <=> AskedOnce(toTask[v], k)
    OBVIOUS
  <2>4. /\ Waiting(toWinman', k, v) <=> Waiting(toWinman, k, v)
        /\ OneOf(toWinman, {Msg(k, v)}) => OneOf(toWinman', {Msg(k, v)})
    OBVIOUS
  <2> QED BY <2>1, <2>2, <2>3, <2>4 DEF DueOf, Due, DueOnce
<1> QED BY <1>1 DEF DuesHold

(* A key comes into the box of winman0 or is taken from it, and does no    *)
(* more.                                                                   *)
BoxOnly ==
  /\ UNCHANGED <<stack, place, unuse, condition, job_flag0, closing, iactive, pokon0, list, job,
                 keys, wild, toTask, client, damaged, frame>>
  /\ press' \in Win \cup {None}
  /\ toWinman' \in Seq(Messages) /\ BoxOK(toWinman')
  /\ \A v \in Win : /\ \A s : Waiting(toWinman', s, v) <=> Waiting(toWinman, s, v)
                    /\ \A s : OneOf(toWinman, {Msg(s, v)}) => OneOf(toWinman', {Msg(s, v)})

LEMMA BoxOnlyKeeps ==
  ASSUME IInv, BoxOnly, KeysInv'
  PROVE  IInv'
<1> USE DEF IInv, BoxOnly
<1>1. Top' = Top /\ \A v \in Win : Phase(v)' = Phase(v) /\ Opening(v)' = Opening(v) /\ Hidden(v)' = Hidden(v)
  BY DEF Top, Phase, Opening, Hidden
<1>2. SlotsInv'
  BY <1>1 DEF SlotsInv
<1>3. LifeInv'
  BY <1>1 DEF LifeInv, Life
<1>4. AskInv'
  BY <1>1 DEF AskInv
<1>5. JobsInv'
  BY <1>1 DEF JobsInv
<1>6. DuesHold
  BY KeysOwe
<1>7. unuse' \in Seq(Win) /\ closing' \subseteq Win /\ list' \in Seq(Jobs)
  BY DEF TypeOK
<1> QED BY <1>2, <1>3, <1>4, <1>5, <1>6, <1>7, RestKeeps

(* The user has the top moved, or another window come to the top, while no *)
(* job waits.                                                              *)
LEMMA JobAsked ==
  ASSUME IInv, list = <<>>, NEW cmd \in {"activate", "move"}, NEW w \in ToSet(stack),
         cmd = "move" => w = Top, UNCHANGED list \/ WriteJob(cmd, w),
         UNCHANGED <<stack, place, unuse, condition, job_flag0, closing, iactive, pokon0, job,
                     keys, wild, toTask, client, damaged, frame>>,
         press' \in Win \cup {None},
         toWinman' \in Seq(Messages), BoxOK(toWinman'),
         \A k : ~ Waiting(toWinman', k, None),
         \A v \in Win : /\ \A s : Waiting(toWinman', s, v) <=> Waiting(toWinman, s, v)
                        /\ \A s : OneOf(toWinman, {Msg(s, v)}) => OneOf(toWinman', {Msg(s, v)})
  PROVE  IInv'
<1> USE DEF IInv
<1>1. w \in Win /\ stack # <<>> /\ list \in Seq(Jobs) /\ ListOK(list)
  BY Shape, MembersOf DEF JobsInv
<1>2. \A c, v : ~ InJobs(list, c, v)
  BY HasNone DEF InJobs
<1>3. list' = list \/ list' = Append(list, Job(cmd, w))
  BY DEF WriteJob, Job
<1>4. /\ list' \in Seq(Jobs) /\ ListOK(list')
      /\ \A c, v : InJobs(list', c, v) => c = cmd /\ v = w
  <2>1. CASE list' = list
    BY <1>1, <1>2, <2>1
  <2>2. CASE list' = Append(list, Job(cmd, w))
    <3> DEFINE longer == Append(list, Job(cmd, w))
    <3>1. Job(cmd, w) \in Jobs /\ cmd # "open"
      BY <1>1 DEF Job, Jobs
    <3>2. ~ InJobs(list, cmd, w)
      BY <1>2
    <3>3. /\ longer \in Seq(Jobs) /\ ListOK(longer)
          /\ \A c, v : InJobs(longer, c, v) <=> InJobs(list, c, v) \/ (c = cmd /\ v = w)
      <4>1. list \in Seq(Jobs) /\ ListOK(list) /\ w \in Win
        BY <1>1
      <4> QED BY <4>1, <3>1, <3>2, ListAdd
    <3>4. list' = longer
      BY <2>2
    <3> HIDE DEF longer
    <3> QED BY <1>2, <3>3, <3>4
  <2> QED BY <1>3, <2>1, <2>2
<1>5. \A v \in Win : ~ InJobs(list', "open", v) /\ ~ InJobs(list', "close", v)
  BY <1>4
<1>6. Top' = Top /\ \A v \in Win : Phase(v)' = Phase(v) /\ Hidden(v)' = Hidden(v)
                                   /\ ~ Opening(v) /\ ~ Opening(v)'
  BY <1>2, <1>5 DEF Top, Phase, Opening, Hidden
<1>7. SlotsInv'
  BY <1>6 DEF SlotsInv
<1>8. LifeInv'
  BY <1>2, <1>5, <1>6 DEF LifeInv, Life
<1>9. AskInv'
  BY <1>5, <1>6 DEF AskInv
<1>10. JobsInv'
  BY <1>4, <1>5, <1>6 DEF JobsInv
<1>11. KeysInv'
  BY <1>1 DEF KeysInv, FunctionKeys
<1>12. DuesHold
  BY KeysOwe
<1>13. unuse' \in Seq(Win) /\ closing' \subseteq Win
  BY DEF TypeOK
<1> QED BY <1>4, <1>7, <1>8, <1>9, <1>10, <1>11, <1>12, <1>13, RestKeeps

LEMMA HearJobKeyKeeps ==
  ASSUME IInv, NEW sig \in FunctionKeys, NEW cmd \in {"activate", "move"}, NEW w,
         stack # <<>> => w \in ToSet(stack), cmd = "move" => w = Top,
         HearJobKey(sig, cmd, w), UNCHANGED client
  PROVE  IInv'
<1> USE DEF IInv
<1>1. Hears(sig)
  BY DEF HearJobKey
<1>2. list = <<>> /\ stack # <<>>
  BY <1>1, KeyWaits DEF KeysInv
<1>3. /\ UNCHANGED list \/ WriteJob(cmd, w)
      /\ toWinman' = Tail(toWinman)
      /\ UNCHANGED <<stack, place, unuse, condition, job_flag0, closing, iactive, pokon0, job,
                     press, keys, wild, toTask, damaged, frame>>
  BY <1>2 DEF HearJobKey, keyRest, screenVars
<1>4. /\ toWinman' \in Seq(Messages) /\ BoxOK(toWinman')
      /\ \A k : ~ Waiting(toWinman', k, None)
      /\ \A s, v : v # None => (Waiting(toWinman', s, v) <=> Waiting(toWinman, s, v))
      /\ \A s, v : OneOf(toWinman, {Msg(s, v)}) => OneOf(toWinman', {Msg(s, v)})
  BY <1>1, <1>3, KeyHeard
<1>5. /\ \A v \in Win : /\ \A s : Waiting(toWinman', s, v) <=> Waiting(toWinman, s, v)
                        /\ \A s : OneOf(toWinman, {Msg(s, v)}) => OneOf(toWinman', {Msg(s, v)})
      /\ press' \in Win \cup {None}
  BY <1>3, <1>4, WinAssumption DEF TypeOK
<1> QED BY <1>2, <1>3, <1>4, <1>5, JobAsked

LEMMA HearJobKeysKeep ==
  ASSUME IInv, HearBottomKey \/ HearSecondKey \/ HearMoveKey, UNCHANGED client
  PROVE  IInv'
<1>1. stack \in Seq(Win) /\ (stack # <<>> => Top \in ToSet(stack))
  BY Shape DEF IInv
<1>2. stack # <<>> => Last(stack) \in ToSet(stack)
  <2>1. stack # <<>> => Len(stack) \in 1 .. Len(stack)
    BY <1>1
  <2> QED BY <1>1, <2>1, MembersOf DEF Last
<1>3. stack # <<>> => (IF Len(stack) = 1 THEN Top ELSE stack[2]) \in ToSet(stack)
  <2>1. stack # <<>> => Len(stack) \in Nat /\ Len(stack) # 0
    BY <1>1
  <2>2. stack # <<>> /\ Len(stack) # 1 => 2 \in 1 .. Len(stack)
    <3>1. \A n \in Nat : n # 0 /\ n # 1 => 2 \in 1 .. n
      OBVIOUS
    <3> QED BY <2>1, <3>1
  <2> QED BY <1>1, <2>2, MembersOf
<1>4. CASE HearBottomKey
  BY <1>2, <1>4, HearJobKeyKeeps DEF HearBottomKey, FunctionKeys
<1>5. CASE HearSecondKey
  BY <1>3, <1>5, HearJobKeyKeeps DEF HearSecondKey, FunctionKeys
<1>6. CASE HearMoveKey
  BY <1>1, <1>6, HearJobKeyKeeps DEF HearMoveKey, FunctionKeys
<1> QED BY <1>4, <1>5, <1>6

(* F12: the task of the top is asked to close its window.                  *)
LEMMA CloseKeyAsks ==
  ASSUME IInv, stack # <<>>, Top # pokon0, UNCHANGED winmanVars, UNCHANGED <<client, damaged, frame>>,
         Phase(Top) # "ending", ~ Told(toTask[Top], "close"),
         toTask' = [toTask EXCEPT ![Top] = Append(@, Order("close"))],
         toWinman' \in Seq(Messages), BoxOK(toWinman'),
         \A k : ~ Waiting(toWinman', k, None),
         \A v \in Win : /\ \A s : Waiting(toWinman', s, v) <=> Waiting(toWinman, s, v)
                        /\ \A s : OneOf(toWinman, {Msg(s, v)}) => OneOf(toWinman', {Msg(s, v)})
  PROVE  IInv'
<1> USE DEF IInv
<1>1. PICK w \in Win : w = Top /\ w \in ToSet(stack) /\ w # pokon0
  BY Shape
<1>2. toTask \in [Win -> Seq(Orders)] /\ toTask[w] \in Seq(Orders) /\ Order("close") \in Orders
  BY Shape DEF Order, Orders
<1>3. toTask' = [toTask EXCEPT ![w] = Append(toTask[w], Order("close"))]
  BY <1>1
<1>4. /\ toTask'[w] \in Seq(Orders)
      /\ \A s : Told(toTask'[w], s) <=> Told(toTask[w], s) \/ s = "close"
      /\ \A k \in Kinds : /\ Asked(toTask'[w], k) <=> Asked(toTask[w], k)
                          /\ AskedOnce(toTask'[w], k) <=> AskedOnce(toTask[w], k)
      /\ ~ Told(toTask[w], "closed") /\ ToldOnce(toTask[w]) => Orderly(toTask'[w])
  <2> DEFINE longer == Append(toTask[w], Order("close"))
  <2>1. /\ longer \in Seq(Orders)
        /\ \A s : Told(longer, s) <=> Told(toTask[w], s) \/ s = Order("close").sig
        /\ \A k : Asked(longer, k) <=> Asked(toTask[w], k) \/ Order("close").sig \in Asking(k)
        /\ \A k : AskedOnce(longer, k) <=>
             AskedOnce(toTask[w], k) /\ ~ (Order("close").sig \in Asking(k) /\ Asked(toTask[w], k))
        /\ ToldOnce(longer) <=>
             ToldOnce(toTask[w]) /\ ~ (Order("close").sig = "close" /\ Told(toTask[w], "close"))
        /\ Orderly(longer) <=> ToldOnce(longer) /\ ~ Told(toTask[w], "closed")
    BY <1>2, MailAdd
  <2>2. Order("close").sig = "close" /\ \A k : "close" \notin Asking(k)
    BY DEF Order, Asking
  <2>3. toTask'[w] = longer
    BY <1>2, <1>3
  <2> HIDE DEF longer
  <2> QED BY <1>1, <2>1, <2>2, <2>3
<1>5. \A v \in Win : v # w => toTask'[v] = toTask[v]
  BY <1>2, <1>3
<1>6. toTask' \in [Win -> Seq(Orders)]
  BY <1>2, <1>3, <1>4, <1>5
<1>7. TaskShape'
  BY <1>6 DEF TaskShape, TypeOK
<1>8. \A v \in Win, k \in Kinds : /\ Asked(toTask'[v], k) <=> Asked(toTask[v], k)
                                  /\ AskedOnce(toTask'[v], k) <=> AskedOnce(toTask[v], k)
  BY <1>4, <1>5
<1>9. DuesHold
  BY <1>8, KeysOwe
<1>10. UNCHANGED <<stack, unuse, closing, list, pokon0, job_flag0>>
  BY DEF winmanVars
<1>11. \A v \in Win : Phase(v)' = Phase(v) /\ Opening(v)' = Opening(v) /\ Hidden(v)' = Hidden(v)
  BY <1>10 DEF Phase, Opening, Hidden
<1>12. /\ Phase(w) # "none" /\ ~ Told(toTask[w], "closed") /\ ~ Opening(w) /\ w \notin ToSet(unuse)
       /\ ToldOnce(toTask[w]) /\ Phase(w) # "ending"
  BY <1>1, MailLast DEF LifeInv, Life, SlotsInv
<1>13. LifeInv'
  <2>1. ASSUME NEW v \in Win, v # w
        PROVE  Life(v)'
    BY <1>5, <1>10, <1>11, <2>1 DEF LifeInv, Life
  <2>2. Life(w)'
    BY <1>1, <1>4, <1>10, <1>11, <1>12 DEF LifeInv, Life
  <2> QED BY <2>1, <2>2 DEF LifeInv
<1>14. AskInv'
  <2>1. ~ Waiting(toWinman, "open", w)
    <3>1. unuse # <<>> => Head(unuse) \in ToSet(unuse)
      BY Shape, RingRest
    <3> QED BY <1>12, <3>1 DEF AskInv
  <2> QED BY <1>5, <1>10, <1>11, <2>1 DEF AskInv
<1>15. ShellInv'
  <2>1. /\ \A v \in Win : Told(toTask'[v], "close") => v # pokon0'
    BY <1>1, <1>4, <1>5, <1>10 DEF ShellInv
  <2>2. pokon0' \in ToSet(stack') /\ Phase(pokon0)' = "open" /\ iactive' = Top' /\ stack' # <<>>
    BY <1>10 DEF ShellInv, winmanVars, Top, Phase
  <2> QED BY <2>1, <2>2 DEF ShellInv
<1> QED BY <1>7, <1>9, <1>13, <1>14, <1>15, TaskKeeps

LEMMA HearCloseKeyKeeps ==
  ASSUME IInv, HearCloseKey, UNCHANGED client
  PROVE  IInv'
<1> USE DEF IInv
<1>1. Hears("F12") /\ toWinman' = Tail(toWinman)
  BY DEF HearCloseKey
<1>2. PICK sig \in FunctionKeys : sig = "F12"
  BY DEF FunctionKeys
<1>3. Hears(sig)
  BY <1>1, <1>2
<1>4. stack # <<>>
  BY <1>3, KeyWaits DEF KeysInv
<1>5. /\ toWinman' \in Seq(Messages) /\ BoxOK(toWinman')
      /\ \A k : ~ Waiting(toWinman', k, None)
      /\ \A s, v : v # None => (Waiting(toWinman', s, v) <=> Waiting(toWinman, s, v))
      /\ \A s, v : OneOf(toWinman, {Msg(s, v)}) => OneOf(toWinman', {Msg(s, v)})
  BY <1>1, <1>3, KeyHeard
<1>6. \A v \in Win : /\ \A s : Waiting(toWinman', s, v) <=> Waiting(toWinman, s, v)
                     /\ \A s : OneOf(toWinman, {Msg(s, v)}) => OneOf(toWinman', {Msg(s, v)})
  BY <1>5, WinAssumption
<1>7. UNCHANGED winmanVars /\ UNCHANGED <<damaged, frame>>
  BY DEF HearCloseKey, keyRest, winmanVars, screenVars
<1>8. CASE UNCHANGED toTask
  <2>1. BoxOnly
    BY <1>5, <1>6, <1>7, <1>8 DEF BoxOnly, winmanVars, TypeOK
  <2>2. KeysInv'
    BY <1>4, <1>5, <1>7 DEF KeysInv, FunctionKeys, winmanVars
  <2> QED BY <2>1, <2>2, BoxOnlyKeeps
<1>9. CASE Top # pokon0 /\ toTask' = [toTask EXCEPT ![Top] = Append(@, Order("close"))]
  <2>1. Waiting(toWinman, "F12", None)
    BY <1>2, <1>3, KeyWaits
  <2>2. Phase(Top) # "ending" /\ ~ Told(toTask[Top], "close")
    BY <2>1 DEF KeysInv
  <2> QED BY <1>4, <1>5, <1>6, <1>7, <1>9, <2>2, CloseKeyAsks
<1> QED BY <1>8, <1>9 DEF HearCloseKey

-----------------------------------------------------------------------------
(* How a move goes on.                                                     *)
LEMMA PairsCount ==
  ASSUME NEW S, IsFiniteSet(S), NEW kind
  PROVE  Cardinality({ <<v, kind[v]>> : v \in S }) = Cardinality(S)
<1> DEFINE D == { <<v, kind[v]>> : v \in S }
           f == [v \in S |-> <<v, kind[v]>>]
<1>1. f \in [S -> D]
  OBVIOUS
<1>2. ASSUME NEW a \in S, NEW b \in S, f[a] = f[b]
      PROVE  a = b
  BY <1>2
<1>3. ASSUME NEW d \in D
      PROVE  \E a \in S : f[a] = d
  BY <1>3
<1>4. f \in Bijection(S, D)
  BY <1>1, <1>2, <1>3 DEF Bijection, Injection, Surjection, IsInjective
<1> HIDE DEF D, f
<1>5. ExistsBijection(S, D)
  BY <1>4 DEF ExistsBijection
<1>6. Cardinality(D) = Cardinality(S)
  BY <1>5, FS_Bijection
<1> QED BY <1>6 DEF D

(* Where a move is when its frame is shown and no answer is awaited.       *)
LEMMA Moving ==
  ASSUME IInv, job.ready
  PROVE  /\ job.now = "move" /\ job.win = Top /\ Top \in ToSet(stack) /\ stack # <<>>
         /\ job.func \in {"movewin1", "movewin6"}
         /\ \A v \in Win : job_flag0[v] \cap Waits = {}
<1> USE DEF IInv
<1>1. job \in Progress /\ job.now # "none" /\ stack # <<>>
  BY Shape DEF JobInv
<1>2. job.func \in {"movewin1", "movewin6"}
  BY <1>1 DEF JobInv, Progress
<1>3. job.now = "move" /\ job.win = Top
  BY <1>2 DEF JobInv
<1>4. \A v \in Win : job_flag0[v] \cap Waits = {}
  BY <1>2 DEF JobInv
<1> QED BY <1>1, <1>2, <1>3, <1>4, Shape

(* job_movewin5: who is met by the frame (m) is asked to stop, who is left *)
(* by it (l) to draw what changed.                                         *)
Steps(m, l, p) ==
  LET n == Cardinality(m \cup l) IN
  /\ m \in SUBSET ToSet(stack) /\ l \in SUBSET ToSet(stack) /\ m \cap l = {}
  /\ job' = [job EXCEPT !.pos = p, !.count = n, !.func = IF n = 0 THEN @ ELSE "movewin6"]
  /\ job_flag0' = [v \in Win |-> IF v \in m THEN job_flag0[v] \cup {"override"}
                                 ELSE IF v \in l THEN job_flag0[v] \ {"override"}
                                 ELSE job_flag0[v]]
  /\ toTask' = [v \in Win |->
                  IF v \in m THEN Append(toTask[v], Order("disable"))
                  ELSE IF v \in l THEN toTask[v] \o <<Order("enable"), Order("redrawdif")>>
                  ELSE toTask[v]]
  /\ frame' = FrameAt(n, p)

LEMMA MetAndLeft ==
  ASSUME TypeOK, NEW p \in Place, MoveFrame(p)
  PROVE  \E m, l : Steps(m, l, p)
<1> DEFINE shown == { v \in Open : "show" \in condition[v] }
           m == { v \in shown : Overlap(place[v], p) /\ "override" \notin job_flag0[v] }
           l == { v \in shown : ~ Overlap(place[v], p) /\ "override" \in job_flag0[v] }
<1>1. m \in SUBSET ToSet(stack) /\ l \in SUBSET ToSet(stack) /\ m \cap l = {}
  BY Shape
<1>2. Steps(m, l, p)
  BY <1>1 DEF MoveFrame, Steps
<1> QED BY <1>2

(* What the two kinds of windows have been told.                           *)
LEMMA MetTold ==
  ASSUME NEW q \in Seq(Orders)
  PROVE  LET t == Append(q, Order("disable")) IN
         /\ t \in Seq(Orders) /\ \A s \in {"close", "closed"} : Told(t, s) <=> Told(q, s)
         /\ Asked(t, "stopped")
         /\ \A k \in Kinds : ~ Asked(q, k) => (Asked(t, k) <=> k = "stopped")
         /\ \A k \in Kinds : ~ Asked(q, k) /\ AskedOnce(q, k) => AskedOnce(t, k)
         /\ ToldOnce(q) => ToldOnce(t)
<1> DEFINE t == Append(q, Order("disable"))
<1>1. Order("disable") \in Orders /\ Order("disable").sig = "disable"
  BY DEF Order, Orders
<1>2. /\ t \in Seq(Orders)
      /\ \A s : Told(t, s) <=> Told(q, s) \/ s = "disable"
      /\ \A k : Asked(t, k) <=> Asked(q, k) \/ "disable" \in Asking(k)
      /\ \A k : AskedOnce(t, k) <=> AskedOnce(q, k) /\ ~ ("disable" \in Asking(k) /\ Asked(q, k))
      /\ ToldOnce(t) <=> ToldOnce(q) /\ ~ ("disable" = "close" /\ Told(q, "close"))
  BY <1>1, MailAdd
<1>3. \A k \in Kinds : "disable" \in Asking(k) <=> k = "stopped"
  BY DEF Kinds, Asking
<1>4. "stopped" \in Kinds
  BY DEF Kinds
<1> HIDE DEF t
<1>5. /\ t \in Seq(Orders) /\ \A s \in {"close", "closed"} : Told(t, s) <=> Told(q, s)
  BY <1>2
<1>6. Asked(t, "stopped")
  BY <1>2, <1>3, <1>4
<1>7. \A k \in Kinds : ~ Asked(q, k) => (Asked(t, k) <=> k = "stopped")
  BY <1>2, <1>3
<1>8. \A k \in Kinds : ~ Asked(q, k) /\ AskedOnce(q, k) => AskedOnce(t, k)
  BY <1>2
<1>9. ToldOnce(q) => ToldOnce(t)
  BY <1>2
<1> QED BY <1>5, <1>6, <1>7, <1>8, <1>9 DEF t

LEMMA LeftTold ==
  ASSUME NEW q \in Seq(Orders)
  PROVE  LET t == q \o <<Order("enable"), Order("redrawdif")>> IN
         /\ t \in Seq(Orders) /\ \A s \in {"close", "closed"} : Told(t, s) <=> Told(q, s)
         /\ \A k \in Kinds : ~ Asked(q, k) => (Asked(t, k) <=> k = "drawn")
         /\ \A k \in Kinds : ~ Asked(q, k) /\ AskedOnce(q, k) => AskedOnce(t, k)
         /\ ToldOnce(q) => ToldOnce(t)
<1> DEFINE a == Order("enable")
           b == Order("redrawdif")
           r == Append(q, a)
           t == Append(r, b)
<1>1. a \in Orders /\ a.sig = "enable" /\ b \in Orders /\ b.sig = "redrawdif"
  BY DEF Order, Orders
<1> HIDE DEF a, b
<1>2. q \o <<a, b>> = t
  BY <1>1
<1>3. /\ r \in Seq(Orders)
      /\ \A s : Told(r, s) <=> Told(q, s) \/ s = "enable"
      /\ \A k : Asked(r, k) <=> Asked(q, k) \/ "enable" \in Asking(k)
      /\ \A k : AskedOnce(r, k) <=> AskedOnce(q, k) /\ ~ ("enable" \in Asking(k) /\ Asked(q, k))
      /\ ToldOnce(r) <=> ToldOnce(q) /\ ~ ("enable" = "close" /\ Told(q, "close"))
  BY <1>1, MailAdd
<1> HIDE DEF r
<1>4. /\ t \in Seq(Orders)
      /\ \A s : Told(t, s) <=> Told(r, s) \/ s = "redrawdif"
      /\ \A k : Asked(t, k) <=> Asked(r, k) \/ "redrawdif" \in Asking(k)
      /\ \A k : AskedOnce(t, k) <=> AskedOnce(r, k) /\ ~ ("redrawdif" \in Asking(k) /\ Asked(r, k))
      /\ ToldOnce(t) <=> ToldOnce(r) /\ ~ ("redrawdif" = "close" /\ Told(r, "close"))
  BY <1>1, <1>3, MailAdd
<1>5. \A k \in Kinds : "enable" \notin Asking(k) /\ ("redrawdif" \in Asking(k) <=> k = "drawn")
  BY DEF Kinds, Asking
<1> HIDE DEF t
<1>6. /\ t \in Seq(Orders) /\ \A s \in {"close", "closed"} : Told(t, s) <=> Told(q, s)
  BY <1>3, <1>4
<1>7. \A k \in Kinds : ~ Asked(q, k) => (Asked(t, k) <=> k = "drawn")
  BY <1>3, <1>4, <1>5
<1>8. \A k \in Kinds : ~ Asked(q, k) /\ AskedOnce(q, k) => AskedOnce(t, k)
  BY <1>3, <1>4, <1>5
<1>9. /\ t \in Seq(Orders) /\ \A s \in {"close", "closed"} : Told(t, s) <=> Told(q, s)
      /\ \A k \in Kinds : ~ Asked(q, k) => (Asked(t, k) <=> k = "drawn")
      /\ \A k \in Kinds : ~ Asked(q, k) /\ AskedOnce(q, k) => AskedOnce(t, k)
      /\ ToldOnce(q) => ToldOnce(t)
  BY <1>3, <1>4, <1>6, <1>7, <1>8
<1> QED BY <1>2, <1>9 DEF a, b

(* No key waits after the step, and else the box holds what it held.       *)
KeysGone ==
  /\ UNCHANGED client /\ press' \in Win \cup {None}
  /\ toWinman' \in Seq(Messages) /\ BoxOK(toWinman')
  /\ \A k : ~ Waiting(toWinman', k, None)
  /\ \A v \in Win : \A s : Waiting(toWinman', s, v) <=> Waiting(toWinman, s, v)
  /\ \A v \in Win : \A s : OneOf(toWinman, {Msg(s, v)}) => OneOf(toWinman', {Msg(s, v)})

(* What is due after a step of the frame that met m and left l.            *)
Owing(m, l) ==
  /\ toTask' \in [Win -> Seq(Orders)]
  /\ Cardinality(m \cup l) \in Nat
  /\ Cardinality(m \cup l) = 0 <=> m \cup l = {}
  /\ Cardinality(Dues)' = Cardinality(m \cup l)
  /\ \A v \in Win :
       /\ \A s \in {"close", "closed"} : Told(toTask'[v], s) <=> Told(toTask[v], s)
       /\ v \notin m \cup l => toTask'[v] = toTask[v]
       /\ ToldOnce(toTask[v]) => ToldOnce(toTask'[v])
  /\ \A v \in Win, k \in Kinds :
       /\ DueOf(v, k)' <=> (v \in m /\ k = "stopped") \/ (v \in l /\ k = "drawn")
       /\ DueOnce(toTask[v], client[v].drawing, toWinman, v, k)'

LEMMA StepOwes ==
  ASSUME IInv, job.count = 0, NEW p, NEW m, NEW l, Steps(m, l, p), KeysGone
  PROVE  Owing(m, l)
<1> USE DEF IInv
<1>1. toTask \in [Win -> Seq(Orders)] /\ ToSet(stack) \subseteq Win
  BY Shape
<1>2. /\ m \subseteq Win /\ l \subseteq Win /\ m \cap l = {}
      /\ toTask' = [v \in Win |->
                     IF v \in m THEN Append(toTask[v], Order("disable"))
                     ELSE IF v \in l THEN toTask[v] \o <<Order("enable"), Order("redrawdif")>>
                     ELSE toTask[v]]
  BY <1>1 DEF Steps
<1>3. \A v \in Win, k \in Kinds :
        /\ ~ Asked(toTask[v], k) /\ AskedOnce(toTask[v], k)
        /\ ~ Draws(client[v].drawing, k) /\ ~ Waiting(toWinman, k, v)
  BY NothingDue
<1>4. ASSUME NEW v \in Win
      PROVE  /\ toTask'[v] \in Seq(Orders)
             /\ \A s \in {"close", "closed"} : Told(toTask'[v], s) <=> Told(toTask[v], s)
             /\ v \notin m \cup l => toTask'[v] = toTask[v]
             /\ ToldOnce(toTask[v]) => ToldOnce(toTask'[v])
             /\ \A k \in Kinds :
                  /\ Asked(toTask'[v], k) <=> (v \in m /\ k = "stopped") \/ (v \in l /\ k = "drawn")
                  /\ AskedOnce(toTask'[v], k)
  <2> DEFINE q == toTask[v]
  <2>1. q \in Seq(Orders) /\ \A k \in Kinds : ~ Asked(q, k) /\ AskedOnce(q, k)
    BY <1>1, <1>3
  <2>2. CASE v \in m
    <3> DEFINE t == Append(q, Order("disable"))
    <3>1. t \in Seq(Orders) /\ \A s \in {"close", "closed"} : Told(t, s) <=> Told(q, s)
      BY <2>1, MetTold
    <3>2. \A k \in Kinds : Asked(t, k) <=> k = "stopped"
      BY <2>1, MetTold
    <3>3. (\A k \in Kinds : AskedOnce(t, k)) /\ (ToldOnce(q) => ToldOnce(t))
      BY <2>1, MetTold
    <3>4. toTask'[v] = t /\ v \notin l
      BY <1>2, <2>2
    <3> HIDE DEF t, q
    <3> QED BY <2>2, <3>1, <3>2, <3>3, <3>4 DEF q
  <2>3. CASE v \in l
    <3> DEFINE t == q \o <<Order("enable"), Order("redrawdif")>>
    <3>1. t \in Seq(Orders) /\ \A s \in {"close", "closed"} : Told(t, s) <=> Told(q, s)
      BY <2>1, LeftTold
    <3>2. \A k \in Kinds : Asked(t, k) <=> k = "drawn"
      BY <2>1, LeftTold
    <3>3. (\A k \in Kinds : AskedOnce(t, k)) /\ (ToldOnce(q) => ToldOnce(t))
      BY <2>1, LeftTold
    <3>4. toTask'[v] = t /\ v \notin m
      BY <1>2, <2>3
    <3> HIDE DEF t, q
    <3> QED BY <2>3, <3>1, <3>2, <3>3, <3>4 DEF q
  <2>4. CASE v \notin m /\ v \notin l
    <3>1. toTask'[v] = q
      BY <1>2, <2>4
    <3> QED BY <2>1, <2>4, <3>1
  <2> QED BY <2>2, <2>3, <2>4
<1>5. toTask' \in [Win -> Seq(Orders)]
  BY <1>2, <1>4
<1>6. ASSUME NEW v \in Win, NEW k \in Kinds
      PROVE  /\ DueOf(v, k)' <=> (v \in m /\ k = "stopped") \/ (v \in l /\ k = "drawn")
             /\ DueOnce(toTask[v], client[v].drawing, toWinman, v, k)'
  <2>1. ~ Draws(client'[v].drawing, k) /\ ~ Waiting(toWinman', k, v)
    BY <1>3 DEF KeysGone
  <2>2. OneOf(toWinman', {Msg(k, v)})
    BY DEF KeysGone, OwedInv, Awaited, DueOnce
  <2>3. /\ Asked(toTask'[v], k) <=> (v \in m /\ k = "stopped") \/ (v \in l /\ k = "drawn")
        /\ AskedOnce(toTask'[v], k)
    BY <1>4
  <2> QED BY <2>1, <2>2, <2>3 DEF DueOf, Due, DueOnce
<1>7. IsFiniteSet(m \cup l)
  BY <1>2, WinAssumption, FS_Subset
<1>8. Cardinality(m \cup l) \in Nat /\ (Cardinality(m \cup l) = 0 <=> m \cup l = {})
  BY <1>7, FS_CardinalityType, FS_EmptySet
<1>9. Cardinality(Dues)' = Cardinality(m \cup l)
  <2> DEFINE kind == [v \in m \cup l |-> IF v \in m THEN "stopped" ELSE "drawn"]
             D == { <<v, kind[v]>> : v \in m \cup l }
  <2>1. Cardinality(D) = Cardinality(m \cup l)
    BY <1>7, PairsCount
  <2>2. Dues' = { wk \in Win \X Kinds : DueOf(wk[1], wk[2])' }
    BY DEF Dues
  <2>3. ASSUME NEW wk \in Win \X Kinds
        PROVE  DueOf(wk[1], wk[2])' <=> wk \in D
    <3>1. PICK v \in Win, k \in Kinds : wk = <<v, k>>
      OBVIOUS
    <3>2. DueOf(v, k)' <=> (v \in m /\ k = "stopped") \/ (v \in l /\ k = "drawn")
      BY <1>6
    <3>3. wk \in D <=> v \in m \cup l /\ k = kind[v]
      BY <3>1
    <3>4. v \in m \cup l /\ k = kind[v] <=> (v \in m /\ k = "stopped") \/ (v \in l /\ k = "drawn")
      BY <1>2
    <3> QED BY <3>1, <3>2, <3>3, <3>4
  <2>4. D \subseteq Win \X Kinds
    <3>1. \A v \in m \cup l : v \in Win /\ kind[v] \in Kinds
      BY <1>2 DEF Kinds
    <3> HIDE DEF kind
    <3> QED BY <3>1
  <2> HIDE DEF D
  <2>5. Dues' = D
    BY <2>2, <2>3, <2>4
  <2> QED BY <2>1, <2>5
<1> QED BY <1>4, <1>5, <1>6, <1>8, <1>9 DEF Owing

LEMMA MoveFrameKeeps ==
  ASSUME IInv, job.ready, job.count = 0, NEW p \in Place, MoveFrame(p), KeysGone,
         UNCHANGED moveRest
  PROVE  IInv'
<1> USE DEF IInv
<1>1. PICK m, l : Steps(m, l, p)
  BY MetAndLeft
<1>2. /\ job.now = "move" /\ job.win = Top /\ stack # <<>>
      /\ job.func \in {"movewin1", "movewin6"}
      /\ \A v \in Win : job_flag0[v] \cap Waits = {}
  BY Moving
<1> DEFINE n == Cardinality(m \cup l)
<1>3. /\ toTask' \in [Win -> Seq(Orders)]
      /\ n \in Nat /\ (n = 0 <=> m \cup l = {}) /\ Cardinality(Dues)' = n
      /\ \A v \in Win :
           /\ \A s \in {"close", "closed"} : Told(toTask'[v], s) <=> Told(toTask[v], s)
           /\ v \notin m \cup l => toTask'[v] = toTask[v]
           /\ ToldOnce(toTask[v]) => ToldOnce(toTask'[v])
      /\ \A v \in Win, k \in Kinds :
           /\ DueOf(v, k)' <=> (v \in m /\ k = "stopped") \/ (v \in l /\ k = "drawn")
           /\ DueOnce(toTask[v], client[v].drawing, toWinman, v, k)'
  <2>1. Owing(m, l)
    BY <1>1, StepOwes
  <2> QED BY <2>1 DEF Owing
<1>4. /\ m \subseteq ToSet(stack) /\ l \subseteq ToSet(stack)
      /\ job' = [job EXCEPT !.pos = p, !.count = n, !.func = IF n = 0 THEN @ ELSE "movewin6"]
      /\ job_flag0' = [v \in Win |-> IF v \in m THEN job_flag0[v] \cup {"override"}
                                     ELSE IF v \in l THEN job_flag0[v] \ {"override"}
                                     ELSE job_flag0[v]]
      /\ frame' = FrameAt(n, p)
  BY <1>1 DEF Steps
<1> HIDE DEF n
<1>5. UNCHANGED <<stack, place, condition, iactive, keys, damaged>>
  BY DEF MoveFrame
<1>6. /\ UNCHANGED <<unuse, closing, pokon0, list, wild, client>> /\ press' \in Win \cup {None}
      /\ toWinman' \in Seq(Messages) /\ BoxOK(toWinman') /\ \A k : ~ Waiting(toWinman', k, None)
  BY DEF moveRest, KeysGone
<1>7. /\ job' \in Progress /\ job'.count = n /\ job'.ready
      /\ job'.now = "move" /\ job'.win = Top /\ job'.func \in {"movewin1", "movewin6"}
      /\ job'.func = "movewin1" => n = 0
  <2>1. job \in Progress
    BY Shape
  <2> DEFINE f == IF n = 0 THEN job.func ELSE "movewin6"
             a == [job EXCEPT !.pos = p]
             b == [a EXCEPT !.count = n]
  <2>2. f \in {"movewin1", "movewin6"} /\ (f = "movewin1" => n = 0)
    BY <1>2
  <2>3. a \in Progress /\ a.now = "move" /\ a.win = Top /\ a.ready /\ a.func = job.func
    BY <1>2, <2>1 DEF Progress
  <2> HIDE DEF a
  <2>4. /\ b \in Progress /\ b.now = "move" /\ b.win = Top /\ b.ready /\ b.count = n
        /\ b.func = job.func
    <3>1. n \in Nat
      BY <1>3
    <3> QED BY ONLY <2>3, <3>1 DEF Progress
  <2>5. job' = [b EXCEPT !.func = f]
    BY <1>4, <2>4 DEF a
  <2> HIDE DEF b, f
  <2> QED BY <2>2, <2>4, <2>5 DEF Progress
<1>8. /\ job_flag0' \in [Win -> SUBSET Bits]
      /\ \A v \in Win :
           /\ job_flag0'[v] \cap Waits = {}
           /\ "nowindow" \in job_flag0'[v] <=> "nowindow" \in job_flag0[v]
           /\ v \notin m \cup l => job_flag0'[v] = job_flag0[v]
  BY <1>2, <1>4 DEF TypeOK, Bits, Waits
<1>9. frame' \in SUBSET Place
  <2>1. job.pos \in Place /\ frame \in SUBSET Place
    BY Shape DEF Progress, TypeOK
  <2>2. Frame(frame, job.pos) \in SUBSET Place
    BY <2>1, FrameTypes
  <2>3. Frame(Frame(frame, job.pos), p) \in SUBSET Place
    BY <2>2, FrameTypes
  <2> QED BY <1>4, <2>2, <2>3 DEF FrameAt
<1>10. TypeOK'
  BY <1>3, <1>5, <1>6, <1>7, <1>8, <1>9 DEF TypeOK, Messages
<1>11. Top' = Top /\ iactive' = Top' /\ stack' # <<>>
  BY <1>2, <1>5 DEF ShellInv, Top
<1>12. KeysInv'
  BY <1>6, <1>11 DEF KeysInv, FunctionKeys
<1>13. JobInv'
  <2>1. wild' = FALSE
    BY <1>6 DEF JobInv
  <2>2. job'.func = "movewin1" => job'.count = 0
    BY <1>3, <1>7
  <2>3. \A v \in Win : job_flag0'[v] \cap Waits = {}
    BY <1>8
  <2> QED BY <1>7, <1>11, <2>1, <2>2, <2>3 DEF JobInv
<1>14. OwedInv'
  <2>1. ASSUME NEW v \in Win, NEW k \in Kinds
        PROVE  Awaited(v, k)'
    <3>1. DueOf(v, k)' => v \in m \cup l
      BY <1>3
    <3>2. DueOf(v, k)' => v \in ToSet(stack') /\ job'.func # "movewin1"
      BY <1>3, <1>4, <1>5, <1>7, <3>1
    <3> QED BY <1>3, <1>7, <3>2 DEF Awaited
  <2> QED BY <1>3, <1>7, <2>1 DEF OwedInv
<1>15. PictureOnly
  <2>1. stack' \in Seq(Win) /\ IsInjective(stack') /\ list' \in Seq(Jobs) /\ ListOK(list')
    BY <1>5, <1>6, Shape DEF SlotsInv, JobsInv
  <2>2. \A v \in Win :
          /\ Waiting(toWinman', "open", v) <=> Waiting(toWinman, "open", v)
          /\ Waiting(toWinman', "close", v) <=> Waiting(toWinman, "close", v)
    BY DEF KeysGone
  <2>3. \A v \in Win :
          /\ Told(toTask'[v], "close") <=> Told(toTask[v], "close")
          /\ Told(toTask'[v], "closed") <=> Told(toTask[v], "closed")
          /\ ToldOnce(toTask[v]) => ToldOnce(toTask'[v])
          /\ v \notin ToSet(stack) => toTask'[v] = toTask[v] /\ job_flag0'[v] = job_flag0[v]
    BY <1>3, <1>4, <1>8
  <2>4. \A v \in Win :
          /\ "nowindow" \in job_flag0'[v] => "nowindow" \in job_flag0[v]
          /\ \A c : InJobs(list', c, v) <=> InJobs(list, c, v)
    BY <1>6, <1>8
  <2>5. ToSet(stack') = ToSet(stack)
    BY <1>5
  <2> QED BY <1>2, <1>3, <1>6, <1>11, <2>1, <2>2, <2>3, <2>4, <2>5 DEF PictureOnly
<1> QED BY <1>10, <1>12, <1>13, <1>14, <1>15, PictureKeeps

(* A move ends: the window is where the frame was, and is drawn there.     *)
LEMMA FinishMoveKeeps ==
  ASSUME IInv, job.ready, job.count = 0, FinishMove, KeysGone, UNCHANGED moveRest
  PROVE  IInv'
<1> USE DEF IInv
<1>1. /\ job.now = "move" /\ job.win = Top /\ Top \in ToSet(stack) /\ stack # <<>>
      /\ \A v \in Win : job_flag0[v] \cap Waits = {}
  BY Moving
<1>2. PICK w \in Win : w = job.win /\ w = Top /\ w \in ToSet(stack)
  BY <1>1, Shape
<1> DEFINE marks == [v \in Win |->
                       IF v = w \/ (v \in Open /\ "show" \notin condition[v]
                                    /\ Overlap(place[w], place[v]))
                       THEN job_flag0[v] \cup {"must"} ELSE job_flag0[v]]
           j == [job EXCEPT !.ready = FALSE]
<1>3. /\ stack' = stack /\ iactive' = w /\ keys' = FunctionKeys
      /\ place' = [place EXCEPT ![w] = job.pos]
      /\ damaged' = damaged \cup { v \in ToSet(stack) : Overlap(place[w], place[v]) }
      /\ UNCHANGED frame
      /\ General1(condition, marks, toTask, j)
  BY <1>2 DEF FinishMove, RedirectInput, Wallpaper
<1>4. /\ UNCHANGED <<unuse, closing, pokon0, list, wild, client>> /\ press' \in Win \cup {None}
      /\ toWinman' \in Seq(Messages) /\ BoxOK(toWinman') /\ \A k : ~ Waiting(toWinman', k, None)
  BY DEF moveRest, KeysGone
<1>5. /\ toTask \in [Win -> Seq(Orders)] /\ job_flag0 \in [Win -> SUBSET Bits]
      /\ condition \in [Win -> SUBSET Condition] /\ job \in Progress
      /\ stack \in Seq(Win) /\ IsInjective(stack) /\ Open = ToSet(stack) /\ ToSet(stack) \subseteq Win
  BY Shape DEF TypeOK, SlotsInv
<1>6. /\ marks \in [Win -> SUBSET Bits]
      /\ \A v \in Win :
           /\ marks[v] \cap Waits = {}
           /\ "nowindow" \in marks[v] => "nowindow" \in job_flag0[v]
           /\ v \notin ToSet(stack) => marks[v] = job_flag0[v]
  BY <1>1, <1>2, <1>5 DEF Bits, Waits
<1>7. j \in Progress /\ j.now # "none" /\ ~ j.ready
  BY <1>1, <1>5 DEF Progress
<1> HIDE DEF marks, j
<1>8. \A v \in Win, k \in Kinds :
        /\ ~ Asked(toTask[v], k) /\ AskedOnce(toTask[v], k)
        /\ ~ Draws(client[v].drawing, k) /\ ~ Waiting(toWinman, k, v)
  BY NothingDue
<1>9. stack' \in Seq(Win) /\ stack' # <<>> /\ Top' = w /\ IsInjective(stack')
  BY <1>1, <1>2, <1>3, <1>5 DEF Top
<1>10. Redraws(marks, toTask, j)
  <2>1. \A v \in Win : /\ marks[v] \cap Waits = {}
                       /\ \A k \in Kinds : ~ Asked(toTask[v], k) /\ AskedOnce(toTask[v], k)
    BY <1>6, <1>8
  <2> QED BY <1>3, <1>5, <1>6, <1>7, <1>9, <2>1, General1Redraws
<1>11. JobInv' /\ OwedInv'
  <2>1. wild' = FALSE
    BY <1>4 DEF JobInv
  <2>2. \A v \in Win, k \in Kinds :
          ~ Draws(client'[v].drawing, k) /\ ~ Waiting(toWinman', k, v)
    BY <1>8 DEF KeysGone
  <2> QED BY <1>7, <1>9, <1>10, <2>1, <2>2, RedrawsOwe
<1>12. TypeOK'
  <2>1. /\ condition' \in [Win -> SUBSET Condition] /\ job_flag0' \in [Win -> SUBSET Bits]
        /\ toTask' \in [Win -> Seq(Orders)] /\ job' \in Progress
    BY <1>10 DEF Redraws
  <2>2. damaged' \subseteq Win
    BY <1>3, <1>5 DEF TypeOK
  <2>3. place' \in [Win -> Place]
    BY <1>3, <1>5 DEF TypeOK, Progress
  <2> QED BY <1>2, <1>3, <1>4, <1>9, <2>1, <2>2, <2>3 DEF TypeOK, Messages
<1>13. PictureOnly
  <2>1. iactive' = Top' /\ toTask' \in [Win -> Seq(Orders)] /\ ToSet(stack') = ToSet(stack)
    BY <1>3, <1>9, <1>10 DEF Redraws
  <2>2. ASSUME NEW v \in Win
        PROVE  /\ Told(toTask'[v], "close") <=> Told(toTask[v], "close")
               /\ Told(toTask'[v], "closed") <=> Told(toTask[v], "closed")
               /\ ToldOnce(toTask[v]) => ToldOnce(toTask'[v])
               /\ "nowindow" \in job_flag0'[v] => "nowindow" \in job_flag0[v]
               /\ v \notin ToSet(stack) => toTask'[v] = toTask[v] /\ job_flag0'[v] = job_flag0[v]
    BY <1>6, <1>10, <2>1 DEF Redraws
  <2>3. list' \in Seq(Jobs) /\ ListOK(list')
    BY <1>4, Shape DEF JobsInv
  <2>4. ASSUME NEW v \in Win
        PROVE  /\ Waiting(toWinman', "open", v) <=> Waiting(toWinman, "open", v)
               /\ Waiting(toWinman', "close", v) <=> Waiting(toWinman, "close", v)
               /\ \A c : InJobs(list', c, v) <=> InJobs(list, c, v)
    BY <1>4 DEF KeysGone
  <2>5. Top' = Top
    BY <1>2, <1>9
  <2> QED BY <1>1, <1>4, <1>9, <2>1, <2>2, <2>3, <2>4, <2>5 DEF PictureOnly
<1>14. KeysInv'
  BY <1>4, <1>9 DEF KeysInv, FunctionKeys
<1> QED BY <1>11, <1>12, <1>13, <1>14, PictureKeeps

-----------------------------------------------------------------------------
(* The keys of a move.                                                     *)
LEMMA MoveKeyHeard ==
  ASSUME IInv, NEW sig \in MoveKeys, Hears(sig), toWinman' = Tail(toWinman),
         UNCHANGED <<press, client>>
  PROVE  KeysGone /\ job.ready /\ job.count = 0 /\ job.win \in Open /\ job.win \in Win
<1> USE DEF IInv
<1>1. job.ready /\ job.count = 0
  BY KeyWaits DEF KeysInv
<1>2. job.win \in Open /\ job.win \in Win
  BY <1>1, Moving, Shape
<1>3. /\ toWinman' \in Seq(Messages) /\ BoxOK(toWinman')
      /\ \A k : ~ Waiting(toWinman', k, None)
      /\ \A s, v : v # None => (Waiting(toWinman', s, v) <=> Waiting(toWinman, s, v))
      /\ \A s, v : OneOf(toWinman, {Msg(s, v)}) => OneOf(toWinman', {Msg(s, v)})
  BY KeyHeard
<1>4. KeysGone
  BY <1>3, WinAssumption DEF KeysGone, TypeOK
<1> QED BY <1>1, <1>2, <1>4

(* A step that only takes keys from the box, or that changes nothing.      *)
LEMMA KeysGoneKeeps ==
  ASSUME IInv, KeysGone, stack # <<>> \/ keys = {},
         UNCHANGED <<stack, place, unuse, condition, job_flag0, closing, iactive, pokon0, list, job,
                     keys, wild, toTask, damaged, frame>>
  PROVE  IInv'
<1>1. BoxOnly
  BY DEF BoxOnly, KeysGone
<1>2. KeysInv'
  BY DEF KeysInv, FunctionKeys, KeysGone
<1> QED BY <1>1, <1>2, BoxOnlyKeeps

LEMMA HearArrowKeeps ==
  ASSUME IInv, HearArrow, UNCHANGED client
  PROVE  IInv'
<1>1. PICK sig \in MoveKeys : sig = "arrow"
  BY DEF MoveKeys
<1>2. Hears(sig)
  BY <1>1 DEF HearArrow
<1>3. job.win \in Open /\ job.ready
  <2>1. job.ready
    BY <1>2, KeyWaits DEF KeysInv, IInv
  <2> QED BY <2>1, Moving, Shape DEF IInv
<1>4. /\ toWinman' = Tail(toWinman) /\ UNCHANGED <<press, client>>
      /\ UNCHANGED moveRest
      /\ \E p \in Place :
           IF job.count = 0 /\ p # job.pos THEN MoveFrame(p)
           ELSE UNCHANGED <<stack, place, condition, job_flag0, iactive, keys, job, toTask, screenVars>>
  BY <1>3 DEF HearArrow
<1>5. KeysGone /\ job.ready /\ job.count = 0
  BY <1>2, <1>4, MoveKeyHeard
<1>6. CASE \E p \in Place : MoveFrame(p)
  BY <1>4, <1>5, <1>6, MoveFrameKeeps
<1>7. CASE UNCHANGED <<stack, place, condition, job_flag0, iactive, keys, job, toTask, screenVars>>
  <2>1. stack # <<>>
    BY <1>3, Moving
  <2>2. UNCHANGED <<stack, place, unuse, condition, job_flag0, closing, iactive, pokon0, list, job,
                    keys, wild, toTask, damaged, frame>>
    BY <1>4, <1>7 DEF moveRest, screenVars
  <2> QED BY <1>5, <2>1, <2>2, KeysGoneKeeps
<1> QED BY <1>4, <1>6, <1>7

LEMMA HearEnterKeeps ==
  ASSUME IInv, HearEnter, UNCHANGED client
  PROVE  IInv'
<1>1. PICK sig \in MoveKeys : sig = "enter"
  BY DEF MoveKeys
<1>2. Hears(sig)
  BY <1>1 DEF HearEnter
<1>3. job.win \in Open /\ job.ready
  <2>1. job.ready
    BY <1>2, KeyWaits DEF KeysInv, IInv
  <2> QED BY <2>1, Moving, Shape DEF IInv
<1>4. /\ toWinman' = Tail(toWinman) /\ UNCHANGED <<press, client>>
      /\ UNCHANGED moveRest /\ FinishMove
  BY <1>3 DEF HearEnter
<1>5. KeysGone /\ job.ready /\ job.count = 0
  BY <1>2, <1>4, MoveKeyHeard
<1> QED BY <1>4, <1>5, FinishMoveKeeps

LEMMA HearHolds ==
  ASSUME IInv, Room, Hear, UNCHANGED client
  PROVE  IInv'
<1>1. CASE HearOpen
  BY <1>1, HearOpenKeeps
<1>2. CASE HearClose
  BY <1>2, HearCloseKeeps
<1>3. CASE HearStopped
  <2>1. PICK sig \in Kinds : sig = "stopped"
    BY DEF Kinds
  <2>2. HearAnswer(sig, WaitFor(sig))
    BY <1>3, <2>1 DEF HearStopped, WaitFor
  <2> QED BY <2>2, HearAnswerKeeps
<1>4. CASE HearDrawn
  <2>1. PICK sig \in Kinds : sig = "drawn"
    BY DEF Kinds
  <2>2. HearAnswer(sig, WaitFor(sig))
    BY <1>4, <2>1 DEF HearDrawn, WaitFor
  <2> QED BY <2>2, HearAnswerKeeps
<1>5. CASE HearBottomKey \/ HearSecondKey \/ HearMoveKey
  BY <1>5, HearJobKeysKeep
<1>6. CASE HearCloseKey
  BY <1>6, HearCloseKeyKeeps
<1>7. CASE HearArrow
  BY <1>7, HearArrowKeeps
<1>8. CASE HearEnter
  BY <1>8, HearEnterKeeps
<1> QED BY <1>1, <1>2, <1>3, <1>4, <1>5, <1>6, <1>7, <1>8 DEF Hear, HearKey

-----------------------------------------------------------------------------
(* What a patient user does.                                               *)
LEMMA NotAsked ==
  ASSUME NEW q \in Seq(Orders), Cardinality({ i \in 1 .. Len(q) : q[i].sig = "close" }) = 0
  PROVE  ~ Told(q, "close")
<1> DEFINE I == 1 .. Len(q)
           T == { i \in I : q[i].sig = "close" }
<1>1. IsFiniteSet(T)
  <2>1. Len(q) \in Nat /\ IsFiniteSet(I)
    BY FS_Interval
  <2>2. T \subseteq I
    OBVIOUS
  <2> QED BY <2>1, <2>2, FS_Subset
<1>2. T = {}
  BY <1>1, FS_EmptySet
<1> QED BY <1>2 DEF Told, Has, OrdersOf

LEMMA PressKeeps ==
  ASSUME IInv, NEW key \in FunctionKeys \cup MoveKeys, Press(key), UNCHANGED client,
         IF key \in FunctionKeys THEN Quiet ELSE FrameShown,
         key = "F12" => TopNotAsked
  PROVE  IInv'
<1> USE DEF IInv
<1>1. toWinman \in Seq(Messages) /\ BoxOK(toWinman)
  BY Shape DEF AskInv
<1>2. /\ toWinman' = Append(toWinman, Msg(key, None)) /\ key \in keys
      /\ UNCHANGED <<winmanVars, toTask, screenVars, client>>
  BY DEF Press, Tell, Msg
<1>3. /\ \A k : ~ Waiting(toWinman, k, None)
      /\ key \in FunctionKeys =>
           list = <<>> /\ \A v : ~ Waiting(toWinman, "open", v) /\ ~ Waiting(toWinman, "close", v)
      /\ key \notin FunctionKeys => job.ready /\ job.count = 0
  BY <1>1, NoKeySent, QuietBox DEF FrameShown
<1>4. Msg(key, None) \in Messages /\ key \notin {"open", "close"}
  BY DEF Messages, Keys, Msg, FunctionKeys, MoveKeys
<1> DEFINE t == Append(toWinman, Msg(key, None))
<1>5. /\ t \in Seq(Messages)
      /\ \A s, v : Waiting(t, s, v) <=> Waiting(toWinman, s, v) \/ (s = key /\ v = None)
      /\ \A s, v : OneOf(t, {Msg(s, v)}) <=>
           OneOf(toWinman, {Msg(s, v)}) /\ ~ (s = key /\ v = None /\ Waiting(toWinman, key, None))
  BY <1>1, <1>4, BoxTell
<1>6. BoxOK(t)
  BY <1>1, <1>3, <1>4, BoxTell
<1> HIDE DEF t
<1>7. toWinman' = t
  BY <1>2 DEF t
<1>8. stack # <<>>
  BY <1>2 DEF KeysInv
<1>9. KeysInv'
  <2>1. UNCHANGED <<list, job, stack, keys, toTask, client>>
    BY <1>2 DEF winmanVars
  <2>2. \A k : Waiting(toWinman', k, None) => k = key
    BY <1>3, <1>5, <1>7
  <2>3. (\A k \in MoveKeys : k \notin FunctionKeys) /\ "F12" \in FunctionKeys
    BY DEF FunctionKeys, MoveKeys
  <2>4. ASSUME key = "F12" PROVE Phase(Top) # "ending" /\ ~ Told(toTask[Top], "close")
    <3>1. PICK w \in ToSet(stack) : w = Top /\ w \in Win /\ toTask[w] \in Seq(Orders)
      BY <1>8, Shape
    <3>2. ~ Told(toTask[w], "close")
      BY <1>8, <2>4, <3>1, NotAsked DEF TopNotAsked, CloseKeys
    <3>3. ~ InJobs(list, "close", w) /\ ~ Waiting(toWinman, "close", w)
      BY <1>3, <2>3, <2>4, HasNone DEF InJobs
    <3>4. Phase(w) # "ending"
      BY <3>1, <3>3 DEF LifeInv, Life
    <3> QED BY <3>1, <3>2, <3>4
  <2>5. Top' = Top /\ \A v : Phase(v)' = Phase(v)
    BY <2>1 DEF Top, Phase
  <2>6. Waiting(toWinman', "F12", None) => Phase(Top)' # "ending" /\ ~ Told(toTask'[Top'], "close")
    BY <2>1, <2>2, <2>4, <2>5
  <2> QED BY <1>3, <1>8, <2>1, <2>2, <2>3, <2>6 DEF KeysInv
<1>10. BoxOnly
  <2>1. \A v \in Win : /\ \A s : Waiting(toWinman', s, v) <=> Waiting(toWinman, s, v)
                       /\ \A s : OneOf(toWinman, {Msg(s, v)}) => OneOf(toWinman', {Msg(s, v)})
    BY <1>5, <1>7, WinAssumption
  <2> QED BY <1>2, <1>5, <1>6, <1>7, <2>1 DEF BoxOnly, winmanVars, screenVars, TypeOK
<1> QED BY <1>9, <1>10, BoxOnlyKeeps

LEMMA ClickKeeps ==
  ASSUME IInv, Quiet, \/ \E w \in Win : Click(w)
                      \/ PressTitle,
         UNCHANGED client
  PROVE  IInv'
<1> USE DEF IInv
<1>1. toWinman \in Seq(Messages) /\ BoxOK(toWinman) /\ Open = ToSet(stack)
  BY Shape DEF AskInv
<1>2. list = <<>> /\ \A k : ~ Waiting(toWinman, k, None)
  BY <1>1, QuietBox
<1>3. ASSUME NEW w \in Win, Click(w)
      PROVE  IInv'
  <2>1. PICK cmd \in {"activate", "move"} : cmd = "activate"
    OBVIOUS
  <2>2. w \in ToSet(stack) /\ WriteJob(cmd, w)
    BY <1>1, <1>3, <2>1 DEF Click
  <2>3. /\ UNCHANGED <<stack, place, unuse, condition, job_flag0, closing, iactive, pokon0, job,
                       keys, wild, toTask, client, damaged, frame>>
        /\ UNCHANGED <<press, toWinman>>
    BY <1>3 DEF Click, keyRest, screenVars
  <2>4. press' \in Win \cup {None}
    BY <2>3 DEF TypeOK
  <2> QED BY <1>1, <1>2, <2>1, <2>2, <2>3, <2>4, JobAsked
<1>4. ASSUME PressTitle
      PROVE  IInv'
  <2>1. PICK cmd \in {"activate", "move"} : cmd = "move"
    OBVIOUS
  <2>2. stack # <<>> /\ press' = Top /\ WriteJob(cmd, Top)
    BY <1>4, <2>1 DEF PressTitle
  <2>3. PICK w \in ToSet(stack) : w = Top /\ w \in Win
    BY <2>2, Shape
  <2>4. /\ UNCHANGED <<stack, place, unuse, condition, job_flag0, closing, iactive, pokon0, job,
                       keys, wild, toTask, client, damaged, frame>>
        /\ UNCHANGED toWinman
    BY <1>4 DEF PressTitle, screenVars
  <2>5. press' \in Win \cup {None} /\ WriteJob(cmd, w)
    BY <2>2, <2>3
  <2> QED BY <1>1, <1>2, <2>1, <2>3, <2>4, <2>5, JobAsked
<1> QED BY <1>3, <1>4

(* Nothing in the box changes, and no key is in it.                        *)
LEMMA NoKeyIsGone ==
  ASSUME IInv, FrameShown, UNCHANGED <<toWinman, client>>, press' \in Win \cup {None}
  PROVE  KeysGone /\ job.ready /\ job.count = 0
<1>1. toWinman \in Seq(Messages) /\ BoxOK(toWinman)
  BY Shape DEF IInv, AskInv
<1>2. job.ready /\ job.count = 0 /\ \A k : ~ Waiting(toWinman, k, None)
  BY <1>1, NoKeySent DEF FrameShown
<1> QED BY <1>1, <1>2 DEF KeysGone

LEMMA SteerKeeps ==
  ASSUME IInv, FrameShown, ClickEnter \/ \E p \in Place : Pointer(p), UNCHANGED client
  PROVE  IInv'
<1>1. UNCHANGED <<press, toWinman>> /\ UNCHANGED moveRest
  BY DEF ClickEnter, Pointer
<1>2. press' \in Win \cup {None}
  BY <1>1 DEF IInv, TypeOK
<1>3. KeysGone /\ job.ready /\ job.count = 0
  BY <1>1, <1>2, NoKeyIsGone
<1>4. CASE ClickEnter
  BY <1>1, <1>3, <1>4, FinishMoveKeeps DEF ClickEnter
<1>5. CASE \E p \in Place : Pointer(p)
  BY <1>1, <1>3, <1>5, MoveFrameKeeps DEF Pointer
<1> QED BY <1>4, <1>5

LEMMA ReleaseKeeps ==
  ASSUME IInv, Release, FrameShown \/ ~ (job.ready /\ press = job.win), UNCHANGED client
  PROVE  IInv'
<1>1. press' = None /\ UNCHANGED toWinman /\ UNCHANGED moveRest
  BY DEF Release
<1>2. CASE job.ready /\ press = job.win
  <2>1. FinishMove /\ FrameShown
    BY <1>2 DEF Release
  <2>2. KeysGone /\ job.ready /\ job.count = 0
    BY <1>1, <2>1, NoKeyIsGone
  <2> QED BY <1>1, <2>1, <2>2, FinishMoveKeeps
<1>3. CASE ~ (job.ready /\ press = job.win)
  <2>1. UNCHANGED <<stack, place, condition, job_flag0, iactive, keys, job, toTask, screenVars>>
    BY <1>3 DEF Release
  <2>2. BoxOnly
    BY <1>1, <2>1, Shape DEF BoxOnly, moveRest, screenVars, IInv, AskInv
  <2>3. KeysInv'
    BY <1>1, <2>1 DEF KeysInv, IInv, moveRest, Phase, Top
  <2> QED BY <2>2, <2>3, BoxOnlyKeeps
<1> QED BY <1>2, <1>3

LEMMA UserHolds ==
  ASSUME IInv, Eager = {}, User, UNCHANGED client
  PROVE  IInv'
<1>1. /\ \A i : Asks(i) => Quiet
      /\ \A i : Steers(i) => FrameShown
      /\ Asks("F12") => TopNotAsked
  BY DEF Asks, Steers
<1>2. ASSUME NEW k \in FunctionKeys, Asks(k), Press(k)
      PROVE  IInv'
  BY <1>1, <1>2, PressKeeps
<1>3. ASSUME NEW k \in MoveKeys, Steers(k), Press(k)
      PROVE  IInv'
  <2>1. k \notin FunctionKeys /\ k # "F12"
    BY DEF FunctionKeys, MoveKeys
  <2> QED BY <1>1, <1>3, <2>1, PressKeeps
<1>4. ASSUME (Asks("click") /\ \E w \in Win : Click(w)) \/ (Asks("title") /\ PressTitle)
      PROVE  IInv'
  BY <1>1, <1>4, ClickKeeps
<1>5. ASSUME (Steers("enter") /\ ClickEnter) \/ (Steers("pointer") /\ \E p \in Place : Pointer(p))
      PROVE  IInv'
  BY <1>1, <1>5, SteerKeeps
<1>6. ASSUME Release, FrameShown \/ ~ (job.ready /\ press = job.win)
      PROVE  IInv'
  BY <1>6, ReleaseKeeps
<1> QED BY <1>2, <1>3, <1>4, <1>5, <1>6 DEF User

-----------------------------------------------------------------------------
(* Every step, and the theorems.                                           *)
LEMMA NothingKeeps ==
  ASSUME IInv, UNCHANGED vars
  PROVE  IInv'
<1> USE DEF IInv
<1>1. UNCHANGED <<stack, place, unuse, condition, job_flag0, closing, iactive, pokon0, list, job,
                  keys, wild, toTask, client, damaged, frame, press, toWinman>>
  BY DEF vars, winmanVars, screenVars
<1>2. BoxOnly
  <2>1. press' \in Win \cup {None} /\ toWinman' \in Seq(Messages) /\ BoxOK(toWinman')
    BY <1>1, Shape DEF TypeOK, AskInv
  <2> QED BY <1>1, <2>1 DEF BoxOnly
<1>3. KeysInv'
  BY <1>1 DEF KeysInv, Phase, Top
<1> QED BY <1>2, <1>3, BoxOnlyKeeps

LEMMA NextHolds ==
  ASSUME IInv, Eager = {}, Room, [Next]_vars
  PROVE  IInv'
<1>1. CASE RunJobNext /\ UNCHANGED client
  <2>1. RunOpen \/ RunActivate \/ RunMove \/ RunClose
    BY <1>1 DEF RunJobNext
  <2> QED BY <1>1, <2>1, RunOpenKeeps, RunActivateKeeps, RunMoveKeeps, RunCloseKeeps
<1>2. CASE Hear /\ UNCHANGED client
  BY <1>2, HearHolds
<1>3. CASE User /\ UNCHANGED client
  BY <1>3, UserHolds
<1>4. CASE OpensWindow /\ UNCHANGED winmanVars
  BY <1>4, OpensWindowKeeps
<1>5. ASSUME NEW w \in Win, Task(w), UNCHANGED winmanVars
      PROVE  IInv'
  BY <1>5, TaskHolds
<1>6. CASE UNCHANGED vars
  BY <1>6, NothingKeeps
<1> QED BY <1>1, <1>2, <1>3, <1>4, <1>5, <1>6 DEF Next

(* The invariant holds: what winman0 has noted about each window, each job *)
(* and each answer agrees with what the task of that window has been told  *)
(* and thinks (winman0.c, pioneer0.ask), whatever the windows, the places  *)
(* and the windows open at first are.  Two things are assumed: no eager    *)
(* user or program, so that each window gets one 0x43 and winman0 one 0x24 *)
(* for it; and that the job list (JOBLIST_SIZE) has room for two jobs of   *)
(* each window and one more.                                               *)
THEOREM Invariance ==
  ASSUME Eager = {}, Room
  PROVE  Spec => []IInv
<1>1. Init => IInv
  BY InitHolds
<1>2. IInv /\ [Next]_vars => IInv'
  BY NextHolds
<1> QED BY <1>1, <1>2, PTL DEF Spec

(* Every variable keeps its shape.  This is not inductive by itself: that  *)
(* a job is about a slot, or that the answer that is heard has a sender,   *)
(* is known only from the rest of the invariant.                           *)
THEOREM Typed ==
  ASSUME Eager = {}, Room
  PROVE  Spec => []TypeOK
<1>1. IInv => TypeOK
  BY DEF IInv
<1> QED BY <1>1, Invariance, PTL

(* The two rings of slots never mix, no slot is in either twice, and no    *)
(* job, key or answer leads to a window that is in neither: winman0        *)
(* follows its pointers without a check (winman0.c, job_activewin0,        *)
(* job_movewin0, job_closewin0, the answers' senders, and the handle of a  *)
(* close request at 1495).  Of an eager user or program it is false (run   *)
(* two_closes): a second request finds its handle freed.                   *)
THEOREM SlotsStaySafe ==
  ASSUME Eager = {}, Room
  PROVE  Spec => []SlotsAreSafe
<1>1. IInv => SlotsAreSafe
  <2> SUFFICES ASSUME IInv PROVE SlotsAreSafe
    OBVIOUS
  <2>1. stack \in Seq(Win) /\ unuse \in Seq(Win)
    BY Shape DEF IInv
  <2>2. IsInjective(stack) /\ IsInjective(unuse) /\ ToSet(stack) \cap ToSet(unuse) = {}
    BY Shape DEF IInv, SlotsInv
  <2>3. IsInjective(stack \o unuse)
    BY <2>1, <2>2, RingsApart
  <2>4. ~ wild
    BY DEF IInv, JobInv
  <2> QED BY <2>3, <2>4 DEF SlotsAreSafe
<1> QED BY <1>1, Invariance, PTL

(* The keys go to the window on top whenever one is open: redirect_input   *)
(* follows every change of top in the four jobs, which the keys F9 to F12  *)
(* and the move rely on.                                                   *)
THEOREM TopStaysActive ==
  ASSUME Eager = {}, Room
  PROVE  Spec => []TopIsActive
<1>1. IInv => TopIsActive
  BY DEF IInv, ShellInv, TopIsActive
<1> QED BY <1>1, Invariance, PTL

(* The job in progress waits for exactly the answers that are owed, and no *)
(* window owes two of a kind: count of STR_JOB is the number of orders     *)
(* sent, being carried out, or answered and not yet heard, in every state. *)
THEOREM AnswersStayAwaited ==
  ASSUME Eager = {}, Room
  PROVE  Spec => []AnswersAwaited
<1>1. IInv => AnswersAwaited
  <2> SUFFICES ASSUME IInv PROVE AnswersAwaited
    OBVIOUS
  <2>1. toWinman \in Seq(Messages) /\ toTask \in [Win -> Seq(Orders)]
    BY Shape DEF IInv
  <2>2. ASSUME NEW w \in Win, NEW k \in Kinds
        PROVE  (Owes(w, k) # 0 <=> DueOf(w, k)) /\ Owes(w, k) <= 1
    <3>1. DueOnce(toTask[w], client[w].drawing, toWinman, w, k)
      BY DEF IInv, OwedInv, Awaited
    <3>2. /\ Owes(w, k) # 0 <=> Due(toTask[w], client[w].drawing, toWinman, w, k)
          /\ Owes(w, k) <= 1 <=> DueOnce(toTask[w], client[w].drawing, toWinman, w, k)
      BY <2>1, OwesIsDue
    <3> QED BY <3>1, <3>2 DEF DueOf
  <2>3. Owed = Dues
    <3>1. ASSUME NEW wk \in Win \X Kinds
          PROVE  Owes(wk[1], wk[2]) # 0 <=> DueOf(wk[1], wk[2])
      BY <2>2
    <3> QED BY <3>1 DEF Owed, Dues
  <2>4. job.count = Cardinality(Owed)
    BY <2>3 DEF IInv, OwedInv
  <2> QED BY <2>2, <2>4 DEF AnswersAwaited
<1> QED BY <1>1, Invariance, PTL

(* The last a task hears about its window is that it is closed: winman0    *)
(* sends nothing to a slot after sgg_wm0s_close's answer until the slot    *)
(* is opened again, so pioneer0 may free the window's memory then.         *)
THEOREM ClosedStaysLast ==
  ASSUME Eager = {}, Room
  PROVE  Spec => []ClosedIsLast
<1>1. IInv => ClosedIsLast
  <2> SUFFICES ASSUME IInv, NEW w \in Win, NEW i \in 1 .. Len(toTask[w]),
                      toTask[w][i].sig = "closed"
               PROVE  i = Len(toTask[w])
    BY DEF ClosedIsLast
  <2>1. toTask[w] \in Seq(Orders)
    BY Shape DEF IInv
  <2>2. toTask[w][i] \in OrdersOf({"closed"})
    BY <2>1 DEF OrdersOf
  <2>3. LastIn(toTask[w], OrdersOf({"closed"}))
    BY DEF IInv, LifeInv, Life, Orderly
  <2> QED BY <2>2, <2>3 DEF LastIn
<1> QED BY <1>1, Invariance, PTL

(* A move starts with the window on top, which has the keys: job_movewin0  *)
(* moves the top whatever window its job names (winman0.c:2778).           *)
THEOREM MovesStartOnTop ==
  ASSUME Eager = {}, Room
  PROVE  Spec => MoveStartsOnTop
<1>1. IInv => (RunMove => Head(list).win = Top /\ iactive = Top)
  <2> SUFFICES ASSUME IInv, RunMove
               PROVE  Head(list).win = Top /\ iactive = Top
    OBVIOUS
  <2>1. Starts("move")
    BY DEF RunMove
  <2>2. PICK w \in Win : w = Head(list).win /\ InJobs(list, "move", w)
    BY <2>1, JobStarts
  <2>3. w = Top /\ w \in ToSet(stack)
    BY <2>2 DEF IInv, JobsInv
  <2>4. stack # <<>>
    BY <2>3, Shape, MembersOf DEF IInv
  <2> QED BY <2>2, <2>3, <2>4 DEF IInv, ShellInv
<1> QED BY <1>1, Invariance, PTL DEF MoveStartsOnTop
=============================================================================
