----------------------- MODULE WindowDrawing_proofs -----------------------
(***************************************************************************)
(* That two windows that overlap are never free to draw, nor being drawn,  *)
(* at the same time, that no task draws where the frame of a moving window *)
(* is, and that between two jobs every task knows whether it may draw: for *)
(* the systems of WindowSystem_proofs.                                     *)
(*                                                                         *)
(* winman0 keeps in condition and job_flag0 what it takes a task to think; *)
(* the task thinks something else while orders wait in its box.  The       *)
(* invariant relates the three (TasksInv), says which windows winman0      *)
(* takes to draw (ApartInv), and what it has noted between two jobs        *)
(* (IdleInv), while a window moves (SteerInv) and while the windows are    *)
(* redrawn from the bottom up (RedrawInv).                                 *)
(***************************************************************************)
EXTENDS WindowSystem_proofs

(* winman0 counts on the task of w to be drawing at will: it let it, and   *)
(* has not told it to stop for the time of a move.                         *)
OnBy(cd, fl, w) == "show" \in cd[w] /\ "override" \notin fl[w]
On(w) == OnBy(condition, job_flag0, w)

(* What the task of a window thinks, when q is in its box and it is c,     *)
(* against what winman0 thinks: whether it may draw, ...                   *)
Knows(q, c, on) ==
  /\ Told(q, "enable") => on /\ Asked(q, "drawn")
  /\ Asked(q, "stopped") => ~ on
  /\ c.draw_enable => on \/ Asked(q, "stopped")
  /\ on => c.draw_enable \/ Told(q, "enable")

(* ... in which condition its window is (forgot: the move has noted it     *)
(* without telling; due: it will be redrawn with just this condition), ... *)
Stale(cond) == { o \in OrdersOf({"mode"}) : o.cond # cond }
Shows(q, c, cond, forgot, due) ==
  /\ ~ Has(q, Stale(cond))
  /\ Told(q, "mode") => Asked(q, "drawn") \/ due
  /\ Told(q, "mode") \/ c.mode0 = cond \/ forgot

(* ... and that it knows both before it redraws.                           *)
Ordered(q) == After(q, OrdersOf(Asking("drawn")), OrdersOf({"enable", "mode"}))

(* What the task of an open window must agree on with winman0.             *)
Agrees(q, c, on, cond, forgot, due) ==
  Ordered(q) /\ Knows(q, c, on) /\ Shows(q, c, cond, forgot, due)

Forgot(w) == condition[w] = {} /\ w = Top
IsDue(w) == "must" \in job_flag0[w] /\ job_flag0[w] \cap Condition = condition[w]

TasksInv == \A w \in Win :
  /\ w \in ToSet(stack) =>
       Agrees(toTask[w], client[w], On(w), condition[w], Forgot(w), IsDue(w))
  /\ w \notin ToSet(stack) /\ ~ Told(toTask[w], "closed") =>
       ~ client[w].draw_enable /\ ~ Told(toTask[w], "enable")

(* Of two windows that overlap one has stopped and has said so.            *)
MayDraw(w) == On(w) \/ DueOf(w, "stopped")
ApartInv == \A v, w \in ToSet(stack) :
  v # w /\ Overlap(place[v], place[w]) => ~ (MayDraw(v) /\ MayDraw(w))

Right(w) == condition[w] = NewCondition(stack, place, w)

IdleInv == job.now = "none" =>
  /\ frame = {}
  /\ \A w \in ToSet(stack) : job_flag0[w] = {} /\ Right(w)

(* While a window moves: who is shown keeps still where the frame stands.  *)
SteerInv == job.func \in {"movewin1", "movewin6"} =>
  /\ condition[Top] = {}
  /\ frame = (IF job.ready /\ job.count = 0 THEN {job.pos} ELSE {})
  /\ \A w \in ToSet(stack) :
       /\ w # Top => Right(w)
       /\ job_flag0[w] \subseteq {"override"}
       /\ "override" \in job_flag0[w] <=>
            "show" \in condition[w] /\ Overlap(place[w], job.pos)
       /\ DueOf(w, "drawn") => "show" \in condition[w]
       /\ ~ Told(toTask[w], "redraw") /\ client[w].drawing # "full"

(* A window that waits for its turn to be redrawn, with flags f, noted     *)
(* condition c and new one nc.                                             *)
Pending(f, c, nc) ==
  /\ f \cap Condition = nc
  /\ f \cap {"must", "dif"} = {} => c = nc /\ ~ ({"override", "show"} \subseteq f)
  /\ "show" \notin c => "override" \in f

(* The frame of a move that has ended is on the top, which will be drawn   *)
(* as a whole.                                                             *)
FrameGoes(f, must) == f \subseteq {place[Top]} /\ (f # {} => must)

RedrawInv == job.func = "general2" /\ job.now # "none" =>
  /\ FrameGoes(frame, \/ "must" \in job_flag0[Top] \/ Told(toTask[Top], "redraw")
                      \/ client[Top].drawing = "full")
  /\ \A k \in 1 .. Len(stack) :
       LET w == stack[k] IN
       /\ k > At(stack, job.win) => job_flag0[w] = {} /\ Right(w)
       /\ k = At(stack, job.win) => Right(w)
       /\ k < At(stack, job.win) =>
            Pending(job_flag0[w], condition[w], NewCondition(stack, place, w))

DInv == TasksInv /\ ApartInv /\ IdleInv /\ SteerInv /\ RedrawInv

-----------------------------------------------------------------------------
(* What the box of a task holds.                                           *)

LEMMA NothingAsked ==
  ASSUME NEW q, ~ Asked(q, "drawn")
  PROVE  Ordered(q)
BY DEF Ordered, Asked, After, Has

LEMMA NothingStale ==
  ASSUME NEW q, NEW cond, ~ Told(q, "mode")
  PROVE  ~ Has(q, Stale(cond))
<1>1. \A o : o \in Stale(cond) => o \in OrdersOf({"mode"})
  BY DEF Stale
<1> QED BY <1>1 DEF Told, Has

LEMMA StaleOrders ==
  ASSUME NEW o \in Orders
  PROVE  /\ \A cond : o \in Stale(cond) <=> o.sig = "mode" /\ o.cond # cond
         /\ \A sigs : o \in OrdersOf(sigs) <=> o.sig \in sigs
BY DEF Stale, OrdersOf

LEMMA MailMore ==
  ASSUME NEW q \in Seq(Orders), NEW o \in Orders
  PROVE  LET t == Append(q, o) IN
         /\ \A cond : Has(t, Stale(cond)) <=> Has(q, Stale(cond)) \/ (o.sig = "mode" /\ o.cond # cond)
         /\ Ordered(t) <=> Ordered(q) /\ ~ (o.sig \in {"enable", "mode"} /\ Asked(q, "drawn"))
<1> DEFINE t == Append(q, o)
<1>1. \A M : Has(t, M) <=> Has(q, M) \/ o \in M
  BY HasAppend
<1>2. \A M, N : After(t, M, N) <=> After(q, M, N) /\ ~ (o \in N /\ (o \in M \/ Has(q, M)))
  BY AfterAppend
<1> HIDE DEF t
<1>3. \A cond : Has(t, Stale(cond)) <=> Has(q, Stale(cond)) \/ (o.sig = "mode" /\ o.cond # cond)
  BY <1>1, StaleOrders
<1>4. Ordered(t) <=> Ordered(q) /\ ~ (o.sig \in {"enable", "mode"} /\ Asked(q, "drawn"))
  <2>1. o \in OrdersOf({"enable", "mode"}) <=> o.sig \in {"enable", "mode"}
    BY StaleOrders
  <2>2. o \in OrdersOf(Asking("drawn")) <=> o.sig \in {"redraw", "redrawdif"}
    BY StaleOrders DEF Asking
  <2>3. "enable" \notin {"redraw", "redrawdif"} /\ "mode" \notin {"redraw", "redrawdif"}
    OBVIOUS
  <2>4. ~ (o \in OrdersOf({"enable", "mode"}) /\ o \in OrdersOf(Asking("drawn")))
    BY <2>1, <2>2, <2>3
  <2> QED BY <1>2, <2>1, <2>4 DEF Ordered, Asked
<1> QED BY <1>3, <1>4 DEF t

LEMMA MailJoined ==
  ASSUME NEW q \in Seq(Orders), NEW r \in Seq(Orders)
  PROVE  \A cond : Has(q \o r, Stale(cond)) <=> Has(q, Stale(cond)) \/ Has(r, Stale(cond))
BY HasConcat

LEMMA MailLess ==
  ASSUME NEW q \in Seq(Orders), q # <<>>
  PROVE  LET t == Tail(q)
             o == Head(q) IN
         /\ \A cond : Has(q, Stale(cond)) <=> Has(t, Stale(cond)) \/ (o.sig = "mode" /\ o.cond # cond)
         /\ Ordered(q) => /\ Ordered(t)
                          /\ o.sig \in {"redraw", "redrawdif"} =>
                               ~ Told(q, "enable") /\ ~ Told(q, "mode")
<1> DEFINE t == Tail(q)
           o == Head(q)
<1>0. o \in Orders
  OBVIOUS
<1>1. \A M : Has(q, M) <=> Has(t, M) \/ o \in M
  BY HasTail
<1>2. \A M, N : After(q, M, N) => After(t, M, N) /\ (o \in M => ~ Has(q, N))
  BY AfterTail
<1> HIDE DEF t, o
<1>3. \A cond : Has(q, Stale(cond)) <=> Has(t, Stale(cond)) \/ (o.sig = "mode" /\ o.cond # cond)
  BY <1>0, <1>1, StaleOrders
<1>4. ASSUME Ordered(q), o.sig \in {"redraw", "redrawdif"}
      PROVE  ~ Told(q, "enable") /\ ~ Told(q, "mode")
  <2>1. o \in OrdersOf(Asking("drawn"))
    BY <1>0, <1>4, StaleOrders DEF Asking
  <2>2. ~ Has(q, OrdersOf({"enable", "mode"}))
    BY <1>2, <1>4, <2>1 DEF Ordered
  <2>3. \A x : x \in OrdersOf({"enable"}) \/ x \in OrdersOf({"mode"}) => x \in OrdersOf({"enable", "mode"})
    BY DEF OrdersOf
  <2> QED BY <2>2, <2>3 DEF Told, Has
<1>5. Ordered(q) => Ordered(t)
  BY <1>2 DEF Ordered
<1> QED BY <1>3, <1>4, <1>5 DEF t, o

(* The task takes the next order: what it thinks changes as it is told.    *)
Heeds(c, d, o) ==
  /\ d.draw_enable = IF o.sig = "enable" THEN TRUE
                     ELSE IF o.sig = "disable" THEN FALSE ELSE c.draw_enable
  /\ d.mode0 = IF o.sig = "mode" THEN o.cond ELSE c.mode0

LEMMA AgreesTaken ==
  ASSUME NEW q \in Seq(Orders), q # <<>>, NEW c \in Clients, NEW d \in Clients, Heeds(c, d, Head(q)),
         NEW on \in BOOLEAN, NEW cond, NEW forgot \in BOOLEAN, NEW due \in BOOLEAN,
         Agrees(q, c, on, cond, forgot, due)
  PROVE  Agrees(Tail(q), d, on, cond, forgot, due)
<1> DEFINE t == Tail(q)
           o == Head(q)
<1>1. /\ o \in Orders
      /\ \A sig : Told(q, sig) <=> Told(t, sig) \/ sig = o.sig
      /\ \A k : Asked(q, k) <=> Asked(t, k) \/ o.sig \in Asking(k)
  BY MailTaken
<1>2. /\ Has(q, Stale(cond)) <=> Has(t, Stale(cond)) \/ (o.sig = "mode" /\ o.cond # cond)
      /\ Ordered(q) => Ordered(t)
      /\ Ordered(q) /\ o.sig \in {"redraw", "redrawdif"} => ~ Told(q, "enable") /\ ~ Told(q, "mode")
  BY MailLess
<1>3. Ordered(q) /\ Knows(q, c, on) /\ Shows(q, c, cond, forgot, due)
  BY DEF Agrees
<1>4. Heeds(c, d, o) /\ c.draw_enable \in BOOLEAN /\ d.draw_enable \in BOOLEAN
  BY DEF Clients
<1> HIDE DEF t, o
<1>5. PICK sig \in {"enable", "disable", "mode", "redraw", "redrawdif", "close", "closed"} : sig = o.sig
  BY <1>1 DEF Orders
<1>6. /\ Asked(q, "drawn") <=> Asked(t, "drawn") \/ sig \in {"redraw", "redrawdif"}
      /\ Asked(q, "stopped") <=> Asked(t, "stopped") \/ sig = "disable"
  BY <1>1, <1>5 DEF Asking
<1>7. Knows(t, d, on)
  <2>1. /\ Told(q, "enable") <=> Told(t, "enable") \/ sig = "enable"
        /\ d.draw_enable = IF sig = "enable" THEN TRUE
                           ELSE IF sig = "disable" THEN FALSE ELSE c.draw_enable
        /\ sig \in {"redraw", "redrawdif"} => ~ Told(q, "enable")
    BY <1>1, <1>2, <1>3, <1>4, <1>5 DEF Heeds
  <2>2. CASE sig = "enable"
    BY <1>3, <1>6, <2>1, <2>2 DEF Knows
  <2>3. CASE sig = "disable"
    BY <1>3, <1>6, <2>1, <2>3 DEF Knows
  <2>4. CASE sig \in {"redraw", "redrawdif"}
    BY <1>3, <1>6, <2>1, <2>4 DEF Knows
  <2>5. CASE sig \in {"mode", "close", "closed"}
    BY <1>3, <1>6, <2>1, <2>5 DEF Knows
  <2> QED BY <1>5, <2>2, <2>3, <2>4, <2>5
<1>8. Shows(t, d, cond, forgot, due)
  <2>1. /\ Told(q, "mode") <=> Told(t, "mode") \/ sig = "mode"
        /\ d.mode0 = IF sig = "mode" THEN o.cond ELSE c.mode0
        /\ sig \in {"redraw", "redrawdif"} => ~ Told(q, "mode")
        /\ Has(q, Stale(cond)) <=> Has(t, Stale(cond)) \/ (sig = "mode" /\ o.cond # cond)
    BY <1>1, <1>2, <1>3, <1>4, <1>5 DEF Heeds
  <2>2. CASE sig = "mode"
    BY <1>3, <1>6, <2>1, <2>2 DEF Shows
  <2>3. CASE sig # "mode"
    BY <1>3, <1>5, <1>6, <2>1, <2>3 DEF Shows
  <2> QED BY <2>2, <2>3
<1> QED BY <1>2, <1>3, <1>7, <1>8 DEF Agrees, t

(* An order to close says nothing of the drawing.                          *)
LEMMA AgreesClose ==
  ASSUME NEW q \in Seq(Orders), NEW c, NEW on, NEW cond, NEW forgot, NEW due,
         NEW sig \in {"close", "closed"}, Agrees(q, c, on, cond, forgot, due)
  PROVE  Agrees(Append(q, Order(sig)), c, on, cond, forgot, due)
<1> DEFINE o == Order(sig)
           t == Append(q, o)
<1>1. o \in Orders /\ o.sig \notin {"enable", "disable", "mode", "redraw", "redrawdif"}
  BY DEF Order, Orders
<1>2. /\ \A s : Told(t, s) <=> Told(q, s) \/ s = o.sig
      /\ \A k : Asked(t, k) <=> Asked(q, k) \/ o.sig \in Asking(k)
  BY <1>1, MailAdd
<1>3. /\ Has(t, Stale(cond)) <=> Has(q, Stale(cond)) \/ (o.sig = "mode" /\ o.cond # cond)
      /\ Ordered(t) <=> Ordered(q) /\ ~ (o.sig \in {"enable", "mode"} /\ Asked(q, "drawn"))
  BY <1>1, MailMore
<1> HIDE DEF o, t
<1>4. /\ Told(t, "enable") <=> Told(q, "enable")
      /\ Told(t, "mode") <=> Told(q, "mode")
      /\ Asked(t, "drawn") <=> Asked(q, "drawn")
      /\ Asked(t, "stopped") <=> Asked(q, "stopped")
  BY <1>1, <1>2 DEF Asking
<1>5. (Has(t, Stale(cond)) <=> Has(q, Stale(cond))) /\ (Ordered(t) <=> Ordered(q))
  BY <1>1, <1>3
<1>6. Agrees(t, c, on, cond, forgot, due)
  BY <1>4, <1>5 DEF Agrees, Knows, Shows
<1> QED BY <1>6 DEF t, o

(* A task of which no answer is awaited.                                   *)
Rests(q, c, on, cond, forgot) ==
  /\ ~ Told(q, "enable") /\ ~ Asked(q, "stopped") /\ ~ Asked(q, "drawn")
  /\ c.draw_enable <=> on
  /\ ~ Has(q, Stale(cond))
  /\ Told(q, "mode") \/ c.mode0 = cond \/ forgot

LEMMA AgreesRests ==
  ASSUME NEW q, NEW c, c \in Clients, NEW on \in BOOLEAN, NEW cond, NEW forgot, NEW due
  PROVE  /\ Agrees(q, c, on, cond, forgot, due) /\ ~ Asked(q, "stopped") /\ ~ Asked(q, "drawn") =>
              Rests(q, c, on, cond, forgot) /\ (Told(q, "mode") => due)
         /\ Rests(q, c, on, cond, forgot) /\ (Told(q, "mode") => due) =>
              Agrees(q, c, on, cond, forgot, due)
<1>1. c.draw_enable \in BOOLEAN
  BY DEF Clients
<1>2. ASSUME Agrees(q, c, on, cond, forgot, due), ~ Asked(q, "stopped"), ~ Asked(q, "drawn")
      PROVE  Rests(q, c, on, cond, forgot) /\ (Told(q, "mode") => due)
  BY <1>1, <1>2 DEF Agrees, Knows, Shows, Rests
<1>3. ASSUME Rests(q, c, on, cond, forgot), Told(q, "mode") => due
      PROVE  Agrees(q, c, on, cond, forgot, due)
  <2>1. Ordered(q)
    BY <1>3, NothingAsked DEF Rests
  <2> QED BY <1>1, <1>3, <2>1 DEF Agrees, Knows, Shows, Rests
<1> QED BY <1>2, <1>3

(* What is said to a window at rest: to stop, because the frame comes, ... *)
LEMMA RestsMet ==
  ASSUME NEW q \in Seq(Orders), NEW c \in Clients, NEW cond, NEW forgot, NEW gone,
         NEW on \in BOOLEAN, NEW due, Rests(q, c, on, cond, forgot), Told(q, "mode") => due,
         NEW new,
         (new = cond /\ (forgot => gone)) \/ (new = {} /\ gone /\ ~ Told(q, "mode"))
  PROVE  Agrees(Append(q, Order("disable")), c, FALSE, new, gone, due)
<1> DEFINE o == Order("disable")
           t == Append(q, o)
<1>1. o \in Orders /\ o.sig = "disable"
  BY DEF Order, Orders
<1>2. /\ \A s : Told(t, s) <=> Told(q, s) \/ s = o.sig
      /\ \A k : Asked(t, k) <=> Asked(q, k) \/ o.sig \in Asking(k)
  BY <1>1, MailAdd
<1>3. /\ \A cd : Has(t, Stale(cd)) <=> Has(q, Stale(cd)) \/ (o.sig = "mode" /\ o.cond # cd)
      /\ Ordered(t) <=> Ordered(q) /\ ~ (o.sig \in {"enable", "mode"} /\ Asked(q, "drawn"))
  BY <1>1, MailMore
<1> HIDE DEF o, t
<1>4. /\ Told(t, "enable") <=> Told(q, "enable")
      /\ Told(t, "mode") <=> Told(q, "mode")
      /\ Asked(t, "drawn") <=> Asked(q, "drawn")
      /\ Asked(t, "stopped")
  BY <1>1, <1>2 DEF Asking
<1>5. Ordered(t)
  BY <1>4, NothingAsked DEF Rests
<1>6. \A cd : Has(t, Stale(cd)) <=> Has(q, Stale(cd))
  BY <1>1, <1>3
<1>7. ~ Has(q, Stale(new))
  <2>1. CASE new = cond
    BY <2>1 DEF Rests
  <2>2. CASE ~ Told(q, "mode")
    BY <2>2, NothingStale
  <2> QED BY <2>1, <2>2
<1>8. Knows(t, c, FALSE)
  BY <1>4 DEF Knows, Rests
<1>9. Shows(t, c, new, gone, due)
  BY <1>4, <1>6, <1>7 DEF Shows, Rests
<1> QED BY <1>5, <1>8, <1>9 DEF Agrees, t, o

(* ... or to go on, because the frame has gone.                            *)
LEMMA RestsLeft ==
  ASSUME NEW q \in Seq(Orders), NEW c \in Clients, NEW cond, NEW forgot, NEW due, NEW any,
         Rests(q, c, FALSE, cond, forgot)
  PROVE  Agrees(q \o <<Order("enable"), Order("redrawdif")>>, c, TRUE, cond, forgot, any)
<1> DEFINE o == Order("enable")
           p == Order("redrawdif")
           s == Append(q, o)
           t == Append(s, p)
<1>1. q \o <<o, p>> = t
  OBVIOUS
<1>2. o \in Orders /\ o.sig = "enable" /\ p \in Orders /\ p.sig = "redrawdif"
  BY DEF Order, Orders
<1>3. /\ s \in Seq(Orders)
      /\ \A g : Told(s, g) <=> Told(q, g) \/ g = o.sig
      /\ \A k : Asked(s, k) <=> Asked(q, k) \/ o.sig \in Asking(k)
      /\ Has(s, Stale(cond)) <=> Has(q, Stale(cond)) \/ (o.sig = "mode" /\ o.cond # cond)
  BY <1>2, MailAdd, MailMore
<1> HIDE DEF s
<1>4. /\ \A g : Told(t, g) <=> Told(s, g) \/ g = p.sig
      /\ \A k : Asked(t, k) <=> Asked(s, k) \/ p.sig \in Asking(k)
      /\ Has(t, Stale(cond)) <=> Has(s, Stale(cond)) \/ (p.sig = "mode" /\ p.cond # cond)
      /\ Ordered(t) <=> Ordered(s) /\ ~ (p.sig \in {"enable", "mode"} /\ Asked(s, "drawn"))
  BY <1>2, <1>3, MailAdd, MailMore
<1> HIDE DEF o, p, t
<1>5. /\ Told(t, "enable") /\ (Told(t, "mode") <=> Told(q, "mode"))
      /\ ~ Asked(s, "drawn") /\ Asked(t, "drawn") /\ ~ Asked(t, "stopped")
      /\ ~ Has(t, Stale(cond))
  <2>1. o.sig \notin Asking("drawn") \cup Asking("stopped") /\ p.sig \in Asking("drawn")
        /\ p.sig \notin Asking("stopped")
    BY <1>2 DEF Asking
  <2> QED BY <1>2, <1>3, <1>4, <2>1 DEF Rests
<1>6. Ordered(t)
  BY <1>2, <1>4, <1>5, NothingAsked
<1>7. Knows(t, c, TRUE)
  BY <1>5 DEF Knows
<1>8. Shows(t, c, cond, forgot, any)
  BY <1>5 DEF Shows, Rests
<1>9. Agrees(t, c, TRUE, cond, forgot, any)
  BY <1>6, <1>7, <1>8 DEF Agrees
<1> QED BY <1>1, <1>9 DEF t, o, p

(* What a window that is redrawn is told.                                  *)
Tells(p, f, c) ==
  /\ ~ Asked(p, "drawn")
  /\ Told(p, "enable") <=> {"override", "show"} \subseteq f
  /\ Asked(p, "stopped") <=> f \cap {"override", "show"} = {}
  /\ Told(p, "mode") <=> f \cap Condition # c
  /\ ~ Has(p, Stale(f \cap Condition))

LEMMA RedrawTells ==
  ASSUME NEW f \in SUBSET Bits, NEW c \in SUBSET Condition
  PROVE  \E p \in Seq(Orders), d \in Orders :
           /\ RedrawOrders(f, c) = Append(p, d)
           /\ d.sig = IF "must" \in f THEN "redraw" ELSE "redrawdif"
           /\ Tells(p, f, c)
<1> DEFINE e == Order("enable")
           s == Order("disable")
           m == Mode(f \cap Condition)
           d == Order(IF "must" \in f THEN "redraw" ELSE "redrawdif")
           a == IF {"override", "show"} \subseteq f THEN <<e>>
                ELSE IF f \cap {"override", "show"} = {} THEN <<s>> ELSE <<>>
           b == IF f \cap Condition = c THEN <<>> ELSE <<m>>
<1>1. /\ e \in Orders /\ s \in Orders /\ m \in Orders /\ d \in Orders
      /\ e.sig = "enable" /\ s.sig = "disable" /\ m.sig = "mode" /\ m.cond = f \cap Condition
      /\ d.sig = IF "must" \in f THEN "redraw" ELSE "redrawdif"
  BY DEF Order, Mode, Orders, Condition
<1>2. RedrawOrders(f, c) = (a \o b) \o <<d>>
  BY DEF RedrawOrders
<1> HIDE DEF e, s, m, d
<1>3. <<>> \in Seq(Orders)
  OBVIOUS
<1>4. /\ a \in Seq(Orders)
      /\ Told(a, "enable") <=> {"override", "show"} \subseteq f
      /\ Asked(a, "stopped") <=> f \cap {"override", "show"} = {}
      /\ ~ Asked(a, "drawn") /\ ~ Told(a, "mode")
  <2>1. CASE {"override", "show"} \subseteq f
    <3>1. a = <<e>> /\ f \cap {"override", "show"} # {}
      BY <2>1
    <3> QED BY <1>1, <2>1, <3>1, MailOne DEF Asking
  <2>2. CASE f \cap {"override", "show"} = {}
    <3>1. a = <<s>> /\ ~ ({"override", "show"} \subseteq f)
      BY <2>2
    <3> QED BY <1>1, <2>2, <3>1, MailOne DEF Asking
  <2>3. CASE ~ ({"override", "show"} \subseteq f) /\ f \cap {"override", "show"} # {}
    <3>1. a = <<>>
      BY <2>3
    <3> QED BY <1>3, <2>3, <3>1, MailEmpty
  <2> QED BY <2>1, <2>2, <2>3
<1>5. /\ b \in Seq(Orders)
      /\ ~ Told(b, "enable") /\ ~ Asked(b, "stopped") /\ ~ Asked(b, "drawn")
      /\ Told(b, "mode") <=> f \cap Condition # c
      /\ ~ Has(b, Stale(f \cap Condition))
  <2>1. CASE f \cap Condition = c
    <3>1. b = <<>>
      BY <2>1
    <3> QED BY <1>3, <2>1, <3>1, MailEmpty, NothingStale
  <2>2. CASE f \cap Condition # c
    <3>1. b = <<m>> /\ <<m>> = Append(<<>>, m)
      BY <2>2
    <3>2. ~ Has(<<>>, Stale(f \cap Condition))
      BY MailEmpty, NothingStale
    <3>3. ~ Has(Append(<<>>, m), Stale(f \cap Condition))
      BY <1>1, <1>3, <3>2, MailMore
    <3>4. ~ Has(b, Stale(f \cap Condition))
      BY <3>1, <3>3
    <3> QED BY <1>1, <2>2, <3>1, <3>4, MailOne DEF Asking
  <2> QED BY <2>1, <2>2
<1> HIDE DEF a, b
<1>6. a \o b \in Seq(Orders) /\ (a \o b) \o <<d>> = Append(a \o b, d)
  BY <1>1, <1>4, <1>5
<1>7. Tells(a \o b, f, c)
  <2>1. ~ Has(a, Stale(f \cap Condition))
    BY <1>4, NothingStale
  <2> QED BY <1>4, <1>5, <2>1, MailConcat, MailJoined DEF Tells
<1> QED BY <1>1, <1>2, <1>6, <1>7

(* A window that was at rest is redrawn: what it is told makes it agree.   *)
LEMMA AgreesTurned ==
  ASSUME NEW q \in Seq(Orders), NEW c \in Clients, NEW f \in SUBSET Bits,
         NEW cond \in SUBSET Condition, NEW nc \in SUBSET Condition, NEW forgot \in BOOLEAN,
         Rests(q, c, "show" \in cond /\ "override" \notin f, cond, forgot),
         Pending(f, cond, nc), Told(q, "mode") => nc = cond, forgot => nc # cond
  PROVE  LET t == q \o RedrawOrders(f, cond) IN
         /\ Agrees(t, c, "show" \in nc, nc, FALSE, FALSE)
         /\ Told(t, "redraw") <=> Told(q, "redraw") \/ "must" \in f
<1>1. PICK p \in Seq(Orders), d \in Orders :
        /\ RedrawOrders(f, cond) = Append(p, d)
        /\ d.sig = IF "must" \in f THEN "redraw" ELSE "redrawdif"
        /\ Tells(p, f, cond)
  BY RedrawTells
<1> DEFINE s == q \o p
           t == Append(s, d)
<1>2. q \o RedrawOrders(f, cond) = t
  BY <1>1
<1>3. s \in Seq(Orders)
  OBVIOUS
<1>4. /\ \A g : Told(s, g) <=> Told(q, g) \/ Told(p, g)
      /\ \A k : Asked(s, k) <=> Asked(q, k) \/ Asked(p, k)
      /\ Has(s, Stale(nc)) <=> Has(q, Stale(nc)) \/ Has(p, Stale(nc))
  BY MailConcat, MailJoined
<1> HIDE DEF s
<1>5. /\ \A g : Told(t, g) <=> Told(s, g) \/ g = d.sig
      /\ \A k : Asked(t, k) <=> Asked(s, k) \/ d.sig \in Asking(k)
      /\ Has(t, Stale(nc)) <=> Has(s, Stale(nc)) \/ (d.sig = "mode" /\ d.cond # nc)
      /\ Ordered(t) <=> Ordered(s) /\ ~ (d.sig \in {"enable", "mode"} /\ Asked(s, "drawn"))
  BY <1>3, MailAdd, MailMore
<1> HIDE DEF t
<1>6. /\ d.sig \in {"redraw", "redrawdif"} /\ (d.sig = "redraw" <=> "must" \in f)
      /\ d.sig \in Asking("drawn") /\ d.sig \notin Asking("stopped")
  BY <1>1 DEF Asking
<1>7. f \cap Condition = nc /\ nc \subseteq f /\ ("show" \in f <=> "show" \in nc)
      /\ ("show" \notin cond => "override" \in f)
  BY DEF Pending, Condition
<1>8. /\ Told(t, "enable") <=> {"override", "show"} \subseteq f
      /\ Asked(t, "stopped") <=> f \cap {"override", "show"} = {}
      /\ Asked(t, "drawn")
      /\ Told(t, "mode") <=> Told(q, "mode") \/ nc # cond
  BY <1>1, <1>4, <1>5, <1>6, <1>7 DEF Tells, Rests
<1>9. Ordered(t)
  <2>1. ~ Asked(s, "drawn")
    BY <1>1, <1>4 DEF Tells, Rests
  <2> QED BY <1>5, <1>6, <2>1, NothingAsked
<1>10. Knows(t, c, "show" \in nc)
  <2>1. c.draw_enable <=> "show" \in cond /\ "override" \notin f
    BY DEF Rests
  <2>2. Told(t, "enable") <=> "override" \in f /\ "show" \in nc
    BY <1>7, <1>8
  <2>3. Asked(t, "stopped") <=> "override" \notin f /\ "show" \notin nc
    BY <1>7, <1>8
  <2> QED BY <1>7, <1>8, <2>1, <2>2, <2>3 DEF Knows
<1>11. Shows(t, c, nc, FALSE, FALSE)
  <2>1. ~ Has(q, Stale(nc))
    <3>1. CASE nc = cond
      BY <3>1 DEF Rests
    <3>2. CASE ~ Told(q, "mode")
      BY <3>2, NothingStale
    <3> QED BY <3>1, <3>2
  <2>2. ~ Has(t, Stale(nc))
    BY <1>1, <1>4, <1>5, <1>6, <1>7, <2>1 DEF Tells
  <2>3. Told(t, "mode") \/ c.mode0 = nc
    <3>1. CASE nc = cond
      BY <1>8, <3>1 DEF Rests
    <3>2. CASE nc # cond
      BY <1>8, <3>2
    <3> QED BY <3>1, <3>2
  <2> QED BY <1>8, <2>2, <2>3 DEF Shows
<1>12. ~ Told(p, "redraw")
  BY <1>1 DEF Tells, Told, Asked, Has, Asking, OrdersOf
<1>13. Told(t, "redraw") <=> Told(q, "redraw") \/ "must" \in f
  BY <1>4, <1>5, <1>6, <1>12
<1>14. Agrees(t, c, "show" \in nc, nc, FALSE, FALSE)
  BY <1>9, <1>10, <1>11 DEF Agrees
<1> QED BY <1>2, <1>13, <1>14

(* A window that is opened is told its condition.                          *)
LEMMA OpenedRests ==
  ASSUME NEW q, q = <<>>, NEW c \in Clients, ~ c.draw_enable
  PROVE  LET t == Append(q, Mode(Condition)) IN
         /\ t \in Seq(Orders)
         /\ \A forgot : Rests(t, c, FALSE, Condition, forgot)
         /\ ~ Told(t, "redraw") /\ ~ Told(t, "closed")
<1> DEFINE o == Mode(Condition)
           t == Append(q, o)
<1>1. o \in Orders /\ o.sig = "mode" /\ o.cond = Condition
  BY DEF Mode, Orders
<1>2. q \in Seq(Orders)
  OBVIOUS
<1> HIDE DEF o
<1>3. /\ t \in Seq(Orders)
      /\ \A s : Told(t, s) <=> Told(q, s) \/ s = o.sig
      /\ \A k : Asked(t, k) <=> Asked(q, k) \/ o.sig \in Asking(k)
      /\ Has(t, Stale(Condition)) <=> Has(q, Stale(Condition)) \/ (o.sig = "mode" /\ o.cond # Condition)
  BY <1>1, <1>2, MailAdd, MailMore
<1> HIDE DEF t
<1>4. (\A s : ~ Told(q, s)) /\ (\A k : ~ Asked(q, k)) /\ ~ Has(q, Stale(Condition))
  BY MailEmpty, NothingStale
<1>5. "mode" \notin Asking("drawn") \cup Asking("stopped")
  BY DEF Asking
<1>6. \A forgot : Rests(t, c, FALSE, Condition, forgot)
  BY <1>1, <1>3, <1>4, <1>5 DEF Rests
<1> QED BY <1>1, <1>3, <1>4, <1>6 DEF t, o

-----------------------------------------------------------------------------
(* Which of the open windows are shown.                                    *)

LEMMA PlaceAt ==
  ASSUME NEW S, NEW s \in Seq(S), IsInjective(s), NEW k \in 1 .. Len(s)
  PROVE  At(s, s[k]) = k /\ s[k] \in ToSet(s)
<1>1. s[k] \in ToSet(s)
  BY MembersOf
<1>2. At(s, s[k]) \in 1 .. Len(s) /\ s[At(s, s[k])] = s[k]
  BY <1>1, PlaceOf
<1>3. \A i, j \in 1 .. Len(s) : s[i] = s[j] => i = j
  BY MembersOf
<1> QED BY <1>1, <1>2, <1>3

LEMMA Covered ==
  ASSUME NEW s \in Seq(Win), IsInjective(s), NEW pl,
         NEW i \in 1 .. Len(s), NEW k \in 1 .. Len(s), i < k, Overlap(pl[s[i]], pl[s[k]])
  PROVE  "show" \notin NewCondition(s, pl, s[k])
<1>1. At(s, s[k]) = k
  BY PlaceAt
<1>2. i \in 1 .. k - 1
  OBVIOUS
<1>3. i \in { m \in 1 .. At(s, s[k]) - 1 : Overlap(pl[s[m]], pl[s[k]]) }
  BY <1>1, <1>2
<1>4. Hiding(s, pl, s[k]) # {}
  BY <1>3 DEF Hiding
<1> QED BY <1>4 DEF NewCondition

LEMMA OverlapBoth ==
  ASSUME NEW p \in Place, NEW q \in Place
  PROVE  Overlap(p, q) <=> Overlap(q, p)
BY MeetsAssumption DEF Overlap

(* Two windows that overlap are not both shown.                            *)
LEMMA ShownApart ==
  ASSUME NEW s \in Seq(Win), IsInjective(s), NEW pl \in [Win -> Place],
         NEW v \in ToSet(s), NEW w \in ToSet(s), v # w, Overlap(pl[v], pl[w]),
         "show" \in NewCondition(s, pl, v)
  PROVE  "show" \notin NewCondition(s, pl, w)
<1>1. PICK i \in 1 .. Len(s) : s[i] = v
  BY MembersOf
<1>2. PICK k \in 1 .. Len(s) : s[k] = w
  BY MembersOf
<1>3. Overlap(pl[w], pl[v])
  BY OverlapBoth, MembersOf
<1>4. CASE i < k
  BY <1>1, <1>2, <1>4, Covered
<1>5. CASE k < i
  BY <1>1, <1>2, <1>3, <1>5, Covered
<1> QED BY <1>1, <1>2, <1>4, <1>5

LEMMA ConditionOf ==
  ASSUME NEW s \in Seq(Win), IsInjective(s), NEW pl
  PROVE  /\ \A w : NewCondition(s, pl, w) \in SUBSET Condition
         /\ \A w : "show" \in NewCondition(s, pl, w) <=> Hiding(s, pl, w) = {}
         /\ s # <<>> => NewCondition(s, pl, Head(s)) = Condition
<1>1. \A w : NewCondition(s, pl, w) \in SUBSET Condition
  BY DEF NewCondition, Condition
<1>2. \A w : "show" \in NewCondition(s, pl, w) <=> Hiding(s, pl, w) = {}
  BY DEF NewCondition
<1>3. ASSUME s # <<>> PROVE NewCondition(s, pl, Head(s)) = Condition
  <2>1. 1 \in 1 .. Len(s) /\ Head(s) = s[1]
    BY <1>3
  <2>2. At(s, Head(s)) = 1
    BY <2>1, PlaceAt
  <2>3. 1 .. At(s, Head(s)) - 1 = {}
    BY <2>2
  <2>4. Hiding(s, pl, Head(s)) = {}
    BY <2>3 DEF Hiding
  <2> QED BY <2>4 DEF NewCondition, Condition
<1> QED BY <1>1, <1>2, <1>3

(* What job_general1 notes about a window makes it wait for its turn.      *)
LEMMA NewFlagsPending ==
  ASSUME NEW s \in Seq(Win), NEW pl, NEW cd \in [Win -> SUBSET Condition],
         NEW fl \in [Win -> SUBSET Bits], NEW w \in ToSet(s)
  PROVE  LET new == NewFlags(s, pl, cd, fl) IN
         /\ Pending(new[w], cd[w], NewCondition(s, pl, w))
         /\ "show" \in cd[w] => ("override" \in new[w] <=> "override" \in fl[w])
         /\ "must" \in fl[w] => "must" \in new[w]
<1> DEFINE own == [i \in 1 .. Len(s) |-> Own(s, pl, cd, fl, s[i])]
           new == NewFlags(s, pl, cd, fl)
           nc == NewCondition(s, pl, w)
           f == Noted(s, pl, cd, fl, w)
           g == Own(s, pl, cd, fl, w)
<1>1. At(s, w) \in 1 .. Len(s) /\ s[At(s, w)] = w /\ w \in Win
  BY PlaceOf, MembersOf
<1>2. own[At(s, w)] = g
  BY <1>1
<1>3. new[w] = own[At(s, w)] \cup (IF Spread(s, own, pl, At(s, w)) THEN {"must"} ELSE {})
  BY <1>1 DEF NewFlags
<1> HIDE DEF own
<1>4. new[w] = g \/ new[w] = g \cup {"must"}
  BY <1>2, <1>3
<1> HIDE DEF new
<1>5. nc \subseteq Condition /\ "must" \notin Condition /\ "dif" \notin Condition /\ "override" \notin Condition
  BY DEF NewCondition, Condition
<1>6. /\ f \cap Condition = nc
      /\ "show" \notin cd[w] => "override" \in f
      /\ "show" \in cd[w] => ("override" \in f <=> "override" \in fl[w])
      /\ "must" \in fl[w] => "must" \in f
  BY <1>5 DEF Noted, Condition
<1>7. g = f \cup (IF {"override", "show"} \subseteq f \/ cd[w] # f \cap Condition
                  THEN { IF "show" \in cd[w] THEN "dif" ELSE "must" } ELSE {})
  BY DEF Own
<1> HIDE DEF f, g, nc
<1>8. /\ g \cap Condition = nc
      /\ "show" \notin cd[w] => "override" \in g
      /\ "show" \in cd[w] => ("override" \in g <=> "override" \in fl[w])
      /\ "must" \in fl[w] => "must" \in g
      /\ g \cap {"must", "dif"} = {} => cd[w] = nc /\ ~ ({"override", "show"} \subseteq g)
  <2>1. CASE {"override", "show"} \subseteq f \/ cd[w] # f \cap Condition
    <3>1. g = f \cup {"dif"} \/ g = f \cup {"must"}
      BY <1>7, <2>1
    <3>2. g \cap {"must", "dif"} # {}
      BY <3>1
    <3> QED BY <1>5, <1>6, <3>1, <3>2
  <2>2. CASE ~ ({"override", "show"} \subseteq f \/ cd[w] # f \cap Condition)
    <3>1. g = f
      BY <1>7, <2>2
    <3> QED BY <1>6, <2>2, <3>1
  <2> QED BY <2>1, <2>2
<1>9. /\ new[w] \cap Condition = nc
      /\ "show" \notin cd[w] => "override" \in new[w]
      /\ "show" \in cd[w] => ("override" \in new[w] <=> "override" \in fl[w])
      /\ "must" \in fl[w] => "must" \in new[w]
      /\ new[w] \cap {"must", "dif"} = {} => cd[w] = nc /\ ~ ({"override", "show"} \subseteq new[w])
  <2>1. CASE new[w] = g
    BY <1>8, <2>1
  <2>2. CASE new[w] = g \cup {"must"}
    BY <1>5, <1>8, <2>2
  <2> QED BY <1>4, <2>1, <2>2
<1> QED BY <1>9 DEF Pending, new, nc

-----------------------------------------------------------------------------
(* A turn of job_general2: the at-th window is redrawn, and those below it *)
(* down to the from-th were passed over; at is 0 if none was left.         *)
Turn(at, from, cd, fl, box) ==
  /\ at \in 0 .. from
  /\ \A k \in 1 .. Len(stack') :
       LET v == stack'[k] IN
       /\ at < k /\ k <= from => fl[v] \cap {"must", "dif"} = {}
       /\ k # at => /\ condition'[v] = cd[v]
                    /\ toTask'[v] = box[v]
                    /\ job_flag0'[v] = IF at < k /\ k <= from THEN {} ELSE fl[v]
       /\ k = at => /\ condition'[v] = fl[v] \cap Condition
                    /\ toTask'[v] = box[v] \o RedrawOrders(fl[v], cd[v])
                    /\ job_flag0'[v] \subseteq Waits
                    /\ "waitdisable" \in job_flag0'[v] <=> fl[v] \cap {"override", "show"} = {}
  /\ \A v \in Win : v \notin ToSet(stack') => toTask'[v] = box[v]
  /\ job'.func = "general2"
  /\ at = 0 => job'.now = "none"
  /\ at # 0 => job'.now # "none" /\ job'.win = stack'[at]

(* The windows from the from-th up wait for their turns, those below it    *)
(* are done.                                                               *)
Waiters(from, cd, fl) ==
  \A k \in 1 .. Len(stack') :
    LET v == stack'[k]
        nc == NewCondition(stack', place', v)
    IN /\ k <= from => Pending(fl[v], cd[v], nc)
       /\ k > from => fl[v] = {} /\ cd[v] = nc

LEMMA RedrawFromTurns ==
  ASSUME stack' \in Seq(Win), IsInjective(stack'), NEW from \in 0 .. Len(stack'),
         NEW cd \in [Win -> SUBSET Condition], NEW fl \in [Win -> SUBSET Bits],
         NEW box \in [Win -> Seq(Orders)], NEW j \in Progress,
         j.func = "general2", j.now # "none",
         \A k \in 1 .. from :
           fl[stack'[k]] \cap {"must", "dif"} = {} => ~ ({"override", "show"} \subseteq fl[stack'[k]]),
         RedrawFrom(from, cd, fl, box, j)
  PROVE  \E at : Turn(at, from, cd, fl, box)
<1> DEFINE s == stack'
           due == { k \in 1 .. from : fl[s[k]] \cap {"must", "dif"} # {} }
           at == IF due = {} THEN 0 ELSE Max(due)
           passed == { s[k] : k \in at + 1 .. from }
           e == Order("enable")
           freed == [v \in Win |-> IF v \in passed /\ {"override", "show"} \subseteq fl[v]
                                   THEN Append(box[v], e) ELSE box[v]]
           cleared == [v \in Win |-> IF v \in passed THEN {} ELSE fl[v]]
           w == s[at]
           freeze == fl[w] \cap {"override", "show"} = {}
<1>1. from \in Nat /\ Len(s) \in Nat /\ \A k \in 1 .. Len(s) : s[k] \in ToSet(s) /\ s[k] \in Win
  BY MembersOf
<1>2. at \in 0 .. from /\ (due # {} => at \in due) /\ (due = {} => at = 0)
      /\ \A k \in due : k <= at
  <2>1. due \subseteq 1 .. from
    OBVIOUS
  <2> HIDE DEF due
  <2>2. due # {} => Max(due) \in due /\ \A k \in due : k <= Max(due)
    BY <1>1, <2>1, MaxIsMember
  <2>3. CASE due = {}
    BY <1>1, <2>3
  <2>4. CASE due # {}
    <3>1. at = Max(due) /\ at \in due /\ \A k \in due : k <= at
      BY <2>2, <2>4
    <3> HIDE DEF at
    <3>2. at \in 1 .. from
      BY <2>1, <3>1
    <3> QED BY <1>1, <2>4, <3>1, <3>2
  <2> QED BY <2>3, <2>4
<1>3. IF due = {}
      THEN /\ job' = [j EXCEPT !.now = "none"] /\ job_flag0' = cleared /\ condition' = cd
           /\ toTask' = freed
      ELSE /\ job' = [j EXCEPT !.win = w, !.count = (IF freeze THEN 1 ELSE @) + 1]
           /\ job_flag0' = [cleared EXCEPT ![w] = {"waitredraw"} \cup
                                               (IF freeze THEN {"waitdisable"} ELSE {})]
           /\ condition' = [cd EXCEPT ![w] = fl[w] \cap Condition]
           /\ toTask' = [freed EXCEPT ![w] = @ \o RedrawOrders(fl[w], cd[w])]
  BY DEF RedrawFrom
<1>4. \A k \in 1 .. from : k \in due <=> fl[s[k]] \cap {"must", "dif"} # {}
  OBVIOUS
<1>5. ASSUME NEW k \in 1 .. Len(s), at < k, k <= from
      PROVE  fl[s[k]] \cap {"must", "dif"} = {}
  <2> HIDE DEF at, due
  <2>1. k \in 1 .. from /\ at \in Int /\ k \in Int /\ ~ (k <= at)
    BY <1>1, <1>2, <1>5
  <2>2. k \notin due
    BY <1>2, <2>1
  <2> QED BY <1>4, <2>1, <2>2
<1>6. \A i, k \in 1 .. Len(s) : s[i] = s[k] => i = k
  BY MembersOf
<1>7. \A k \in 1 .. Len(s) : s[k] \in passed <=> at < k /\ k <= from
  <2>1. \A i \in at + 1 .. from : i \in 1 .. Len(s) /\ at < i /\ i <= from
    <3> HIDE DEF at
    <3> QED BY <1>1, <1>2
  <2>2. \A k \in 1 .. Len(s) : at < k /\ k <= from => k \in at + 1 .. from
    <3> HIDE DEF at
    <3> QED BY <1>1, <1>2
  <2> HIDE DEF at, s
  <2> QED BY <1>6, <2>1, <2>2
<1>8. \A v \in passed : v \in ToSet(s) /\ ~ ({"override", "show"} \subseteq fl[v])
  <2>1. \A i \in at + 1 .. from : i \in 1 .. from /\ i \in 1 .. Len(s) /\ at < i
    <3> HIDE DEF at
    <3> QED BY <1>1, <1>2
  <2> HIDE DEF at
  <2>2. ASSUME NEW i \in at + 1 .. from PROVE s[i] \in ToSet(s) /\ ~ ({"override", "show"} \subseteq fl[s[i]])
    <3>1. i \in 1 .. from /\ i \in 1 .. Len(s) /\ at < i /\ i <= from
      BY <1>1, <1>2, <2>1
    <3>2. fl[s[i]] \cap {"must", "dif"} = {}
      BY <1>5, <3>1
    <3> QED BY <1>1, <3>1, <3>2
  <2> HIDE DEF s
  <2> QED BY <2>2
<1> HIDE DEF e, passed, due
<1>9. freed = box
  BY <1>8
<1>10. \A k \in 1 .. Len(s) : cleared[s[k]] = IF at < k /\ k <= from THEN {} ELSE fl[s[k]]
  BY <1>1, <1>7
<1>11. cleared \in [Win -> SUBSET Bits]
  OBVIOUS
<1> HIDE DEF freed, cleared, at
<1>12. CASE due = {}
  <2>1. /\ job' = [j EXCEPT !.now = "none"] /\ job_flag0' = cleared /\ condition' = cd
        /\ toTask' = box
    BY <1>3, <1>9, <1>12
  <2>2. job'.func = "general2" /\ job'.now = "none"
    BY <2>1 DEF Progress
  <2>3. at = 0 /\ at \in 0 .. from
    BY <1>2, <1>12
  <2>4. \A k \in 1 .. Len(s) : k # at
    BY <2>3
  <2>5. Turn(at, from, cd, fl, box)
    BY <1>5, <1>10, <2>1, <2>2, <2>3, <2>4 DEF Turn
  <2> QED BY <2>5
<1>13. CASE due # {}
  <2> DEFINE r == RedrawOrders(fl[w], cd[w])
             new == {"waitredraw"} \cup (IF freeze THEN {"waitdisable"} ELSE {})
  <2>1. /\ job' = [j EXCEPT !.win = w, !.count = (IF freeze THEN 1 ELSE @) + 1]
        /\ job_flag0' = [cleared EXCEPT ![w] = new]
        /\ condition' = [cd EXCEPT ![w] = fl[w] \cap Condition]
        /\ toTask' = [box EXCEPT ![w] = @ \o r]
    BY <1>3, <1>9, <1>13
  <2>2. at \in 0 .. from /\ at \in 1 .. Len(s)
    <3>1. at \in 1 .. from
      BY <1>2, <1>13 DEF due
    <3> QED BY <1>1, <3>1
  <2>3. job'.func = "general2" /\ job'.now # "none" /\ job'.win = s[at]
    BY <2>1 DEF Progress
  <2>4. new \subseteq Waits /\ ("waitdisable" \in new <=> freeze)
    BY DEF Waits
  <2>5. w \in Win
    BY <1>1, <2>2
  <2>6. \A v \in Win : /\ condition'[v] = IF v = w THEN fl[w] \cap Condition ELSE cd[v]
                       /\ toTask'[v] = IF v = w THEN box[w] \o r ELSE box[v]
                       /\ job_flag0'[v] = IF v = w THEN new ELSE cleared[v]
    <3> HIDE DEF w, r, new
    <3> QED BY <1>11, <2>1, <2>5
  <2>7. \A k \in 1 .. Len(s) : s[k] = w <=> k = at
    BY <1>6, <2>2
  <2>8. \A v \in Win : v \notin ToSet(s) => toTask'[v] = box[v]
    BY <1>1, <2>2, <2>6
  <2>9. at # 0
    BY <2>2
  <2> HIDE DEF new
  <2>10. ASSUME NEW k \in 1 .. Len(s)
         PROVE  /\ k # at => /\ condition'[s[k]] = cd[s[k]]
                             /\ toTask'[s[k]] = box[s[k]]
                             /\ job_flag0'[s[k]] = IF at < k /\ k <= from THEN {} ELSE fl[s[k]]
                /\ k = at => /\ condition'[s[k]] = fl[s[k]] \cap Condition
                             /\ toTask'[s[k]] = box[s[k]] \o RedrawOrders(fl[s[k]], cd[s[k]])
                             /\ job_flag0'[s[k]] \subseteq Waits
                             /\ "waitdisable" \in job_flag0'[s[k]] <=> fl[s[k]] \cap {"override", "show"} = {}
    <3>1. s[k] \in Win
      BY <1>1
    <3>2. CASE k = at
      BY <2>4, <2>6, <3>1, <3>2
    <3>3. CASE k # at
      <4>1. s[k] # w
        BY <2>7, <3>3
      <4> QED BY <1>10, <2>6, <3>1, <3>3, <4>1
    <3> QED BY <3>2, <3>3
  <2>11. Turn(at, from, cd, fl, box)
    <3> HIDE DEF w, r
    <3> QED BY <1>5, <2>2, <2>3, <2>8, <2>9, <2>10 DEF Turn
  <2> QED BY <2>11
<1> QED BY <1>12, <1>13

(* When a turn begins no answer is awaited: cd, fl and box are condition,  *)
(* job_flag0 and toTask then.                                              *)
Stands(w, cd, fl, q) ==
  /\ Rests(q, client'[w], OnBy(cd, fl, w), cd[w], cd[w] = {} /\ w = Top')
  /\ Told(q, "mode") => "must" \in fl[w] /\ cd[w] = NewCondition(stack', place', w)

AtRest(cd, fl, box) ==
  /\ \A w \in ToSet(stack') : Stands(w, cd, fl, box[w])
  /\ \A v, w \in ToSet(stack') :
       v # w /\ Overlap(place'[v], place'[w]) => ~ (OnBy(cd, fl, v) /\ OnBy(cd, fl, w))
  /\ \A v \in Win : v \notin ToSet(stack') /\ ~ Told(box[v], "closed") =>
       ~ client'[v].draw_enable /\ ~ Told(box[v], "enable")
  /\ frame' \subseteq {place'[Top']} /\ (frame' # {} => "must" \in fl[Top'])

(* What a turn makes of v, the k-th window.                                *)
Turned(v, k, at, cd, fl) ==
  LET nc == NewCondition(stack', place', v)
  IN /\ (\/ OnBy(condition', job_flag0', v)
         \/ Due(toTask'[v], client'[v].drawing, toWinman', v, "stopped")) =>
            OnBy(cd, fl, v) \/ (k = at /\ "show" \in nc)
     /\ k > at => condition'[v] = nc /\ job_flag0'[v] = {}
     /\ k = at => condition'[v] = nc
     /\ k < at => Pending(job_flag0'[v], condition'[v], nc)
     /\ k <= at /\ "must" \in fl[v] => "must" \in job_flag0'[v] \/ Told(toTask'[v], "redraw")
     /\ Agrees(toTask'[v], client'[v], OnBy(condition', job_flag0', v), condition'[v],
               condition'[v] = {} /\ v = Top',
               "must" \in job_flag0'[v] /\ job_flag0'[v] \cap Condition = condition'[v])

LEMMA TurnShape ==
  ASSUME IInv', stack' # <<>>
  PROVE  /\ stack' \in Seq(Win) /\ IsInjective(stack') /\ Len(stack') \in Nat \ {0}
         /\ place' \in [Win -> Place] /\ client' \in [Win -> Clients]
         /\ toTask' \in [Win -> Seq(Orders)] /\ job' \in Progress
         /\ condition' \in [Win -> SUBSET Condition] /\ job_flag0' \in [Win -> SUBSET Bits]
         /\ \A k \in 1 .. Len(stack') :
              stack'[k] \in ToSet(stack') /\ stack'[k] \in Win /\ At(stack', stack'[k]) = k
         /\ \A v \in ToSet(stack') : \E k \in 1 .. Len(stack') : v = stack'[k]
         /\ Top' = stack'[1] /\ Top' \in ToSet(stack') /\ Top' \in Win
         /\ NewCondition(stack', place', Top') = Condition
         /\ \A v \in ToSet(stack') : NewCondition(stack', place', v) \in SUBSET Condition
<1>1. TypeOK' /\ SlotsInv'
  BY DEF IInv
<1>2. /\ stack' \in Seq(Win) /\ place' \in [Win -> Place] /\ client' \in [Win -> Clients]
      /\ toTask' \in [Win -> Seq(Orders)] /\ job' \in Progress
      /\ condition' \in [Win -> SUBSET Condition] /\ job_flag0' \in [Win -> SUBSET Bits]
  BY <1>1 DEF TypeOK
<1>3. IsInjective(stack')
  BY <1>1 DEF SlotsInv
<1>4. Len(stack') \in Nat \ {0}
  BY <1>2
<1>5. \A k \in 1 .. Len(stack') :
        stack'[k] \in ToSet(stack') /\ stack'[k] \in Win /\ At(stack', stack'[k]) = k
  BY <1>2, <1>3, PlaceAt
<1>6. \A v \in ToSet(stack') : \E k \in 1 .. Len(stack') : v = stack'[k]
  BY <1>2, MembersOf
<1>7. Top' = stack'[1] /\ Top' = Head(stack') /\ 1 \in 1 .. Len(stack')
  BY <1>2, <1>4 DEF Top
<1>8. NewCondition(stack', place', Top') = Condition
  BY <1>2, <1>3, <1>7, ConditionOf
<1>9. \A v \in ToSet(stack') : NewCondition(stack', place', v) \in SUBSET Condition
  BY <1>2, <1>3, ConditionOf
<1> QED BY <1>2, <1>3, <1>4, <1>5, <1>6, <1>7, <1>8, <1>9

LEMMA StoppedIsDue ==
  ASSUME IInv', job'.func = "general2", NEW v \in Win
  PROVE  DueOf(v, "stopped")' <=> "waitdisable" \in job_flag0'[v]
<1>1. Awaited(v, "stopped")'
  BY DEF IInv, OwedInv, Kinds
<1> QED BY <1>1 DEF Awaited

LEMMA TurnedOne ==
  ASSUME IInv', stack' # <<>>, NEW from \in 0 .. Len(stack'),
         NEW cd \in [Win -> SUBSET Condition], NEW fl \in [Win -> SUBSET Bits],
         NEW box \in [Win -> Seq(Orders)], NoWaits(fl),
         NEW at, Turn(at, from, cd, fl, box), Waiters(from, cd, fl), AtRest(cd, fl, box),
         NEW k \in 1 .. Len(stack')
  PROVE  Turned(stack'[k], k, at, cd, fl)
<1>1. PICK v \in Win : v = stack'[k] /\ v \in ToSet(stack')
  BY TurnShape
<1>2. PICK nc \in SUBSET Condition : nc = NewCondition(stack', place', v)
  BY <1>1, TurnShape
<1>3. at \in Nat /\ at \in 0 .. from /\ from \in Nat /\ k \in Nat
  BY TurnShape DEF Turn
<1>4. /\ at < k /\ k <= from => fl[v] \cap {"must", "dif"} = {}
      /\ k # at => /\ condition'[v] = cd[v]
                   /\ toTask'[v] = box[v]
                   /\ job_flag0'[v] = IF at < k /\ k <= from THEN {} ELSE fl[v]
      /\ k = at => /\ condition'[v] = fl[v] \cap Condition
                   /\ toTask'[v] = box[v] \o RedrawOrders(fl[v], cd[v])
                   /\ job_flag0'[v] \subseteq Waits
                   /\ "waitdisable" \in job_flag0'[v] <=> fl[v] \cap {"override", "show"} = {}
      /\ job'.func = "general2"
  BY <1>1 DEF Turn
<1>5. /\ k <= from => Pending(fl[v], cd[v], nc)
      /\ k > from => fl[v] = {} /\ cd[v] = nc
  BY <1>1, <1>2 DEF Waiters
<1>6. /\ Rests(box[v], client'[v], OnBy(cd, fl, v), cd[v], cd[v] = {} /\ v = Top')
      /\ Told(box[v], "mode") => "must" \in fl[v] /\ cd[v] = nc
  BY <1>1, <1>2 DEF AtRest, Stands
<1>7. DueOf(v, "stopped")' <=> "waitdisable" \in job_flag0'[v]
  BY <1>4, StoppedIsDue
<1>8. fl[v] \in SUBSET Bits /\ cd[v] \in SUBSET Condition /\ client'[v] \in Clients
      /\ box[v] \in Seq(Orders)
  BY TurnShape
<1>9. v = Top' => nc = Condition
  BY <1>2, TurnShape
<1> DEFINE new == job_flag0'[v]
           now == condition'[v]
           gone == now = {} /\ v = Top'
           due == "must" \in new /\ new \cap Condition = now
           Goal == /\ OnBy(condition', job_flag0', v) \/ "waitdisable" \in new =>
                        OnBy(cd, fl, v) \/ (k = at /\ "show" \in nc)
                   /\ k > at => now = nc /\ new = {}
                   /\ k = at => now = nc
                   /\ k < at => Pending(new, now, nc)
                   /\ k <= at /\ "must" \in fl[v] => "must" \in new \/ Told(toTask'[v], "redraw")
                   /\ Agrees(toTask'[v], client'[v], OnBy(condition', job_flag0', v), now, gone, due)
<1>10. OnBy(condition', job_flag0', v) <=> "show" \in now /\ "override" \notin new
  BY DEF OnBy
<1>11. ASSUME k = at PROVE Goal
  <2>0. k <= from
    BY <1>3, <1>11
  <2>1. Pending(fl[v], cd[v], nc)
    BY <1>5, <2>0
  <2>2. now = nc
    BY <1>4, <1>11, <2>1 DEF Pending
  <2>3. "override" \notin new /\ ("waitdisable" \in new <=> fl[v] \cap {"override", "show"} = {})
    BY <1>4, <1>11 DEF Waits
  <2>4. "waitdisable" \in new => OnBy(cd, fl, v)
    BY <2>1, <2>3 DEF Pending, OnBy
  <2>5. PICK forgot \in BOOLEAN : forgot <=> cd[v] = {} /\ v = Top'
    OBVIOUS
  <2>6. /\ Rests(box[v], client'[v], "show" \in cd[v] /\ "override" \notin fl[v], cd[v], forgot)
        /\ forgot => nc # cd[v]
    BY <1>6, <1>9, <2>5 DEF OnBy, Rests, Condition
  <2>7. toTask'[v] = box[v] \o RedrawOrders(fl[v], cd[v])
    BY <1>4, <1>11
  <2> HIDE DEF Goal, new, now
  <2>8. /\ Agrees(toTask'[v], client'[v], "show" \in nc, nc, FALSE, FALSE)
        /\ "must" \in fl[v] => Told(toTask'[v], "redraw")
    <3>1. Told(box[v], "mode") => nc = cd[v]
      BY <1>6
    <3> DEFINE t == box[v] \o RedrawOrders(fl[v], cd[v])
    <3>2. /\ Agrees(t, client'[v], "show" \in nc, nc, FALSE, FALSE)
          /\ "must" \in fl[v] => Told(t, "redraw")
      BY <1>8, <2>1, <2>6, <3>1, AgreesTurned
    <3> QED BY <2>7, <3>2
  <2>9. Agrees(toTask'[v], client'[v], OnBy(condition', job_flag0', v), now, gone, due)
    BY <1>10, <2>2, <2>3, <2>8 DEF Agrees, Knows, Shows
  <2>10. ~ (k > at) /\ ~ (k < at)
    BY <1>3, <1>11
  <2> QED BY <1>10, <1>11, <2>2, <2>4, <2>8, <2>9, <2>10 DEF Goal
<1>12. ASSUME k # at PROVE Goal
  <2>1. now = cd[v] /\ toTask'[v] = box[v] /\ new = IF at < k /\ k <= from THEN {} ELSE fl[v]
    BY <1>4, <1>12
  <2> HIDE DEF Goal, new, now
  <2>2. OnBy(condition', job_flag0', v) <=> OnBy(cd, fl, v)
    <3>1. CASE at < k /\ k <= from
      <4>1. new = {}
        BY <2>1, <3>1
      <4>2. Pending(fl[v], cd[v], nc) /\ fl[v] \cap {"must", "dif"} = {}
        BY <1>4, <1>5, <3>1
      <4>3. "show" \in cd[v] => "override" \notin fl[v]
        BY <4>2 DEF Pending
      <4> QED BY <1>10, <2>1, <4>1, <4>3 DEF OnBy
    <3>2. CASE ~ (at < k /\ k <= from)
      <4>1. new = fl[v]
        BY <2>1, <3>2
      <4> QED BY <1>10, <2>1, <4>1 DEF OnBy
    <3> QED BY <3>1, <3>2
  <2>3. Rests(toTask'[v], client'[v], OnBy(condition', job_flag0', v), now, gone)
    BY <1>6, <2>1, <2>2 DEF Rests
  <2>4. CASE k > at
    <3>1. now = nc /\ new = {} /\ "must" \notin fl[v]
      <4>1. CASE k <= from
        BY <1>4, <1>5, <2>1, <2>4, <4>1 DEF Pending
      <4>2. CASE k > from
        BY <1>3, <1>5, <2>1, <2>4, <4>2
      <4> QED BY <1>3, <4>1, <4>2
    <3>2. ~ Told(toTask'[v], "mode")
      BY <1>6, <2>1, <3>1
    <3>3. Ordered(toTask'[v])
      BY <2>3, NothingAsked DEF Rests
    <3>4. Agrees(toTask'[v], client'[v], OnBy(condition', job_flag0', v), now, gone, due)
      BY <2>3, <3>2, <3>3 DEF Agrees, Knows, Shows, Rests
    <3>5. ~ (k <= at) /\ ~ (k < at) /\ "waitdisable" \notin new
      BY <1>3, <2>4, <3>1
    <3> QED BY <1>12, <2>2, <3>1, <3>4, <3>5 DEF Goal
  <2>5. CASE k < at
    <3>1. k <= from /\ ~ (k > at) /\ new = fl[v]
      BY <1>3, <2>1, <2>5
    <3>2. Pending(new, now, nc)
      BY <1>5, <2>1, <3>1
    <3>3. Told(toTask'[v], "mode") => due
      BY <1>6, <2>1, <3>1, <3>2 DEF Pending
    <3>4. Ordered(toTask'[v])
      BY <2>3, NothingAsked DEF Rests
    <3>5. Agrees(toTask'[v], client'[v], OnBy(condition', job_flag0', v), now, gone, due)
      BY <2>3, <3>3, <3>4 DEF Agrees, Knows, Shows, Rests
    <3>6. "waitdisable" \notin new
      BY <3>1 DEF NoWaits, Waits
    <3> QED BY <1>12, <2>2, <3>1, <3>2, <3>5, <3>6 DEF Goal
  <2> QED BY <1>3, <1>12, <2>4, <2>5
<1>13. Goal
  BY <1>11, <1>12
<1>14. MayDraw(v)' <=> OnBy(condition', job_flag0', v) \/ "waitdisable" \in new
  BY <1>7 DEF MayDraw, On, OnBy
<1> HIDE DEF Goal, new, now, gone, due
<1>15. MayDraw(v)' => OnBy(cd, fl, v) \/ (k = at /\ "show" \in nc)
  BY <1>13, <1>14 DEF Goal
<1>16. Turned(v, k, at, cd, fl)
  <2>1. /\ k > at => now = nc /\ new = {}
        /\ k = at => now = nc
        /\ k < at => Pending(new, now, nc)
        /\ k <= at /\ "must" \in fl[v] => "must" \in new \/ Told(toTask'[v], "redraw")
        /\ Agrees(toTask'[v], client'[v], OnBy(condition', job_flag0', v), now, gone, due)
    BY <1>13 DEF Goal
  <2> QED BY <1>2, <1>15, <2>1 DEF Turned, MayDraw, On, OnBy, DueOf, new, now, gone, due
<1> QED BY <1>1, <1>16

LEMMA TurnKeeps ==
  ASSUME IInv', stack' # <<>>, NEW from \in 0 .. Len(stack'),
         NEW cd \in [Win -> SUBSET Condition], NEW fl \in [Win -> SUBSET Bits],
         NEW box \in [Win -> Seq(Orders)], NoWaits(fl),
         NEW at, Turn(at, from, cd, fl, box), Waiters(from, cd, fl), AtRest(cd, fl, box)
  PROVE  DInv'
<1>1. /\ stack' \in Seq(Win) /\ IsInjective(stack') /\ Len(stack') \in Nat \ {0}
      /\ place' \in [Win -> Place]
      /\ \A k \in 1 .. Len(stack') :
           stack'[k] \in ToSet(stack') /\ stack'[k] \in Win /\ At(stack', stack'[k]) = k
      /\ \A v \in ToSet(stack') : \E k \in 1 .. Len(stack') : v = stack'[k]
      /\ Top' = stack'[1] /\ 1 \in 1 .. Len(stack')
  BY TurnShape
<1>2. ASSUME NEW k \in 1 .. Len(stack') PROVE Turned(stack'[k], k, at, cd, fl)
  BY TurnedOne
<1>3. at \in Nat /\ at \in 0 .. from /\ from \in Nat /\ at <= Len(stack')
  BY <1>1 DEF Turn
<1>4. /\ job'.func = "general2"
      /\ job'.now = "none" <=> at = 0
      /\ at # 0 => job'.win = stack'[at]
      /\ \A v \in Win : v \notin ToSet(stack') => toTask'[v] = box[v]
      /\ \A k \in 1 .. Len(stack') : k # at => condition'[stack'[k]] = cd[stack'[k]]
  BY DEF Turn
<1>5. TasksInv'
  <2>1. ASSUME NEW w \in Win, w \in ToSet(stack')
        PROVE  Agrees(toTask[w], client[w], On(w), condition[w], Forgot(w), IsDue(w))'
    <3>1. PICK k \in 1 .. Len(stack') : w = stack'[k]
      BY <1>1, <2>1
    <3>2. Turned(w, k, at, cd, fl)
      BY <1>2, <3>1
    <3>3. Agrees(toTask'[w], client'[w], OnBy(condition', job_flag0', w), condition'[w],
                 condition'[w] = {} /\ w = Top',
                 "must" \in job_flag0'[w] /\ job_flag0'[w] \cap Condition = condition'[w])
      BY <3>2 DEF Turned
    <3> QED BY <3>3 DEF Agrees, Knows, Shows, On, OnBy, Forgot, IsDue
  <2>2. ASSUME NEW w \in Win, w \notin ToSet(stack'), ~ Told(toTask'[w], "closed")
        PROVE  ~ client'[w].draw_enable /\ ~ Told(toTask'[w], "enable")
    BY <1>4, <2>2 DEF AtRest
  <2> QED BY <2>1, <2>2 DEF TasksInv
<1>6. ApartInv'
  <2>1. ASSUME NEW v \in ToSet(stack'), NEW w \in ToSet(stack'), v # w, Overlap(place'[v], place'[w]),
               v = stack'[at], at # 0, "show" \in NewCondition(stack', place', v)
        PROVE  ~ OnBy(cd, fl, w) /\ w # stack'[at]
    <3>1. PICK k \in 1 .. Len(stack') : w = stack'[k]
      BY <1>1
    <3>2. k # at /\ at \in 1 .. Len(stack') /\ Overlap(place'[w], place'[v])
      <4>1. place'[v] \in Place /\ place'[w] \in Place
        BY <1>1
      <4> QED BY <1>1, <1>3, <2>1, <3>1, <4>1, OverlapBoth
    <3>3. ~ (k < at)
      BY <1>1, <2>1, <3>1, <3>2, Covered
    <3>4. condition'[w] = NewCondition(stack', place', w)
      <4>1. k > at
        BY <1>3, <3>2, <3>3
      <4>2. Turned(w, k, at, cd, fl)
        BY <1>2, <3>1
      <4> QED BY <4>1, <4>2 DEF Turned
    <3>5. "show" \notin NewCondition(stack', place', w)
      BY <1>1, <2>1, ShownApart
    <3>6. cd[w] = condition'[w]
      BY <1>4, <3>1, <3>2
    <3> QED BY <2>1, <3>4, <3>5, <3>6 DEF OnBy
  <2>2. ASSUME NEW v \in ToSet(stack')
        PROVE  MayDraw(v)' => \/ OnBy(cd, fl, v)
                              \/ v = stack'[at] /\ at # 0 /\ "show" \in NewCondition(stack', place', v)
    <3>1. PICK k \in 1 .. Len(stack') : v = stack'[k]
      BY <1>1
    <3>2. Turned(v, k, at, cd, fl) /\ k # 0
      BY <1>2, <3>1
    <3> QED BY <3>1, <3>2 DEF Turned, MayDraw, On, OnBy, DueOf
  <2>3. ASSUME NEW v \in ToSet(stack'), NEW w \in ToSet(stack'), v # w, Overlap(place'[v], place'[w])
        PROVE  ~ (MayDraw(v)' /\ MayDraw(w)')
    <3>1. Overlap(place'[w], place'[v])
      <4>1. place'[v] \in Place /\ place'[w] \in Place
        BY <1>1
      <4> QED BY <2>3, <4>1, OverlapBoth
    <3>2. ~ (OnBy(cd, fl, v) /\ OnBy(cd, fl, w))
      BY <2>3 DEF AtRest
    <3>3. v = stack'[at] /\ at # 0 /\ "show" \in NewCondition(stack', place', v) =>
            ~ OnBy(cd, fl, w) /\ w # stack'[at]
      BY <2>1, <2>3
    <3>4. w = stack'[at] /\ at # 0 /\ "show" \in NewCondition(stack', place', w) =>
            ~ OnBy(cd, fl, v) /\ v # stack'[at]
      BY <2>1, <2>3, <3>1
    <3>5. MayDraw(v)' => \/ OnBy(cd, fl, v)
                         \/ v = stack'[at] /\ at # 0 /\ "show" \in NewCondition(stack', place', v)
      BY <2>2
    <3>6. MayDraw(w)' => \/ OnBy(cd, fl, w)
                         \/ w = stack'[at] /\ at # 0 /\ "show" \in NewCondition(stack', place', w)
      BY <2>2
    <3> QED BY <3>2, <3>3, <3>4, <3>5, <3>6
  <2> QED BY <2>3 DEF ApartInv
<1>7. IdleInv'
  <2>1. ASSUME job'.now = "none" PROVE frame' = {}
    <3>1. at = 0 /\ at < 1
      BY <1>4, <2>1
    <3>2. "must" \notin fl[Top']
      <4>1. CASE 1 <= from
        BY <1>1, <3>1, <4>1 DEF Turn
      <4>2. CASE 1 > from
        BY <1>1, <4>2 DEF Waiters
      <4> QED BY <1>3, <4>1, <4>2
    <3> QED BY <3>2 DEF AtRest
  <2>2. ASSUME job'.now = "none", NEW w \in ToSet(stack')
        PROVE  job_flag0'[w] = {} /\ condition'[w] = NewCondition(stack', place', w)
    <3>1. PICK k \in 1 .. Len(stack') : w = stack'[k]
      BY <1>1
    <3>2. Turned(w, k, at, cd, fl)
      BY <1>2, <3>1
    <3>3. k > at
      BY <1>4, <2>2
    <3> QED BY <3>2, <3>3 DEF Turned
  <2> QED BY <2>1, <2>2 DEF IdleInv, Right
<1>8. SteerInv'
  BY <1>4 DEF SteerInv
<1>9. RedrawInv'
  <2> SUFFICES ASSUME job'.now # "none"
               PROVE  /\ frame' \subseteq {place'[Top']}
                      /\ frame' # {} => \/ "must" \in job_flag0'[Top'] \/ Told(toTask'[Top'], "redraw")
                                        \/ client'[Top'].drawing = "full"
                      /\ \A k \in 1 .. Len(stack') :
                           LET v == stack'[k]
                               nc == NewCondition(stack', place', v)
                           IN /\ k > At(stack', job'.win) => job_flag0'[v] = {} /\ condition'[v] = nc
                              /\ k = At(stack', job'.win) => condition'[v] = nc
                              /\ k < At(stack', job'.win) => Pending(job_flag0'[v], condition'[v], nc)
    BY DEF RedrawInv, Right, FrameGoes
  <2>1. at # 0 /\ at \in 1 .. Len(stack') /\ At(stack', job'.win) = at
    <3>1. at # 0
      BY <1>4
    <3>2. at \in 1 .. Len(stack')
      BY <1>1, <1>3, <3>1
    <3> QED BY <1>1, <1>4, <3>1, <3>2
  <2>2. "must" \in fl[Top'] => "must" \in job_flag0'[Top'] \/ Told(toTask'[Top'], "redraw")
    <3>1. Turned(Top', 1, at, cd, fl)
      BY <1>1, <1>2
    <3>2. 1 <= at
      BY <2>1
    <3> QED BY <3>1, <3>2 DEF Turned, MayDraw, On, OnBy, DueOf
  <2>3. /\ frame' \subseteq {place'[Top']}
        /\ frame' # {} => \/ "must" \in job_flag0'[Top'] \/ Told(toTask'[Top'], "redraw")
                          \/ client'[Top'].drawing = "full"
    BY <2>2 DEF AtRest
  <2>4. ASSUME NEW k \in 1 .. Len(stack')
        PROVE  LET v == stack'[k]
                   nc == NewCondition(stack', place', v)
               IN /\ k > at => job_flag0'[v] = {} /\ condition'[v] = nc
                  /\ k = at => condition'[v] = nc
                  /\ k < at => Pending(job_flag0'[v], condition'[v], nc)
    <3>1. Turned(stack'[k], k, at, cd, fl)
      BY <1>2
    <3> QED BY <3>1 DEF Turned
  <2> QED BY <2>1, <2>3, <2>4
<1> QED BY <1>5, <1>6, <1>7, <1>8, <1>9 DEF DInv

LEMMA RedrawKeeps ==
  ASSUME IInv', stack' # <<>>, NEW from \in 0 .. Len(stack'),
         NEW cd \in [Win -> SUBSET Condition], NEW fl \in [Win -> SUBSET Bits],
         NEW box \in [Win -> Seq(Orders)], NoWaits(fl), NEW j \in Progress,
         j.func = "general2", j.now # "none",
         Waiters(from, cd, fl), AtRest(cd, fl, box), RedrawFrom(from, cd, fl, box, j)
  PROVE  DInv'
<1>1. stack' \in Seq(Win) /\ IsInjective(stack') /\ Len(stack') \in Nat
  BY TurnShape
<1>2. \A k \in 1 .. from :
        fl[stack'[k]] \cap {"must", "dif"} = {} => ~ ({"override", "show"} \subseteq fl[stack'[k]])
  <2>1. \A k \in 1 .. from : k \in 1 .. Len(stack') /\ k <= from
    BY <1>1
  <2> QED BY <2>1 DEF Waiters, Pending
<1>3. PICK at : Turn(at, from, cd, fl, box)
  BY <1>1, <1>2, RedrawFromTurns
<1> QED BY <1>3, TurnKeeps

(* How every job that changes the picture ends.                            *)
LEMMA General1Keeps ==
  ASSUME IInv', stack' # <<>>,
         NEW cd \in [Win -> SUBSET Condition], NEW fl \in [Win -> SUBSET Bits],
         NEW box \in [Win -> Seq(Orders)], NoWaits(fl), NEW j \in Progress, j.now # "none",
         AtRest(cd, fl, box), General1(cd, fl, box, j)
  PROVE  DInv'
<1> DEFINE new == NewFlags(stack', place', cd, fl)
           i == [j EXCEPT !.func = "general2", !.count = 0, !.win = None]
<1>1. /\ stack' \in Seq(Win) /\ IsInjective(stack') /\ Len(stack') \in Nat /\ Top' \in ToSet(stack')
      /\ \A k \in 1 .. Len(stack') : stack'[k] \in ToSet(stack') /\ stack'[k] \in Win
  BY TurnShape
<1>2. RedrawFrom(Len(stack'), cd, new, box, i)
  BY DEF General1
<1>3. i \in Progress /\ i.func = "general2" /\ i.now # "none"
  <2> DEFINE a == [j EXCEPT !.func = "general2"]
             b == [a EXCEPT !.count = 0]
             c == [b EXCEPT !.win = None]
  <2>1. a \in Progress /\ a.func = "general2" /\ a.now = j.now
    BY DEF Progress
  <2> HIDE DEF a
  <2>2. b \in Progress /\ b.func = a.func /\ b.now = a.now
    <3>1. a \in Progress /\ 0 \in Int
      BY <2>1
    <3>2. b \in Progress
      BY <3>1 DEF Progress
    <3> QED BY <3>1, <3>2 DEF Progress
  <2> HIDE DEF b
  <2>3. c \in Progress /\ c.func = b.func /\ c.now = b.now
    BY <2>2 DEF Progress
  <2>4. i = c
    BY DEF a, b, c
  <2> QED BY <2>1, <2>2, <2>3, <2>4
<1>4. new \in [Win -> SUBSET Bits] /\ NoWaits(new)
  BY <1>1, NewFlagsAre DEF Notes
<1>5. ASSUME NEW w \in ToSet(stack')
      PROVE  /\ Pending(new[w], cd[w], NewCondition(stack', place', w))
             /\ OnBy(cd, new, w) <=> OnBy(cd, fl, w)
             /\ "must" \in fl[w] => "must" \in new[w]
  BY <1>1, NewFlagsPending DEF OnBy
<1> HIDE DEF new, i
<1>6. Waiters(Len(stack'), cd, new)
  <2>1. \A k \in 1 .. Len(stack') : k <= Len(stack') /\ ~ (k > Len(stack'))
    BY <1>1
  <2> QED BY <1>1, <1>5, <2>1 DEF Waiters
<1>7. AtRest(cd, new, box)
  <2>1. ASSUME NEW w \in ToSet(stack') PROVE Stands(w, cd, new, box[w])
    BY <1>5 DEF AtRest, Stands, Rests
  <2>2. frame' # {} => "must" \in new[Top']
    BY <1>1, <1>5 DEF AtRest
  <2> QED BY <1>5, <2>1, <2>2 DEF AtRest
<1>8. Len(stack') \in 0 .. Len(stack')
  BY <1>1
<1> QED BY <1>2, <1>3, <1>4, <1>6, <1>7, <1>8, RedrawKeeps


-----------------------------------------------------------------------------
(* What a task does: it draws, or takes an order and heeds it; its window  *)
(* is none of those that are open, and it draws no more; it owes no answer *)
(* that it did not owe; and it may end the frame that was drawn where its  *)
(* window is.                                                              *)
Loud(w) == Told(toTask[w], "redraw") \/ client[w].drawing = "full"

Heeded(w) ==
  \/ /\ toTask'[w] = toTask[w]
     /\ client'[w].draw_enable = client[w].draw_enable /\ client'[w].mode0 = client[w].mode0
  \/ /\ toTask[w] # <<>> /\ toTask'[w] = Tail(toTask[w])
     /\ Head(toTask[w]).sig # "closed" /\ Heeds(client[w], client'[w], Head(toTask[w]))
  \/ /\ w \notin ToSet(stack) /\ ~ client'[w].draw_enable /\ ~ Told(toTask'[w], "enable")

Acts(w) ==
  /\ UNCHANGED winmanVars
  /\ \A v \in Win : v # w => toTask'[v] = toTask[v] /\ client'[v] = client[v]
  /\ Heeded(w)
  /\ \A k \in Kinds : Asked(toTask'[w], k) \/ Draws(client'[w].drawing, k) => DueOf(w, k)
  /\ \A v \in Win, k \in Kinds :
       Waiting(toWinman', k, v) => Waiting(toWinman, k, v) \/ (v = w /\ DueOf(w, k))
  /\ Loud(w)' => Loud(w)
  /\ \/ frame' = frame /\ (Loud(w) => Loud(w)')
     \/ frame' = frame \ {place[w]} /\ client[w].drawing = "full"

LEMMA ActsKeep ==
  ASSUME IInv, IInv', DInv, NEW w \in Win, Acts(w)
  PROVE  DInv'
<1>1. /\ UNCHANGED <<stack, place, condition, job_flag0, job>> /\ Top' = Top
      /\ \A v \in Win : v # w => toTask'[v] = toTask[v] /\ client'[v] = client[v]
  BY DEF Acts, winmanVars, Top
<1>2. ASSUME NEW v \in Win, NEW k \in Kinds, DueOf(v, k)' PROVE DueOf(v, k)
  <2>1. Waiting(toWinman', k, v) => Waiting(toWinman, k, v) \/ (v = w /\ DueOf(w, k))
    BY DEF Acts
  <2>2. CASE v # w
    BY <1>1, <1>2, <2>1, <2>2 DEF DueOf, Due
  <2>3. CASE v = w
    <3>1. Asked(toTask'[w], k) \/ Draws(client'[w].drawing, k) => DueOf(w, k)
      BY DEF Acts
    <3> QED BY <1>2, <2>1, <2>3, <3>1 DEF DueOf, Due
  <2> QED BY <2>2, <2>3
<1>3. client[w].drawing = "full" => w \in ToSet(stack)
  <2>1. client[w].drawing = "full" => DueOf(w, "drawn")
    BY DEF DueOf, Due, Draws
  <2> QED BY <2>1 DEF IInv, OwedInv, Awaited, Kinds
<1>4. /\ toTask[w] \in Seq(Orders) /\ client[w] \in Clients /\ client'[w] \in Clients
      /\ w \in ToSet(stack) => w \in Win
      /\ ToSet(stack) \subseteq Win /\ (stack # <<>> => Top \in ToSet(stack))
  BY Shape DEF IInv, TypeOK
<1>5. TasksInv'
  <2>1. ASSUME NEW v \in Win, v # w
        PROVE  /\ v \in ToSet(stack)' =>
                    Agrees(toTask[v], client[v], On(v), condition[v], Forgot(v), IsDue(v))'
               /\ (v \notin ToSet(stack))' /\ ~ Told(toTask[v], "closed")' =>
                    ~ client[v].draw_enable' /\ ~ Told(toTask[v], "enable")'
    BY <1>1, <2>1 DEF DInv, TasksInv, On, OnBy, Forgot, IsDue
  <2>2. ASSUME w \in ToSet(stack)
        PROVE  Agrees(toTask[w], client[w], On(w), condition[w], Forgot(w), IsDue(w))'
    <3>1. PICK on \in BOOLEAN : on <=> On(w)
      OBVIOUS
    <3>2. PICK forgot \in BOOLEAN : forgot <=> Forgot(w)
      OBVIOUS
    <3>3. PICK due \in BOOLEAN : due <=> IsDue(w)
      OBVIOUS
    <3>4. Agrees(toTask[w], client[w], On(w), condition[w], Forgot(w), IsDue(w))
      BY <2>2, <1>4 DEF DInv, TasksInv
    <3>5. Agrees(toTask[w], client[w], on, condition[w], forgot, due)
      BY <3>1, <3>2, <3>3, <3>4 DEF Agrees, Knows, Shows
    <3>6. Agrees(toTask'[w], client'[w], on, condition[w], forgot, due)
      <4>1. CASE /\ toTask'[w] = toTask[w]
                 /\ client'[w].draw_enable = client[w].draw_enable /\ client'[w].mode0 = client[w].mode0
        BY <3>5, <4>1 DEF Agrees, Knows, Shows
      <4>2. CASE /\ toTask[w] # <<>> /\ toTask'[w] = Tail(toTask[w])
                 /\ Heeds(client[w], client'[w], Head(toTask[w]))
        BY <1>4, <3>5, <4>2, AgreesTaken
      <4> QED BY <2>2, <4>1, <4>2 DEF Acts, Heeded
    <3>7. /\ On(w)' <=> on
          /\ Forgot(w)' <=> forgot
          /\ IsDue(w)' <=> due
      BY <1>1, <3>1, <3>2, <3>3 DEF On, OnBy, Forgot, IsDue
    <3>8. condition'[w] = condition[w]
      BY <1>1
    <3> QED BY <3>6, <3>7, <3>8 DEF Agrees, Knows, Shows
  <2>3. ASSUME w \notin ToSet(stack), ~ Told(toTask'[w], "closed")
        PROVE  ~ client'[w].draw_enable /\ ~ Told(toTask'[w], "enable")
    <3>1. CASE /\ toTask'[w] = toTask[w]
               /\ client'[w].draw_enable = client[w].draw_enable
      BY <2>3, <3>1 DEF DInv, TasksInv
    <3>2. CASE /\ toTask[w] # <<>> /\ toTask'[w] = Tail(toTask[w])
               /\ Head(toTask[w]).sig # "closed" /\ Heeds(client[w], client'[w], Head(toTask[w]))
      <4>1. \A sig : Told(toTask[w], sig) <=> Told(toTask'[w], sig) \/ sig = Head(toTask[w]).sig
        BY <1>4, <3>2, MailTaken
      <4>2. ~ Told(toTask[w], "closed")
        BY <2>3, <3>2, <4>1
      <4>3. ~ client[w].draw_enable /\ ~ Told(toTask[w], "enable")
        BY <2>3, <4>2 DEF DInv, TasksInv
      <4>4. Head(toTask[w]).sig # "enable" /\ ~ Told(toTask'[w], "enable")
        BY <4>1, <4>3
      <4> QED BY <3>2, <4>3, <4>4 DEF Heeds
    <3> QED BY <3>1, <3>2 DEF Acts, Heeded
  <2>4. ToSet(stack)' = ToSet(stack)
    BY <1>1
  <2> QED BY <2>1, <2>2, <2>3, <2>4 DEF TasksInv
<1>6. ApartInv'
  <2>1. \A v \in ToSet(stack) : MayDraw(v)' => MayDraw(v)
    BY <1>1, <1>2, <1>4 DEF MayDraw, On, OnBy, Kinds
  <2> QED BY <1>1, <2>1 DEF DInv, ApartInv
<1>7. IdleInv'
  <2>1. frame' \subseteq frame
    BY DEF Acts
  <2> QED BY <1>1, <2>1 DEF DInv, IdleInv, Right
<1>8. \A v \in Win : Loud(v)' => Loud(v)
  BY <1>1 DEF Acts, Loud
<1>9. SteerInv'
  <2> SUFFICES ASSUME job.func \in {"movewin1", "movewin6"} PROVE SteerInv'
    BY <1>1 DEF SteerInv
  <2>1. \A v \in ToSet(stack) : ~ Loud(v)
    BY DEF DInv, SteerInv, Loud
  <2>2. frame' = frame
    BY <1>3, <2>1 DEF Acts, Loud
  <2>3. \A v \in ToSet(stack) : DueOf(v, "drawn")' => DueOf(v, "drawn")
    BY <1>2, <1>4 DEF Kinds
  <2>4. \A v \in ToSet(stack) : ~ Loud(v)'
    BY <1>4, <1>8, <2>1
  <2>5. \A v \in ToSet(stack) : ~ Told(toTask'[v], "redraw") /\ client'[v].drawing # "full"
    BY <2>4 DEF Loud
  <2> QED BY <1>1, <2>2, <2>3, <2>5 DEF DInv, SteerInv, Right
<1>10. RedrawInv'
  <2> SUFFICES ASSUME job.func = "general2", job.now # "none" PROVE RedrawInv'
    BY <1>1 DEF RedrawInv
  <2>1. Top \in ToSet(stack) /\ Top \in Win
    BY <1>4 DEF IInv, JobInv
  <2>2. frame \subseteq {place[Top]} /\ (frame # {} => "must" \in job_flag0[Top] \/ Loud(Top))
    BY DEF DInv, RedrawInv, FrameGoes, Loud
  <2>3. frame' \subseteq {place[Top]} /\ (frame' # {} => "must" \in job_flag0[Top] \/ Loud(Top)')
    <3>1. CASE Top # w
      <4>1. Loud(Top)' <=> Loud(Top)
        BY <1>1, <2>1, <3>1 DEF Loud
      <4> QED BY <2>2, <4>1 DEF Acts
    <3>2. CASE Top = w
      BY <2>2, <3>2, <1>1 DEF Acts
    <3> QED BY <3>1, <3>2
  <2>4. FrameGoes(frame, \/ "must" \in job_flag0[Top] \/ Told(toTask[Top], "redraw")
                         \/ client[Top].drawing = "full")'
    BY <1>1, <2>3 DEF FrameGoes, Loud
  <2> QED BY <1>1, <2>4 DEF DInv, RedrawInv, Right
<1> QED BY <1>5, <1>6, <1>7, <1>9, <1>10 DEF DInv

(* Of w alone the client changes.                                          *)
LEMMA ClientOf ==
  ASSUME TypeOK, NEW w \in Win, NEW c \in Clients, client' = [client EXCEPT ![w] = c]
  PROVE  client'[w] = c /\ \A v \in Win : v # w => client'[v] = client[v]
BY DEF TypeOK

LEMMA TaskActs ==
  ASSUME IInv, Eager = {}, NEW w \in Win, UNCHANGED winmanVars,
         AppDraw(w) \/ Answer(w) \/ ClosesWindow(w)
  PROVE  Acts(w)
<1> DEFINE c == client[w]
<1>1. /\ TypeOK /\ client \in [Win -> Clients] /\ client[w] \in Clients
      /\ toTask \in [Win -> Seq(Orders)] /\ toTask[w] \in Seq(Orders)
  BY Shape DEF IInv
<1>2. ASSUME NEW sig, HasOrder(w, sig), Handled(w)
      PROVE  /\ \A v \in Win : v # w => toTask'[v] = toTask[v]
             /\ toTask[w] # <<>> /\ toTask'[w] = Tail(toTask[w]) /\ Head(toTask[w]).sig = sig
             /\ \A s : Told(toTask[w], s) <=> Told(toTask'[w], s) \/ s = sig
             /\ \A k : Asked(toTask[w], k) <=> Asked(toTask'[w], k) \/ sig \in Asking(k)
             /\ client[w].drawing = "no"
             /\ sig = "closed" => toTask'[w] = <<>>
  <2>1. Orderly(toTask[w])
    BY DEF IInv, LifeInv, Life
  <2>2. toTask'[w] = Tail(toTask[w])
    BY <1>1, <1>2 DEF Handled
  <2>3. toTask[w] # <<>> /\ Head(toTask[w]).sig = sig /\ client[w].drawing = "no"
    BY <1>2 DEF HasOrder, Next1, Drawing
  <2>4. /\ \A v \in Win : v # w => toTask'[v] = toTask[v]
        /\ \A s : Told(toTask[w], s) <=> Told(toTask'[w], s) \/ s = sig
        /\ \A k : Asked(toTask[w], k) <=> Asked(toTask'[w], k) \/ sig \in Asking(k)
        /\ Orderly(toTask[w]) => Orderly(toTask'[w]) /\ (sig = "closed" => toTask'[w] = <<>>)
    BY <1>1, <1>2, OrderTaken
  <2> QED BY <2>1, <2>2, <2>3, <2>4
<1>3. ASSUME NEW sig, HasOrder(w, sig), Handled(w), sig # "closed",
              client'[w].draw_enable = IF sig = "enable" THEN TRUE
                                       ELSE IF sig = "disable" THEN FALSE ELSE c.draw_enable,
              client'[w].mode0 = IF sig = "mode" THEN Next1(w).cond ELSE c.mode0
       PROVE  Heeded(w)
  <2>1. toTask[w] # <<>> /\ toTask'[w] = Tail(toTask[w]) /\ Head(toTask[w]).sig = sig
    BY <1>3, <1>2
  <2>2. Heeds(client[w], client'[w], Head(toTask[w]))
    BY <1>3, <2>1 DEF Heeds, Next1
  <2> QED BY <1>3, <2>1, <2>2 DEF Heeded
<1>4. \A k \in Kinds : Asked(toTask[w], k) \/ Draws(client[w].drawing, k) => DueOf(w, k)
  BY DEF DueOf, Due
<1>5. CASE AppDraw(w)
  <2>1. Painted(w, FALSE) /\ UNCHANGED <<client, toTask, toWinman>>
    BY <1>5 DEF AppDraw
  <2>2. frame' = frame
    BY <2>1 DEF Painted
  <2>3. Heeded(w)
    BY <2>1 DEF Heeded
  <2> QED BY <1>4, <2>1, <2>2, <2>3 DEF Acts, Loud
<1>6. CASE SetMode(w)
  <2> DEFINE d == [c EXCEPT !.mode0 = Next1(w).cond]
  <2>1. /\ HasOrder(w, "mode") /\ Handled(w) /\ UNCHANGED <<toWinman, frame>>
        /\ client' = [client EXCEPT ![w] = d]
    BY <1>6 DEF SetMode
  <2>2. Head(toTask[w]) \in Orders
    BY <1>1, <1>2, <2>1
  <2>3. d \in Clients /\ d.draw_enable = c.draw_enable /\ d.drawing = c.drawing /\ d.mode0 = Next1(w).cond
    BY <1>1, <2>2 DEF Clients, Orders, Next1
  <2>4. client'[w] = d /\ \A v \in Win : v # w => client'[v] = client[v]
    BY <1>1, <2>1, <2>3, ClientOf
  <2>5. Heeded(w)
    BY <1>3, <2>1, <2>3, <2>4
  <2>6. Loud(w)' <=> Loud(w)
    BY <1>2, <2>1, <2>3, <2>4 DEF Loud
  <2> QED BY <1>2, <1>4, <2>1, <2>3, <2>4, <2>5, <2>6 DEF Acts
<1>7. CASE EnableDraw(w)
  <2> DEFINE d == [c EXCEPT !.draw_enable = TRUE]
  <2>1. /\ HasOrder(w, "enable") /\ Handled(w) /\ UNCHANGED <<toWinman, frame>>
        /\ client' = [client EXCEPT ![w] = d]
    BY <1>7 DEF EnableDraw
  <2>2. d \in Clients /\ d.draw_enable = TRUE /\ d.drawing = c.drawing /\ d.mode0 = c.mode0
    BY <1>1 DEF Clients
  <2>3. client'[w] = d /\ \A v \in Win : v # w => client'[v] = client[v]
    BY <1>1, <2>1, <2>2, ClientOf
  <2>4. Heeded(w)
    BY <1>3, <2>1, <2>2, <2>3
  <2>5. Loud(w)' <=> Loud(w)
    BY <1>2, <2>1, <2>2, <2>3 DEF Loud
  <2> QED BY <1>2, <1>4, <2>1, <2>2, <2>3, <2>4, <2>5 DEF Acts
<1>8. CASE DisableDraw(w)
  <2> DEFINE d == [c EXCEPT !.draw_enable = FALSE]
  <2>1. /\ HasOrder(w, "disable") /\ Handled(w) /\ UNCHANGED frame /\ Tell(w, "stopped")
        /\ client' = [client EXCEPT ![w] = d]
    BY <1>8 DEF DisableDraw
  <2>2. d \in Clients /\ d.draw_enable = FALSE /\ d.drawing = c.drawing /\ d.mode0 = c.mode0
    BY <1>1 DEF Clients
  <2>3. client'[w] = d /\ \A v \in Win : v # w => client'[v] = client[v]
    BY <1>1, <2>1, <2>2, ClientOf
  <2>4. Heeded(w)
    BY <1>3, <2>1, <2>2, <2>3
  <2>5. Loud(w)' <=> Loud(w)
    BY <1>2, <2>1, <2>2, <2>3 DEF Loud
  <2>6. DueOf(w, "stopped")
    <3>1. Asked(toTask[w], "stopped")
      BY <1>2, <2>1 DEF Asking
    <3> QED BY <1>4, <3>1 DEF Kinds
  <2>7. \A s, v : Waiting(toWinman', s, v) <=> Waiting(toWinman, s, v) \/ (s = "stopped" /\ v = w)
    BY <2>1, AnswerSent DEF Kinds
  <2> QED BY <1>2, <1>4, <2>1, <2>2, <2>3, <2>4, <2>5, <2>6, <2>7 DEF Acts
<1>9. CASE BeginDraw(w)
  <2>1. PICK sig \in {"redraw", "redrawdif"} : HasOrder(w, sig)
    BY <1>9 DEF BeginDraw
  <2> DEFINE g == IF sig = "redraw" THEN "full" ELSE "dif"
             d == [c EXCEPT !.drawing = g]
  <2>2. Handled(w) /\ UNCHANGED <<toWinman, frame>>
    BY <1>9 DEF BeginDraw
  <2>3. client' = [client EXCEPT ![w] = d]
    BY <1>9, <2>1 DEF BeginDraw, HasOrder
  <2>4. d \in Clients /\ d.draw_enable = c.draw_enable /\ d.drawing = g /\ d.mode0 = c.mode0
    BY <1>1 DEF Clients
  <2>5. client'[w] = d /\ \A v \in Win : v # w => client'[v] = client[v]
    BY <1>1, <2>3, <2>4, ClientOf
  <2>6. Heeded(w)
    BY <1>3, <2>1, <2>2, <2>4, <2>5
  <2>7. Loud(w)' <=> Loud(w)
    BY <1>2, <2>1, <2>2, <2>4, <2>5 DEF Loud
  <2>8. DueOf(w, "drawn")
    <3>1. Asked(toTask[w], "drawn")
      BY <1>2, <2>1, <2>2 DEF Asking
    <3> QED BY <1>4, <3>1 DEF Kinds
  <2>9. \A k \in Kinds : Asked(toTask'[w], k) \/ Draws(client'[w].drawing, k) => DueOf(w, k)
    BY <1>2, <1>4, <2>1, <2>2, <2>8 DEF Draws
  <2> QED BY <1>2, <2>1, <2>2, <2>5, <2>6, <2>7, <2>9 DEF Acts
<1>10. CASE EndDraw(w)
  <2> DEFINE d == [c EXCEPT !.drawing = "no"]
  <2>1. /\ Drawing(w) /\ Painted(w, client[w].drawing = "full") /\ Tell(w, "drawn") /\ UNCHANGED toTask
        /\ client' = [client EXCEPT ![w] = d]
    BY <1>10 DEF EndDraw
  <2>2. d \in Clients /\ d.draw_enable = c.draw_enable /\ d.drawing = "no" /\ d.mode0 = c.mode0
    BY <1>1 DEF Clients
  <2>3. client'[w] = d /\ \A v \in Win : v # w => client'[v] = client[v]
    BY <1>1, <2>1, <2>2, ClientOf
  <2>4. Heeded(w)
    BY <2>1, <2>2, <2>3 DEF Heeded
  <2>5. Loud(w)' => Loud(w)
    BY <2>1, <2>2, <2>3 DEF Loud
  <2>6. \/ frame' = frame /\ (Loud(w) => Loud(w)')
        \/ frame' = frame \ {place[w]} /\ client[w].drawing = "full"
    BY <2>1 DEF Painted, Loud
  <2>7. DueOf(w, "drawn")
    BY <2>1, <1>4 DEF Kinds, Draws, Drawing
  <2>8. \A s, v : Waiting(toWinman', s, v) <=> Waiting(toWinman, s, v) \/ (s = "drawn" /\ v = w)
    BY <2>1, AnswerSent DEF Kinds
  <2>9. \A k \in Kinds : Asked(toTask'[w], k) \/ Draws(client'[w].drawing, k) => DueOf(w, k)
    BY <1>4, <2>1, <2>2, <2>3 DEF Draws
  <2> QED BY <2>1, <2>3, <2>4, <2>5, <2>6, <2>7, <2>8, <2>9 DEF Acts
<1>11. ASSUME Phase(w) = "open", Tell(w, "close")
       PROVE  \A k \in Kinds, v \in Win : Waiting(toWinman', k, v) <=> Waiting(toWinman, k, v)
  <2>1. ~ Waiting(toWinman, "close", w)
    BY <1>11 DEF IInv, LifeInv, Life
  <2> QED BY <1>11, <2>1, RequestSent
<1>12. [c EXCEPT !.phase = "closing"] \in Clients /\ [c EXCEPT !.phase = "ending"] \in Clients
  BY <1>1 DEF Clients
<1>13. CASE CloseRequested(w)
  <2>1. HasOrder(w, "close") /\ Handled(w) /\ UNCHANGED frame
    BY <1>13 DEF CloseRequested
  <2>2. /\ \A v \in Win : v # w => client'[v] = client[v]
        /\ client'[w].draw_enable = c.draw_enable /\ client'[w].mode0 = c.mode0
        /\ client'[w].drawing = c.drawing
        /\ \A k \in Kinds, v \in Win : Waiting(toWinman', k, v) <=> Waiting(toWinman, k, v)
    <3>1. CASE Phase(w) = "open"
      <4> DEFINE d == [c EXCEPT !.phase = "ending"]
      <4>1. client' = [client EXCEPT ![w] = d] /\ Tell(w, "close")
        BY <1>13, <3>1 DEF CloseRequested, Marked, Phase
      <4>2. client'[w] = d /\ \A v \in Win : v # w => client'[v] = client[v]
        BY <1>1, <1>12, <4>1, ClientOf
      <4>3. d.draw_enable = c.draw_enable /\ d.mode0 = c.mode0 /\ d.drawing = c.drawing
        BY <1>1 DEF Clients
      <4> QED BY <1>11, <3>1, <4>1, <4>2, <4>3
    <3>2. CASE Phase(w) # "open"
      <4>1. Told(toTask[w], "close")
        BY <1>2, <2>1
      <4>2. Phase(w) # "ending"
        BY <4>1 DEF IInv, LifeInv, Life
      <4>3. UNCHANGED <<client, toWinman>>
        BY <1>13, <3>2, <4>2 DEF CloseRequested, Marked, Phase
      <4> QED BY <4>3
    <3> QED BY <3>1, <3>2
  <2>3. Heeded(w)
    BY <1>3, <2>1, <2>2
  <2>4. Loud(w)' <=> Loud(w)
    BY <1>2, <2>1, <2>2 DEF Loud
  <2> QED BY <1>2, <1>4, <2>1, <2>2, <2>3, <2>4 DEF Acts
<1>14. CASE Closed(w)
  <2>1. /\ HasOrder(w, "closed") /\ Handled(w) /\ UNCHANGED <<toWinman, frame>>
        /\ client' = [client EXCEPT ![w] = NoClient]
    BY <1>14 DEF Closed
  <2>2. NoClient \in Clients
    BY DEF NoClient, Clients
  <2>3. client'[w] = NoClient /\ \A v \in Win : v # w => client'[v] = client[v]
    BY <1>1, <2>1, <2>2, ClientOf
  <2>4. w \notin ToSet(stack) /\ toTask'[w] = <<>>
    BY <1>2, <2>1 DEF IInv, LifeInv, Life
  <2>5. ~ client'[w].draw_enable /\ client'[w].drawing = "no"
    BY <2>3 DEF NoClient
  <2>6. ~ Told(toTask'[w], "enable") /\ ~ Told(toTask'[w], "redraw")
    BY <2>4, MailEmpty
  <2>7. Heeded(w)
    BY <2>4, <2>5, <2>6 DEF Heeded
  <2>8. ~ Loud(w)' /\ ~ Loud(w)
    <3>1. ~ Told(toTask[w], "redraw") /\ client[w].drawing = "no"
      BY <1>2, <2>1, <2>6
    <3> QED BY <2>5, <2>6, <3>1 DEF Loud
  <2>9. \A k \in Kinds : ~ Asked(toTask'[w], k) /\ ~ Draws(client'[w].drawing, k)
    BY <2>4, <2>5, MailEmpty DEF Draws
  <2> QED BY <1>2, <2>1, <2>3, <2>7, <2>8, <2>9 DEF Acts
<1>15. CASE ClosesWindow(w)
  <2> DEFINE d == [c EXCEPT !.phase = "closing"]
  <2>1. /\ Phase(w) = "open" /\ Tell(w, "close") /\ UNCHANGED <<toTask, frame>>
        /\ client' = [client EXCEPT ![w] = d]
    BY <1>15 DEF ClosesWindow, AppClose, Phase
  <2>2. client'[w] = d /\ \A v \in Win : v # w => client'[v] = client[v]
    BY <1>1, <1>12, <2>1, ClientOf
  <2>3. d.draw_enable = c.draw_enable /\ d.mode0 = c.mode0 /\ d.drawing = c.drawing
    BY <1>1 DEF Clients
  <2>4. Heeded(w)
    BY <2>1, <2>2, <2>3 DEF Heeded
  <2>5. Loud(w)' <=> Loud(w)
    BY <2>1, <2>2, <2>3 DEF Loud
  <2> QED BY <1>4, <1>11, <2>1, <2>2, <2>3, <2>4, <2>5 DEF Acts
<1> QED BY <1>5, <1>6, <1>7, <1>8, <1>9, <1>10, <1>13, <1>14, <1>15 DEF Answer

LEMMA TasksKeep ==
  ASSUME IInv, IInv', DInv, Eager = {}, NEW w \in Win, Task(w), UNCHANGED winmanVars
  PROVE  DInv'
BY TaskActs, ActsKeep DEF Task

LEMMA OpensKeeps ==
  ASSUME IInv, IInv', DInv, OpensWindow, UNCHANGED winmanVars
  PROVE  DInv'
<1>1. PICK w \in Win : w = Head(unuse) /\ w \in ToSet(unuse)
  BY Shape, RingRest DEF OpensWindow, IInv
<1> DEFINE d == [NoClient EXCEPT !.phase = "open"]
<1>2. /\ Phase(w) = "none" /\ toTask[w] = <<>> /\ Tell(w, "open") /\ UNCHANGED <<toTask, frame>>
      /\ client' = [client EXCEPT ![w] = d]
  BY <1>1 DEF OpensWindow, AppOpen, Phase
<1>3. d \in Clients /\ d.draw_enable = FALSE /\ d.drawing = "no"
  BY DEF NoClient, Clients
<1>4. client'[w] = d /\ \A v \in Win : v # w => client'[v] = client[v]
  BY <1>2, <1>3, ClientOf DEF IInv
<1>5. \A v : ~ Waiting(toWinman, "open", v)
  <2>1. \A i \in 1 .. Len(toWinman) : toWinman[i].sig # "open"
    BY DEF OpensWindow
  <2> QED BY <2>1, MessageIs DEF Waiting, Has
<1>6. ~ Waiting(toWinman, "close", w)
  BY <1>2, <1>1 DEF IInv, LifeInv, Life
<1>7. \A k \in Kinds, v \in Win : Waiting(toWinman', k, v) <=> Waiting(toWinman, k, v)
  BY <1>2, <1>5, <1>6, RequestSent
<1>8. w \notin ToSet(stack)
  BY <1>1 DEF IInv, SlotsInv
<1>9. ~ Told(toTask[w], "enable") /\ ~ Told(toTask[w], "redraw") /\ \A k : ~ Asked(toTask[w], k)
  BY <1>2, MailEmpty
<1>10. Heeded(w)
  BY <1>2, <1>3, <1>4, <1>8, <1>9 DEF Heeded
<1>11. client[w].drawing = "no"
  <2>1. ~ DueOf(w, "drawn")
    BY <1>8 DEF IInv, OwedInv, Awaited, Kinds
  <2> QED BY <2>1 DEF DueOf, Due, Draws
<1>12. ~ Loud(w)' /\ ~ Loud(w)
  BY <1>2, <1>3, <1>4, <1>9, <1>11 DEF Loud
<1>13. \A k \in Kinds : ~ Asked(toTask'[w], k) /\ ~ Draws(client'[w].drawing, k)
  BY <1>2, <1>3, <1>4, <1>9 DEF Draws
<1>14. Acts(w)
  BY <1>2, <1>4, <1>7, <1>10, <1>12, <1>13 DEF Acts
<1> QED BY <1>14, ActsKeep

-----------------------------------------------------------------------------
(* What winman0 does that changes nothing on the screen: it tells a task   *)
(* at most something about closing, and touches none of what it has noted  *)
(* about the windows that are open.                                        *)
CloseSigs == {"close", "closed"}
Stays ==
  /\ UNCHANGED <<stack, place, job, client, frame>>
  /\ \A v \in ToSet(stack) : condition'[v] = condition[v] /\ job_flag0'[v] = job_flag0[v]
  /\ \A v \in Win : \/ toTask'[v] = toTask[v]
                    \/ \E sig \in CloseSigs : toTask'[v] = Append(toTask[v], Order(sig))
  /\ \/ toWinman' = toWinman
     \/ toWinman # <<>> /\ toWinman' = Tail(toWinman)
     \/ \E key \in FunctionKeys \cup MoveKeys : Tell(None, key)

LEMMA StaysKeep ==
  ASSUME IInv, IInv', DInv, Stays
  PROVE  DInv'
<1>1. /\ UNCHANGED <<stack, place, job, client, frame>> /\ Top' = Top
      /\ \A v \in ToSet(stack) : condition'[v] = condition[v] /\ job_flag0'[v] = job_flag0[v]
  BY DEF Stays, Top
<1>2. /\ toTask \in [Win -> Seq(Orders)] /\ client \in [Win -> Clients]
      /\ toWinman \in Seq(Messages) /\ ToSet(stack) \subseteq Win
      /\ stack # <<>> => Top \in ToSet(stack)
  BY Shape DEF IInv
<1>3. ASSUME NEW v \in Win
      PROVE  /\ \A s \in {"enable", "disable", "mode", "redraw", "redrawdif"} :
                  Told(toTask'[v], s) <=> Told(toTask[v], s)
             /\ \A k \in Kinds : Asked(toTask'[v], k) <=> Asked(toTask[v], k)
             /\ Told(toTask[v], "closed") => Told(toTask'[v], "closed")
             /\ \A on, cond, forgot, due :
                  Agrees(toTask[v], client[v], on, cond, forgot, due) =>
                    Agrees(toTask'[v], client[v], on, cond, forgot, due)
  <2>1. CASE toTask'[v] = toTask[v]
    BY <2>1
  <2>2. ASSUME NEW sig \in CloseSigs, toTask'[v] = Append(toTask[v], Order(sig))
        PROVE  /\ \A s \in {"enable", "disable", "mode", "redraw", "redrawdif"} :
                    Told(toTask'[v], s) <=> Told(toTask[v], s)
               /\ \A k \in Kinds : Asked(toTask'[v], k) <=> Asked(toTask[v], k)
               /\ Told(toTask[v], "closed") => Told(toTask'[v], "closed")
               /\ \A on, cond, forgot, due :
                    Agrees(toTask[v], client[v], on, cond, forgot, due) =>
                      Agrees(toTask'[v], client[v], on, cond, forgot, due)
    <3>1. Order(sig) \in Orders /\ Order(sig).sig = sig /\ toTask[v] \in Seq(Orders)
      BY <1>2 DEF Order, Orders, CloseSigs
    <3>2. /\ \A s : Told(toTask'[v], s) <=> Told(toTask[v], s) \/ s = sig
          /\ \A k : Asked(toTask'[v], k) <=> Asked(toTask[v], k) \/ sig \in Asking(k)
      BY <2>2, <3>1, MailAdd
    <3>3. sig \notin {"enable", "disable", "mode", "redraw", "redrawdif"}
          /\ \A k \in Kinds : sig \notin Asking(k)
      BY DEF CloseSigs, Asking, Kinds
    <3>4. \A on, cond, forgot, due :
            Agrees(toTask[v], client[v], on, cond, forgot, due) =>
              Agrees(toTask'[v], client[v], on, cond, forgot, due)
      BY <2>2, <3>1, AgreesClose DEF CloseSigs
    <3> QED BY <3>2, <3>3, <3>4
  <2> QED BY <2>1, <2>2 DEF Stays
<1>4. ASSUME NEW v \in Win, NEW k \in Kinds, DueOf(v, k)' PROVE DueOf(v, k)
  <2>1. Waiting(toWinman', k, v) => Waiting(toWinman, k, v)
    <3>1. CASE toWinman' = toWinman
      BY <3>1
    <3>2. CASE toWinman # <<>> /\ toWinman' = Tail(toWinman)
      BY <1>2, <3>2, HasTail DEF Waiting
    <3>3. ASSUME NEW key \in FunctionKeys \cup MoveKeys, Tell(None, key)
          PROVE  Waiting(toWinman', k, v) => Waiting(toWinman, k, v)
      <4>1. Msg(key, None) \in Messages /\ v # None
        BY WinAssumption DEF Messages, Keys, Msg
      <4>2. toWinman' = Append(toWinman, Msg(key, None))
        BY <3>3 DEF Tell, Msg
      <4> QED BY <1>2, <4>1, <4>2, BoxTell
    <3> QED BY <3>1, <3>2, <3>3 DEF Stays
  <2> QED BY <1>1, <1>3, <1>4, <2>1 DEF DueOf, Due
<1>5. TasksInv'
  <2>1. ASSUME NEW v \in ToSet(stack)
        PROVE  Agrees(toTask[v], client[v], On(v), condition[v], Forgot(v), IsDue(v))'
    <3>1. PICK on \in BOOLEAN : on <=> On(v)
      OBVIOUS
    <3>2. PICK forgot \in BOOLEAN : forgot <=> Forgot(v)
      OBVIOUS
    <3>3. PICK due \in BOOLEAN : due <=> IsDue(v)
      OBVIOUS
    <3>4. Agrees(toTask[v], client[v], On(v), condition[v], Forgot(v), IsDue(v))
      BY <1>2 DEF DInv, TasksInv
    <3>5. Agrees(toTask[v], client[v], on, condition[v], forgot, due)
      BY <3>1, <3>2, <3>3, <3>4 DEF Agrees, Knows, Shows
    <3>6. Agrees(toTask'[v], client'[v], on, condition'[v], forgot, due)
      BY <1>1, <1>2, <1>3, <3>5
    <3>7. /\ On(v)' <=> on
          /\ Forgot(v)' <=> forgot
          /\ IsDue(v)' <=> due
      BY <1>1, <3>1, <3>2, <3>3 DEF On, OnBy, Forgot, IsDue
    <3> QED BY <3>6, <3>7 DEF Agrees, Knows, Shows
  <2>2. ASSUME NEW v \in Win, v \notin ToSet(stack), ~ Told(toTask'[v], "closed")
        PROVE  ~ client'[v].draw_enable /\ ~ Told(toTask'[v], "enable")
    BY <1>1, <1>3, <2>2 DEF DInv, TasksInv
  <2> QED BY <1>1, <2>1, <2>2 DEF TasksInv
<1>6. ApartInv'
  <2>1. \A v \in ToSet(stack) : MayDraw(v)' => MayDraw(v)
    BY <1>1, <1>2, <1>4 DEF MayDraw, On, OnBy, Kinds
  <2> QED BY <1>1, <2>1 DEF DInv, ApartInv
<1>7. IdleInv'
  BY <1>1 DEF DInv, IdleInv, Right
<1>8. \A v \in ToSet(stack) : Told(toTask'[v], "redraw") <=> Told(toTask[v], "redraw")
  BY <1>2, <1>3
<1>9. SteerInv'
  <2> SUFFICES ASSUME job.func \in {"movewin1", "movewin6"} PROVE SteerInv'
    BY <1>1 DEF SteerInv
  <2>1. Top \in ToSet(stack)
    BY <1>2 DEF IInv, JobInv
  <2>2. \A v \in ToSet(stack) : DueOf(v, "drawn")' => DueOf(v, "drawn")
    BY <1>2, <1>4 DEF Kinds
  <2> QED BY <1>1, <1>8, <2>1, <2>2 DEF DInv, SteerInv, Right
<1>10. RedrawInv'
  <2> SUFFICES ASSUME job.func = "general2", job.now # "none" PROVE RedrawInv'
    BY <1>1 DEF RedrawInv
  <2>1. Top \in ToSet(stack)
    BY <1>2 DEF IInv, JobInv
  <2>2. FrameGoes(frame, \/ "must" \in job_flag0[Top] \/ Told(toTask[Top], "redraw")
                         \/ client[Top].drawing = "full")'
    BY <1>1, <1>8, <2>1 DEF DInv, RedrawInv, FrameGoes
  <2>3. \A k \in 1 .. Len(stack) : stack[k] \in ToSet(stack)
    BY Shape, MembersOf DEF IInv
  <2> QED BY <1>1, <2>2, <2>3 DEF DInv, RedrawInv, Right
<1> QED BY <1>5, <1>6, <1>7, <1>9, <1>10 DEF DInv

(* Nothing that winman0 draws or notes changes.                            *)
LEMMA SameStays ==
  ASSUME UNCHANGED <<stack, place, condition, job_flag0, job, toTask, client, frame>>,
         \/ toWinman' = toWinman
         \/ toWinman # <<>> /\ toWinman' = Tail(toWinman)
         \/ \E key \in FunctionKeys \cup MoveKeys : Tell(None, key)
  PROVE  Stays
BY DEF Stays

LEMMA NotWild ==
  ASSUME IInv'
  PROVE  ~ Wild
BY DEF IInv, JobInv, Wild

LEMMA RequestsStay ==
  ASSUME IInv', HearOpen \/ HearClose, UNCHANGED client
  PROVE  Stays
<1>1. toWinman # <<>> /\ toWinman' = Tail(toWinman)
  BY NotWild DEF HearOpen, HearClose, Hears
<1>2. UNCHANGED <<stack, place, condition, job_flag0, job, toTask, client, frame>>
  BY NotWild DEF HearOpen, HearClose, screenVars
<1> QED BY <1>1, <1>2, SameStays

LEMMA JobKeyStays ==
  ASSUME IInv', NEW sig, NEW cmd, NEW w, HearJobKey(sig, cmd, w), UNCHANGED client
  PROVE  Stays
<1>1. toWinman # <<>> /\ toWinman' = Tail(toWinman)
  BY NotWild DEF HearJobKey, Hears
<1>2. UNCHANGED <<stack, place, condition, job_flag0, job, toTask, client, frame>>
  BY NotWild DEF HearJobKey, keyRest, screenVars
<1> QED BY <1>1, <1>2, SameStays

LEMMA JobKeysStay ==
  ASSUME IInv', HearBottomKey \/ HearSecondKey \/ HearMoveKey, UNCHANGED client
  PROVE  Stays
BY JobKeyStays DEF HearBottomKey, HearSecondKey, HearMoveKey

LEMMA CloseKeyStays ==
  ASSUME IInv, HearCloseKey, UNCHANGED client
  PROVE  Stays
<1>1. toTask \in [Win -> Seq(Orders)]
  BY Shape DEF IInv
<1>2. toWinman # <<>> /\ toWinman' = Tail(toWinman)
  BY DEF HearCloseKey, Hears
<1>3. UNCHANGED <<stack, place, condition, job_flag0, job, client, frame>>
  BY DEF HearCloseKey, keyRest, screenVars
<1>4. ASSUME NEW v \in Win
      PROVE  toTask'[v] = toTask[v] \/ \E sig \in CloseSigs : toTask'[v] = Append(toTask[v], Order(sig))
  <2>1. \/ toTask' = toTask
        \/ toTask' = [toTask EXCEPT ![Top] = Append(@, Order("close"))]
    BY DEF HearCloseKey
  <2>2. toTask'[v] = toTask[v] \/ toTask'[v] = Append(toTask[v], Order("close"))
    BY <1>1, <2>1
  <2> QED BY <2>2 DEF CloseSigs
<1> QED BY <1>2, <1>3, <1>4 DEF Stays

LEMMA UserStays ==
  ASSUME UNCHANGED client,
         \/ \E key \in FunctionKeys \cup MoveKeys : Press(key)
         \/ \E w \in Win : Click(w)
         \/ PressTitle
  PROVE  Stays
<1>1. CASE \E key \in FunctionKeys \cup MoveKeys : Press(key)
  BY <1>1, SameStays DEF Press, winmanVars, screenVars
<1>2. CASE \E w \in Win : Click(w)
  BY <1>2, SameStays DEF Click, keyRest, screenVars
<1>3. CASE PressTitle
  BY <1>3, SameStays DEF PressTitle, screenVars
<1> QED BY <1>1, <1>2, <1>3

LEMMA TooLargeStays ==
  ASSUME IInv, Starts("open"), NEW w \in Win, w = Head(list).win, TooLarge(w),
         UNCHANGED <<toWinman, frame, client>>
  PROVE  Stays
<1>1. /\ toTask \in [Win -> Seq(Orders)] /\ condition \in [Win -> SUBSET Condition]
      /\ job_flag0 \in [Win -> SUBSET Bits] /\ ToSet(stack) \subseteq Win
  BY Shape DEF IInv, TypeOK
<1>2. w \notin ToSet(stack)
  <2>1. Opening(w)
    BY JobStarts DEF Opening
  <2> QED BY <2>1 DEF IInv, SlotsInv
<1>3. /\ UNCHANGED <<stack, place, job>>
      /\ condition' = [condition EXCEPT ![w] = {}]
      /\ job_flag0' = [job_flag0 EXCEPT ![w] = {"nowindow"}]
      /\ toTask' = [toTask EXCEPT ![w] = Append(@, Order("close"))]
  BY DEF TooLarge
<1>4. \A v \in ToSet(stack) : condition'[v] = condition[v] /\ job_flag0'[v] = job_flag0[v]
  BY <1>1, <1>2, <1>3
<1>5. \A v \in Win : \/ toTask'[v] = toTask[v]
                     \/ \E sig \in CloseSigs : toTask'[v] = Append(toTask[v], Order(sig))
  BY <1>1, <1>3 DEF CloseSigs
<1> QED BY <1>3, <1>4, <1>5 DEF Stays

LEMMA CloseHiddenStays ==
  ASSUME IInv, NEW w \in Win, CloseHidden(w), UNCHANGED <<toWinman, frame, client>>
  PROVE  Stays
<1>1. toTask \in [Win -> Seq(Orders)]
  BY Shape DEF IInv
<1>2. /\ UNCHANGED <<stack, place, condition, job_flag0, job>>
      /\ toTask' = [toTask EXCEPT ![w] = Append(@, Order("closed"))]
  BY DEF CloseHidden
<1>3. \A v \in Win : \/ toTask'[v] = toTask[v]
                     \/ \E sig \in CloseSigs : toTask'[v] = Append(toTask[v], Order(sig))
  BY <1>1, <1>2 DEF CloseSigs
<1> QED BY <1>2, <1>3 DEF Stays

-----------------------------------------------------------------------------
(* What winman0 does when a task answers.                                  *)

(* Nothing is said to anyone, and at most a wait is over.                  *)
LEMMA AnswerLeaves ==
  ASSUME IInv, DInv, UNCHANGED <<stack, place, condition, toTask, client>>,
         \A v \in Win : job_flag0'[v] \ Waits = job_flag0[v] \ Waits,
         \A v \in Win, k \in Kinds : DueOf(v, k)' => DueOf(v, k)
  PROVE  TasksInv' /\ ApartInv' /\ Top' = Top
<1>1. Top' = Top /\ ToSet(stack) \subseteq Win
  BY Shape DEF Top, IInv
<1>2. ASSUME NEW v \in Win
      PROVE  /\ On(v)' <=> On(v)
             /\ Forgot(v)' <=> Forgot(v)
             /\ IsDue(v)' <=> IsDue(v)
  <2>1. job_flag0'[v] \ Waits = job_flag0[v] \ Waits
    OBVIOUS
  <2>2. /\ "override" \in job_flag0'[v] <=> "override" \in job_flag0[v]
        /\ "must" \in job_flag0'[v] <=> "must" \in job_flag0[v]
        /\ job_flag0'[v] \cap Condition = job_flag0[v] \cap Condition
    BY <2>1 DEF Waits, Condition
  <2> QED BY <1>1, <2>2 DEF On, OnBy, Forgot, IsDue
<1>3. TasksInv'
  <2>1. ASSUME NEW v \in Win, v \in ToSet(stack)
        PROVE  Agrees(toTask[v], client[v], On(v), condition[v], Forgot(v), IsDue(v))'
    <3>1. Agrees(toTask[v], client[v], On(v), condition[v], Forgot(v), IsDue(v))
      BY <2>1 DEF DInv, TasksInv
    <3>2. UNCHANGED <<toTask, client, condition>>
      OBVIOUS
    <3> QED BY <1>2, <3>1, <3>2 DEF Agrees, Knows, Shows
  <2> QED BY <2>1 DEF DInv, TasksInv
<1>4. ApartInv'
  <2>1. \A v \in ToSet(stack) : MayDraw(v)' => MayDraw(v)
    BY <1>1, <1>2 DEF MayDraw, Kinds
  <2> QED BY <2>1 DEF DInv, ApartInv
<1> QED BY <1>1, <1>3, <1>4

LEMMA FrameOnce ==
  ASSUME NEW p
  PROVE  Frame({}, p) = {p}
BY DEF Frame

LEMMA FrameAppearsDraws ==
  ASSUME IInv, IInv', DInv, NEW sig \in Kinds, Hears(sig), toWinman' = Tail(toWinman),
         AnswerRest, job.func = "movewin1", FrameAppears
  PROVE  DInv'
<1>1. job \in Progress /\ job' \in Progress /\ job.count = 1 /\ ~ job.ready
  BY Shape, AnswerHeard DEF IInv, JobInv, TypeOK
<1>2. /\ job' = [job EXCEPT !.count = @ - 1, !.ready = (job.count = 1) \/ @]
      /\ frame' = Frame(frame, job.pos)
      /\ UNCHANGED <<stack, place, condition, job_flag0, toTask, client>>
  BY <1>1 DEF FrameAppears, AnswerRest
<1>3. /\ job'.count = 0 /\ job'.ready /\ job'.func = "movewin1" /\ job'.pos = job.pos
      /\ job'.count = job.count - 1
  <2>1. job' = [job EXCEPT !.count = job.count - 1, !.ready = (job.count = 1) \/ job.ready]
    BY <1>2
  <2>2. job.count - 1 = 0 /\ ((job.count = 1) \/ job.ready) = TRUE
    BY <1>1
  <2>3. job' = [job EXCEPT !.count = 0, !.ready = TRUE]
    BY <2>1, <2>2
  <2> QED BY <1>1, <2>2, <2>3 DEF Progress
<1>4. \A v \in Win, k \in Kinds : DueOf(v, k)' => DueOf(v, k)
  BY <1>2, <1>3, AnswerCounted
<1>5. TasksInv' /\ ApartInv' /\ Top' = Top
  BY <1>2, <1>4, AnswerLeaves
<1>6. IdleInv' /\ RedrawInv'
  BY <1>3 DEF IInv, JobInv, IdleInv, RedrawInv
<1>7. SteerInv'
  <2>1. frame = {}
    BY <1>1 DEF DInv, SteerInv
  <2>2. frame' = {job.pos}
    BY <1>2, <2>1, FrameOnce
  <2>3. \A v \in ToSet(stack) : DueOf(v, "drawn")' => DueOf(v, "drawn")
    BY <1>4, Shape DEF Kinds, IInv
  <2> QED BY <1>2, <1>3, <1>5, <2>2, <2>3 DEF DInv, SteerInv, Right
<1> QED BY <1>5, <1>6, <1>7 DEF DInv

LEMMA FrameReturnsDraws ==
  ASSUME IInv, IInv', DInv, NEW sig \in Kinds, Hears(sig), toWinman' = Tail(toWinman),
         AnswerRest, job.func = "movewin6", FrameReturns
  PROVE  DInv'
<1>1. job \in Progress /\ job' \in Progress /\ job.count \in Nat /\ job.count # 0 /\ job.ready
  BY Shape, AnswerHeard DEF IInv, JobInv, TypeOK
<1>2. /\ job' = [job EXCEPT !.count = @ - 1]
      /\ frame' = IF job.count = 1 THEN Frame(frame, job.pos) ELSE frame
      /\ UNCHANGED <<stack, place, condition, job_flag0, toTask, client>>
  BY <1>1 DEF FrameReturns, AnswerRest
<1>3. /\ job'.count = job.count - 1 /\ job'.ready /\ job'.func = "movewin6" /\ job'.pos = job.pos
  BY <1>1, <1>2 DEF Progress
<1>4. \A v \in Win, k \in Kinds : DueOf(v, k)' => DueOf(v, k)
  BY <1>2, <1>3, AnswerCounted
<1>5. TasksInv' /\ ApartInv' /\ Top' = Top
  BY <1>2, <1>4, AnswerLeaves
<1>6. IdleInv' /\ RedrawInv'
  BY <1>3 DEF IInv, JobInv, IdleInv, RedrawInv
<1>7. SteerInv'
  <2>1. frame = {}
    BY <1>1 DEF DInv, SteerInv
  <2>2. frame' = IF job'.ready /\ job'.count = 0 THEN {job'.pos} ELSE {}
    <3>1. job'.count = 0 <=> job.count = 1
      BY <1>1, <1>3
    <3>2. Frame({}, job.pos) = {job.pos}
      BY FrameOnce
    <3> QED BY <1>2, <1>3, <2>1, <3>1, <3>2
  <2>3. \A v \in ToSet(stack) : DueOf(v, "drawn")' => DueOf(v, "drawn")
    BY <1>4, Shape DEF Kinds, IInv
  <2> QED BY <1>2, <1>3, <1>5, <2>2, <2>3 DEF DInv, SteerInv, Right
<1> QED BY <1>5, <1>6, <1>7 DEF DInv

LEMMA RedrawIsAsked ==
  ASSUME NEW q, Told(q, "redraw")
  PROVE  Asked(q, "drawn")
<1>1. \A o : o \in OrdersOf({"redraw"}) => o \in OrdersOf(Asking("drawn"))
  BY DEF OrdersOf, Asking
<1> QED BY <1>1 DEF Told, Asked, Has

LEMMA FullIsDrawn ==
  ASSUME NEW d, d = "full"
  PROVE  Draws(d, "drawn")
BY DEF Draws

(* What an answer changes of the notes.                                    *)
LEMMA NotesLeft ==
  ASSUME IInv, NEW sig \in Kinds, Hears(sig), toWinman' = Tail(toWinman), job.func = "general2",
         NEW fl, fl = [job_flag0 EXCEPT ![Sender] = @ \ {WaitFor(sig)}]
  PROVE  /\ \A v \in Win : fl[v] \ Waits = job_flag0[v] \ Waits
         /\ \A v \in Win : v # job.win => fl[v] = job_flag0[v]
         /\ fl \in [Win -> SUBSET Bits] /\ job.win \in ToSet(stack) /\ job.now # "none"
         /\ job_flag0[job.win] \subseteq Waits /\ fl[job.win] \subseteq Waits
<1>1. /\ fl \in [Win -> SUBSET Bits] /\ Sender = job.win
      /\ \A v \in Win : v # Sender => fl[v] = job_flag0[v]
      /\ \A v \in Win : fl[v] \subseteq job_flag0[v]
  <2>1. /\ fl \in [Win -> SUBSET Bits] /\ WaitFor(sig) \in job_flag0[Sender] /\ Sender = job.win
        /\ \A v \in Win : /\ v # Sender => fl[v] = job_flag0[v] /\ fl[v] \cap Waits = {}
                          /\ fl[v] \subseteq job_flag0[v]
                          /\ "nowindow" \in fl[v] <=> "nowindow" \in job_flag0[v]
    <3> DEFINE g == [job_flag0 EXCEPT ![Sender] = @ \ {WaitFor(sig)}]
    <3>1. /\ g \in [Win -> SUBSET Bits] /\ WaitFor(sig) \in job_flag0[Sender] /\ Sender = job.win
          /\ \A v \in Win : /\ v # Sender => g[v] = job_flag0[v] /\ g[v] \cap Waits = {}
                            /\ g[v] \subseteq job_flag0[v]
                            /\ "nowindow" \in g[v] <=> "nowindow" \in job_flag0[v]
          /\ \A v \in Win, k \in Kinds : WaitFor(k) \in g[v] <=> Left(v, k)
          /\ job.count = 1 => \A v \in Win, k \in Kinds :
               /\ ~ Left(v, k) /\ g[v] \cap Waits = {}
               /\ ~ Asked(toTask[v], k) /\ AskedOnce(toTask[v], k)
               /\ ~ Draws(client[v].drawing, k) /\ ~ Waiting(toWinman', k, v)
      BY WaitEnds
    <3>2. fl = g
      OBVIOUS
    <3> HIDE DEF g
    <3> QED BY <3>1, <3>2
  <2> QED BY <2>1
<1>2. job.now # "none" /\ Sender \in Win
  BY AnswerHeard
<1>3. job.win \in ToSet(stack) /\ job_flag0[job.win] \subseteq Waits
  BY <1>2 DEF IInv, JobInv
<1>4. \A v \in Win : fl[v] \ Waits = job_flag0[v] \ Waits
  <2>1. fl[Sender] \ Waits = {} /\ job_flag0[Sender] \ Waits = {}
    BY <1>1, <1>2, <1>3
  <2> QED BY <1>1, <2>1
<1> QED BY <1>1, <1>2, <1>3, <1>4

(* The first of two answers, ...                                           *)
LEMMA OneAnswerDraws ==
  ASSUME IInv, IInv', DInv, NEW sig \in Kinds, Hears(sig), toWinman' = Tail(toWinman),
         AnswerRest, job.func = "general2",
         NEW fl, fl = [job_flag0 EXCEPT ![Sender] = @ \ {WaitFor(sig)}],
         job'.now = job.now, job'.win = job.win, job'.func = job.func, job_flag0' = fl,
         UNCHANGED <<condition, toTask, frame>>
  PROVE  DInv'
<1>1. /\ \A v \in Win : fl[v] \ Waits = job_flag0[v] \ Waits
      /\ \A v \in Win : v # job.win => fl[v] = job_flag0[v]
      /\ job.win \in ToSet(stack) /\ job.now # "none"
  BY NotesLeft
<1>2. UNCHANGED <<stack, place, condition, toTask, client, frame>>
  BY DEF AnswerRest
<1>3. \A v \in Win, k \in Kinds : DueOf(v, k)' => DueOf(v, k)
  <2>1. \A v \in Win, k \in Kinds : DueOf(v, k)' <=> Left(v, k)
    BY <1>2 DEF DueOf, Left
  <2>2. \A v \in Win, k \in Kinds : Left(v, k) => DueOf(v, k)
    BY AnswerHeard
  <2> QED BY <2>1, <2>2
<1>4. TasksInv' /\ ApartInv' /\ Top' = Top
  BY <1>1, <1>2, <1>3, AnswerLeaves
<1>5. IdleInv' /\ SteerInv'
  BY <1>1 DEF IdleInv, SteerInv
<1>6. RedrawInv'
  <2>1. /\ stack \in Seq(Win) /\ ToSet(stack) \subseteq Win /\ Top \in Win
        /\ \A k \in 1 .. Len(stack) : stack[k] \in Win
    <3>1. TypeOK /\ stack # <<>>
      BY <1>1 DEF IInv, JobInv
    <3>2. stack \in Seq(Win) /\ ToSet(stack) \subseteq Win /\ Top \in Win
      BY <3>1, Shape
    <3> QED BY <3>2
  <2>2. "must" \in fl[Top] <=> "must" \in job_flag0[Top]
    BY <1>1, <2>1 DEF Waits
  <2>3. FrameGoes(frame, \/ "must" \in job_flag0[Top] \/ Told(toTask[Top], "redraw")
                         \/ client[Top].drawing = "full")'
    BY <1>1, <1>2, <1>4, <2>2 DEF DInv, RedrawInv, FrameGoes
  <2>4. At(stack, job.win) \in 1 .. Len(stack) /\ stack[At(stack, job.win)] = job.win
    BY <1>1, <2>1, PlaceOf
  <2>5. \A k \in 1 .. Len(stack) : stack[k] = job.win => k = At(stack, job.win)
    BY <2>1, PlaceAt DEF IInv, SlotsInv
  <2>6. \A k \in 1 .. Len(stack) : k # At(stack, job.win) => fl[stack[k]] = job_flag0[stack[k]]
    <3>1. \A k \in 1 .. Len(stack) : k # At(stack, job.win) => stack[k] # job.win
      BY <2>5
    <3> QED BY <1>1, <2>1, <3>1
  <2>7. ASSUME NEW k \in 1 .. Len(stack)
        PROVE  /\ k > At(stack, job.win) => fl[stack[k]] = {} /\ Right(stack[k])
               /\ k = At(stack, job.win) => Right(stack[k])
               /\ k < At(stack, job.win) =>
                    Pending(fl[stack[k]], condition[stack[k]], NewCondition(stack, place, stack[k]))
    <3>1. /\ k > At(stack, job.win) => job_flag0[stack[k]] = {} /\ Right(stack[k])
          /\ k = At(stack, job.win) => Right(stack[k])
          /\ k < At(stack, job.win) =>
               Pending(job_flag0[stack[k]], condition[stack[k]], NewCondition(stack, place, stack[k]))
      BY <1>1 DEF DInv, RedrawInv
    <3>2. k > At(stack, job.win) \/ k < At(stack, job.win) => fl[stack[k]] = job_flag0[stack[k]]
      <4>1. k > At(stack, job.win) \/ k < At(stack, job.win) => k # At(stack, job.win)
        BY <2>4
      <4> QED BY <2>6, <4>1
    <3> QED BY <3>1, <3>2
  <2>8. \A k \in 1 .. Len(stack) : Right(stack[k])' <=> Right(stack[k])
    BY <1>2 DEF Right
  <2> QED BY <1>2, <2>3, <2>7, <2>8 DEF RedrawInv
<1> QED BY <1>4, <1>5, <1>6 DEF DInv

LEMMA StackShape ==
  ASSUME IInv, stack # <<>>
  PROVE  /\ stack \in Seq(Win) /\ IsInjective(stack) /\ Len(stack) \in Nat \ {0}
         /\ ToSet(stack) \subseteq Win /\ Top \in Win /\ Top \in ToSet(stack)
         /\ Top = Head(stack) /\ Top = stack[1]
         /\ \A k \in 1 .. Len(stack) :
              stack[k] \in Win /\ stack[k] \in ToSet(stack) /\ At(stack, stack[k]) = k
         /\ \A v \in ToSet(stack) : \E k \in 1 .. Len(stack) : v = stack[k]
         /\ toTask \in [Win -> Seq(Orders)] /\ client \in [Win -> Clients]
         /\ condition \in [Win -> SUBSET Condition] /\ job_flag0 \in [Win -> SUBSET Bits]
         /\ place \in [Win -> Place] /\ job \in Progress
<1>1. TypeOK /\ IsInjective(stack)
  BY DEF IInv, SlotsInv
<1>2. /\ stack \in Seq(Win) /\ ToSet(stack) \subseteq Win
      /\ Top = Head(stack) /\ Top \in ToSet(stack) /\ Top \in Win
  BY <1>1, Shape
<1>3. Len(stack) \in Nat \ {0} /\ Top = stack[1]
  BY <1>2
<1>4. \A k \in 1 .. Len(stack) :
        stack[k] \in Win /\ stack[k] \in ToSet(stack) /\ At(stack, stack[k]) = k
  BY <1>1, <1>2, PlaceAt
<1>5. \A v \in ToSet(stack) : \E k \in 1 .. Len(stack) : v = stack[k]
  BY <1>2, MembersOf
<1>6. /\ toTask \in [Win -> Seq(Orders)] /\ client \in [Win -> Clients]
      /\ condition \in [Win -> SUBSET Condition] /\ job_flag0 \in [Win -> SUBSET Bits]
      /\ place \in [Win -> Place] /\ job \in Progress
  BY <1>1 DEF TypeOK
<1> QED BY <1>1, <1>2, <1>3, <1>4, <1>5, <1>6

(* ... and the last that is awaited.                                       *)
LEMMA NothingLeft ==
  ASSUME IInv, NEW sig \in Kinds, Hears(sig), toWinman' = Tail(toWinman), job.func = "general2",
         NEW fl, fl = [job_flag0 EXCEPT ![Sender] = @ \ {WaitFor(sig)}], job.count = 1
  PROVE  /\ \A v \in Win : fl[v] \cap Waits = {}
         /\ \A v \in Win, k \in Kinds :
              /\ ~ Asked(toTask[v], k) /\ ~ Draws(client[v].drawing, k)
              /\ ~ Waiting(toWinman', k, v)
<1> DEFINE g == [job_flag0 EXCEPT ![Sender] = @ \ {WaitFor(sig)}]
<1>1. /\ g \in [Win -> SUBSET Bits] /\ WaitFor(sig) \in job_flag0[Sender] /\ Sender = job.win
      /\ \A v \in Win : /\ v # Sender => g[v] = job_flag0[v] /\ g[v] \cap Waits = {}
                        /\ g[v] \subseteq job_flag0[v]
                        /\ "nowindow" \in g[v] <=> "nowindow" \in job_flag0[v]
      /\ \A v \in Win, k \in Kinds : WaitFor(k) \in g[v] <=> Left(v, k)
      /\ job.count = 1 => \A v \in Win, k \in Kinds :
           /\ ~ Left(v, k) /\ g[v] \cap Waits = {}
           /\ ~ Asked(toTask[v], k) /\ AskedOnce(toTask[v], k)
           /\ ~ Draws(client[v].drawing, k) /\ ~ Waiting(toWinman', k, v)
  BY WaitEnds
<1>2. fl = g
  OBVIOUS
<1> HIDE DEF g
<1>3. "drawn" \in Kinds
  BY DEF Kinds
<1> QED BY <1>1, <1>2, <1>3

LEMMA AllDoneDraws ==
  ASSUME IInv, IInv', DInv, NEW sig \in Kinds, Hears(sig), toWinman' = Tail(toWinman),
         AnswerRest, job.func = "general2",
         NEW fl, fl = [job_flag0 EXCEPT ![Sender] = @ \ {WaitFor(sig)}], job.count = 1,
         job.win = Top, fl[Top] = {},
         job'.now = "none", job'.func = "general2", job_flag0' = fl,
         UNCHANGED <<condition, toTask, frame>>
  PROVE  DInv'
<1>1. /\ \A v \in Win : fl[v] \ Waits = job_flag0[v] \ Waits
      /\ \A v \in Win : v # job.win => fl[v] = job_flag0[v]
      /\ job.win \in ToSet(stack) /\ job.now # "none"
      /\ job_flag0[job.win] \subseteq Waits
  BY NotesLeft
<1>2. UNCHANGED <<stack, place, condition, toTask, client, frame>>
  BY DEF AnswerRest
<1>3. \A v \in Win, k \in Kinds : DueOf(v, k)' => DueOf(v, k)
  <2>1. \A v \in Win, k \in Kinds : DueOf(v, k)' <=> Left(v, k)
    BY <1>2 DEF DueOf, Left
  <2>2. \A v \in Win, k \in Kinds : Left(v, k) => DueOf(v, k)
    BY AnswerHeard
  <2> QED BY <2>1, <2>2
<1>4. TasksInv' /\ ApartInv' /\ Top' = Top
  BY <1>1, <1>2, <1>3, AnswerLeaves
<1>5. RedrawInv' /\ SteerInv'
  BY DEF RedrawInv, SteerInv
<1>6. IdleInv'
  <2>1. TypeOK /\ stack # <<>> /\ IsInjective(stack)
    BY <1>1 DEF IInv, JobInv, SlotsInv
  <2>2. /\ stack \in Seq(Win) /\ ToSet(stack) \subseteq Win /\ Top \in Win /\ Top = Head(stack)
        /\ \A k \in 1 .. Len(stack) : stack[k] \in Win
        /\ \A v \in ToSet(stack) : \E k \in 1 .. Len(stack) : v = stack[k]
    BY <2>1, StackShape
  <2>3. 1 \in 1 .. Len(stack) /\ Top = stack[1]
    BY <2>1, <2>2
  <2>4. \A k \in 1 .. Len(stack) : At(stack, stack[k]) = k
    BY <2>1, <2>2, PlaceAt
  <2>5. At(stack, job.win) = 1
    BY <2>3, <2>4
  <2>6. frame' = {}
    <3>1. "must" \notin job_flag0[Top]
      BY <1>1 DEF Waits
    <3>2. ~ Asked(toTask[Top], "drawn") /\ ~ Draws(client[Top].drawing, "drawn")
      BY <2>2, NothingLeft DEF Kinds
    <3>3. ~ Told(toTask[Top], "redraw") /\ client[Top].drawing # "full"
      BY <3>2, RedrawIsAsked, FullIsDrawn
    <3> QED BY <1>1, <1>2, <3>1, <3>3 DEF DInv, RedrawInv, FrameGoes
  <2>7. ASSUME NEW w \in ToSet(stack) PROVE fl[w] = {} /\ Right(w)
    <3>1. PICK k \in 1 .. Len(stack) : w = stack[k]
      BY <2>2
    <3>2. CASE k = 1
      BY <1>1, <2>3, <2>5, <3>1, <3>2 DEF DInv, RedrawInv
    <3>3. CASE k # 1
      <4>1. k > At(stack, job.win) /\ w # job.win
        BY <2>4, <2>5, <3>1, <3>3
      <4>2. job_flag0[w] = {} /\ Right(w)
        BY <1>1, <3>1, <4>1 DEF DInv, RedrawInv
      <4> QED BY <1>1, <2>2, <4>1, <4>2
    <3> QED BY <3>2, <3>3
  <2>8. \A w \in ToSet(stack) : Right(w)' <=> Right(w)
    BY <1>2 DEF Right
  <2> QED BY <1>2, <2>6, <2>7, <2>8 DEF IdleInv
<1> QED BY <1>4, <1>5, <1>6 DEF DInv

LEMMA NextTurnDraws ==
  ASSUME IInv, IInv', DInv, NEW sig \in Kinds, Hears(sig), toWinman' = Tail(toWinman),
         AnswerRest, job.func = "general2", UNCHANGED frame,
         NEW fl, fl = [job_flag0 EXCEPT ![Sender] = @ \ {WaitFor(sig)}], job.count = 1,
         NEW at, at = At(stack, job.win), at # 1,
         NEW j \in Progress, j.func = "general2", j.now # "none",
         RedrawFrom(at - 1, condition, fl, toTask, j)
  PROVE  DInv'
<1>1. /\ \A v \in Win : fl[v] \ Waits = job_flag0[v] \ Waits
      /\ \A v \in Win : v # job.win => fl[v] = job_flag0[v]
      /\ fl \in [Win -> SUBSET Bits] /\ job.win \in ToSet(stack) /\ job.now # "none"
      /\ job_flag0[job.win] \subseteq Waits /\ fl[job.win] \subseteq Waits
  BY NotesLeft
<1>2. /\ \A v \in Win : fl[v] \cap Waits = {}
      /\ \A v \in Win, k \in Kinds :
           /\ ~ Asked(toTask[v], k) /\ ~ Draws(client[v].drawing, k)
           /\ ~ Waiting(toWinman', k, v)
  BY NothingLeft
<1>3. UNCHANGED <<stack, place, client, frame>> /\ Top' = Top
  BY DEF AnswerRest, Top
<1>4. TypeOK /\ stack # <<>> /\ IsInjective(stack)
  BY <1>1 DEF IInv, JobInv, SlotsInv
<1>5. /\ stack \in Seq(Win) /\ ToSet(stack) \subseteq Win /\ Top \in Win /\ Top \in ToSet(stack)
      /\ \A k \in 1 .. Len(stack) : stack[k] \in Win
      /\ \A v \in ToSet(stack) : \E k \in 1 .. Len(stack) : v = stack[k]
      /\ toTask \in [Win -> Seq(Orders)] /\ client \in [Win -> Clients]
      /\ condition \in [Win -> SUBSET Condition]
  BY <1>4, StackShape
<1>6. at \in 1 .. Len(stack) /\ stack[at] = job.win
  BY <1>1, <1>5, PlaceOf
<1>7. \A k \in 1 .. Len(stack) : At(stack, stack[k]) = k
  BY <1>4, <1>5, PlaceAt
<1>8. fl[job.win] = {} /\ \A v \in Win : "must" \in fl[v] <=> "must" \in job_flag0[v]
  <2>1. fl[job.win] \cap Waits = {} /\ fl[job.win] \subseteq Waits
    BY <1>1, <1>2, <1>5
  <2>2. \A v \in Win : "must" \in fl[v] <=> "must" \in job_flag0[v]
    <3>1. "must" \notin Waits
      BY DEF Waits
    <3>2. \A v \in Win : "must" \in fl[v] \ Waits <=> "must" \in job_flag0[v] \ Waits
      BY <1>1
    <3> QED BY <3>1, <3>2
  <2> QED BY <2>1, <2>2
<1>9. ASSUME NEW k \in 1 .. Len(stack)
      PROVE  /\ k > at => job_flag0[stack[k]] = {} /\ fl[stack[k]] = {} /\ Right(stack[k])
             /\ k = at => fl[stack[k]] = {} /\ Right(stack[k])
             /\ k < at => /\ fl[stack[k]] = job_flag0[stack[k]]
                          /\ Pending(fl[stack[k]], condition[stack[k]], NewCondition(stack, place, stack[k]))
  <2>1. /\ k > at => job_flag0[stack[k]] = {} /\ Right(stack[k])
        /\ k = at => Right(stack[k])
        /\ k < at => Pending(job_flag0[stack[k]], condition[stack[k]], NewCondition(stack, place, stack[k]))
    BY <1>1 DEF DInv, RedrawInv
  <2>2. k # at => stack[k] # job.win
    BY <1>6, <1>7
  <2>3. k # at => fl[stack[k]] = job_flag0[stack[k]]
    BY <1>1, <1>5, <2>2
  <2>4. k = at => fl[stack[k]] = {}
    BY <1>6, <1>8
  <2> QED BY <1>6, <2>1, <2>3, <2>4
<1>10. Waiters(at - 1, condition, fl)
  <2>1. ASSUME NEW k \in 1 .. Len(stack)
        PROVE  /\ k <= at - 1 => Pending(fl[stack[k]], condition[stack[k]], NewCondition(stack, place, stack[k]))
               /\ k > at - 1 => fl[stack[k]] = {} /\ condition[stack[k]] = NewCondition(stack, place, stack[k])
    <3>1. k <= at - 1 <=> k < at
      BY <1>6
    <3>2. k > at - 1 <=> k = at \/ k > at
      BY <1>6
    <3> QED BY <1>9, <3>1, <3>2 DEF Right
  <2> QED BY <1>3, <2>1 DEF Waiters
<1>11. AtRest(condition, fl, toTask)
  <2>1. ASSUME NEW w \in ToSet(stack) PROVE OnBy(condition, fl, w) <=> On(w)
    <3>1. fl[w] \ Waits = job_flag0[w] \ Waits
      BY <1>1, <1>5
    <3> QED BY <3>1 DEF On, OnBy, Waits
  <2>2. ASSUME NEW w \in ToSet(stack) PROVE Stands(w, condition, fl, toTask[w])
    <3>1. PICK on \in BOOLEAN : on <=> On(w)
      OBVIOUS
    <3>2. PICK forgot \in BOOLEAN : forgot <=> Forgot(w)
      OBVIOUS
    <3>3. PICK due \in BOOLEAN : due <=> IsDue(w)
      OBVIOUS
    <3>4. Agrees(toTask[w], client[w], On(w), condition[w], Forgot(w), IsDue(w))
      BY <1>5 DEF DInv, TasksInv
    <3>5. Agrees(toTask[w], client[w], on, condition[w], forgot, due)
      BY <3>1, <3>2, <3>3, <3>4 DEF Agrees, Knows, Shows
    <3>6. ~ Asked(toTask[w], "stopped") /\ ~ Asked(toTask[w], "drawn") /\ client[w] \in Clients
      BY <1>2, <1>5 DEF Kinds
    <3>7. Rests(toTask[w], client[w], on, condition[w], forgot) /\ (Told(toTask[w], "mode") => due)
      BY <3>5, <3>6, AgreesRests
    <3>8. Rests(toTask[w], client[w], OnBy(condition, fl, w), condition[w], condition[w] = {} /\ w = Top)
      BY <2>1, <3>1, <3>2, <3>7 DEF Rests, Forgot
    <3>9. due => "must" \in fl[w] /\ condition[w] = NewCondition(stack, place, w)
      <4>1. PICK k \in 1 .. Len(stack) : w = stack[k]
        BY <1>5
      <4>2. due => "must" \in fl[w] /\ "must" \in job_flag0[w] /\ job_flag0[w] \cap Condition = condition[w]
        BY <1>5, <1>8, <3>3 DEF IsDue
      <4>3. due => k < at
        BY <1>6, <1>9, <4>1, <4>2
      <4> QED BY <1>9, <4>1, <4>2, <4>3 DEF Pending
    <3> QED BY <1>3, <3>7, <3>8, <3>9 DEF Stands
  <2>3. ASSUME NEW v \in ToSet(stack), NEW w \in ToSet(stack), v # w, Overlap(place[v], place[w])
        PROVE  ~ (OnBy(condition, fl, v) /\ OnBy(condition, fl, w))
    BY <2>1, <2>3 DEF DInv, ApartInv, MayDraw
  <2>4. frame \subseteq {place[Top]} /\ (frame # {} => "must" \in fl[Top])
    <3>1. ~ Asked(toTask[Top], "drawn") /\ ~ Draws(client[Top].drawing, "drawn")
      BY <1>2, <1>5 DEF Kinds
    <3>2. ~ Told(toTask[Top], "redraw") /\ client[Top].drawing # "full"
      BY <3>1, RedrawIsAsked, FullIsDrawn
    <3> QED BY <1>1, <1>5, <1>8, <3>2 DEF DInv, RedrawInv, FrameGoes
  <2>5. ASSUME NEW v \in Win, v \notin ToSet(stack), ~ Told(toTask[v], "closed")
        PROVE  ~ client[v].draw_enable /\ ~ Told(toTask[v], "enable")
    BY <2>5 DEF DInv, TasksInv
  <2> QED BY <1>3, <2>2, <2>3, <2>4, <2>5 DEF AtRest
<1>12. NoWaits(fl) /\ at - 1 \in 0 .. Len(stack') /\ stack' # <<>>
  BY <1>2, <1>3, <1>4, <1>6 DEF NoWaits
<1> QED BY <1>1, <1>5, <1>10, <1>11, <1>12, RedrawKeeps

LEMMA General2Draws ==
  ASSUME IInv, IInv', DInv, NEW sig \in Kinds, Hears(sig), toWinman' = Tail(toWinman),
         AnswerRest, job.func = "general2", General2(Sender, WaitFor(sig))
  PROVE  DInv'
<1> DEFINE fl == [job_flag0 EXCEPT ![Sender] = @ \ {WaitFor(sig)}]
           j == [job EXCEPT !.count = @ - 1]
           at == At(stack, job.win)
<1>1. WaitFor(sig) \in job_flag0[Sender]
  <2>1. DueOf(Sender, sig) /\ Sender \in Win
    BY AnswerHeard
  <2> QED BY <2>1 DEF IInv, OwedInv, Awaited, WaitFor
<1>2. /\ UNCHANGED frame
      /\ IF j.count # 0
         THEN job' = j /\ job_flag0' = fl /\ UNCHANGED <<condition, toTask>>
         ELSE IF job.win = Top /\ fl[Top] = {}
         THEN job' = [j EXCEPT !.now = "none"] /\ job_flag0' = fl /\ UNCHANGED <<condition, toTask>>
         ELSE RedrawFrom(IF at = 1 THEN Len(stack) ELSE at - 1, condition, fl, toTask, j)
  BY <1>1 DEF General2
<1>3. job \in Progress /\ job.count \in Nat /\ job.now # "none"
  BY Shape, AnswerHeard DEF IInv
<1>4. /\ j \in Progress /\ j.count = job.count - 1
      /\ j.now = job.now /\ j.func = job.func /\ j.win = job.win
  BY <1>3 DEF Progress
<1>5. /\ fl \in [Win -> SUBSET Bits] /\ job.win \in ToSet(stack) /\ fl[job.win] \subseteq Waits
      /\ fl = [job_flag0 EXCEPT ![Sender] = @ \ {WaitFor(sig)}]
  BY NotesLeft
<1> HIDE DEF fl, j
<1>6. CASE j.count # 0
  BY <1>2, <1>4, <1>5, <1>6, OneAnswerDraws
<1>7. CASE j.count = 0
  <2>1. job.count = 1
    BY <1>3, <1>4, <1>7
  <2>2. CASE job.win = Top /\ fl[Top] = {}
    <3>1. job' = [j EXCEPT !.now = "none"] /\ job_flag0' = fl /\ UNCHANGED <<condition, toTask, frame>>
      BY <1>2, <1>7, <2>2
    <3>2. job'.now = "none" /\ job'.func = "general2"
      BY <1>4, <3>1 DEF Progress
    <3> QED BY <1>5, <2>1, <2>2, <3>1, <3>2, AllDoneDraws
  <2>3. CASE ~ (job.win = Top /\ fl[Top] = {})
    <3>1. at # 1
      <4>1. \A v \in Win : fl[v] \cap Waits = {}
        BY <1>5, <2>1, NothingLeft
      <4>2. TypeOK /\ stack # <<>> /\ job.win \in Win
        BY <1>3, <1>5, Shape DEF IInv, JobInv
      <4>3. fl[job.win] = {}
        BY <1>5, <4>1, <4>2
      <4>4. at = 1 => job.win = Top
        <5>1. stack \in Seq(Win) /\ Top = Head(stack)
          BY <4>2, Shape
        <5>2. stack[at] = job.win
          BY <1>5, <5>1, PlaceOf
        <5> QED BY <4>2, <5>1, <5>2
      <4> QED BY <2>3, <4>3, <4>4
    <3>2. RedrawFrom(at - 1, condition, fl, toTask, j)
      BY <1>2, <1>7, <2>3, <3>1
    <3> QED BY <1>2, <1>3, <1>4, <1>5, <2>1, <3>1, <3>2, NextTurnDraws
  <2> QED BY <2>2, <2>3
<1> QED BY <1>6, <1>7

LEMMA HearAnswerDraws ==
  ASSUME IInv, IInv', DInv, NEW sig \in Kinds, HearAnswer(sig, WaitFor(sig)), UNCHANGED client
  PROVE  DInv'
<1>1. Hears(sig)
  BY DEF HearAnswer
<1>2. ~ Contains(unuse, Sender) /\ job.now # "none" /\ DueOf(Sender, sig) /\ Sender \in Win
  BY <1>1, AnswerIsDue
<1>3. job.func # "none" /\ (job.func = "movewin1" => sig = "stopped")
  BY <1>2 DEF IInv, JobInv, OwedInv, Awaited
<1>4. /\ \/ job.func = "movewin1" /\ FrameAppears
         \/ job.func = "movewin6" /\ FrameReturns
         \/ job.func = "general2" /\ General2(Sender, WaitFor(sig)) /\ UNCHANGED keys
      /\ toWinman' = Tail(toWinman)
      /\ UNCHANGED <<unuse, closing, iactive, pokon0, list, press, wild>>
  BY <1>2, <1>3 DEF HearAnswer, Kinds
<1>5. AnswerRest
  BY <1>4 DEF AnswerRest, FrameAppears, FrameReturns, General2
<1> QED BY <1>1, <1>4, <1>5, FrameAppearsDraws, FrameReturnsDraws, General2Draws
-----------------------------------------------------------------------------
(* When no job is in progress every task knows just what winman0 thinks it *)
(* knows, and that is right.                                               *)
LEMMA AtIdle ==
  ASSUME IInv, DInv, job.now = "none"
  PROVE  /\ frame = {}
         /\ \A v \in ToSet(stack) :
              /\ job_flag0[v] = {} /\ Right(v) /\ ~ Told(toTask[v], "mode")
              /\ Rests(toTask[v], client[v], "show" \in condition[v], condition[v], FALSE)
              /\ ~ Draws(client[v].drawing, "drawn")
         /\ \A v, w \in ToSet(stack) : v # w /\ Overlap(place[v], place[w]) =>
              ~ ("show" \in condition[v] /\ "show" \in condition[w])
<1>1. OwedInv /\ job.count = 0
  BY DEF IInv, JobInv
<1>2. frame = {} /\ \A v \in ToSet(stack) : job_flag0[v] = {} /\ Right(v)
  BY DEF DInv, IdleInv
<1>3. ASSUME NEW v \in ToSet(stack)
      PROVE  /\ ~ Told(toTask[v], "mode")
             /\ Rests(toTask[v], client[v], "show" \in condition[v], condition[v], FALSE)
             /\ ~ Draws(client[v].drawing, "drawn")
             /\ MayDraw(v) <=> "show" \in condition[v]
  <2>1. /\ stack # <<>> /\ v \in Win /\ client[v] \in Clients /\ NewCondition(stack, place, Top) = Condition
        /\ job_flag0[v] = {} /\ Right(v) /\ stack \in Seq(Win)
    <3>1. stack # <<>> /\ v \in Win
      BY Shape, MembersOf DEF IInv
    <3>2. stack \in Seq(Win) /\ IsInjective(stack) /\ Top = Head(stack) /\ client[v] \in Clients
      BY <3>1, Shape DEF IInv, SlotsInv
    <3> QED BY <1>2, <3>1, <3>2, ConditionOf
  <2>2. /\ ~ Asked(toTask[v], "stopped") /\ ~ Asked(toTask[v], "drawn") /\ ~ DueOf(v, "stopped")
        /\ ~ Draws(client[v].drawing, "drawn")
    BY <1>1, <2>1, NothingDue DEF Kinds
  <2>3. Agrees(toTask[v], client[v], On(v), condition[v], Forgot(v), IsDue(v))
    BY <2>1 DEF DInv, TasksInv
  <2>4. ~ IsDue(v) /\ ~ Forgot(v)
    <3>1. ~ IsDue(v)
      BY <2>1 DEF IsDue
    <3>2. v = Top => condition[v] # {}
      BY <2>1 DEF Right, Condition
    <3> QED BY <3>1, <3>2 DEF Forgot
  <2>5. On(v) <=> "show" \in condition[v]
    BY <2>1 DEF On, OnBy
  <2>6. ~ Told(toTask[v], "mode")
    BY <2>2, <2>3, <2>4 DEF Agrees, Shows
  <2>7. Rests(toTask[v], client[v], "show" \in condition[v], condition[v], FALSE)
    <3>1. client[v].draw_enable \in BOOLEAN
      BY <2>1 DEF Clients
    <3> QED BY <2>2, <2>3, <2>4, <2>5, <2>6, <3>1 DEF Agrees, Knows, Shows, Rests
  <2> QED BY <2>2, <2>5, <2>6, <2>7 DEF MayDraw
<1>4. \A v, w \in ToSet(stack) : v # w /\ Overlap(place[v], place[w]) =>
        ~ ("show" \in condition[v] /\ "show" \in condition[w])
  BY <1>3 DEF DInv, ApartInv
<1> QED BY <1>2, <1>3, <1>4

(* A task the new job says nothing to is at rest as the job begins.        *)
LEMMA IdleStands ==
  ASSUME IInv, DInv, job.now = "none", UNCHANGED client, NEW v \in ToSet(stack),
         NEW cd, NEW fl, cd[v] = condition[v], "override" \notin fl[v]
  PROVE  Stands(v, cd, fl, toTask[v]) /\ (OnBy(cd, fl, v) <=> "show" \in condition[v])
<1>1. /\ ~ Told(toTask[v], "mode")
      /\ Rests(toTask[v], client[v], "show" \in condition[v], condition[v], FALSE)
  BY AtIdle
<1> QED BY <1>1 DEF Stands, Rests, OnBy

(* A window opens: it is on top, and told its condition before it is drawn. *)
LEMMA OpenWindowDraws ==
  ASSUME IInv, IInv', DInv, Starts("open"), NEW w \in Win, w = Head(list).win, NEW p \in Place,
         OpenWindow(w, p), UNCHANGED <<frame, client>>
  PROVE  DInv'
<1> DEFINE cd == [condition EXCEPT ![w] = Condition]
           fl == [job_flag0 EXCEPT ![w] = {"must", "override"}]
           t == Append(toTask[w], Mode(Condition))
           box == [toTask EXCEPT ![w] = Append(@, Mode(Condition))]
           j == [job EXCEPT !.now = "open"]
<1>1. stack' = <<w>> \o stack /\ place' = [place EXCEPT ![w] = p] /\ General1(cd, fl, box, j)
  BY DEF OpenWindow
<1>2. /\ Opening(w) /\ job.now = "none" /\ \A v \in Win : job_flag0[v] \cap Waits = {}
  BY JobStarts DEF Opening
<1>3. w \notin ToSet(stack) /\ toTask[w] = <<>> /\ ~ Told(toTask[w], "closed")
  BY <1>2 DEF IInv, SlotsInv, LifeInv, Life
<1>4. /\ toTask \in [Win -> Seq(Orders)] /\ job_flag0 \in [Win -> SUBSET Bits]
      /\ condition \in [Win -> SUBSET Condition] /\ job \in Progress
      /\ stack \in Seq(Win) /\ IsInjective(stack) /\ place \in [Win -> Place]
      /\ client \in [Win -> Clients]
  BY DEF TypeOK, SlotsInv, IInv
<1>5. /\ stack' \in Seq(Win) /\ stack' # <<>> /\ Head(stack') = w
      /\ ToSet(stack') = ToSet(stack) \cup {w} /\ IsInjective(stack')
  BY <1>1, <1>3, <1>4, RingPush
<1>6. Top' = w /\ NewCondition(stack', place', w) = Condition
  BY <1>5, TurnShape, ConditionOf DEF Top
<1>7. /\ ~ client[w].draw_enable /\ client[w] \in Clients
      /\ \A v \in Win : v \notin ToSet(stack) /\ ~ Told(toTask[v], "closed") =>
           ~ client[v].draw_enable /\ ~ Told(toTask[v], "enable")
  BY <1>3, <1>4 DEF DInv, TasksInv
<1>8. /\ t \in Seq(Orders) /\ \A forgot : Rests(t, client[w], FALSE, Condition, forgot)
  BY <1>3, <1>7, OpenedRests
<1>9. /\ box \in [Win -> Seq(Orders)] /\ box[w] = t /\ \A v \in Win : v # w => box[v] = toTask[v]
  <2> HIDE DEF t
  <2>1. box = [toTask EXCEPT ![w] = t]
    BY DEF t
  <2> HIDE DEF box
  <2> QED BY <1>4, <1>8, <2>1
<1>10. /\ fl \in [Win -> SUBSET Bits] /\ fl[w] = {"must", "override"} /\ NoWaits(fl)
       /\ \A v \in Win : v # w => fl[v] = job_flag0[v]
  <2>1. {"must", "override"} \in SUBSET Bits /\ {"must", "override"} \cap Waits = {}
    BY DEF Bits, Waits
  <2> QED BY <1>2, <1>4, <2>1 DEF NoWaits
<1>11. cd \in [Win -> SUBSET Condition] /\ cd[w] = Condition /\ \A v \in Win : v # w => cd[v] = condition[v]
  BY <1>4
<1>12. j \in Progress /\ j.now # "none"
  BY <1>4 DEF Progress
<1> HIDE DEF cd, fl, box, j, t
<1>13. Stands(w, cd, fl, box[w]) /\ ~ OnBy(cd, fl, w)
  <2>1. ~ OnBy(cd, fl, w)
    BY <1>10 DEF OnBy
  <2> QED BY <1>6, <1>8, <1>9, <1>10, <1>11, <2>1 DEF Stands, Rests
<1>14. ASSUME NEW v \in ToSet(stack)
       PROVE  /\ Stands(v, cd, fl, box[v])
              /\ OnBy(cd, fl, v) <=> "show" \in condition[v]
              /\ place'[v] = place[v]
  <2>1. v \in Win /\ v # w
    BY <1>3, <1>4, MembersOf
  <2>2. cd[v] = condition[v] /\ fl[v] = job_flag0[v] /\ box[v] = toTask[v] /\ job_flag0[v] = {}
    BY <1>2, <1>9, <1>10, <1>11, <2>1, AtIdle
  <2>3. "override" \notin fl[v]
    BY <2>2
  <2>4. Stands(v, cd, fl, toTask[v]) /\ (OnBy(cd, fl, v) <=> "show" \in condition[v])
    BY <1>2, <2>2, <2>3, IdleStands
  <2> QED BY <1>1, <1>4, <2>1, <2>2, <2>4
<1>15. AtRest(cd, fl, box)
  <2>1. frame' = {}
    BY <1>2, AtIdle
  <2>2. \A v \in ToSet(stack') : Stands(v, cd, fl, box[v])
    BY <1>5, <1>13, <1>14
  <2>3. ASSUME NEW v \in ToSet(stack'), NEW u \in ToSet(stack'), v # u, Overlap(place'[v], place'[u])
        PROVE  ~ (OnBy(cd, fl, v) /\ OnBy(cd, fl, u))
    <3>1. CASE v = w \/ u = w
      BY <1>13, <3>1
    <3>2. CASE v # w /\ u # w
      <4>1. v \in ToSet(stack) /\ u \in ToSet(stack)
        BY <1>5, <3>2
      <4> QED BY <1>2, <1>14, <2>3, <4>1, AtIdle
    <3> QED BY <3>1, <3>2
  <2>4. ASSUME NEW v \in Win, v \notin ToSet(stack'), ~ Told(box[v], "closed")
        PROVE  ~ client'[v].draw_enable /\ ~ Told(box[v], "enable")
    <3>1. v # w /\ v \notin ToSet(stack) /\ box[v] = toTask[v]
      BY <1>5, <1>9, <2>4
    <3> QED BY <1>7, <2>4, <3>1
  <2> QED BY <2>1, <2>2, <2>3, <2>4 DEF AtRest
<1> QED BY <1>1, <1>5, <1>9, <1>10, <1>11, <1>12, <1>15, General1Keeps

LEMMA RunOpenDraws ==
  ASSUME IInv, IInv', DInv, RunOpen, UNCHANGED client
  PROVE  DInv'
<1>1. Starts("open") /\ UNCHANGED <<toWinman, frame>>
  BY DEF RunOpen
<1>2. PICK w \in Win : w = Head(list).win
  BY <1>1, JobStarts
<1>3. TooLarge(w) \/ \E p \in IF stack = <<>> THEN {Home} ELSE Place : OpenWindow(w, p)
  BY <1>2 DEF RunOpen
<1>4. TooLarge(w) \/ \E p \in Place : OpenWindow(w, p)
  BY <1>3, HomeAssumption
<1>5. CASE TooLarge(w)
  <2>1. Stays
    BY <1>1, <1>2, <1>5, TooLargeStays
  <2> QED BY <2>1, StaysKeep
<1>6. CASE \E p \in Place : OpenWindow(w, p)
  BY <1>1, <1>2, <1>6, OpenWindowDraws
<1> QED BY <1>4, <1>5, <1>6

(* A window comes to the top: nothing is said before the first turn.       *)
LEMMA ActivateWindowDraws ==
  ASSUME IInv, IInv', DInv, Starts("activate"), NEW w \in ToSet(stack), ActivateWindow(w),
         UNCHANGED <<frame, client>>
  PROVE  DInv'
<1> DEFINE s == RemoveAt(stack, At(stack, w))
           j == [job EXCEPT !.now = "activate"]
<1>1. stack' = <<w>> \o s /\ UNCHANGED place /\ General1(condition, job_flag0, toTask, j)
  BY DEF ActivateWindow
<1>2. job.now = "none" /\ NoWaits(job_flag0)
  BY JobStarts DEF NoWaits
<1>3. /\ toTask \in [Win -> Seq(Orders)] /\ job_flag0 \in [Win -> SUBSET Bits]
      /\ condition \in [Win -> SUBSET Condition] /\ job \in Progress
      /\ stack \in Seq(Win) /\ IsInjective(stack) /\ w \in Win
  BY Shape DEF TypeOK, SlotsInv, IInv
<1>4. s \in Seq(Win) /\ IsInjective(s) /\ ToSet(s) = ToSet(stack) \ {w}
  BY <1>3, RingWithout
<1> HIDE DEF s
<1>5. stack' # <<>> /\ ToSet(stack') = ToSet(stack)
  <2>1. stack' # <<>> /\ ToSet(stack') = ToSet(s) \cup {w}
    BY <1>1, <1>3, <1>4, RingPush
  <2> QED BY <1>4, <2>1
<1>6. j \in Progress /\ j.now # "none"
  BY <1>3 DEF Progress
<1> HIDE DEF j
<1>7. ASSUME NEW v \in ToSet(stack)
      PROVE  /\ Stands(v, condition, job_flag0, toTask[v])
             /\ OnBy(condition, job_flag0, v) <=> "show" \in condition[v]
  <2>1. "override" \notin job_flag0[v]
    BY <1>2, AtIdle
  <2> QED BY <1>2, <2>1, IdleStands
<1>8. AtRest(condition, job_flag0, toTask)
  <2>1. frame' = {}
    BY <1>2, AtIdle
  <2>2. \A v, u \in ToSet(stack') : v # u /\ Overlap(place'[v], place'[u]) =>
          ~ (OnBy(condition, job_flag0, v) /\ OnBy(condition, job_flag0, u))
    BY <1>1, <1>2, <1>5, <1>7, AtIdle
  <2>3. \A v \in Win : v \notin ToSet(stack') /\ ~ Told(toTask[v], "closed") =>
          ~ client'[v].draw_enable /\ ~ Told(toTask[v], "enable")
    BY <1>5 DEF DInv, TasksInv
  <2> QED BY <1>5, <1>7, <2>1, <2>2, <2>3 DEF AtRest
<1> QED BY <1>1, <1>2, <1>3, <1>5, <1>6, <1>8, General1Keeps

LEMMA RunActivateDraws ==
  ASSUME IInv, IInv', DInv, RunActivate, UNCHANGED client
  PROVE  DInv'
<1>1. Starts("activate")
  BY DEF RunActivate
<1>2. PICK w \in Win : w = Head(list).win /\ InJobs(list, "activate", w)
  BY <1>1, JobStarts
<1>3. w \in ToSet(stack) /\ Open = ToSet(stack)
  BY <1>2, Shape DEF IInv, JobsInv
<1>4. /\ UNCHANGED <<toWinman, frame>>
      /\ IF w = Top
         THEN UNCHANGED <<stack, place, iactive, keys, damaged, job, job_flag0, condition, toTask>>
         ELSE ActivateWindow(w)
  BY <1>2, <1>3 DEF RunActivate
<1>5. CASE w # Top
  BY <1>1, <1>3, <1>4, <1>5, ActivateWindowDraws
<1>6. CASE w = Top
  <2>1. Stays
    BY <1>4, <1>6, SameStays
  <2> QED BY <2>1, StaysKeep
<1> QED BY <1>5, <1>6

(* A window closes: the others stand as they did.                          *)
LEMMA CloseWindowDraws ==
  ASSUME IInv, IInv', DInv, Starts("close"), NEW w \in ToSet(stack), w = Head(list).win,
         CloseWindow(w), UNCHANGED <<frame, client>>
  PROVE  DInv'
<1> DEFINE s == RemoveAt(stack, At(stack, w))
           m == CloseMarks(s, w)
           cd == [condition EXCEPT ![w] = {}]
           fl == [CloseMarks(s, w) EXCEPT ![w] = {}]
           box == [toTask EXCEPT ![w] = Append(@, Order("closed"))]
           j == [job EXCEPT !.now = "close"]
<1>1. stack' = s /\ place' = [place EXCEPT ![w] = Home] /\ General1(cd, fl, box, j)
  BY DEF CloseWindow
<1>2. /\ job.now = "none"
      /\ \A v \in Win, k \in Kinds : ~ Asked(toTask[v], k) /\ AskedOnce(toTask[v], k)
      /\ \A v \in Win : job_flag0[v] \cap Waits = {}
  BY JobStarts
<1>3. /\ toTask \in [Win -> Seq(Orders)] /\ job_flag0 \in [Win -> SUBSET Bits]
      /\ condition \in [Win -> SUBSET Condition] /\ job \in Progress /\ place \in [Win -> Place]
      /\ stack \in Seq(Win) /\ IsInjective(stack) /\ w \in Win
  BY Shape DEF TypeOK, SlotsInv, IInv
<1>4. ~ Told(toTask[w], "closed") /\ ToldOnce(toTask[w]) /\ pokon0 \in ToSet(stack) \ {w}
  BY <1>3, CloseStarts DEF IInv, ShellInv
<1>5. s \in Seq(Win) /\ IsInjective(s) /\ ToSet(s) = ToSet(stack) \ {w} /\ s # <<>>
  <2>1. s \in Seq(Win) /\ IsInjective(s) /\ ToSet(s) = ToSet(stack) \ {w}
    BY <1>3, RingWithout
  <2> QED BY <1>4, <2>1, MembersOf
<1>6. /\ m \in [Win -> SUBSET Bits]
      /\ \A v \in Win : m[v] = job_flag0[v] \/ m[v] = job_flag0[v] \cup {"must"}
  <2>1. \A v \in Win : job_flag0[v] \cup {"must"} \in SUBSET Bits
    BY <1>3 DEF Bits
  <2> QED BY <1>3, <2>1 DEF CloseMarks
<1>7. /\ fl \in [Win -> SUBSET Bits] /\ NoWaits(fl)
      /\ \A v \in Win : v # w => fl[v] = job_flag0[v] \/ fl[v] = job_flag0[v] \cup {"must"}
  <2> HIDE DEF s, m
  <2>1. fl = [m EXCEPT ![w] = {}]
    BY DEF m
  <2> HIDE DEF fl
  <2>2. /\ fl \in [Win -> SUBSET Bits] /\ fl[w] = {}
        /\ \A v \in Win : v # w => fl[v] = m[v]
    BY <1>3, <1>6, <2>1
  <2>3. "must" \notin Waits
    BY DEF Waits
  <2>4. ASSUME NEW v \in Win PROVE fl[v] \cap Waits = {}
    BY <1>2, <1>6, <2>2, <2>3
  <2> QED BY <1>6, <2>2, <2>4 DEF NoWaits
<1>8. /\ box \in [Win -> Seq(Orders)] /\ \A v \in Win : v # w => box[v] = toTask[v]
      /\ Told(box[w], "closed")
  <2> HIDE DEF box
  <2>1. box = [toTask EXCEPT ![w] = Append(@, Order("closed"))]
    BY DEF box
  <2>2. ToldLast(box, w)
    BY <1>2, <1>3, <1>4, <2>1, ToldClosed DEF IInv
  <2> QED BY <2>2 DEF ToldLast
<1>9. cd \in [Win -> SUBSET Condition] /\ \A v \in Win : v # w => cd[v] = condition[v]
  BY <1>3
<1>10. j \in Progress /\ j.now # "none"
  BY <1>3 DEF Progress
<1> HIDE DEF s, m, cd, fl, box, j
<1>11. ASSUME NEW v \in ToSet(stack')
       PROVE  /\ Stands(v, cd, fl, box[v])
              /\ OnBy(cd, fl, v) <=> "show" \in condition[v]
              /\ place'[v] = place[v] /\ v \in ToSet(stack)
  <2>1. v \in Win /\ v # w /\ v \in ToSet(stack)
    BY <1>1, <1>3, <1>5, MembersOf
  <2>2. cd[v] = condition[v] /\ box[v] = toTask[v] /\ job_flag0[v] = {}
    BY <1>2, <1>8, <1>9, <2>1, AtIdle
  <2>3. "override" \notin fl[v]
    BY <1>7, <2>1, <2>2
  <2>4. Stands(v, cd, fl, toTask[v]) /\ (OnBy(cd, fl, v) <=> "show" \in condition[v])
    BY <1>2, <2>1, <2>2, <2>3, IdleStands
  <2> QED BY <1>1, <1>3, <2>1, <2>2, <2>4
<1>12. AtRest(cd, fl, box)
  <2>1. frame' = {}
    BY <1>2, AtIdle
  <2>2. \A v, u \in ToSet(stack') : v # u /\ Overlap(place'[v], place'[u]) =>
          ~ (OnBy(cd, fl, v) /\ OnBy(cd, fl, u))
    BY <1>2, <1>11, AtIdle
  <2>3. ASSUME NEW v \in Win, v \notin ToSet(stack'), ~ Told(box[v], "closed")
        PROVE  ~ client'[v].draw_enable /\ ~ Told(box[v], "enable")
    <3>1. v # w /\ v \notin ToSet(stack) /\ box[v] = toTask[v]
      BY <1>1, <1>5, <1>8, <2>3
    <3> QED BY <2>3, <3>1 DEF DInv, TasksInv
  <2> QED BY <1>11, <2>1, <2>2, <2>3 DEF AtRest
<1> QED BY <1>1, <1>5, <1>7, <1>8, <1>9, <1>10, <1>12, General1Keeps

LEMMA RunCloseDraws ==
  ASSUME IInv, IInv', DInv, RunClose, UNCHANGED client
  PROVE  DInv'
<1>1. Starts("close") /\ UNCHANGED <<toWinman, frame>>
  BY NotWild DEF RunClose
<1>2. PICK w \in Win : w = Head(list).win
  BY <1>1, JobStarts
<1>3. (w \in ToSet(stack) \/ Hidden(w)) /\ Open = ToSet(stack)
  BY <1>1, <1>2, CloseStarts, Shape DEF IInv
<1>4. (w \in Open /\ CloseWindow(w)) \/ (Hidden(w) /\ CloseHidden(w))
  BY <1>2, <1>3 DEF RunClose, Hidden
<1>5. CASE w \in Open /\ CloseWindow(w)
  BY <1>1, <1>2, <1>3, <1>5, CloseWindowDraws
<1>6. CASE Hidden(w) /\ CloseHidden(w)
  <2>1. Stays
    BY <1>1, <1>6, CloseHiddenStays
  <2> QED BY <2>1, StaysKeep
<1> QED BY <1>4, <1>5, <1>6

-----------------------------------------------------------------------------
(* A window that is moved.                                                 *)

(* The move begins: the top is told to stop, for the time of the move it   *)
(* shows nothing, and its frame is not drawn before it has stopped.        *)
LEMMA RunMoveDraws ==
  ASSUME IInv, IInv', DInv, RunMove, UNCHANGED client
  PROVE  DInv'
<1>1. Starts("move")
  BY DEF RunMove
<1>2. PICK w \in Win : w = Head(list).win /\ InJobs(list, "move", w)
  BY <1>1, JobStarts
<1>3. w \in ToSet(stack) /\ w = Top /\ Open = ToSet(stack) /\ stack # <<>>
  <2>1. w \in ToSet(stack) /\ w = Top
    BY <1>2 DEF IInv, JobsInv
  <2> QED BY <2>1, Shape, MembersOf DEF IInv
<1>4. /\ condition' = [condition EXCEPT ![w] = {}]
      /\ toTask' = [toTask EXCEPT ![w] = Append(toTask[w], Order("disable"))]
      /\ job_flag0' = [v \in Win |-> IF v \in Open /\ At(stack, v) >= At(stack, w)
                                     THEN {} ELSE job_flag0[v]]
      /\ job' = [job EXCEPT !.now = "move", !.func = "movewin1", !.count = 1, !.win = w,
                            !.pos = place[w]]
      /\ UNCHANGED <<stack, place, toWinman, frame>>
  BY <1>2, <1>3 DEF RunMove, StartMove, screenVars
<1>5. job.now = "none" /\ ~ job.ready
  BY <1>1, JobStarts
<1>6. /\ toTask \in [Win -> Seq(Orders)] /\ condition \in [Win -> SUBSET Condition]
      /\ job \in Progress /\ client \in [Win -> Clients] /\ ToSet(stack) \subseteq Win
      /\ stack \in Seq(Win) /\ IsInjective(stack) /\ Top = Head(stack)
  BY <1>3, Shape DEF IInv, TypeOK, SlotsInv
<1>7. /\ job'.now = "move" /\ job'.func = "movewin1" /\ ~ job'.ready /\ job'.pos = place[w]
      /\ Top' = w
  BY <1>3, <1>4, <1>5, <1>6 DEF Progress, Top
<1>8. /\ \A v \in Win : v # w => toTask'[v] = toTask[v] /\ condition'[v] = condition[v]
      /\ toTask'[w] = Append(toTask[w], Order("disable")) /\ condition'[w] = {}
  BY <1>4, <1>6
<1>9. \A v \in ToSet(stack) : job_flag0'[v] = {}
  BY <1>4, <1>5, <1>6, AtIdle
<1>10. condition[w] = Condition
  BY <1>3, <1>5, <1>6, AtIdle, ConditionOf DEF Right
<1>11. ASSUME NEW v \in Win
       PROVE  ~ DueOf(v, "drawn")' /\ (DueOf(v, "stopped")' => v = w)
  <2>1. Awaited(v, "drawn")' /\ Awaited(v, "stopped")'
    BY DEF IInv, OwedInv, Kinds
  <2> QED BY <1>7, <2>1 DEF Awaited
<1>12. TasksInv'
  <2>1. ASSUME NEW v \in ToSet(stack)
        PROVE  Agrees(toTask'[v], client'[v], On(v)', condition'[v], Forgot(v)', IsDue(v)')
    <3>0. PICK on \in BOOLEAN : on <=> "show" \in condition[v]
      OBVIOUS
    <3>1. ~ Told(toTask[v], "mode") /\ Rests(toTask[v], client[v], on, condition[v], FALSE)
      BY <1>5, <3>0, AtIdle DEF Rests
    <3>2. v \in Win /\ toTask[v] \in Seq(Orders) /\ client[v] \in Clients /\ client'[v] = client[v]
      BY <1>6
    <3>3. CASE v = w
      <4>1. Agrees(Append(toTask[w], Order("disable")), client[w], FALSE, {}, TRUE, FALSE)
        BY <3>1, <3>2, <3>3, RestsMet
      <4>2. ~ On(v)' /\ Forgot(v)'
        BY <1>7, <1>8, <3>3 DEF On, OnBy, Forgot
      <4> QED BY <1>8, <3>2, <3>3, <4>1, <4>2 DEF Agrees, Knows, Shows
    <3>4. CASE v # w
      <4>1. Agrees(toTask[v], client[v], on, condition[v], FALSE, FALSE)
        BY <3>1, <3>2, AgreesRests
      <4>2. On(v)' <=> "show" \in condition[v]
        BY <1>8, <1>9, <3>2, <3>4 DEF On, OnBy
      <4> QED BY <1>8, <3>0, <3>2, <3>4, <4>1, <4>2 DEF Agrees, Knows, Shows
    <3> QED BY <3>3, <3>4
  <2>2. \A v \in Win : v \notin ToSet(stack) => toTask'[v] = toTask[v]
    BY <1>3, <1>8
  <2> QED BY <1>4, <2>1, <2>2 DEF DInv, TasksInv
<1>13. ApartInv'
  <2>1. ASSUME NEW v \in ToSet(stack), MayDraw(v)' PROVE "show" \in condition[v]
    <3>1. CASE v = w
      BY <1>10, <3>1 DEF Condition
    <3>2. CASE v # w
      <4>1. On(v)'
        BY <1>6, <1>11, <2>1, <3>2 DEF MayDraw
      <4> QED BY <1>6, <1>8, <3>2, <4>1 DEF On, OnBy
    <3> QED BY <3>1, <3>2
  <2> QED BY <1>4, <1>5, <2>1, AtIdle DEF ApartInv
<1>14. SteerInv'
  <2>1. frame' = {}
    BY <1>4, <1>5, AtIdle
  <2>2. ASSUME NEW v \in ToSet(stack)
        PROVE  /\ v # w => Right(v)'
               /\ job_flag0'[v] = {}
               /\ ~ ("show" \in condition'[v] /\ Overlap(place[v], place[w]))
               /\ ~ DueOf(v, "drawn")'
               /\ ~ Told(toTask'[v], "redraw") /\ client'[v].drawing # "full"
    <3>1. v # w => Right(v)'
      BY <1>4, <1>5, <1>6, <1>8, AtIdle DEF Right
    <3>2. ~ ("show" \in condition'[v] /\ Overlap(place[v], place[w]))
      BY <1>3, <1>5, <1>6, <1>8, <1>10, AtIdle DEF Condition
    <3>3. ~ DueOf(v, "drawn")'
      BY <1>6, <1>11
    <3>4. ~ Told(toTask'[v], "redraw") /\ client'[v].drawing # "full"
      BY <3>3, RedrawIsAsked, FullIsDrawn DEF DueOf, Due
    <3> QED BY <1>9, <3>1, <3>2, <3>3, <3>4
  <2> QED BY <1>4, <1>7, <1>8, <2>1, <2>2 DEF SteerInv
<1> QED BY <1>7, <1>12, <1>13, <1>14 DEF DInv, IdleInv, RedrawInv

(* While the frame is shown and no answer is awaited, everybody rests.     *)
LEMMA AtSteer ==
  ASSUME IInv, DInv, job.ready, job.count = 0
  PROVE  /\ condition[Top] = {} /\ frame = {job.pos}
         /\ job.now = "move" /\ job.win = Top /\ job.func \in {"movewin1", "movewin6"}
         /\ stack # <<>>
         /\ \A v \in ToSet(stack) :
              /\ job_flag0[v] \subseteq {"override"}
              /\ "override" \in job_flag0[v] <=>
                   "show" \in condition[v] /\ Overlap(place[v], job.pos)
              /\ ~ Told(toTask[v], "mode") /\ ~ Told(toTask[v], "redraw")
              /\ client[v].drawing # "full" /\ (v # Top => Right(v))
              /\ Rests(toTask[v], client[v], On(v), condition[v], Forgot(v))
         /\ \A v, w \in ToSet(stack) : v # w /\ Overlap(place[v], place[w]) =>
              ~ ("show" \in condition[v] /\ "show" \in condition[w])
<1>1. /\ job.now = "move" /\ job.win = Top /\ job.func \in {"movewin1", "movewin6"}
      /\ stack # <<>>
  BY Moving
<1>2. /\ condition[Top] = {} /\ frame = {job.pos}
      /\ \A v \in ToSet(stack) :
           /\ job_flag0[v] \subseteq {"override"}
           /\ "override" \in job_flag0[v] <=>
                "show" \in condition[v] /\ Overlap(place[v], job.pos)
           /\ ~ Told(toTask[v], "redraw")
           /\ client[v].drawing # "full" /\ (v # Top => Right(v))
  BY <1>1 DEF DInv, SteerInv
<1>3. ASSUME NEW v \in ToSet(stack)
      PROVE  /\ ~ Told(toTask[v], "mode")
             /\ Rests(toTask[v], client[v], On(v), condition[v], Forgot(v))
  <2>1. v \in Win /\ client[v].draw_enable \in BOOLEAN
    BY <1>1, StackShape DEF Clients
  <2>2. ~ Asked(toTask[v], "stopped") /\ ~ Asked(toTask[v], "drawn")
    BY <2>1, NothingDue DEF Kinds, IInv
  <2>3. Agrees(toTask[v], client[v], On(v), condition[v], Forgot(v), IsDue(v))
    BY <2>1 DEF DInv, TasksInv
  <2>4. ~ IsDue(v)
    BY <1>2 DEF IsDue
  <2>5. ~ Told(toTask[v], "mode")
    BY <2>2, <2>3, <2>4 DEF Agrees, Shows
  <2>6. Rests(toTask[v], client[v], On(v), condition[v], Forgot(v))
    BY <2>1, <2>2, <2>3, <2>5 DEF Agrees, Knows, Shows, Rests, On, OnBy
  <2> QED BY <2>5, <2>6
<1>4. ASSUME NEW v \in ToSet(stack), NEW w \in ToSet(stack), v # w,
             Overlap(place[v], place[w]), "show" \in condition[v], "show" \in condition[w]
      PROVE  FALSE
  <2>1. v # Top /\ w # Top
    BY <1>2, <1>4
  <2>2. "show" \in NewCondition(stack, place, v) /\ "show" \in NewCondition(stack, place, w)
    BY <1>2, <1>4, <2>1 DEF Right
  <2>3. stack \in Seq(Win) /\ IsInjective(stack) /\ place \in [Win -> Place]
    BY <1>1, StackShape
  <2> QED BY <1>4, <2>2, <2>3, ShownApart
<1> QED BY <1>1, <1>2, <1>3, <1>4

(* Whom the frame meets where it goes, and whom it leaves.                 *)
MetAt(p) ==
  { v \in Open : "show" \in condition[v] /\ Overlap(place[v], p) /\ "override" \notin job_flag0[v] }
LeftAt(p) ==
  { v \in Open : "show" \in condition[v] /\ ~ Overlap(place[v], p) /\ "override" \in job_flag0[v] }

LEMMA StepsOfFrame ==
  ASSUME TypeOK, NEW p \in Place, MoveFrame(p)
  PROVE  Steps(MetAt(p), LeftAt(p), p) /\ UNCHANGED <<stack, place, condition>>
<1> DEFINE shown == { v \in Open : "show" \in condition[v] }
           m == { v \in shown : Overlap(place[v], p) /\ "override" \notin job_flag0[v] }
           l == { v \in shown : ~ Overlap(place[v], p) /\ "override" \in job_flag0[v] }
<1>1. m \in SUBSET ToSet(stack) /\ l \in SUBSET ToSet(stack) /\ m \cap l = {}
  BY Shape
<1>2. Steps(m, l, p) /\ UNCHANGED <<stack, place, condition>>
  BY <1>1 DEF MoveFrame, Steps
<1>3. m = MetAt(p) /\ l = LeftAt(p)
  BY DEF MetAt, LeftAt
<1> HIDE DEF m, l
<1> QED BY <1>2, <1>3

(* Neither is told to draw all of its window.                              *)
LEMMA NoRedrawTold ==
  ASSUME NEW q \in Seq(Orders), ~ Told(q, "redraw")
  PROVE  /\ ~ Told(Append(q, Order("disable")), "redraw")
         /\ ~ Told(q \o <<Order("enable"), Order("redrawdif")>>, "redraw")
<1> DEFINE a == Order("enable")
           b == Order("redrawdif")
           c == Order("disable")
           r == Append(q, a)
           s == Append(r, b)
           t == Append(q, c)
<1>1. /\ a \in Orders /\ a.sig = "enable" /\ b \in Orders /\ b.sig = "redrawdif"
      /\ c \in Orders /\ c.sig = "disable"
  BY DEF Order, Orders
<1> HIDE DEF a, b, c
<1>2. q \o <<a, b>> = s
  BY <1>1
<1>3. r \in Seq(Orders) /\ ~ Told(r, "redraw") /\ ~ Told(t, "redraw")
  BY <1>1, MailAdd
<1> HIDE DEF r
<1>4. ~ Told(s, "redraw")
  BY <1>1, <1>3, MailAdd
<1> QED BY <1>2, <1>3, <1>4 DEF a, b, c

(* The frame goes on: it is gone until those it meets have stopped.        *)
LEMMA MoveFrameDraws ==
  ASSUME IInv, IInv', DInv, job.ready, job.count = 0, NEW p \in Place, MoveFrame(p), KeysGone
  PROVE  DInv'
<1> DEFINE m == MetAt(p)
           l == LeftAt(p)
           n == Cardinality(m \cup l)
<1>1. Steps(m, l, p) /\ UNCHANGED <<stack, place, condition, client>>
  BY StepsOfFrame DEF IInv, KeysGone
<1>2. \A v : /\ v \in m <=> v \in ToSet(stack) /\ "show" \in condition[v] /\ Overlap(place[v], p)
                            /\ "override" \notin job_flag0[v]
             /\ v \in l <=> v \in ToSet(stack) /\ "show" \in condition[v] /\ ~ Overlap(place[v], p)
                            /\ "override" \in job_flag0[v]
  BY Shape DEF MetAt, LeftAt, IInv
<1>3. Owing(m, l)
  BY <1>1, StepOwes
<1> HIDE DEF m, l
<1>4. /\ n \in Nat /\ (n = 0 <=> m \cup l = {})
      /\ \A v \in Win : v \notin m \cup l => toTask'[v] = toTask[v]
      /\ \A v \in Win, k \in Kinds : DueOf(v, k)' <=> (v \in m /\ k = "stopped") \/ (v \in l /\ k = "drawn")
  BY <1>3 DEF Owing
<1>5. /\ job' = [job EXCEPT !.pos = p, !.count = n, !.func = IF n = 0 THEN @ ELSE "movewin6"]
      /\ job_flag0' = [v \in Win |-> IF v \in m THEN job_flag0[v] \cup {"override"}
                                     ELSE IF v \in l THEN job_flag0[v] \ {"override"}
                                     ELSE job_flag0[v]]
      /\ toTask' = [v \in Win |->
                      IF v \in m THEN Append(toTask[v], Order("disable"))
                      ELSE IF v \in l THEN toTask[v] \o <<Order("enable"), Order("redrawdif")>>
                      ELSE toTask[v]]
      /\ frame' = FrameAt(n, p) /\ m \cap l = {}
  BY <1>1 DEF Steps
<1> HIDE DEF n
<1>6. /\ condition[Top] = {} /\ frame = {job.pos} /\ stack # <<>>
      /\ job.now = "move" /\ job.func \in {"movewin1", "movewin6"}
      /\ job \in Progress /\ ToSet(stack) \subseteq Win
      /\ toTask \in [Win -> Seq(Orders)] /\ client \in [Win -> Clients]
  BY AtSteer, StackShape
<1>7. /\ job'.now = "move" /\ job'.func \in {"movewin1", "movewin6"} /\ job'.ready
      /\ job'.count = n /\ job'.pos = p /\ Top' = Top
  <2> DEFINE f == IF n = 0 THEN job.func ELSE "movewin6"
  <2>1. job' = [job EXCEPT !.pos = p, !.count = n, !.func = f]
    BY <1>5
  <2>2. f \in {"movewin1", "movewin6"}
    BY <1>6
  <2> HIDE DEF f
  <2> QED BY <1>1, <1>6, <2>1, <2>2 DEF Progress, Top
<1>8. frame' = IF n = 0 THEN {p} ELSE {}
  <2>1. Frame(frame, job.pos) = {}
    BY <1>6 DEF Frame
  <2> QED BY <1>5, <2>1 DEF FrameAt, Frame
<1>9. ASSUME NEW v \in ToSet(stack)
      PROVE  /\ job_flag0'[v] \subseteq {"override"}
             /\ "override" \in job_flag0'[v] <=> "show" \in condition[v] /\ Overlap(place[v], p)
             /\ v \in m => On(v) /\ "override" \in job_flag0'[v]
             /\ v \in l => ~ On(v) /\ "override" \notin job_flag0'[v]
             /\ v \notin m \cup l => job_flag0'[v] = job_flag0[v]
  <2>1. /\ v \in Win /\ job_flag0[v] \subseteq {"override"}
        /\ "override" \in job_flag0[v] => "show" \in condition[v]
    BY <1>6, AtSteer
  <2>2. job_flag0'[v] = IF v \in m THEN job_flag0[v] \cup {"override"}
                        ELSE IF v \in l THEN job_flag0[v] \ {"override"} ELSE job_flag0[v]
    BY <1>5, <2>1
  <2> QED BY <1>2, <1>5, <2>1, <2>2 DEF On, OnBy
<1>10. TasksInv'
  <2>1. ASSUME NEW v \in ToSet(stack)
        PROVE  Agrees(toTask'[v], client'[v], On(v)', condition'[v], Forgot(v)', IsDue(v)')
    <3>1. PICK on \in BOOLEAN : on <=> On(v)
      OBVIOUS
    <3>2. PICK forgot \in BOOLEAN : forgot <=> Forgot(v)
      OBVIOUS
    <3>3. ~ Told(toTask[v], "mode") /\ Rests(toTask[v], client[v], on, condition[v], forgot)
      <4>1. ~ Told(toTask[v], "mode") /\ Rests(toTask[v], client[v], On(v), condition[v], Forgot(v))
        BY AtSteer
      <4> QED BY <3>1, <3>2, <4>1 DEF Rests
    <3>4. v \in Win /\ toTask[v] \in Seq(Orders) /\ client[v] \in Clients /\ client'[v] = client[v]
      BY <1>1, <1>6
    <3>5. (Forgot(v)' <=> forgot) /\ condition'[v] = condition[v]
      BY <1>1, <1>7, <3>2 DEF Forgot
    <3>6. On(v)' <=> IF v \in m THEN FALSE ELSE IF v \in l THEN TRUE ELSE on
      BY <1>1, <1>2, <1>5, <1>9, <3>1 DEF On, OnBy
    <3>7. CASE v \in m
      <4> DEFINE q == toTask[v]
                 c == client[v]
                 cond == condition[v]
      <4>0. /\ q \in Seq(Orders) /\ c \in Clients /\ Rests(q, c, on, cond, forgot)
            /\ Told(q, "mode") => FALSE
            /\ (cond = cond /\ (forgot => forgot)) \/ (cond = {} /\ forgot /\ ~ Told(q, "mode"))
        BY <3>3, <3>4
      <4> HIDE DEF q, c, cond
      <4>1. Agrees(Append(q, Order("disable")), c, FALSE, cond, forgot, FALSE)
        BY <4>0, RestsMet
      <4> USE DEF q, c, cond
      <4>2. toTask'[v] = Append(toTask[v], Order("disable"))
        BY <1>5, <3>4, <3>7
      <4> QED BY <3>4, <3>5, <3>6, <3>7, <4>1, <4>2 DEF Agrees, Knows, Shows
    <3>8. CASE v \in l
      <4>1. on = FALSE
        BY <1>9, <3>1, <3>8
      <4>2. Agrees(toTask[v] \o <<Order("enable"), Order("redrawdif")>>, client[v], TRUE,
                   condition[v], forgot, FALSE)
        BY <3>3, <3>4, <4>1, RestsLeft
      <4>3. toTask'[v] = toTask[v] \o <<Order("enable"), Order("redrawdif")>> /\ v \notin m
        BY <1>5, <3>4, <3>8
      <4> QED BY <3>4, <3>5, <3>6, <3>8, <4>2, <4>3 DEF Agrees, Knows, Shows
    <3>9. CASE v \notin m \cup l
      <4>1. Agrees(toTask[v], client[v], on, condition[v], forgot, FALSE)
        BY <3>3, <3>4, AgreesRests
      <4>2. toTask'[v] = toTask[v]
        BY <1>4, <3>4, <3>9
      <4> QED BY <3>4, <3>5, <3>6, <3>9, <4>1, <4>2 DEF Agrees, Knows, Shows
    <3> QED BY <3>7, <3>8, <3>9
  <2>2. \A v \in Win : v \notin ToSet(stack) => toTask'[v] = toTask[v]
    BY <1>2, <1>4
  <2> QED BY <1>1, <2>1, <2>2 DEF DInv, TasksInv
<1>11. ApartInv'
  <2>1. ASSUME NEW v \in ToSet(stack), MayDraw(v)' PROVE "show" \in condition[v]
    <3>1. CASE On(v)'
      BY <1>1, <3>1 DEF On, OnBy
    <3>2. CASE DueOf(v, "stopped")'
      BY <1>2, <1>4, <1>6, <3>2 DEF Kinds
    <3> QED BY <2>1, <3>1, <3>2 DEF MayDraw
  <2> QED BY <1>1, <2>1, AtSteer DEF ApartInv
<1>12. SteerInv'
  <2>1. ASSUME NEW v \in ToSet(stack)
        PROVE  /\ v # Top => Right(v)'
               /\ DueOf(v, "drawn")' => "show" \in condition[v]
               /\ ~ Told(toTask'[v], "redraw") /\ client'[v].drawing # "full"
    <3>1. v # Top => Right(v)'
      BY <1>1, AtSteer DEF Right
    <3>2. DueOf(v, "drawn")' => "show" \in condition[v]
      BY <1>2, <1>4, <1>6 DEF Kinds
    <3>3. client'[v].drawing # "full"
      BY <1>1, AtSteer
    <3>4. v \in Win /\ toTask[v] \in Seq(Orders) /\ ~ Told(toTask[v], "redraw")
      BY <1>6, AtSteer
    <3>5. /\ ~ Told(Append(toTask[v], Order("disable")), "redraw")
          /\ ~ Told(toTask[v] \o <<Order("enable"), Order("redrawdif")>>, "redraw")
      BY <3>4, NoRedrawTold
    <3>6. ~ Told(toTask'[v], "redraw")
      BY <1>5, <3>4, <3>5
    <3> QED BY <3>1, <3>2, <3>3, <3>6
  <2>2. condition'[Top'] = {} /\ frame' = (IF job'.ready /\ job'.count = 0 THEN {job'.pos} ELSE {})
    BY <1>1, <1>6, <1>7, <1>8
  <2>3. ASSUME NEW v \in ToSet(stack)
        PROVE  /\ job_flag0'[v] \subseteq {"override"}
               /\ "override" \in job_flag0'[v] <=>
                    "show" \in condition'[v] /\ Overlap(place'[v], job'.pos)
    BY <1>1, <1>7, <1>9
  <2> QED BY <1>1, <1>7, <2>1, <2>2, <2>3 DEF SteerInv
<1> QED BY <1>7, <1>10, <1>11, <1>12 DEF DInv, IdleInv, RedrawInv

(* The move ends: the window is where its frame was, and will be drawn.    *)
LEMMA FinishMoveDraws ==
  ASSUME IInv, IInv', DInv, job.ready, job.count = 0, FinishMove, KeysGone
  PROVE  DInv'
<1>1. /\ condition[Top] = {} /\ frame = {job.pos} /\ stack # <<>>
      /\ job.now = "move" /\ job.win = Top
      /\ \A v \in Win : job_flag0[v] \cap Waits = {}
  BY AtSteer, Moving
<1>2. /\ job \in Progress /\ Open = ToSet(stack) /\ ToSet(stack) \subseteq Win /\ Top \in ToSet(stack)
      /\ condition \in [Win -> SUBSET Condition] /\ job_flag0 \in [Win -> SUBSET Bits]
      /\ toTask \in [Win -> Seq(Orders)] /\ place \in [Win -> Place]
  BY <1>1, StackShape, Shape DEF IInv
<1>3. PICK w \in Win : w = job.win /\ w = Top
  BY <1>1, <1>2
<1> DEFINE marks == [v \in Win |->
                       IF v = w \/ (v \in Open /\ "show" \notin condition[v]
                                    /\ Overlap(place[w], place[v]))
                       THEN job_flag0[v] \cup {"must"} ELSE job_flag0[v]]
           j == [job EXCEPT !.ready = FALSE]
<1>4. /\ UNCHANGED <<stack, frame, client>>
      /\ place' = [place EXCEPT ![w] = job.pos]
      /\ General1(condition, marks, toTask, j)
  BY <1>3 DEF FinishMove, KeysGone
<1>5. /\ marks \in [Win -> SUBSET Bits] /\ NoWaits(marks)
      /\ \A v \in Win : "override" \in marks[v] <=> "override" \in job_flag0[v]
      /\ "must" \in marks[w]
  BY <1>1, <1>2 DEF Bits, Waits, NoWaits
<1>6. j \in Progress /\ j.now # "none"
  BY <1>1, <1>2 DEF Progress
<1>7. Top' = w /\ place'[w] = job.pos /\ \A v \in Win : v # w => place'[v] = place[v]
  BY <1>2, <1>3, <1>4 DEF Top
<1> HIDE DEF marks, j
<1>8. ASSUME NEW v \in ToSet(stack)
      PROVE  /\ Stands(v, condition, marks, toTask[v])
             /\ OnBy(condition, marks, v) => "show" \in condition[v] /\ v # w
  <2>1. /\ ~ Told(toTask[v], "mode")
        /\ Rests(toTask[v], client[v], On(v), condition[v], Forgot(v))
    BY <1>1, AtSteer
  <2>2. OnBy(condition, marks, v) <=> On(v)
    BY <1>2, <1>5 DEF On, OnBy
  <2>3. Forgot(v) <=> condition[v] = {} /\ v = Top'
    BY <1>3, <1>7 DEF Forgot
  <2>4. On(v) => "show" \in condition[v] /\ v # w
    BY <1>1, <1>3 DEF On, OnBy
  <2> QED BY <1>4, <2>1, <2>2, <2>3, <2>4 DEF Stands, Rests
<1>9. AtRest(condition, marks, toTask)
  <2>1. \A v, u \in ToSet(stack') : v # u /\ Overlap(place'[v], place'[u]) =>
          ~ (OnBy(condition, marks, v) /\ OnBy(condition, marks, u))
    BY <1>1, <1>2, <1>4, <1>7, <1>8, AtSteer
  <2>2. \A v \in Win : v \notin ToSet(stack') /\ ~ Told(toTask[v], "closed") =>
          ~ client'[v].draw_enable /\ ~ Told(toTask[v], "enable")
    BY <1>4 DEF DInv, TasksInv
  <2>3. frame' \subseteq {place'[Top']} /\ "must" \in marks[Top']
    BY <1>1, <1>4, <1>5, <1>7
  <2> QED BY <1>4, <1>8, <2>1, <2>2, <2>3 DEF AtRest
<1> QED BY <1>1, <1>2, <1>4, <1>5, <1>6, <1>9, General1Keeps

LEMMA HearArrowDraws ==
  ASSUME IInv, IInv', DInv, HearArrow, UNCHANGED client
  PROVE  DInv'
<1>1. PICK sig \in MoveKeys : sig = "arrow"
  BY DEF MoveKeys
<1>2. Hears(sig)
  BY <1>1 DEF HearArrow
<1>3. /\ toWinman' = Tail(toWinman) /\ UNCHANGED <<press, client>>
      /\ \E p \in Place :
           IF job.count = 0 /\ p # job.pos THEN MoveFrame(p)
           ELSE UNCHANGED <<stack, place, condition, job_flag0, iactive, keys, job, toTask, screenVars>>
  BY NotWild DEF HearArrow
<1>4. KeysGone /\ job.ready /\ job.count = 0
  BY <1>2, <1>3, MoveKeyHeard
<1>5. CASE \E p \in Place : MoveFrame(p)
  BY <1>4, <1>5, MoveFrameDraws
<1>6. CASE UNCHANGED <<stack, place, condition, job_flag0, iactive, keys, job, toTask, screenVars>>
  <2>1. Stays
    BY <1>2, <1>3, <1>6, SameStays DEF Hears, screenVars
  <2> QED BY <2>1, StaysKeep
<1> QED BY <1>3, <1>5, <1>6

LEMMA HearEnterDraws ==
  ASSUME IInv, IInv', DInv, HearEnter, UNCHANGED client
  PROVE  DInv'
<1>1. PICK sig \in MoveKeys : sig = "enter"
  BY DEF MoveKeys
<1>2. Hears(sig)
  BY <1>1 DEF HearEnter
<1>3. toWinman' = Tail(toWinman) /\ UNCHANGED <<press, client>> /\ FinishMove
  BY NotWild DEF HearEnter
<1>4. KeysGone /\ job.ready /\ job.count = 0
  BY <1>2, <1>3, MoveKeyHeard
<1> QED BY <1>3, <1>4, FinishMoveDraws

LEMMA SteerDraws ==
  ASSUME IInv, IInv', DInv, FrameShown, ClickEnter \/ \E p \in Place : Pointer(p), UNCHANGED client
  PROVE  DInv'
<1>1. UNCHANGED <<press, toWinman>>
  BY DEF ClickEnter, Pointer
<1>2. press' \in Win \cup {None}
  BY <1>1 DEF IInv, TypeOK
<1>3. KeysGone /\ job.ready /\ job.count = 0
  BY <1>1, <1>2, NoKeyIsGone
<1>4. CASE ClickEnter
  BY <1>3, <1>4, FinishMoveDraws DEF ClickEnter
<1>5. CASE \E p \in Place : Pointer(p)
  BY <1>3, <1>5, MoveFrameDraws DEF Pointer
<1> QED BY <1>4, <1>5

LEMMA ReleaseDraws ==
  ASSUME IInv, IInv', DInv, Release, FrameShown \/ ~ (job.ready /\ press = job.win),
         UNCHANGED client
  PROVE  DInv'
<1>1. press' = None /\ UNCHANGED toWinman
  BY DEF Release
<1>2. CASE job.ready /\ press = job.win
  <2>1. FinishMove /\ FrameShown
    BY <1>2 DEF Release
  <2>2. KeysGone /\ job.ready /\ job.count = 0
    BY <1>1, <2>1, NoKeyIsGone
  <2> QED BY <2>1, <2>2, FinishMoveDraws
<1>3. CASE ~ (job.ready /\ press = job.win)
  <2>1. UNCHANGED <<stack, place, condition, job_flag0, iactive, keys, job, toTask, screenVars>>
    BY <1>3 DEF Release
  <2>2. Stays
    BY <1>1, <2>1, SameStays DEF screenVars
  <2> QED BY <2>2, StaysKeep
<1> QED BY <1>2, <1>3

-----------------------------------------------------------------------------
(* At first, and every step.                                               *)
LEMMA InitDraws == Init => DInv
<1> SUFFICES ASSUME Init PROVE DInv
  OBVIOUS
<1>1. IInv
  BY InitHolds
<1>2. /\ stack = Stack0 /\ place = Place0 /\ job.now = "none" /\ job.func = "none" /\ frame = {}
      /\ \A w \in Win :
           /\ toTask[w] = <<>> /\ job_flag0[w] = {}
           /\ condition[w] = Cond0(w)
           /\ client[w].draw_enable <=> w \in ToSet(stack) /\ "show" \in Cond0(w)
           /\ w \in ToSet(stack) => client[w].mode0 = Cond0(w)
  BY DEF Init, NoClient
<1>3. /\ client \in [Win -> Clients] /\ place \in [Win -> Place] /\ ToSet(stack) \subseteq Win
      /\ stack \in Seq(Win) /\ IsInjective(stack)
  BY <1>1, Shape DEF IInv, TypeOK, SlotsInv
<1>4. \A w \in ToSet(stack) : job_flag0[w] = {} /\ Right(w)
  BY <1>2, <1>3 DEF Cond0, Right
<1>5. TasksInv
  <2>1. ASSUME NEW w \in ToSet(stack)
        PROVE  Agrees(toTask[w], client[w], On(w), condition[w], Forgot(w), IsDue(w))
    <3>1. toTask[w] = <<>> /\ client[w] \in Clients /\ client[w].mode0 = condition[w]
      BY <1>2, <1>3
    <3>2. client[w].draw_enable <=> On(w)
      BY <1>2, <1>3, <1>4 DEF On, OnBy
    <3>3. ~ Asked(toTask[w], "drawn") /\ ~ Asked(toTask[w], "stopped") /\ \A s : ~ Told(toTask[w], s)
      BY <3>1, MailEmpty
    <3>4. Ordered(toTask[w]) /\ ~ Has(toTask[w], Stale(condition[w]))
      BY <3>3, NothingAsked, NothingStale
    <3> QED BY <3>1, <3>2, <3>3, <3>4 DEF Agrees, Knows, Shows
  <2>2. \A w \in Win : w \notin ToSet(stack) => ~ client[w].draw_enable /\ ~ Told(toTask[w], "enable")
    BY <1>2, MailEmpty
  <2> QED BY <2>1, <2>2 DEF TasksInv
<1>6. ApartInv
  <2>1. ASSUME NEW w \in ToSet(stack), MayDraw(w) PROVE "show" \in NewCondition(stack, place, w)
    <3>1. ~ DueOf(w, "stopped")
      <4>1. w \in Win /\ Awaited(w, "stopped")
        BY <1>1, <1>3 DEF IInv, OwedInv, Kinds
      <4> QED BY <1>2, <4>1 DEF Awaited
    <3> QED BY <1>4, <2>1, <3>1 DEF MayDraw, On, OnBy, Right
  <2> QED BY <1>3, <2>1, ShownApart DEF ApartInv
<1>7. IdleInv
  BY <1>2, <1>4 DEF IdleInv
<1> QED BY <1>2, <1>5, <1>6, <1>7 DEF DInv, SteerInv, RedrawInv

LEMMA HearDraws ==
  ASSUME IInv, IInv', DInv, Hear, UNCHANGED client
  PROVE  DInv'
<1>1. CASE HearOpen \/ HearClose
  BY <1>1, RequestsStay, StaysKeep
<1>2. CASE HearStopped
  <2>1. PICK sig \in Kinds : sig = "stopped"
    BY DEF Kinds
  <2>2. HearAnswer(sig, WaitFor(sig))
    BY <1>2, <2>1 DEF HearStopped, WaitFor
  <2> QED BY <2>2, HearAnswerDraws
<1>3. CASE HearDrawn
  <2>1. PICK sig \in Kinds : sig = "drawn"
    BY DEF Kinds
  <2>2. HearAnswer(sig, WaitFor(sig))
    BY <1>3, <2>1 DEF HearDrawn, WaitFor
  <2> QED BY <2>2, HearAnswerDraws
<1>4. CASE HearBottomKey \/ HearSecondKey \/ HearMoveKey
  BY <1>4, JobKeysStay, StaysKeep
<1>5. CASE HearCloseKey
  BY <1>5, CloseKeyStays, StaysKeep
<1>6. CASE HearArrow
  BY <1>6, HearArrowDraws
<1>7. CASE HearEnter
  BY <1>7, HearEnterDraws
<1> QED BY <1>1, <1>2, <1>3, <1>4, <1>5, <1>6, <1>7 DEF Hear, HearKey

LEMMA UserDraws ==
  ASSUME IInv, IInv', DInv, Eager = {}, User, UNCHANGED client
  PROVE  DInv'
<1>1. \A i : Steers(i) => FrameShown
  BY DEF Steers
<1>2. ASSUME \/ \E key \in FunctionKeys \cup MoveKeys : Press(key)
             \/ \E w \in Win : Click(w)
             \/ PressTitle
      PROVE  DInv'
  BY <1>2, UserStays, StaysKeep
<1>3. ASSUME (Steers("enter") /\ ClickEnter) \/ (Steers("pointer") /\ \E p \in Place : Pointer(p))
      PROVE  DInv'
  BY <1>1, <1>3, SteerDraws
<1>4. ASSUME Release, FrameShown \/ ~ (job.ready /\ press = job.win)
      PROVE  DInv'
  BY <1>4, ReleaseDraws
<1> QED BY <1>2, <1>3, <1>4 DEF User

LEMMA NextDraws ==
  ASSUME IInv, DInv, Eager = {}, Room, [Next]_vars
  PROVE  IInv' /\ DInv'
<1>1. IInv'
  BY NextHolds
<1>2. CASE RunJobNext /\ UNCHANGED client
  BY <1>1, <1>2, RunOpenDraws, RunActivateDraws, RunMoveDraws, RunCloseDraws DEF RunJobNext
<1>3. CASE Hear /\ UNCHANGED client
  BY <1>1, <1>3, HearDraws
<1>4. CASE User /\ UNCHANGED client
  BY <1>1, <1>4, UserDraws
<1>5. CASE OpensWindow /\ UNCHANGED winmanVars
  BY <1>1, <1>5, OpensKeeps
<1>6. ASSUME NEW w \in Win, Task(w), UNCHANGED winmanVars
      PROVE  DInv'
  BY <1>1, <1>6, TasksKeep
<1>7. CASE UNCHANGED vars
  <2>1. Stays
    BY <1>7, SameStays DEF vars, winmanVars, screenVars
  <2> QED BY <1>1, <2>1, StaysKeep
<1> QED BY <1>1, <1>2, <1>3, <1>4, <1>5, <1>6, <1>7 DEF Next


-----------------------------------------------------------------------------
(* What the invariant says of every state.                                 *)

(* A task that is free to draw is one that winman0 takes to draw, or still *)
(* waits for.                                                              *)
LEMMA EnabledMayDraw ==
  ASSUME IInv, DInv, NEW v \in ToSet(stack), client[v].draw_enable
  PROVE  MayDraw(v)
<1>1. v \in Win
  BY Shape DEF IInv
<1>2. Knows(toTask[v], client[v], On(v))
  BY <1>1 DEF DInv, TasksInv, Agrees
<1>3. On(v) \/ Asked(toTask[v], "stopped")
  BY <1>2 DEF Knows
<1> QED BY <1>3 DEF MayDraw, DueOf, Due

LEMMA EnabledApart ==
  ASSUME IInv, DInv
  PROVE  EnabledExclusion
<1> SUFFICES ASSUME NEW v \in Open, NEW w \in Open, v # w, Overlap(place[v], place[w]),
                    client[v].draw_enable, client[w].draw_enable
             PROVE  FALSE
  BY DEF EnabledExclusion
<1>1. v \in ToSet(stack) /\ w \in ToSet(stack)
  BY Shape DEF IInv
<1>2. MayDraw(v) /\ MayDraw(w)
  BY <1>1, EnabledMayDraw
<1> QED BY <1>1, <1>2 DEF DInv, ApartInv

(* What is being drawn is awaited: by the job that redraws the windows one *)
(* by one, or by the move, which redraws only what nothing hides.          *)
LEMMA DrawnApart ==
  ASSUME IInv, DInv
  PROVE  DrawExclusion
<1> SUFFICES ASSUME NEW v \in Open, NEW w \in Open, v # w, Overlap(place[v], place[w]),
                    Drawing(v), Drawing(w)
             PROVE  FALSE
  BY DEF DrawExclusion
<1>1. v \in ToSet(stack) /\ w \in ToSet(stack) /\ v \in Win /\ w \in Win
  BY Shape DEF IInv
<1>2. "drawn" \in Kinds /\ DueOf(v, "drawn") /\ DueOf(w, "drawn")
  BY DEF Drawing, Draws, Due, DueOf, Kinds
<1>3. Awaited(v, "drawn") /\ Awaited(w, "drawn")
  BY <1>1, <1>2 DEF IInv, OwedInv
<1>4. job.now # "none" /\ job.func \in {"movewin1", "movewin6", "general2"}
  <2>1. job.now # "none"
    BY <1>2, <1>3 DEF Awaited
  <2>2. job.func # "none"
    BY <2>1 DEF IInv, JobInv
  <2>3. job.func \in {"none", "movewin1", "movewin6", "general2"}
    BY DEF IInv, TypeOK, Progress
  <2> QED BY <2>1, <2>2, <2>3
<1>5. job.func # "movewin1"
  BY <1>2, <1>3 DEF Awaited
<1>6. CASE job.func = "movewin6"
  <2>1. /\ condition[Top] = {} /\ "show" \in condition[v] /\ "show" \in condition[w]
        /\ v # Top => Right(v)
        /\ w # Top => Right(w)
    BY <1>1, <1>2, <1>6 DEF DInv, SteerInv
  <2>2. "show" \in NewCondition(stack, place, v) /\ "show" \in NewCondition(stack, place, w)
    BY <2>1 DEF Right
  <2>3. stack \in Seq(Win) /\ IsInjective(stack) /\ place \in [Win -> Place]
    BY Shape DEF IInv, SlotsInv, TypeOK
  <2> QED BY <1>1, <2>2, <2>3, ShownApart
<1>7. CASE job.func = "general2"
  <2>1. "waitredraw" \in job_flag0[v] /\ "waitredraw" \in job_flag0[w]
    BY <1>2, <1>3, <1>7 DEF Awaited
  <2>2. v = job.win /\ w = job.win
    BY <1>1, <2>1 DEF IInv, JobInv, Waits
  <2> QED BY <2>2
<1> QED BY <1>4, <1>5, <1>6, <1>7

(* While the frame is shown nothing is awaited, and whom it meets has been *)
(* told to stop.                                                           *)
LEMMA FrameClear ==
  ASSUME IInv, DInv
  PROVE  FrameExclusion
<1> SUFFICES ASSUME job.ready, NEW v \in Open, NEW p \in frame, Overlap(place[v], p)
             PROVE  ~ client[v].draw_enable /\ ~ Drawing(v)
  BY DEF FrameExclusion
<1>1. v \in ToSet(stack) /\ v \in Win
  BY Shape DEF IInv
<1>2. job.func \in {"movewin1", "movewin6"}
  <2>1. job.now # "none" /\ job.func # "general2"
    BY DEF IInv, JobInv
  <2>2. job.func # "none"
    BY <2>1 DEF IInv, JobInv
  <2>3. job.func \in {"none", "movewin1", "movewin6", "general2"}
    BY DEF IInv, TypeOK, Progress
  <2> QED BY <2>1, <2>2, <2>3
<1>3. job.count = 0 /\ p = job.pos
  <2>1. frame = (IF job.ready /\ job.count = 0 THEN {job.pos} ELSE {})
    BY <1>2 DEF DInv, SteerInv
  <2> QED BY <2>1
<1>4. /\ "override" \in job_flag0[v] <=> "show" \in condition[v] /\ Overlap(place[v], job.pos)
      /\ Rests(toTask[v], client[v], On(v), condition[v], Forgot(v))
  BY <1>1, <1>3, AtSteer
<1>5. ~ On(v)
  BY <1>3, <1>4 DEF On, OnBy
<1>6. ~ client[v].draw_enable
  BY <1>4, <1>5 DEF Rests
<1>7. ~ Drawing(v)
  BY <1>1, <1>3, NothingDue DEF IInv, Kinds, Draws, Drawing
<1> QED BY <1>6, <1>7

LEMMA KnowsAtIdle ==
  ASSUME IInv, DInv
  PROVE  TasksKnow
<1> SUFFICES ASSUME job.now = "none"
             PROVE  /\ frame = {}
                    /\ \A w \in Open :
                         /\ client[w].draw_enable <=> Hiding(stack, place, w) = {}
                         /\ client[w].mode0 = NewCondition(stack, place, w)
                         /\ condition[w] = client[w].mode0
                         /\ ~ Drawing(w)
  BY DEF TasksKnow
<1>1. ASSUME NEW w \in Open
      PROVE  /\ client[w].draw_enable <=> Hiding(stack, place, w) = {}
             /\ client[w].mode0 = NewCondition(stack, place, w)
             /\ condition[w] = client[w].mode0
             /\ ~ Drawing(w)
  <2>1. w \in ToSet(stack) /\ stack \in Seq(Win) /\ IsInjective(stack)
    BY Shape DEF IInv, SlotsInv
  <2>2. /\ Right(w) /\ ~ Told(toTask[w], "mode")
        /\ Rests(toTask[w], client[w], "show" \in condition[w], condition[w], FALSE)
        /\ ~ Draws(client[w].drawing, "drawn")
    BY <2>1, AtIdle
  <2>3. client[w].mode0 = condition[w] /\ condition[w] = NewCondition(stack, place, w)
    BY <2>2 DEF Rests, Right
  <2>4. client[w].draw_enable <=> "show" \in NewCondition(stack, place, w)
    BY <2>2, <2>3 DEF Rests
  <2>5. "show" \in NewCondition(stack, place, w) <=> Hiding(stack, place, w) = {}
    BY <2>1, ConditionOf
  <2> QED BY <2>2, <2>3, <2>4, <2>5 DEF Draws, Drawing
<1> QED BY <1>1, AtIdle

(* What each task thinks of its window, the orders that wait in its box    *)
(* and what winman0 keeps in condition and job_flag0 agree in every state, *)
(* through each job from its first order to its last answer (winman0.c,    *)
(* job_general1, job_general2, job_movewin1 to 6 and sig_handler of        *)
(* pioneer0), for any windows and places and however many are open.        *)
THEOREM DrawingInvariance ==
  ASSUME Eager = {}, Room
  PROVE  Spec => [](IInv /\ DInv)
<1>1. Init => IInv /\ DInv
  BY InitHolds, InitDraws
<1>2. IInv /\ DInv /\ [Next]_vars => (IInv /\ DInv)'
  BY NextDraws
<1> QED BY <1>1, <1>2, PTL DEF Spec

(* Two windows that overlap are never both free to draw: the lower one has *)
(* stopped, and has said so, before the upper one is let draw, though      *)
(* winman0 speaks to each task through a box of its own (job_general2      *)
(* takes the windows from the bottom up, one answer at a time).            *)
THEOREM EnabledStayApart ==
  ASSUME Eager = {}, Room
  PROVE  Spec => []EnabledExclusion
<1>1. IInv /\ DInv => EnabledExclusion
  BY EnabledApart
<1> QED BY <1>1, DrawingInvariance, PTL

(* Two windows that overlap are never being redrawn at the same time: the  *)
(* redrawing of all windows goes from one to the next with the answer, and *)
(* the end of a move asks several at once, but only those nothing hides.   *)
THEOREM DrawnStayApart ==
  ASSUME Eager = {}, Room
  PROVE  Spec => []DrawExclusion
<1>1. IInv /\ DInv => DrawExclusion
  BY DrawnApart
<1> QED BY <1>1, DrawingInvariance, PTL

(* Nobody draws where the frame of a moving window stands, which is drawn  *)
(* with exclusive or and would leave its trace: whoever the frame comes to *)
(* has stopped before it is shown (job_movewin1 to 4).                     *)
THEOREM FrameStaysClear ==
  ASSUME Eager = {}, Room
  PROVE  Spec => []FrameExclusion
<1>1. IInv /\ DInv => FrameExclusion
  BY FrameClear
<1> QED BY <1>1, DrawingInvariance, PTL

(* Between two jobs no frame is left on the screen, nothing is being       *)
(* drawn, and each task is in the condition of its window and may draw     *)
(* exactly when no window hides it.                                        *)
THEOREM TasksStayRight ==
  ASSUME Eager = {}, Room
  PROVE  Spec => []TasksKnow
<1>1. IInv /\ DInv => TasksKnow
  BY KnowsAtIdle
<1> QED BY <1>1, DrawingInvariance, PTL
=============================================================================
