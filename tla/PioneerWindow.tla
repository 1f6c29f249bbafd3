--------------------------- MODULE PioneerWindow ---------------------------
(***************************************************************************)
(* The tasks that own windows, as far as pioneer0 (the GUI library linked  *)
(* to each of them) answers winman0 by itself: the task asked for no       *)
(* signals of its own.  A task handles one signal after the other, in the  *)
(* order they were sent; drawing takes time, and others run meanwhile.     *)
(***************************************************************************)
EXTENDS WindowSignals

VARIABLES
  client   (* for each slot the WINDOW of the task that has it *)

(* A window is "closing" once the program has closed it, and "ending" when *)
(* only the library has: its handle stays marked as that of a window       *)
(* (0x0100 in slot_sel), which is all that cmd0040 looks at.               *)
Clients == [phase : {"none", "open", "ending", "closing"}, draw_enable : BOOLEAN,
            drawing : {"no", "full", "dif"}, mode0 : SUBSET Condition]

NoClient == [phase |-> "none", draw_enable |-> FALSE, drawing |-> "no", mode0 |-> {}]

Drawing(w) == client[w].drawing # "no"
Next1(w) == Head(toTask[w])
HasOrder(w, sig) == toTask[w] # <<>> /\ Next1(w).sig = sig /\ ~ Drawing(w)
Handled(w) == toTask' = [toTask EXCEPT ![w] = Tail(@)]

(* cmd020: a task opens a window; w is the slot get_unuse will find for it. *)
AppOpen(w) ==
  /\ client[w].phase = "none"
  /\ toTask[w] = <<>>
  /\ client' = [client EXCEPT ![w] = [NoClient EXCEPT !.phase = "open"]]
  /\ Tell(w, "open")
  /\ UNCHANGED <<toTask, damaged, frame>>

(* Mutant of the next: the mark stays, so that a 0x43 closes once more.    *)
BugMarkStays(w) ==
  /\ client[w].phase \in {"open", "ending"}
  /\ ~ Drawing(w)
  /\ client' = [client EXCEPT ![w].phase = "ending"]
  /\ Tell(w, "close")
  /\ UNCHANGED <<toTask, damaged, frame>>

(* cmd024: a program closes its window, be it that its library already did. *)
AppClose(w) ==
  /\ client[w].phase \in {"open", "ending"}
  /\ ~ Drawing(w)
  /\ client' = [client EXCEPT ![w].phase = "closing"]
  /\ Tell(w, "close")
  /\ UNCHANGED <<toTask, damaged, frame>>

(* An open window whose task may draw at any time does so. *)
AppDraw(w) ==
  /\ client[w].phase = "open"
  /\ client[w].draw_enable
  /\ ~ Drawing(w)
  /\ Painted(w, FALSE)
  /\ UNCHANGED <<client, toTask, toWinman>>

(* sig0041 *)
SetMode(w) ==
  /\ HasOrder(w, "mode")
  /\ client' = [client EXCEPT ![w].mode0 = Next1(w).cond]
  /\ Handled(w)
  /\ UNCHANGED <<toWinman, damaged, frame>>

(* sig0042 *)
EnableDraw(w) ==
  /\ HasOrder(w, "enable")
  /\ client' = [client EXCEPT ![w].draw_enable = TRUE]
  /\ Handled(w)
  /\ UNCHANGED <<toWinman, damaged, frame>>

(* Mutants of the next: the answer comes without the effect, the effect    *)
(* without the answer.                                                     *)
BugStillDraws(w) ==
  /\ HasOrder(w, "disable")
  /\ Handled(w)
  /\ Tell(w, "stopped")
  /\ UNCHANGED <<client, damaged, frame>>
BugNoAnswer(w) ==
  /\ HasOrder(w, "disable")
  /\ client' = [client EXCEPT ![w].draw_enable = FALSE]
  /\ Handled(w)
  /\ UNCHANGED <<toWinman, damaged, frame>>

(* sig0044: the task stops drawing and says so. *)
DisableDraw(w) ==
  /\ HasOrder(w, "disable")
  /\ client' = [client EXCEPT ![w].draw_enable = FALSE]
  /\ Handled(w)
  /\ Tell(w, "stopped")
  /\ UNCHANGED <<damaged, frame>>

(* Mutant of the next: the answer comes before the drawing. *)
BugAnswersFirst(w) ==
  /\ HasOrder(w, "redraw") \/ HasOrder(w, "redrawdif")
  /\ client' = [client EXCEPT ![w].drawing =
                  IF Next1(w).sig = "redraw" THEN "full" ELSE "dif"]
  /\ Handled(w)
  /\ Tell(w, "drawn")
  /\ UNCHANGED <<damaged, frame>>

(* sig0048 and sig0049: the window is drawn, as a whole or what changed of *)
(* it, and only then is winman0 told.                                      *)
BeginDraw(w) ==
  /\ HasOrder(w, "redraw") \/ HasOrder(w, "redrawdif")
  /\ client' = [client EXCEPT ![w].drawing =
                  IF Next1(w).sig = "redraw" THEN "full" ELSE "dif"]
  /\ Handled(w)
  /\ UNCHANGED <<toWinman, damaged, frame>>
EndDraw(w) ==
  /\ Drawing(w)
  /\ client' = [client EXCEPT ![w].drawing = "no"]
  /\ Painted(w, client[w].drawing = "full")
  /\ Tell(w, "drawn")
  /\ UNCHANGED toTask

(* The handle of a window stays marked as one (0x0100 in slot_sel), which  *)
(* is all that cmd0040 looks at, until the program closes it (cmd0104).    *)
Marked(w) == client[w].phase \in {"open", "ending"}

(* sig0043 without a handler of the task's own, and cmd0040: the handles   *)
(* that are marked are closed, and stay marked; so each 0x43 sends another *)
(* request, unless the program has closed its window before.               *)
CloseRequested(w) ==
  /\ HasOrder(w, "close")
  /\ Handled(w)
  /\ IF Marked(w)
     THEN client' = [client EXCEPT ![w].phase = "ending"] /\ Tell(w, "close")
     ELSE UNCHANGED <<client, toWinman>>
  /\ UNCHANGED <<damaged, frame>>

(* sig0045: the window is gone. *)
Closed(w) ==
  /\ HasOrder(w, "closed")
  /\ client' = [client EXCEPT ![w] = NoClient]
  /\ Handled(w)
  /\ UNCHANGED <<toWinman, damaged, frame>>

(* What a task does because it was told to: it cannot put it off for ever. *)
Answer(w) ==
  \/ SetMode(w)
  \/ EnableDraw(w)
  \/ DisableDraw(w)
  \/ BeginDraw(w)
  \/ EndDraw(w)
  \/ CloseRequested(w)
  \/ Closed(w)

=============================================================================
