--------------------------- MODULE WindowSignals ---------------------------
(***************************************************************************)
(* What the window manager (WinMan) and the tasks that own windows         *)
(* (PioneerWindow) share: the signal boxes between them, and the screen,   *)
(* on which both of them draw.                                             *)
(*                                                                         *)
(* A window is identified by its WM0_WINDOW slot, and each window belongs  *)
(* to a task of its own.  A place is a position of a window on the screen; *)
(* all that matters of it is which places overlap.                         *)
(***************************************************************************)
EXTENDS Integers, Sequences, FiniteSets

CONSTANTS
  Win,     (* the slots for windows (MAX_WINDOWS of them, 80 in the code) *)
  Place,   (* where a window can be                                      *)
  Meets,   (* the pairs of places that overlap (overrapwin)              *)
  None     (* no window (NULL)                                           *)

ASSUME WinAssumption == None \notin Win /\ IsFiniteSet(Win)
ASSUME MeetsAssumption ==
  /\ Meets \subseteq Place \X Place
  /\ \A p \in Place : <<p, p>> \in Meets
  /\ \A p, q \in Place : <<p, q>> \in Meets => <<q, p>> \in Meets

VARIABLES
  toWinman,  (* the signal box of winman0, oldest signal first            *)
  toTask,    (* for each window the signals its task has not handled yet  *)
  stack,     (* the open windows, top first: the ring of up and down from top *)
  place,     (* where each window is (x0, y0, x1, y1)                     *)
  damaged,   (* history: the windows whose picture is not what it should be *)
  frame      (* history: the places where an odd number of frames is drawn *)

screenVars == <<damaged, frame>>

Overlap(p, q) == <<p, q>> \in Meets

At(s, w) == CHOOSE i \in 1 .. Len(s) : s[i] = w

Open == { stack[i] : i \in 1 .. Len(stack) }

(* The windows that stand above w and hide a part of it. *)
Hiding(s, pl, w) == { s[i] : i \in { k \in 1 .. At(s, w) - 1 : Overlap(pl[s[k]], pl[w]) } }

(* What winman0 tells a task (sgg_wm0s_... in sysgg00.h); cond is the new  *)
(* condition for "mode" and plays no part in the others.                   *)
Condition == {"show", "input"}
Orders == [sig : {"enable", "disable", "mode", "redraw", "redrawdif", "close", "closed"},
           cond : SUBSET Condition]
Order(sig) == [sig |-> sig, cond |-> {}]
Mode(c) == [sig |-> "mode", cond |-> c]

(* What winman0 is told: a window opens (0x20) or wants to be closed       *)
(* (0x24), a task stopped drawing (0xc0) or drew its window (0xc4), and,   *)
(* during a move, an arrow key (0xd0..0xd3) or Enter (0xf0).               *)
Requests == [sig : {"open", "close", "stopped", "drawn"}, win : Win]
FunctionKeys == {"F9", "F10", "F11", "F12"}
MoveKeys == {"arrow", "enter"}
Keys == [sig : FunctionKeys \cup MoveKeys, win : {None}]

Tell(w, sig) == toWinman' = Append(toWinman, [sig |-> sig, win |-> w])

(* A full drawing of w mends its own picture and ends every frame drawn    *)
(* just there; any drawing of w goes over the windows that hide it, for    *)
(* nothing clips it.                                                       *)
Painted(w, full) ==
  /\ damaged' = (IF full THEN damaged \ {w} ELSE damaged) \cup
                  (IF w \in Open THEN Hiding(stack, place, w) ELSE {})
  /\ frame' = IF full THEN frame \ {place[w]} ELSE frame

=============================================================================
