---------------------------- MODULE CalmSenders ----------------------------
(***************************************************************************)
(* Signals of a task whose senders are calm: a signal comes only if        *)
(* nothing can become full by it, or if nothing else waits in the kernel's *)
(* box, so that the handler has handled nothing in this run when it finds  *)
(* the program's box full.  The box of the program still becomes full.     *)
(***************************************************************************)
EXTENDS SignalDelivery, FiniteSetsExt

ASSUME CalmAssumption == Lengths # {} /\ LengthAssumption

KernelUsed == KernelWords - 1 - msgbox.free

Fitting == read_free + KernelUsed + 2 * Max(Lengths) < UserWords
Alone ==
  /\ KernelUsed = 0 /\ handler = "out" /\ ~request
  /\ msgbox.write + Max(Lengths) + 1 < KernelWords

Calm == Fitting \/ Alone

CalmNext ==
  \/ Calm /\ SignalMessage
  \/ Calm /\ SignalMessage2
  \/ AddNestSleep
  \/ SoftintReturn
  \/ EnterHandler
  \/ LeaveHandler
  \/ PassOn
  \/ BoxFull
  \/ HandleSystemSignal
  \/ HandleRewind
  \/ EndOfRun
  \/ Receive
  \/ SkipToStart
  \/ WaitSignal
  \/ GiveWordsBack
  \/ SleepOrNot
  \/ MaskAgain
  \/ EndCommands
  \/ BackToProgram

(* Signals that pioneer0 handles itself are not sent for ever: a sender    *)
(* who never pauses would keep the program from running, as its handler    *)
(* would be entered again each time before it returns.                     *)
SendersPause == <>[][~Send(SystemMessage, <<>>)]_vars

CalmSpec == Init /\ [][CalmNext]_vars /\ Fairness /\ SendersPause

=============================================================================
