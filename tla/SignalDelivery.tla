--------------------------- MODULE SignalDelivery ---------------------------
(***************************************************************************)
(* How a signal reaches a program.  Interrupt handlers and other tasks     *)
(* call the kernel (tapi0), which writes it into the kernel's box of the   *)
(* task, wakes the task and, unless its soft interrupts are masked, makes  *)
(* it run pioneer0's handler.  The handler passes the signals for the      *)
(* program on to the box of the program.  The program looks into that box  *)
(* and calls wait signal (cmd018) to give words back and to sleep.         *)
(*                                                                         *)
(* One task is modelled.  A soft interrupt is masked while softint_nest is *)
(* not 0: the byte is the sum of one reason per masker, and wraps at 256.  *)
(***************************************************************************)
EXTENDS SignalRing, TLC

CONSTANTS
  KernelWords,   (* size of the kernel's box: 127 in the code             *)
  UserWords,     (* size of the program's box                             *)
  RunWords,      (* the handler ends after so many words: 8 in the code   *)
  Lengths,       (* how many words a signal of the program can have       *)
  MaxSent        (* bound: how many signals are sent to the program       *)

ASSUME SizeAssumption ==
  /\ KernelWords \in Nat /\ KernelWords > 1
  /\ UserWords \in Nat /\ UserWords > 1
  /\ RunWords \in Nat \ {0}
  /\ Lengths \subseteq Nat \ {0}
  /\ MaxSent \in Nat

(* No signal is as long as half the box of the program.  Without this a    *)
(* signal may fit neither before the end nor after the rewind, although    *)
(* the box is empty, and the program would sleep on.                       *)
LengthAssumption == \A n \in Lengths : 2 * n < UserWords /\ 2 * (n + 1) < KernelWords

VARIABLES
  (* The kernel's view of the task: TAPI_TSS. *)
  msgbox,        (* the kernel's box                                      *)
  status,        (* bit 7 of msgbox_status: there are signals             *)
  nest,          (* softint_nest                                          *)
  level,         (* now_Llv: "sleep" or "run"                             *)
  oldLlv,        (* softint_oldLlv: the level to return to                *)
  request,       (* a soft interrupt is due when the kernel is left       *)
  iret,          (* a return from one is due when the kernel is left      *)
  call,          (* the shell call of the task that is not carried out    *)
  (* pioneer0's handler and its WORK structure. *)
  frame,         (* the level in the frame of the handler, or "none"      *)
  handler,       (* "out", "read" or "left": where the handler is         *)
  read_ptr,      (* where the handler begins to read                      *)
  signal,        (* where it reads: the register ESI                      *)
  signaldw,      (* how many words it has handled                         *)
  box,           (* the box of the program                                *)
  read_free,     (* words in it that the program has not given back       *)
  boxfull,       (* bit 0 of signalbox_write_ptr                          *)
  (* The program. *)
  phase,         (* where it is: see the steps of cmd018 below            *)
  opt,           (* the option of cmd018: does it want to sleep?          *)
  position,      (* where it reads its box                                *)
  siglen,        (* words it has read and not given back                  *)
  (* History. *)
  sent,          (* the length of each signal the kernel accepted for it  *)
  received       (* the signals the program has seen                      *)

kernelVars  == <<msgbox, status, nest, level, oldLlv, request, iret, call>>
handlerVars == <<frame, handler, read_ptr, signal, signaldw>>
boxVars     == <<box, read_free, boxfull>>
programVars == <<phase, opt, position, siglen>>
vars == <<kernelVars, handlerVars, boxVars, programVars, sent, received>>

Byte(n) == n % 256

(* Shell calls 0x204 (AddNestSleep) and 0x208 (Softint1Ret): how much to   *)
(* add to softint_nest, how many words are handled, which level to go to.  *)
NoCall == [op |-> "none", al |-> 0, words |-> 0, llv |-> "keep"]
AddNest(al, llv) == [op |-> "nest", al |-> al, words |-> 0, llv |-> llv]
Softint1Ret(words, al) == [op |-> "ret", al |-> al, words |-> words, llv |-> "keep"]

Init ==
  /\ msgbox = NewRing(KernelWords, KernelWords - 1)
  /\ status = FALSE
  /\ nest = 0
  /\ level = "run"
  /\ oldLlv = "run"
  /\ request = FALSE
  /\ iret = FALSE
  /\ call = NoCall
  /\ frame = "none"
  /\ handler = "out"
  /\ read_ptr = 0
  /\ signal = 0
  /\ signaldw = 0
  /\ box = NewRing(UserWords, UserWords)
  /\ read_free = 0
  /\ boxfull = FALSE
  /\ phase = "user"
  /\ opt = FALSE
  /\ position = 0
  /\ siglen = 0
  /\ sent = <<>>
  /\ received = <<>>

-----------------------------------------------------------------------------
(* The kernel. *)

(* The words of a signal of n words for the program, the next to be sent,  *)
(* behind a cut header; and of one that pioneer0 handles itself, whose     *)
(* argument may be any word, so also one that looks like the end code.     *)
UserMessage(n) == <<HeaderCut(n)>> \o [i \in 1 .. n |-> Len(sent) + 1]
SystemMessage  == <<SystemSignal, Eos>>

KernelPut(words) == SendInto(msgbox, words, KernelWords, 0)

(* A soft interrupt is requested when none is masked or under way.         *)
RequestSoftint ==
  /\ nest' = (IF nest = 0 THEN 255 ELSE nest)
  /\ request' = (request \/ nest = 0)

(* The first signal after the box was empty wakes the task.                *)
Wake ==
  /\ status' = TRUE
  /\ level' = (IF status THEN level ELSE "run")
  /\ oldLlv' = (IF status THEN oldLlv ELSE level)

(* TAPI_SignalMessage: a signal that does not fit is lost, with its mark   *)
(* (msgbox_status bit 0) that nobody reads; all else happens as usual.     *)
Send(words, accepted) ==
  LET put == KernelPut(words) IN
  /\ RequestSoftint
  /\ msgbox' = put.box
  /\ Wake
  /\ sent' = (IF put.ok THEN sent \o accepted ELSE sent)
  /\ UNCHANGED <<iret, call, handlerVars, boxVars, programVars, received>>

SignalMessage ==
  /\ Len(sent) < MaxSent
  /\ \/ \E n \in Lengths : Send(UserMessage(n), <<n>>)
     \/ Send(SystemMessage, <<>>)

(* TAPI_SignalMessage2: the sender tries again, after the other tasks have *)
(* run, until the signal fits; only then is the task woken.                *)
SendWithWait(words, accepted) ==
  LET put == KernelPut(words) IN
  /\ RequestSoftint
  /\ msgbox' = put.box
  /\ IF put.ok THEN Wake ELSE UNCHANGED <<status, level, oldLlv>>
  /\ sent' = (IF put.ok THEN sent \o accepted ELSE sent)
  /\ UNCHANGED <<iret, call, handlerVars, boxVars, programVars, received>>

SignalMessage2 ==
  /\ Len(sent) < MaxSent
  /\ \E n \in Lengths : SendWithWait(UserMessage(n), <<n>>)

(* Both calls give words back; when none is left in the box, no signal is  *)
(* there any more.                                                         *)
GiveBack ==
  /\ msgbox' = [msgbox EXCEPT !.free = @ + call.words]
  /\ status' = (status /\ msgbox'.free # KernelWords - 1)

(* Mutant: the task may sleep although signals wait for it. *)
BugAddNestSleep ==
  /\ call.op = "nest"
  /\ GiveBack
  /\ nest' = Byte(nest + call.al)
  /\ level' = (IF call.llv # "keep" THEN call.llv ELSE level)
  /\ UNCHANGED <<oldLlv, request, iret>>
  /\ call' = NoCall
  /\ UNCHANGED <<handlerVars, boxVars, programVars, sent, received>>

(* TAPI_AddNestSleep.  When the last mask goes and signals are there, the  *)
(* soft interrupt is made up for, as if the task were at its new level;    *)
(* otherwise it goes to that level, unless there are signals.              *)
AddNestSleep ==
  /\ call.op = "nest"
  /\ GiveBack
  /\ IF Byte(nest + call.al) = 0 /\ status'
     THEN /\ nest' = 255
          /\ oldLlv' = (IF call.llv # "keep" THEN call.llv ELSE oldLlv)
          /\ request' = TRUE
          /\ UNCHANGED level
     ELSE /\ nest' = Byte(nest + call.al)
          /\ level' = (IF ~status' /\ call.llv # "keep" THEN call.llv ELSE level)
          /\ UNCHANGED <<oldLlv, request>>
  /\ call' = NoCall
  /\ UNCHANGED <<iret, handlerVars, boxVars, programVars, sent, received>>

(* Mutant: signals that came while the handler ran are not looked for. *)
BugSoftintReturn ==
  /\ call.op = "ret"
  /\ GiveBack
  /\ nest' = Byte(nest + call.al)
  /\ iret' = TRUE
  /\ call' = NoCall
  /\ UNCHANGED <<level, oldLlv, request, handlerVars, boxVars, programVars, sent, received>>

(* TAPI_Softint1Ret: the handler returns, and is entered again at once     *)
(* when the last mask is gone and signals are there.                       *)
SoftintReturn ==
  /\ call.op = "ret"
  /\ GiveBack
  /\ IF Byte(nest + call.al) = 0 /\ status'
     THEN nest' = 255 /\ request' = TRUE
     ELSE nest' = Byte(nest + call.al) /\ UNCHANGED request
  /\ iret' = TRUE
  /\ call' = NoCall
  /\ UNCHANGED <<level, oldLlv, handlerVars, boxVars, programVars, sent, received>>

(* TAPI_SysCntZero, when the kernel is left and a soft interrupt is due:   *)
(* pioneer0's handler begins.  If it was about to return, its frame stays. *)
EnterHandler ==
  /\ level = "run" /\ call = NoCall
  /\ request
  /\ request' = FALSE
  /\ iret' = FALSE
  /\ frame' = (IF iret THEN frame ELSE oldLlv)
  /\ handler' = "read"
  /\ signal' = read_ptr
  /\ signaldw' = 0
  /\ UNCHANGED <<msgbox, status, nest, level, oldLlv, call, read_ptr, boxVars, programVars,
                 sent, received>>

(* The same, when only a return is due: back to the level in the frame.    *)
LeaveHandler ==
  /\ level = "run" /\ call = NoCall
  /\ iret /\ ~request
  /\ iret' = FALSE
  /\ level' = frame
  /\ frame' = "none"
  /\ handler' = "out"
  /\ UNCHANGED <<msgbox, status, nest, oldLlv, request, call, read_ptr, signal, signaldw,
                 boxVars, programVars, sent, received>>

-----------------------------------------------------------------------------
(* pioneer_softint, one turn of its loop per step. *)

(* sendusersignal on the program's box, which accepts nothing while it is  *)
(* marked full.                                                            *)
UserPut(words) == IF boxfull THEN Failure(box) ELSE SendInto(box, words, UserWords, 1)

Handling == handler = "read" /\ level = "run" /\ call = NoCall /\ ~request

Code == msgbox.mem[signal]
Done == signaldw >= RunWords

Words(at, n) == [i \in 1 .. n |-> msgbox.mem[at + i - 1]]

(* headercut: a signal for the program.  It will be awake on return.       *)
PassOn ==
  LET n   == -2 - Code
      put == UserPut(Words(signal + 1, n))
  IN
  /\ Handling /\ ~Done
  /\ Code < SystemSignal
  /\ put.ok
  /\ box' = put.box
  /\ read_free' = read_free + (box.free - put.box.free)
  /\ frame' = "run"
  /\ signaldw' = signaldw + n + 1
  /\ signal' = signal + n + 1
  /\ UNCHANGED <<kernelVars, handler, read_ptr, boxfull, programVars, sent, received>>

(* usersigboxfull: the box is marked, what was handled so far is reported, *)
(* and nest stays lowered by 2, so that no soft interrupt comes until the  *)
(* program has given words back.  The handler's read position is not       *)
(* stored: the next run begins where this one began.                       *)
(* Mutant: nest is raised as at the end of a run. *)
BugBoxFull ==
  LET put == UserPut(Words(signal + 1, -2 - Code)) IN
  /\ Handling /\ ~Done
  /\ Code < SystemSignal
  /\ ~put.ok
  /\ box' = put.box
  /\ read_free' = read_free + (box.free - put.box.free)
  /\ boxfull' = TRUE
  /\ handler' = "left"
  /\ call' = Softint1Ret(signaldw, 1)
  /\ UNCHANGED <<msgbox, status, nest, level, oldLlv, request, iret, frame, read_ptr, signal,
                 signaldw, programVars, sent, received>>
BoxFull ==
  LET put == UserPut(Words(signal + 1, -2 - Code)) IN
  /\ Handling /\ ~Done
  /\ Code < SystemSignal
  /\ ~put.ok
  /\ box' = put.box
  /\ read_free' = read_free + (box.free - put.box.free)
  /\ boxfull' = TRUE
  /\ handler' = "left"
  /\ call' = Softint1Ret(signaldw, 255)
  /\ UNCHANGED <<msgbox, status, nest, level, oldLlv, request, iret, frame, read_ptr, signal,
                 signaldw, programVars, sent, received>>

(* A signal that pioneer0 handles without telling the program (such as     *)
(* sig0042): the program is not woken by it.                               *)
HandleSystemSignal ==
  /\ Handling /\ ~Done
  /\ Code = SystemSignal
  /\ signal' = signal + 2
  /\ signaldw' = signaldw + 2
  /\ UNCHANGED <<kernelVars, frame, handler, read_ptr, boxVars, programVars, sent, received>>

(* sig0001: back to the start of the box, the skipped words are handled.   *)
HandleRewind ==
  /\ Handling /\ ~Done
  /\ Code = Rewind
  /\ signal' = 0
  /\ signaldw' = signaldw + msgbox.mem[signal + 1]
  /\ UNCHANGED <<kernelVars, frame, handler, read_ptr, boxVars, programVars, sent, received>>

(* The end code, or enough words for one run.                              *)
(* Mutant: the read position is not stored. *)
BugEndOfRun ==
  /\ Handling
  /\ Done \/ Code = Eos
  /\ handler' = "left"
  /\ call' = Softint1Ret(signaldw, 1)
  /\ UNCHANGED <<msgbox, status, nest, level, oldLlv, request, iret, read_ptr, frame, signal,
                 signaldw, boxVars, programVars, sent, received>>
EndOfRun ==
  /\ Handling
  /\ Done \/ Code = Eos
  /\ read_ptr' = signal
  /\ handler' = "left"
  /\ call' = Softint1Ret(signaldw, 1)
  /\ UNCHANGED <<msgbox, status, nest, level, oldLlv, request, iret, frame, signal, signaldw,
                 boxVars, programVars, sent, received>>

-----------------------------------------------------------------------------
(* The program: it reads its box, and waits (cmd018).  A pending soft      *)
(* interrupt is taken before its next instruction, but not before a shell  *)
(* call it has already made is carried out.                                *)
Running == handler = "out" /\ level = "run" /\ call = NoCall /\ ~request

Cell == box.mem[position]

Receive ==
  /\ Running /\ phase = "user"
  /\ Cell > 0
  /\ received' = Append(received, Cell)
  /\ position' = position + sent[Cell]
  /\ siglen' = siglen + sent[Cell]
  /\ UNCHANGED <<kernelVars, handlerVars, boxVars, phase, opt, sent>>

SkipToStart ==
  /\ Running /\ phase = "user"
  /\ Cell = Rewind
  /\ siglen' = siglen + box.mem[position + 1]
  /\ position' = 0
  /\ UNCHANGED <<kernelVars, handlerVars, boxVars, phase, opt, sent, received>>

(* The program may wait when it finds the end code, and may give words     *)
(* back at any time.  On entry pioneer0 masks the soft interrupt.          *)
WaitSignal ==
  /\ Running /\ phase = "user"
  /\ opt' \in {TRUE, FALSE}
  /\ IF opt' THEN Cell = Eos ELSE siglen > 0
  /\ call' = AddNest(128, "keep")
  /\ phase' = "enter"
  /\ UNCHANGED <<msgbox, status, nest, level, oldLlv, request, iret, handlerVars, boxVars,
                 position, siglen, sent, received>>

(* The words are given back; if the box was marked full and is no more,    *)
(* nest is raised by the 2 by which it was lowered.                        *)
(* Mutant: the mark is taken off but nest stays as it is. *)
BugGiveWordsBack ==
  /\ Running /\ phase = "enter"
  /\ box' = [box EXCEPT !.free = @ + siglen]
  /\ read_free' = read_free - siglen
  /\ siglen' = 0
  /\ boxfull' = (boxfull /\ siglen = 0)
  /\ call' = NoCall
  /\ phase' = "given"
  /\ UNCHANGED <<msgbox, status, nest, level, oldLlv, request, iret, handlerVars, opt, position,
                 sent, received>>
GiveWordsBack ==
  /\ Running /\ phase = "enter"
  /\ box' = [box EXCEPT !.free = @ + siglen]
  /\ read_free' = read_free - siglen
  /\ siglen' = 0
  /\ IF boxfull /\ siglen # 0
     THEN boxfull' = FALSE /\ call' = AddNest(2, "keep")
     ELSE UNCHANGED <<boxfull, call>>
  /\ phase' = "given"
  /\ UNCHANGED <<msgbox, status, nest, level, oldLlv, request, iret, handlerVars, opt, position,
                 sent, received>>

(* Sleep if asked to and if nothing is in the box; signals that come from  *)
(* now on wait behind the mask, which goes in the same call.               *)
(* Mutant: it sleeps although a signal is in the box. *)
BugSleepOrNot ==
  /\ Running /\ phase = "given"
  /\ IF opt
     THEN call' = AddNest(128, "sleep") /\ phase' = "slept"
     ELSE call' = AddNest(128, "keep") /\ phase' = "leave"
  /\ UNCHANGED <<msgbox, status, nest, level, oldLlv, request, iret, handlerVars, boxVars, opt,
                 position, siglen, sent, received>>
SleepOrNot ==
  /\ Running /\ phase = "given"
  /\ IF opt /\ read_free = 0
     THEN call' = AddNest(128, "sleep") /\ phase' = "slept"
     ELSE call' = AddNest(128, "keep") /\ phase' = "leave"
  /\ UNCHANGED <<msgbox, status, nest, level, oldLlv, request, iret, handlerVars, boxVars, opt,
                 position, siglen, sent, received>>

(* Awake again, inside pioneer0: masked as before, ...                     *)
MaskAgain ==
  /\ Running /\ phase = "slept"
  /\ call' = AddNest(128, "keep")
  /\ phase' = "woken"
  /\ UNCHANGED <<msgbox, status, nest, level, oldLlv, request, iret, handlerVars, boxVars, opt,
                 position, siglen, sent, received>>

(* ... and unmasked at the end of the command list (cmd000).               *)
EndCommands ==
  /\ Running /\ phase = "woken"
  /\ call' = AddNest(128, "keep")
  /\ phase' = "leave"
  /\ UNCHANGED <<msgbox, status, nest, level, oldLlv, request, iret, handlerVars, boxVars, opt,
                 position, siglen, sent, received>>

BackToProgram ==
  /\ Running /\ phase = "leave"
  /\ phase' = "user"
  /\ opt' = FALSE
  /\ UNCHANGED <<kernelVars, handlerVars, boxVars, position, siglen, sent, received>>

-----------------------------------------------------------------------------
Kernel  == AddNestSleep \/ SoftintReturn \/ EnterHandler \/ LeaveHandler
Softint == PassOn \/ BoxFull \/ HandleSystemSignal \/ HandleRewind \/ EndOfRun
Program == Receive \/ SkipToStart \/ WaitSignal \/ GiveWordsBack \/ SleepOrNot \/ MaskAgain
             \/ EndCommands \/ BackToProgram

Next ==
  \/ SignalMessage
  \/ SignalMessage2
  \/ AddNestSleep
  \/ SoftintReturn
  \/ EnterHandler
  \/ LeaveHandler
  \/ PassOn
  \/ BoxFull
  \/ HandleSystemSignal
  \/ HandleRewind
  \/ EndOfRun
  \/ Receive
  \/ SkipToStart
  \/ WaitSignal
  \/ GiveWordsBack
  \/ SleepOrNot
  \/ MaskAgain
  \/ EndCommands
  \/ BackToProgram

Spec == Init /\ [][Next]_vars

(* Whatever can go on in the task goes on: the kernel finishes its calls,  *)
(* the handler its run, and the program, like the main loops of winman0    *)
(* and pokon0, reads what is in its box and then waits.  Nobody has to     *)
(* send.                                                                   *)
Fairness == WF_vars(Kernel) /\ WF_vars(Softint) /\ WF_vars(Program)

-----------------------------------------------------------------------------
(* The state has the right shape. *)
Levels == {"sleep", "run"}
TypeOK ==
  /\ msgbox \in Rings(KernelWords) /\ msgbox.free < KernelWords
  /\ status \in BOOLEAN /\ request \in BOOLEAN /\ iret \in BOOLEAN
  /\ nest \in 0 .. 255
  /\ level \in Levels /\ oldLlv \in Levels /\ frame \in Levels \cup {"none"}
  /\ call.op \in {"none", "nest", "ret"} /\ call.llv \in {"keep", "sleep"}
  /\ handler \in {"out", "read", "left"}
  /\ read_ptr \in 0 .. KernelWords - 1 /\ signal \in 0 .. KernelWords - 1
  /\ box \in Rings(UserWords)
  /\ read_free \in 0 .. UserWords /\ siglen \in 0 .. UserWords
  /\ position \in 0 .. UserWords - 1
  /\ phase \in {"user", "enter", "given", "slept", "woken", "leave"}

(* The masks of the soft interrupt (softint_nest) add up: 128 while the    *)
(* program is inside pioneer0, -1 from the moment a soft interrupt is      *)
(* requested until its handler has returned, -2 while the box is full;     *)
(* whatever shell call is still to be carried out included.  So a mask is  *)
(* never taken off twice nor left behind, and the byte reaches 0 exactly   *)
(* when nothing masks.                                                     *)
MaskOf(reason, amount) == IF reason THEN amount ELSE 0
MasksAddUp ==
  Byte(nest + call.al) = Byte(MaskOf(phase \in {"enter", "given", "woken"}, 128)
                                + MaskOf(request \/ handler = "read", 255)
                                + MaskOf(boxfull, 254))

(* A task that sleeps has nothing to do: no signal waits in either box,    *)
(* although signals come at any moment between the program's look into its *)
(* box and its going to sleep (cmd018), or while the handler returns.      *)
NoLostWakeup ==
  level = "sleep" => ~status /\ ~request /\ read_free = 0 /\ Len(received) = Len(sent)

(* The counts of free words are exact: each box has as many free words as  *)
(* do not lie between its reader and its writer, so that the writer never  *)
(* runs into the reader and no word stays lost; the words a run of the     *)
(* handler reports are those it has left behind (pioneer_softint).         *)
CountsAreExact ==
  /\ msgbox.free + (IF call.op = "ret" THEN call.words ELSE 0)
       = KernelWords - 1 - Behind(read_ptr, msgbox.write, KernelWords)
  /\ box.free + read_free = UserWords
  /\ read_free = siglen + Behind(position, box.write, UserWords)

(* A program does not sleep while signals are in its box: the level to     *)
(* return to (softint_oldLlv) is the one at which the program was          *)
(* interrupted.                                                            *)
AwakeWithSignals == level = "sleep" => read_free = 0

(* A signal that the handler has reported as handled is not handled again: *)
(* the program sees none twice.                                            *)
NoneTwice == \A i, j \in DOMAIN received : received[i] = received[j] => i = j

(* All in all the boxes are a mailbox: every signal the kernel accepted    *)
(* reaches the program, once and in order, with its words, whatever the    *)
(* program waits for, and wherever the boxes wrap or become full.          *)
Mail == INSTANCE Mailbox WITH
  Signal   <- 1 .. MaxSent,
  waiting  <- [i \in 1 .. Len(sent) - Len(received) |-> Len(received) + i]
ImplementsMailbox == Mail!Spec

=============================================================================
