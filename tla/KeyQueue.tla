------------------------------ MODULE KeyQueue ------------------------------
(***************************************************************************)
(* pcat/keymos0.ask: the queue of micro commands through which the driver  *)
(* talks to the keyboard, and the one for the mouse, which is a copy of it *)
(* with commands of its own.  A batch of commands is laid into a ring of   *)
(* words, and the interrupt of the device executes them: one that waits    *)
(* for an answer ends the run and the next byte goes on from there.  While *)
(* the queue runs, bytes go to it and not to the decoder of keys or of     *)
(* mouse reports.                                                          *)
(*                                                                         *)
(* All of it runs with interrupts disabled; a run is cut into steps, one   *)
(* for each command, between which only the device goes on.                *)
(***************************************************************************)
EXTENDS Integers, SequencesExt

CONSTANTS
  Size,        (* words of the ring: 32 in the code                       *)
  KeyBatches,  (* what clients hand in: sequences of groups of words      *)
  MouseBatches,
  MaxBatches,  (* bound: how many batches are handed in                   *)
  MaxKeys,     (* bound: keys, reports and plugs                          *)
  MaxNacks     (* bound: how often the device asks for a byte again       *)

ASSUME SizeAssumption == Size \in Nat /\ Size >= 2

Cell(op, arg) == [op |-> op, arg |-> arg]
ToNormal == Cell("tonormal", "none")
Restore  == Cell("restore", "none")
Rest     == Cell("rest", "none")      \* a word that is not the first of its command

(* Words of each command.                                                  *)
Words == [WaitBufEmpty |-> 1, SendData |-> 2, WriteCmdReg |-> 2, AckSendData |-> 2,
          RecieveCheck |-> 2, SetErrSignal |-> 5, MakeFinishSignal |-> 1, ResetCommand |-> 1]
Bytes == {"none", "AA", "D1", "DF", "ED", "F4", "FF", "on", "off"}    \* of the clients
Cells == [op : DOMAIN Words \cup {"tonormal", "restore", "rest"}, arg : Bytes]

(* A group is some commands, each with all its words.                      *)
IsGroup(group) ==
  /\ group \in Seq(Cells) /\ group # <<>> /\ group[1].op # "rest"
  /\ \A i \in 1 .. Len(group) :
       LET behind == i + Words[group[i].op] IN
       group[i].op # "rest" =>
         /\ group[i].op \in DOMAIN Words /\ behind <= Len(group) + 1
         /\ \A j \in i + 1 .. behind - 1 : group[j] = Rest
         /\ behind <= Len(group) => group[behind].op # "rest"
ASSUME BatchAssumption ==
  \A batch \in KeyBatches \cup MouseBatches :
    batch \in Seq(Seq(Cells)) /\ \A k \in 1 .. Len(batch) : IsGroup(batch[k])

VARIABLES
  device,      (* whose queue this is: "keyboard" or "mouse"              *)
  queue,       (* the ring, where it is written to and how much is free   *)
  exec,        (* the command to be executed or being waited for          *)
  mode,        (* who gets the next byte: "queue", "normal", "plugged"    *)
  waiting,     (* what the queue waits for: "ack", "check", "reset"       *)
  running,     (* "no", "yes", or "int3" after a byte nobody expected     *)
  phase,       (* bytes of a mouse report so far                          *)
  out,         (* the byte in the buffer of the controller, "none" if none *)
  wire,        (* bytes from the device                                   *)
  lamps, enabled, option, (* the device: LEDs, reports, waits for an LED byte *)
  asked, wanted, count,    (* histories: batches, LEDs of accepted ones    *)
  strays, keys, nacks      (* histories: keys taken for answers, bounds    *)

queueVars  == <<queue, exec, mode, waiting, running>>
deviceVars == <<lamps, enabled, option>>
histories  == <<asked, wanted, count, strays, keys, nacks>>
vars == <<device, queueVars, phase, out, wire, deviceVars, histories>>

(* One word is kept for the command that ends the run. *)
Empty(ring) == [ring |-> ring, write |-> 0, free |-> Size - 1, full |-> FALSE]

Init ==
  /\ device \in {"keyboard", "mouse"}
  /\ queue = Empty([i \in 0 .. Size - 1 |-> Rest])
  /\ exec = 0
  /\ mode = "normal" /\ waiting = "ack" /\ running = "no"
  /\ phase = 0
  /\ out = "none" /\ wire = <<>>
  /\ lamps = "none" /\ enabled = FALSE /\ option = FALSE
  /\ asked = <<>> /\ wanted = "none" /\ count = 0 /\ strays = 0 /\ keys = 0 /\ nacks = 0

-----------------------------------------------------------------------------
(* KeyboardQueueExecute, MouseQueueExecute. *)

(* The words of a group from q.write on.                                   *)
Lay(q, group) ==
  [q EXCEPT !.ring  = [i \in DOMAIN @ |-> IF i \in q.write .. q.write + Len(group) - 1
                                          THEN group[i - q.write + 1] ELSE @[i]],
            !.write = @ + Len(group)]

(* One group: it is not split, so if it does not end before the end of the *)
(* ring the queue goes back to the start there, and the words up to the    *)
(* end are used up.                                                        *)
(* Mutant: a group that ends with the ring is not sent to the start. *)
BugPut(q, group) ==
  LET n    == Len(group)
      wrap == q.write + n > Size
      skip == IF wrap THEN Size - q.write ELSE 0
      q1   == IF wrap THEN [q EXCEPT !.ring[q.write] = Restore, !.write = 0] ELSE q
  IN IF q.full THEN q
     ELSE IF q.free < n THEN [q EXCEPT !.full = TRUE]
     ELSE IF q.free - n < skip THEN [q1 EXCEPT !.full = TRUE]
     ELSE Lay([q1 EXCEPT !.free = @ - n - skip], group)
Put(q, group) ==
  LET n    == Len(group)
      wrap == q.write + n >= Size
      skip == IF wrap THEN Size - q.write ELSE 0
      q1   == IF wrap THEN [q EXCEPT !.ring[q.write] = Restore, !.write = 0] ELSE q
  IN IF q.full THEN q
     ELSE IF q.free < n THEN [q EXCEPT !.full = TRUE]
     ELSE IF q.free - n < skip THEN [q1 EXCEPT !.full = TRUE]
     ELSE Lay([q1 EXCEPT !.free = @ - n - skip], group)

(* All groups of a batch, one after the other.                             *)
AllPut(q, batch) ==
  LET put[k \in 0 .. Len(batch)] == IF k = 0 THEN q ELSE Put(put[k - 1], batch[k])
  IN put[Len(batch)]
Accepted(q, batch) == ~AllPut(q, batch).full

(* All groups, then the command that ends the run; if one does not fit,    *)
(* nothing was handed in, and the end is where it was.                     *)
(* Mutant: the end is not put back. *)
BugPutAll(q, batch) ==
  LET q1 == AllPut(q, batch) IN
  IF q1.full THEN [q EXCEPT !.ring = q1.ring]
  ELSE [q1 EXCEPT !.ring[q1.write] = ToNormal]
PutAll(q, batch) ==
  LET q1 == AllPut(q, batch) IN
  IF q1.full THEN [q EXCEPT !.ring = [q1.ring EXCEPT ![q.write] = ToNormal]]
  ELSE [q1 EXCEPT !.ring[q1.write] = ToNormal]

(* The commands that begin in the words from a up to b.                    *)
Begin(words, a, b) ==
  LET begun[i \in a .. b] ==
        IF i = a THEN <<>>
        ELSE IF words[i - 1].op = "rest" THEN begun[i - 1] ELSE Append(begun[i - 1], words[i - 1])
  IN begun[b]

Commands(batch) == LET words == FlattenSeq(batch) IN Begin(words, 1, Len(words) + 1)

(* History: what the LEDs should show behind a batch.                      *)
Lamps(batch) ==
  LET sent == {cell.arg : cell \in Range(FlattenSeq(batch))} IN
  IF "ED" \in sent THEN CHOOSE value \in sent : value \in {"on", "off"}
  ELSE IF "FF" \in sent THEN "none" ELSE wanted

(* A queue that does not run is started, at the start of the ring; the     *)
(* next bytes go to it, whatever was to be done with them.                 *)
Submit(batch) ==
  /\ running = "no" /\ count < MaxBatches
  /\ queue' = PutAll(queue, batch)
  /\ IF mode = "queue" \/ ~Accepted(queue, batch)
     THEN UNCHANGED <<exec, mode, running>>
     ELSE exec' = 0 /\ mode' = "queue" /\ running' = "yes"
  /\ asked' = batch
  /\ wanted' = (IF Accepted(queue, batch) THEN Lamps(batch) ELSE wanted)
  /\ count' = count + 1
  /\ UNCHANGED <<device, waiting, phase, out, wire, deviceVars, strays, keys, nacks>>

-----------------------------------------------------------------------------
(* The commands. *)

Command == queue.ring[exec]

(* The next command; its words are free. *)
Advance(q, at) ==
  LET n == Words[q.ring[at].op] IN
  /\ queue' = [q EXCEPT !.free = @ + n]
  /\ exec' = at + n

(* quecmd_tonormal.                                                        *)
(* Mutant: what the mouse had begun to report goes on. *)
BugToNormalMode ==
  /\ running = "yes" /\ Command.op = "tonormal"
  /\ mode' = "normal" /\ running' = "no"
  /\ queue' = Empty(queue.ring)
  /\ exec' = 0
  /\ UNCHANGED <<device, waiting, phase, out, wire, deviceVars, histories>>
(* Mutant: the end of the queue stays where it is. *)
BugToNormalEnd ==
  /\ running = "yes" /\ Command.op = "tonormal"
  /\ mode' = "normal" /\ phase' = 0 /\ running' = "no"
  /\ queue' = [queue EXCEPT !.free = Size - 1]
  /\ exec' = 0
  /\ UNCHANGED <<device, waiting, out, wire, deviceVars, histories>>
ToNormalMode ==
  /\ running = "yes" /\ Command.op = "tonormal"
  /\ mode' = "normal" /\ phase' = 0 /\ running' = "no"
  /\ queue' = Empty(queue.ring)
  /\ exec' = 0
  /\ UNCHANGED <<device, waiting, out, wire, deviceVars, histories>>

(* quecmd_restore: the words up to the end of the ring are free.           *)
(* Mutant: only that of the command is. *)
BugRestoreStart ==
  /\ running = "yes" /\ Command.op = "restore"
  /\ queue' = [queue EXCEPT !.free = @ + 1]
  /\ exec' = 0
  /\ UNCHANGED <<device, mode, waiting, running, phase, out, wire, deviceVars, histories>>
RestoreStart ==
  /\ running = "yes" /\ Command.op = "restore"
  /\ queue' = [queue EXCEPT !.free = @ + Size - exec]
  /\ exec' = 0
  /\ UNCHANGED <<device, mode, waiting, running, phase, out, wire, deviceVars, histories>>

(* WaitBufEnpty: waits, all the machine with it, until the controller has  *)
(* taken the last byte.                                                    *)
WaitBufEmpty ==
  /\ running = "yes" /\ Command.op = "WaitBufEmpty"
  /\ out = "none"
  /\ Advance(queue, exec)
  /\ UNCHANGED <<device, mode, waiting, running, phase, out, wire, deviceVars, histories>>

(* SendData, WriteCmdReg; SetErrSignal and MakeFinishSignal send nothing.  *)
NoAnswer ==
  /\ running = "yes"
  /\ Command.op \in {"SendData", "WriteCmdReg", "SetErrSignal", "MakeFinishSignal"}
  /\ out' = (IF Command.op \in {"SendData", "WriteCmdReg"} THEN Command.arg ELSE out)
  /\ Advance(queue, exec)
  /\ UNCHANGED <<device, mode, waiting, running, phase, wire, deviceVars, histories>>

(* The byte goes into the buffer of the controller; for the keyboard the   *)
(* driver does not look whether that is empty, for the mouse it waits.     *)
Out(byte) ==
  /\ device = "mouse" => out = "none"
  /\ out' = byte

(* AckSendData, ResetCommand: the run ends here.                           *)
(* Mutant: the queue still waits for what it waited for before. *)
BugSendAndWait ==
  /\ running = "yes" /\ Command.op \in {"AckSendData", "ResetCommand"}
  /\ Out(Command.arg)
  /\ running' = "no"
  /\ UNCHANGED <<device, queue, exec, mode, waiting, phase, wire, deviceVars, histories>>
SendAndWait ==
  /\ running = "yes" /\ Command.op \in {"AckSendData", "ResetCommand"}
  /\ Out(Command.arg)
  /\ waiting' = (IF Command.op = "ResetCommand" THEN "reset" ELSE "ack")
  /\ running' = "no"
  /\ UNCHANGED <<device, queue, exec, mode, phase, wire, deviceVars, histories>>

(* RecieveCheck.                                                           *)
WaitForByte ==
  /\ running = "yes" /\ Command.op = "RecieveCheck"
  /\ waiting' = "check"
  /\ running' = "no"
  /\ UNCHANGED <<device, queue, exec, mode, phase, out, wire, deviceVars, histories>>

Run == ToNormalMode \/ RestoreStart \/ WaitBufEmpty \/ NoAnswer \/ SendAndWait \/ WaitForByte

-----------------------------------------------------------------------------
(* Interrupts: a byte comes. *)

Comes(byte) ==
  /\ running = "no" /\ wire # <<>> /\ byte = Head(wire)
  /\ wire' = Tail(wire)

Expected == IF waiting = "ack" THEN "ACK" ELSE IF waiting = "reset" THEN "00" ELSE Command.arg

(* The byte the queue waits for.                                           *)
GetAnswer ==
  /\ mode = "queue" /\ Comes(Expected)
  /\ Advance(queue, exec)
  /\ running' = "yes"
  /\ UNCHANGED <<device, mode, waiting, phase, out, deviceVars, histories>>

(* The device asks for the last byte again: the command is repeated.       *)
(* Mutant: it is not. *)
BugGetNack ==
  /\ mode = "queue" /\ waiting # "check" /\ Comes("NACK")
  /\ Advance(queue, exec)
  /\ running' = "yes"
  /\ UNCHANGED <<device, mode, waiting, phase, out, deviceVars, histories>>
GetNack ==
  /\ mode = "queue" /\ waiting # "check" /\ Comes("NACK")
  /\ Out(Command.arg)
  /\ UNCHANGED <<device, queue, exec, mode, waiting, running, phase, deviceVars, histories>>

(* Any other byte is an answer too for the keyboard, and it stands for the *)
(* one a check behind it waits for; the mouse queue ignores it.  In a      *)
(* check it is an INT3.                                                    *)
(* Mutant: the check is left to wait. *)
BugGetOther(byte) ==
  /\ mode = "queue" /\ Comes(byte)
  /\ byte # Expected /\ ~(byte = "NACK" /\ waiting # "check")
  /\ CASE waiting = "check" -> running' = "int3" /\ UNCHANGED <<queue, exec, strays>>
       [] waiting # "check" /\ device = "mouse" -> UNCHANGED <<queue, exec, running, strays>>
       [] OTHER -> Advance(queue, exec) /\ running' = "yes" /\ strays' = strays + 1
  /\ UNCHANGED <<device, mode, waiting, phase, out, deviceVars, asked, wanted, count, keys, nacks>>
GetOther(byte) ==
  LET behind == exec + Words[Command.op] IN
  /\ mode = "queue" /\ Comes(byte)
  /\ byte # Expected /\ ~(byte = "NACK" /\ waiting # "check")
  /\ CASE waiting = "check" -> running' = "int3" /\ UNCHANGED <<queue, exec, strays>>
       [] waiting # "check" /\ device = "mouse" -> UNCHANGED <<queue, exec, running, strays>>
       [] OTHER ->
            /\ strays' = strays + 1
            /\ IF queue.ring[behind].op = "RecieveCheck"
               THEN Advance([queue EXCEPT !.free = @ + Words[Command.op]], behind)
               ELSE Advance(queue, exec)
            /\ running' = "yes"
  /\ UNCHANGED <<device, mode, waiting, phase, out, deviceVars, asked, wanted, count, keys, nacks>>

(* KeyIntDrv_Normal: the byte is a key.                                    *)
Key(byte) ==
  /\ device = "keyboard" /\ mode = "normal" /\ Comes(byte)
  /\ UNCHANGED <<device, queueVars, phase, out, deviceVars, histories>>

(* MouseIntDrv_Phase0 to Phase2, and Phase3 behind 0xaa.  A byte that is   *)
(* not the first of a report may or may not look like one.                 *)
Report == <<"p1", "p2", "p3">>

MouseByte(byte) ==
  /\ device = "mouse" /\ mode \in {"normal", "plugged"} /\ Comes(byte)
  /\ IF mode = "plugged" THEN mode' = "normal" /\ phase' = 0
     ELSE IF phase > 0 THEN phase' = (phase + 1) % 3 /\ UNCHANGED mode
     ELSE IF byte = "AA" THEN mode' = "plugged" /\ UNCHANGED phase
     ELSE /\ phase' \in (IF byte = "p1" THEN {1} ELSE IF byte \in {"p2", "p3"} THEN {0, 1} ELSE {0})
          /\ UNCHANGED mode
  /\ UNCHANGED <<device, queue, exec, waiting, running, out, deviceVars, histories>>

-----------------------------------------------------------------------------
(* The devices. *)

Answered == {"ED", "FF", "F4", "on", "off"}    \* not the bytes for the controller
Answers  == {"ACK", "NACK", "AA", "00"}

(* The device takes the byte and answers; the keyboard knows a byte for    *)
(* its LEDs only behind 0xed.                                              *)
Take ==
  /\ out # "none" /\ out' = "none"
  /\ LET known == out \in {"ED", "FF", "F4"} \/ option IN
     \/ /\ out \notin Answered
        /\ UNCHANGED <<wire, deviceVars, nacks>>
     \/ /\ out \in Answered /\ known
        /\ option' = (out = "ED")
        /\ lamps' = (IF option /\ out \in {"on", "off"} THEN out ELSE IF out = "FF" THEN "none" ELSE lamps)
        /\ enabled' = (out = "F4" \/ (out # "FF" /\ enabled))
        /\ wire' = wire \o (IF out # "FF" THEN <<"ACK">>
                            ELSE IF device = "keyboard" THEN <<"ACK", "AA">> ELSE <<"ACK", "AA", "00">>)
        /\ UNCHANGED nacks
     \/ /\ out \in Answered
        /\ known => nacks < MaxNacks
        /\ nacks' = (IF known THEN nacks + 1 ELSE nacks)
        /\ wire' = Append(wire, "NACK")
        /\ UNCHANGED deviceVars
  /\ UNCHANGED <<device, queueVars, phase, asked, wanted, count, strays, keys>>

(* Somebody presses a key, moves the mouse or plugs in another one; not    *)
(* while the device has answers to give.                                   *)
Use ==
  /\ keys < MaxKeys /\ keys' = keys + 1
  /\ \/ /\ device = "keyboard" /\ ~option /\ Range(wire) \cap Answers = {}
        /\ wire' = Append(wire, "key") /\ UNCHANGED enabled
     \/ /\ device = "mouse" /\ enabled
        /\ wire' = wire \o Report /\ UNCHANGED enabled
     \/ /\ device = "mouse" /\ enabled /\ wire = <<>> /\ phase = 0
        /\ wire' = <<"AA", "00">> /\ enabled' = FALSE
  /\ UNCHANGED <<device, queueVars, phase, out, lamps, option, asked, wanted, count, strays,
                 nacks>>

-----------------------------------------------------------------------------
Batches == IF device = "keyboard" THEN KeyBatches ELSE MouseBatches

Interrupt ==
  \/ GetAnswer
  \/ GetNack
  \/ \E byte \in Range(wire) : GetOther(byte) \/ Key(byte) \/ MouseByte(byte)

Next ==
  \/ \E batch \in Batches : Submit(batch)
  \/ ToNormalMode
  \/ RestoreStart
  \/ WaitBufEmpty
  \/ NoAnswer
  \/ SendAndWait
  \/ WaitForByte
  \/ GetAnswer
  \/ GetNack
  \/ \E byte \in Range(wire) : GetOther(byte)
  \/ \E byte \in Range(wire) : Key(byte)
  \/ \E byte \in Range(wire) : MouseByte(byte)
  \/ Take
  \/ Use

(* The driver runs on, its interrupts come, and the device answers.        *)
Fairness == WF_vars(Run) /\ WF_vars(Interrupt) /\ WF_vars(Take)

Spec == Init /\ [][Next]_vars /\ Fairness

-----------------------------------------------------------------------------
(* The words in use are those from the command that is executed up to the  *)
(* end, once around: in two parts if the queue has gone back to the start. *)
Used == Size - 1 - queue.free

Wrapped == queue.write < exec

(* The commands that wait, as a reader of the ring finds them.             *)
Pending ==
  LET back == CHOOSE i \in exec .. Size - 1 :
                /\ queue.ring[i].op = "restore"
                /\ \A j \in exec .. i - 1 : queue.ring[j].op # "restore"
  IN IF Wrapped THEN Begin(queue.ring, exec, back) \o Begin(queue.ring, 0, queue.write)
     ELSE Begin(queue.ring, exec, queue.write)

(* The state has the right shape; indices are inside the ring. *)
TypeOK ==
  /\ queue.write \in 0 .. Size - 1 /\ queue.free \in 0 .. Size - 1 /\ ~queue.full
  /\ exec \in 0 .. Size - 1
  /\ mode \in {"queue", "normal", "plugged"} /\ waiting \in {"ack", "check", "reset"}
  /\ running \in {"no", "yes", "int3"}
  /\ phase \in 0 .. 2

(* The count of free words, which both sides change by what they add and   *)
(* what they pass, and reset at the end, is the room there really is, with *)
(* what was skipped at the end of the ring; and a command is where the     *)
(* queue goes on, its end behind the last one.                             *)
FreeIsExact ==
  /\ Used = (queue.write - exec) % Size
  /\ mode = "queue" => queue.ring[queue.write] = ToNormal /\ Command.op # "rest"

(* A queue that does not run is empty, and its next batch goes to the      *)
(* start of the ring: that is where Submit starts it, whatever the         *)
(* pointers say (lines 770-773).                                           *)
StartsEmpty == mode # "queue" => exec = 0 /\ queue.write = 0 /\ queue.free = Size - 1

(* Whatever byte comes when, the driver never runs into the breakpoint of  *)
(* a check, although a key may come instead of an answer.                  *)
NoBreakpoint == running # "int3"

(* An answer is not taken for a key or for part of a report, and bytes of  *)
(* a report are put together with those of the same one, unless a key was  *)
(* taken for an answer before.                                             *)
Decoded == (mode = "normal" \/ mode = "plugged") /\ running = "no" /\ strays = 0
AnswersAreNotKeys ==
  Decoded /\ wire # <<>> =>
    CASE device = "keyboard" -> Head(wire) = "key"
      [] mode = "plugged"    -> Head(wire) = "00"
      [] phase > 0           -> Head(wire) = Report[phase + 1]
      [] OTHER               -> Head(wire) \in {"p1", "AA"}

(* The queue is one of commands, of which a batch that is refused leaves   *)
(* nothing.                                                                *)
Abstract == INSTANCE CommandQueue WITH
  Batch   <- KeyBatches \cup MouseBatches \cup {<<>>},
  Check   <- {cell \in Cells : cell.op = "RecieveCheck"},
  pending <- IF mode = "queue" THEN Pending ELSE <<>>
ImplementsQueue == Abstract!Spec

(* When the queue has ended the LEDs are what was asked for last: each     *)
(* byte got through, in order, however often the keyboard had to ask for   *)
(* it again; unless a key was taken for an answer.                         *)
LampsAreRight ==
  device = "keyboard" /\ Decoded => lamps = wanted

(* A device that is not disturbed gets its bytes back: a queue that runs   *)
(* comes to its end, however often a byte had to be repeated.              *)
EndsAtLast == (mode = "queue" ~> mode # "queue") \/ <>(strays > 0)

=============================================================================
