------------------------------ MODULE JobRing ------------------------------
(***************************************************************************)
(* The job list of the window manager as winman0.c keeps it: an array of   *)
(* JOBLIST_SIZE cells used as a ring, a read and a write position, and a   *)
(* count of free cells (STR_JOB).  writejob_n stores a batch of words and  *)
(* then a zero, the stopper, which is how runjobnext sees that no job is   *)
(* left.  A word that is zero is a legal argument, so all depends on the   *)
(* read position never resting on an argument.                             *)
(***************************************************************************)
EXTENDS Integers, Sequences

CONSTANTS
  JOBLIST_SIZE,  (* cells in the ring: 256 in the code                   *)
  Word,          (* what a cell can hold; 0 is the stopper               *)
  Cmd,           (* the job commands, 0x20 .. 0x48                       *)
  Arity,         (* how many arguments runjobnext reads for each command *)
  Batches,       (* the sequences of words the code passes to writejob_n *)
  Starts,        (* the places in a batch where a command stands         *)
  Garbage        (* what the cells hold before the first write           *)

Slots == 0 .. JOBLIST_SIZE - 1

(* A batch is one job, or several jobs one after the other, each a command *)
(* followed by its arguments.                                              *)
WellFormed(p) ==
  /\ Len(p) \in 1 .. JOBLIST_SIZE - 1
  /\ Starts[p] \subseteq 1 .. Len(p)
  /\ 1 \in Starts[p]
  /\ \A i \in Starts[p] :
       /\ p[i] \in Cmd
       /\ i + Arity[p[i]] <= Len(p)
       /\ i + Arity[p[i]] < Len(p) => i + Arity[p[i]] + 1 \in Starts[p]
       /\ \A j \in Starts[p] : j > i => j > i + Arity[p[i]]

ASSUME SizeAssumption == JOBLIST_SIZE \in Nat /\ JOBLIST_SIZE > 1
ASSUME WordAssumption ==
  /\ 0 \in Word
  /\ Garbage \subseteq Word
  /\ Cmd \subseteq Word \ {0}
  /\ Arity \in [Cmd -> Nat]
ASSUME BatchAssumption ==
  /\ Batches \subseteq Seq(Word)
  /\ \A p \in Batches : WellFormed(p)

VARIABLES
  list,    (* the cells                                                    *)
  rp, wp,  (* the read and the write position                              *)
  free,    (* how many more words writejob_n would accept                  *)
  job,     (* the job in progress (pjob->now and its arguments), or <<>>   *)
  starts   (* history: the cells in which a command waits                  *)

vars == <<list, rp, wp, free, job, starts>>

(* Mutants (a name beginning with Bug): slips this code could have made,   *)
(* each standing before the definition it would replace.  Nothing uses     *)
(* them; the checks put them in to see that the properties notice.         *)
BugWrapLate(k) == IF k > JOBLIST_SIZE THEN k - JOBLIST_SIZE ELSE k

(* The cell k places after the first, wrapping at the end of the array, and *)
(* how many places cell s lies ahead of cell a.                             *)
Slot(k) == IF k >= JOBLIST_SIZE THEN k - JOBLIST_SIZE ELSE k
Ahead(a, s) == IF s >= a THEN s - a ELSE s - a + JOBLIST_SIZE

Used == JOBLIST_SIZE - 1 - free

Init ==
  /\ list \in { l \in [Slots -> Garbage \cup {0}] : l[0] = 0 }
  /\ rp = 0
  /\ wp = 0
  /\ free = JOBLIST_SIZE - 1
  /\ job = <<>>
  /\ starts = {}

(* Mutants: the stopper is not written; one word too many is accepted. *)
BugNoStopper(p) ==
  /\ free >= Len(p)
  /\ list' = [s \in Slots |-> IF Ahead(wp, s) < Len(p) THEN p[Ahead(wp, s) + 1] ELSE list[s]]
  /\ wp' = Slot(wp + Len(p))
  /\ free' = free - Len(p)
  /\ starts' = starts \cup { Slot(wp + i - 1) : i \in Starts[p] }
  /\ UNCHANGED <<rp, job>>
BugOneTooMany(p) ==
  /\ free >= Len(p) - 1
  /\ list' = [s \in Slots |-> IF Ahead(wp, s) < Len(p) THEN p[Ahead(wp, s) + 1]
                              ELSE IF Ahead(wp, s) = Len(p) THEN 0 ELSE list[s]]
  /\ wp' = Slot(wp + Len(p))
  /\ free' = free - Len(p)
  /\ starts' = starts \cup { Slot(wp + i - 1) : i \in Starts[p] }
  /\ UNCHANGED <<rp, job>>

(* writejob_n: all the words of p and the stopper after them, or, when     *)
(* they do not all fit, nothing (and the caller does not look).            *)
WriteJob(p) ==
  /\ free >= Len(p)
  /\ list' = [s \in Slots |->
                IF Ahead(wp, s) < Len(p) THEN p[Ahead(wp, s) + 1]
                ELSE IF Ahead(wp, s) = Len(p) THEN 0
                ELSE list[s]]
  /\ wp' = Slot(wp + Len(p))
  /\ free' = free - Len(p)
  /\ starts' = starts \cup { Slot(wp + i - 1) : i \in Starts[p] }
  /\ UNCHANGED <<rp, job>>

(* Mutant: a case of the switch forgets its third argument. *)
BugTwoArgs(c) == IF c \in Cmd THEN (IF Arity[c] > 2 THEN 2 ELSE Arity[c]) ELSE 0

(* One turn of the loop in runjobnext: the command is read, then as many   *)
(* arguments as its case of the switch asks for; a word that is no command *)
(* takes none.                                                             *)
ArgCount(c) == IF c \in Cmd THEN Arity[c] ELSE 0

RunJobNext ==
  LET n == 1 + ArgCount(list[rp]) IN
  /\ job = <<>>
  /\ list[rp] # 0
  /\ job' = [k \in 1 .. n |-> list[Slot(rp + k - 1)]]
  /\ rp' = Slot(rp + n)
  /\ free' = free + n
  /\ starts' = starts \ {rp}
  /\ UNCHANGED <<list, wp>>

(* The job ends and resets pjob->now. *)
EndJob ==
  /\ job # <<>>
  /\ job' = <<>>
  /\ UNCHANGED <<list, rp, wp, free, starts>>

Next ==
  \/ \E p \in Batches : WriteJob(p)
  \/ RunJobNext
  \/ EndJob

(* The main loop calls runjobnext whenever no job is in progress, and each *)
(* job ends (WindowSystem shows that for the jobs about windows).          *)
Fairness == WF_vars(RunJobNext) /\ WF_vars(EndJob)

Spec == Init /\ [][Next]_vars
FairSpec == Spec /\ Fairness

-----------------------------------------------------------------------------
(* The state has the right shape. *)
TypeOK ==
  /\ list \in [Slots -> Word]
  /\ rp \in Slots
  /\ wp \in Slots
  /\ free \in Slots
  /\ job \in Seq(Word)
  /\ starts \subseteq Slots

(* The free count is exact, so that the write position can never run into  *)
(* the read position, and the cell it stands on always holds the stopper.  *)
RingInv ==
  /\ wp = Slot(rp + Used)
  /\ list[wp] = 0

(* Each command that waits is followed by its arguments and then by the    *)
(* next command or the end of what was written, and nothing else counts as *)
(* a command.                                                              *)
Chained ==
  /\ Used > 0 => rp \in starts
  /\ \A s \in starts :
       LET c == list[s]
           e == Ahead(rp, s) + 1 + Arity[c]
       IN /\ c \in Cmd
          /\ e <= Used
          /\ e < Used => Slot(rp + e) \in starts
          /\ \A t \in starts : Ahead(rp, t) > Ahead(rp, s) => Ahead(rp, t) >= e

(* runjobnext never takes an argument for a command or for the stopper: it *)
(* stops exactly when nothing waits, and what it reads otherwise is a      *)
(* command all of whose arguments have been written.                       *)
Framing ==
  /\ list[rp] = 0 <=> Used = 0
  /\ Used > 0 => list[rp] \in Cmd /\ 1 + Arity[list[rp]] <= Used

(* The ring implements the bounded queue of JobList: no batch is torn, lost *)
(* or overwritten and jobs come out in the order they went in.              *)
Waiting == [k \in 1 .. Used |-> list[Slot(rp + k - 1)]]

Abstract == INSTANCE JobList
              WITH Capacity <- JOBLIST_SIZE - 1, waiting <- Waiting, job <- job

ImplementsJobList == Abstract!Spec

(* Every job that was queued is started. *)
QueuedJobStarts == \A s \in Slots : s \in starts ~> s \notin starts

=============================================================================
