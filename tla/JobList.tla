------------------------------ MODULE JobList ------------------------------
(***************************************************************************)
(* What the job list of the window manager (STR_JOB in winman0.c) promises *)
(* to the code that queues jobs: a bounded first-in first-out queue of     *)
(* words.  A batch of words goes in as a whole or not at all, and the      *)
(* words of one job (its command and its arguments) come out together, in  *)
(* the order in which they went in.  Where the words are kept, and that    *)
(* the memory they are kept in is used again and again, is left to         *)
(* JobRing, which implements this module.                                  *)
(***************************************************************************)
EXTENDS Integers, Sequences

CONSTANTS
  Word,      (* what a cell of the list holds                        *)
  Batches,   (* the sequences of words one call of writejob_n writes *)
  Capacity   (* how many words may wait                              *)

VARIABLES
  waiting,   (* the words queued and not read yet, oldest first      *)
  job        (* the words of the job in progress, <<>> when idle     *)

vars == <<waiting, job>>

Init == waiting = <<>> /\ job = <<>>

(* A batch is accepted only when all of it fits. *)
Put(p) ==
  /\ Len(waiting) + Len(p) <= Capacity
  /\ waiting' = waiting \o p
  /\ UNCHANGED job

(* The next job starts: its words leave the queue together. *)
Take(n) ==
  /\ job = <<>>
  /\ job' = SubSeq(waiting, 1, n)
  /\ waiting' = SubSeq(waiting, n + 1, Len(waiting))

(* The job in progress ends. *)
Finish ==
  /\ job # <<>>
  /\ job' = <<>>
  /\ UNCHANGED waiting

Next ==
  \/ \E p \in Batches : Put(p)
  \/ \E n \in 1 .. Len(waiting) : Take(n)
  \/ Finish

Spec == Init /\ [][Next]_vars

=============================================================================
