---------------------------- MODULE CommandQueue ----------------------------
(***************************************************************************)
(* What the queue of micro commands promises: a batch is accepted as a     *)
(* whole or refused without a trace, whatever is accepted is executed, in  *)
(* order; only a check may be passed over together with the command it     *)
(* belongs to.                                                             *)
(***************************************************************************)
EXTENDS Integers, Sequences

CONSTANTS
  Batch, Commands(_),
  Check     (* the commands that check the answer to the one before        *)

VARIABLES
  pending,  (* the commands that wait or are being executed                *)
  asked     (* history: the last batch that was handed in                  *)

queueVars == <<pending, asked>>

Init == pending = <<>> /\ asked = <<>>

Accept ==
  /\ asked' \in Batch
  /\ pending' = pending \o Commands(asked')

Refuse == asked' \in Batch /\ UNCHANGED pending

Execute ==
  /\ pending # <<>>
  /\ pending' = Tail(pending)
  /\ UNCHANGED asked

PassOver ==
  /\ Len(pending) > 1 /\ pending[2] \in Check
  /\ pending' = Tail(Tail(pending))
  /\ UNCHANGED asked

Next == Accept \/ Refuse \/ Execute \/ PassOver

Spec == Init /\ [][Next]_queueVars

=============================================================================
