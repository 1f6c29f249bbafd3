------------------------------ MODULE Mailbox ------------------------------
(***************************************************************************)
(* What the kernel and pioneer0 together promise a program: the signals    *)
(* sent to it reach it one at a time, each exactly once and in the order   *)
(* in which they were accepted; and it need not do more than wait for      *)
(* them.  How many can wait is not promised.                               *)
(***************************************************************************)
EXTENDS Naturals, Sequences

CONSTANT Signal        (* the signals there are *)

VARIABLES
  waiting,             (* accepted and not yet received *)
  received             (* received so far, for ever     *)

mailVars == <<waiting, received>>

Init == waiting = <<>> /\ received = <<>>

Accept(s) ==
  /\ waiting' = Append(waiting, s)
  /\ UNCHANGED received

Receive ==
  /\ waiting # <<>>
  /\ received' = Append(received, Head(waiting))
  /\ waiting' = Tail(waiting)

Next == (\E s \in Signal : Accept(s)) \/ Receive

Spec == Init /\ [][Next]_mailVars /\ WF_mailVars(Receive)

=============================================================================
