-------------------------- MODULE MCWindowSystem --------------------------
(***************************************************************************)
(* Small instances of WindowSystem: three slots, and three places in a row *)
(* of which neighbours overlap.                                            *)
(***************************************************************************)
EXTENDS WindowSystem

CONSTANTS w1, w2, w3

MCWin == {w1, w2, w3}
MCPlace == 1 .. 3
MCMeets == { pq \in MCPlace \X MCPlace : pq[1] - pq[2] \in -1 .. 1 }

AllAtHome == [w \in MCWin |-> 1]
Row == (w1 :> 1) @@ (w2 :> 2) @@ (w3 :> 3)

NoWindows == <<>>
Two == <<w1, w2>>
Third == <<w3>>

=============================================================================
