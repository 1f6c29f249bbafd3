--------------------------- MODULE MCFiveWindows ---------------------------
(***************************************************************************)
(* An instance of WindowSystem with five open windows.  From the top: w1   *)
(* overlaps w4 only, w2 overlaps w3, w3 overlaps w4, and w5, the shell's,  *)
(* lies apart.                                                             *)
(***************************************************************************)
EXTENDS WindowSystem

CONSTANTS w1, w2, w3, w4, w5

MCWin == {w1, w2, w3, w4, w5}
MCPlace == 1 .. 6
MCMeets == { pq \in MCPlace \X MCPlace : pq[1] - pq[2] \in -1 .. 1 }

Row5 == (w2 :> 1) @@ (w3 :> 2) @@ (w4 :> 3) @@ (w1 :> 4) @@ (w5 :> 6)

NoWindows == <<>>
Five == <<w1, w2, w3, w4, w5>>

=============================================================================
