----------------------------- MODULE MCJobRing -----------------------------
(***************************************************************************)
(* A ring of seven cells and four of the batches winman0.c writes: the     *)
(* request for the first screen mode (two jobs in one call, one of whose   *)
(* arguments is 0), a change of mode, the loading of a font (three         *)
(* arguments, one of which reads like a command) and the test for VESA     *)
(* (no argument).                                                          *)
(***************************************************************************)
EXTENDS JobRing

OpenDriver == 48   \* 0x30
SetMode    == 52   \* 0x34
LoadFont   == 56   \* 0x38
VesaCheck  == 68   \* 0x44

MCCmd   == {OpenDriver, SetMode, LoadFont, VesaCheck}
MCArity == [c \in MCCmd |-> CASE c = LoadFont -> 3 [] c = VesaCheck -> 0 [] OTHER -> 1]
MCWord  == MCCmd \cup {0, 18}

First  == <<OpenDriver, 0, SetMode, 18>>
Change == <<SetMode, 18>>
Font   == <<LoadFont, 0, SetMode, 0>>
Check  == <<VesaCheck>>

MCBatches == {First, Change, Font, Check}
MCStarts  == [p \in MCBatches |-> IF p = First THEN {1, 3} ELSE {1}]
MCGarbage == {0, SetMode}

=============================================================================
