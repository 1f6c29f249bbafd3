-------------------------- MODULE MCSignalDelivery --------------------------
(***************************************************************************)
(* Boxes of a few words, so that both wrap and the program's becomes full: *)
(* for calm senders, and, in the runs SignalAsleep and SignalFull, for     *)
(* senders that send at any time.                                          *)
(***************************************************************************)
EXTENDS CalmSenders

=============================================================================
