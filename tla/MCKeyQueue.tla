----------------------------- MODULE MCKeyQueue -----------------------------
(***************************************************************************)
(* An instance for TLC: the batches of the clients in a ring of 16 words,  *)
(* small enough for the queue to go round it and to be refused a batch.    *)
(***************************************************************************)
EXTENDS KeyClients
=============================================================================
