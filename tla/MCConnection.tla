---------------------------- MODULE MCConnection ----------------------------
(* A connection with a send buffer smaller than what is written to it. *)
EXTENDS Connection
=============================================================================
