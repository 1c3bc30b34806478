------------------------------ MODULE MCEngine ------------------------------
(* The engine used by the event loop thread and by another thread. *)
EXTENDS Engine

CONSTANTS c1, c2

MCClients == {c1, c2}
=============================================================================
