---------------------------- MODULE MCKqueuePost ----------------------------
(* The event loop with the thread that runs it and two others. *)
EXTENDS KqueuePost

CONSTANTS loop, t1, t2

MCThreads == {loop, t1, t2}
=============================================================================
