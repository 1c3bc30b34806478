----------------------------- MODULE ByteQueues -----------------------------
(***************************************************************************)
(* What a set of buffers promises: each is a queue of bytes and knows its  *)
(* length; a call does to the queues exactly what it was asked for.        *)
(***************************************************************************)
EXTENDS Naturals, Sequences

CONSTANT Buffers

VARIABLES
    queue,   \* the bytes of each buffer
    length,  \* the length each buffer reports
    call     \* the last call: its name, its buffer, its argument

Init ==
    /\ queue = [b \in Buffers |-> <<>>]
    /\ length = [b \in Buffers |-> 0]
    /\ call = <<"none">>

(* The queues after the call c. *)
Effect(c) ==
    CASE c[1] = "put"   -> [queue EXCEPT ![c[2]] = @ \o c[3]]
      [] c[1] = "drain" -> [queue EXCEPT ![c[2]] = SubSeq(@, c[3] + 1, Len(@))]
      [] c[1] = "move"  -> [queue EXCEPT ![c[2]] = @ \o queue[c[3]], ![c[3]] = <<>>]
      [] c[1] = "new"   -> [queue EXCEPT ![c[2]] = <<>>]
      [] OTHER          -> queue

Call ==
    /\ queue' = Effect(call')
    /\ length' = [b \in Buffers |-> Len(queue'[b])]

Spec == Init /\ [][Call]_<<queue, length, call>>
=============================================================================
