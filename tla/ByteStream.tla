----------------------------- MODULE ByteStream -----------------------------
(***************************************************************************)
(* What a buffered connection promises for the data written to it: while   *)
(* it is open, what has gone out followed by what is still held is what    *)
(* was accepted, in order; once closed, nothing moves any more.            *)
(***************************************************************************)
EXTENDS Naturals, Sequences

CONSTANT Chunks   \* the data one write may carry, the empty sequence included

VARIABLES
    open,      \* accepts and transmits data
    accepted,  \* all data accepted so far
    held,      \* accepted, not yet handed to the network
    out        \* handed to the network

(* Some data bs is accepted and a prefix of all that is held goes out; the   *)
(* same step may close the stream.                                           *)
Transfer(bs) ==
    /\ open
    /\ accepted' = accepted \o bs
    /\ \E k \in 0..Len(held \o bs) :
          /\ out' = out \o SubSeq(held \o bs, 1, k)
          /\ held' = SubSeq(held \o bs, k + 1, Len(held \o bs))
    /\ open' \in BOOLEAN

Init == open = TRUE /\ accepted = <<>> /\ held = <<>> /\ out = <<>>

Spec == Init /\ [][\E bs \in Chunks : Transfer(bs)]_<<open, accepted, held, out>>
=============================================================================
