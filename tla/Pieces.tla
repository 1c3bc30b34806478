------------------------------- MODULE Pieces -------------------------------
(***************************************************************************)
(* Sums over a sequence that is kept in pieces: the sizes of lines, and of *)
(* slices.                                                                 *)
(***************************************************************************)
EXTENDS Naturals, Sequences

SumSeq(w) ==
    LET sum[i \in 0..Len(w)] == IF i = 0 THEN 0 ELSE sum[i - 1] + w[i]
    IN  sum[Len(w)]
=============================================================================
