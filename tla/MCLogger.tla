------------------------------ MODULE MCLogger ------------------------------
(* Four lines rotate a file of two bytes up to four times, past three        *)
(* rotated files; the first two have one or two bytes, the last two fill a   *)
(* file.  Two threads and one restart.                                       *)
EXTENDS Logger

MCLines == {l \in [id : 1..MaxCalls, size : 1..2] : l.id > 2 => l.size = 2}
ThreadSymmetry == Permutations(Threads)
=============================================================================
