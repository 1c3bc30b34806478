------------------------------ MODULE MCBuffer ------------------------------
(* Two buffers, slices of two bytes: an add() may fill one slice and need    *)
(* another, larger one; moves make vectors long enough to keep drained ones. *)
EXTENDS Buffer
CONSTANTS a, b
MCBuffers == {a, b}
Symmetry == Permutations(MCBuffers)
=============================================================================
