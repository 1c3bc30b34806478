------------------------------- MODULE Buffer -------------------------------
(***************************************************************************)
(* The byte containers of the proxy (Buffer and Slice): vectors of slices  *)
(* with a drained prefix that is kept until it is worth erasing, filled by *)
(* add() or by reserve() and commit(), and moved into one another.         *)
(*                                                                         *)
(* Bytes are numbers in the order in which they are written to a buffer.   *)
(* A slice is its capacity, its readPos_ and the bytes of its data region; *)
(* its writePos_ is their sum.                                             *)
(***************************************************************************)
EXTENDS Naturals, Sequences, FiniteSets, FiniteSetsExt, SequencesExt, Pieces

CONSTANTS
    Buffers,
    DefaultCapacity,  \* kDefaultCapacity
    MaxBytes,         \* bound: bytes written in all
    MaxAdd,           \* bound: bytes of one add()
    MaxDrain          \* bound: bytes of one drain()

ASSUME BufferAssumption ==
    /\ DefaultCapacity \in Nat \ {0}
    /\ MaxBytes \in Nat /\ MaxAdd \in Nat /\ MaxDrain \in Nat

VARIABLES
    slices,    \* slices_ of each buffer
    front,     \* frontSlice_ of each buffer
    total,     \* totalLength_ of each buffer
    reserved,  \* the buffers between reserve() and commit()
    written,   \* bytes written so far
    call       \* history: the last call

bufferVars == <<slices, front, total, reserved, written, call>>

NewSlice(capacity) == [cap |-> capacity, pos |-> 0, data |-> <<>>]
Available(s) == s.cap - (s.pos + Len(s.data))
Fill(s, bytes) == [s EXCEPT !.data = @ \o bytes]
FillLast(ss, bytes) == [ss EXCEPT ![Len(ss)] = Fill(@, bytes)]
DrainSlice(s, n) == [s EXCEPT !.pos = @ + n, !.data = SubSeq(@, n + 1, Len(@))]

(* The slices slices() shows. *)
Active(b) == SubSeq(slices[b], front[b] + 1, Len(slices[b]))

(* The bytes linearize() copies. *)
Linearize(b) == FlattenSeq([i \in DOMAIN Active(b) |-> Active(b)[i].data])

BufferInit ==
    /\ slices = [b \in Buffers |-> <<>>]
    /\ front = [b \in Buffers |-> 0]
    /\ total = [b \in Buffers |-> 0]
    /\ reserved = {} /\ written = 0 /\ call = <<"none">>

Usable(b) == b \notin reserved

-----------------------------------------------------------------------------
(* The next n bytes. *)
Bytes(n) == [i \in 1..n |-> written + i]

(* The vector ss with a slice at its end that has room for some of n bytes. *)
WithRoom(ss, n) ==
    IF ss = <<>> \/ Available(Last(ss)) = 0
    THEN Append(ss, NewSlice(Max({n, DefaultCapacity})))
    ELSE ss

(* One turn of the loop of add(): the last slice takes what it can. *)
AddSome(ss, bytes) ==
    LET room == WithRoom(ss, Len(bytes))
        n == Min({Available(Last(room)), Len(bytes)})
    IN  [slices |-> FillLast(room, SubSeq(bytes, 1, n)),
         rest |-> SubSeq(bytes, n + 1, Len(bytes))]

(* add(): the slice made in the second turn has room for all that is left. *)
Add(b, n) ==
    /\ Usable(b) /\ written + n <= MaxBytes
    /\ LET first == AddSome(slices[b], Bytes(n))
           last == AddSome(first.slices, first.rest)
       IN  slices' = [slices EXCEPT ![b] =
                        IF n = 0 THEN @
                        ELSE IF first.rest = <<>> THEN first.slices ELSE last.slices]
    /\ total' = [total EXCEPT ![b] = @ + n]
    /\ written' = written + n
    /\ call' = <<"put", b, Bytes(n)>>
    /\ UNCHANGED <<front, reserved>>

(* reserve(), with the default hint. *)
Reserve(b) ==
    /\ Usable(b)
    /\ slices' = [slices EXCEPT ![b] = WithRoom(@, DefaultCapacity)]
    /\ reserved' = reserved \cup {b}
    /\ call' = <<"reserve", b>>
    /\ UNCHANGED <<front, total, written>>

(* Mutant of Commit: totalLength_ is not brought up to date. *)
CommitUncounted(b, n) ==
    /\ b \in reserved /\ n <= Available(Last(slices[b])) /\ written + n <= MaxBytes
    /\ slices' = [slices EXCEPT ![b] = FillLast(@, Bytes(n))]
    /\ reserved' = reserved \ {b}
    /\ written' = written + n
    /\ call' = <<"put", b, Bytes(n)>>
    /\ UNCHANGED <<front, total>>

(* commit() of what was read into the reservation. *)
Commit(b, n) ==
    /\ b \in reserved /\ n <= Available(Last(slices[b])) /\ written + n <= MaxBytes
    /\ slices' = [slices EXCEPT ![b] = FillLast(@, Bytes(n))]
    /\ total' = [total EXCEPT ![b] = @ + n]
    /\ reserved' = reserved \ {b}
    /\ written' = written + n
    /\ call' = <<"put", b, Bytes(n)>>
    /\ UNCHANGED front

(* A buffer goes out of scope, in particular one that was reserved for a     *)
(* read() that returned nothing; a new one takes its place.                  *)
Renew(b) ==
    /\ slices' = [slices EXCEPT ![b] = <<>>]
    /\ front' = [front EXCEPT ![b] = 0]
    /\ total' = [total EXCEPT ![b] = 0]
    /\ reserved' = reserved \ {b}
    /\ call' = <<"new", b>>
    /\ UNCHANGED written

-----------------------------------------------------------------------------
(* The bytes in the slices of b from frontSlice_ to the i-th. *)
Upto(b, i) == SumSeq([j \in 1..(i - front[b]) |-> Len(slices[b][front[b] + j].data)])

(* The loop of drain(n): what it takes from the i-th slice, and frontSlice_  *)
(* past the slices it visits and leaves empty.                               *)
Taken(b, n, i) ==
    IF i <= front[b] \/ Upto(b, i - 1) >= n THEN 0
    ELSE Min({n - Upto(b, i - 1), Len(slices[b][i].data)})
Visited(b, n) == {i \in (front[b] + 1)..Len(slices[b]) : Upto(b, i - 1) < n}
NewFront(b, n) == front[b] + Cardinality({i \in Visited(b, n) : Upto(b, i) <= n})

(* Erase the first f slices. *)
CompactSlices(ss, f) == SubSeq(ss, f + 1, Len(ss))

(* drain(), of more than there is too: the vector is cleared when nothing is *)
(* left and compacted when half of it is drained.                            *)
Drain(b, n) ==
    /\ Usable(b)
    /\ LET ss == [i \in DOMAIN slices[b] |-> DrainSlice(slices[b][i], Taken(b, n, i))]
           f == NewFront(b, n)
           compact == f * 2 >= Len(ss)
       IN  /\ slices' = [slices EXCEPT ![b] = IF compact THEN CompactSlices(ss, f) ELSE ss]
           /\ front' = [front EXCEPT ![b] = IF compact THEN 0 ELSE f]
    /\ total' = [total EXCEPT ![b] = @ - Min({n, Upto(b, Len(slices[b]))})]
    /\ call' = <<"drain", b, n>>
    /\ UNCHANGED <<reserved, written>>

(* Mutant of Move: the drained slices of the other buffer come along. *)
MoveAll(b, other) ==
    /\ Usable(b) /\ Usable(other) /\ b # other
    /\ slices' = [slices EXCEPT ![b] = CompactSlices(@, front[b]) \o slices[other],
                                ![other] = <<>>]
    /\ front' = [front EXCEPT ![b] = 0, ![other] = 0]
    /\ total' = [total EXCEPT ![b] = @ + total[other], ![other] = 0]
    /\ call' = <<"move", b, other>>
    /\ UNCHANGED <<reserved, written>>

(* move(): the active slices of the other buffer change hands. *)
Move(b, other) ==
    /\ Usable(b) /\ Usable(other) /\ b # other
    /\ slices' = [slices EXCEPT ![b] = CompactSlices(@, front[b]) \o Active(other),
                                ![other] = <<>>]
    /\ front' = [front EXCEPT ![b] = 0, ![other] = 0]
    /\ total' = [total EXCEPT ![b] = @ + total[other], ![other] = 0]
    /\ call' = <<"move", b, other>>
    /\ UNCHANGED <<reserved, written>>

BufferNext ==
    \E b \in Buffers :
        \/ \E n \in 0..MaxAdd : Add(b, n)
        \/ Reserve(b)
        \/ \E n \in 1..MaxAdd : Commit(b, n)
        \/ Renew(b)
        \/ \E n \in 0..MaxDrain : Drain(b, n)
        \/ \E other \in Buffers : Move(b, other)

BufferSpec == BufferInit /\ [][BufferNext]_bufferVars

-----------------------------------------------------------------------------
(* The layout every method relies on: positions stay within their slice;     *)
(* fewer than half of the slices are drained ones kept in front; the drained *)
(* ones are empty and the others are not, but for one just reserved, so that *)
(* the front slice that a write takes always has data while empty() is       *)
(* false.                                                                    *)
Layout ==
    \A b \in Buffers :
        /\ front[b] = 0 \/ 2 * front[b] < Len(slices[b])
        /\ \A i \in DOMAIN slices[b] :
            LET s == slices[b][i]
            IN  /\ s.pos + Len(s.data) <= s.cap
                /\ i <= front[b] => s.data = <<>>
                /\ s.data = <<>> => i <= front[b] \/ (b \in reserved /\ i = Len(slices[b]))

(* Buffers implement byte queues: after any sequence of calls the bytes of   *)
(* the active slices, in order, and totalLength_ are those of a queue that   *)
(* was put to, drained and moved as asked; reserve() has no effect.          *)
Queues == INSTANCE ByteQueues WITH queue <- [b \in Buffers |-> Linearize(b)], length <- total
QueueSpec == Queues!Spec
=============================================================================
