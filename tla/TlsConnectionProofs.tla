------------------------ MODULE TlsConnectionProofs -------------------------
(***************************************************************************)
(* Proofs about a TLS connection, for any amount of data, any size of the  *)
(* send buffer, and any interleaving of the owner, the loop, the peer and  *)
(* what OpenSSL wants.                                                     *)
(***************************************************************************)
EXTENDS TlsConnection, SequenceTheorems, TLAPS

(* Where a handler may stand: the handshake's before it is done and on an    *)
(* open connection, every other one after it; nobody reads or writes before. *)
Stages ==
    /\ pc \in {"idle", "handshake", "complete", "read", "data", "write"}
    /\ ret \in {"idle", "complete", "data"}
    /\ handshake \in {"new", "going", "done"}
    /\ pc = "handshake" => ~closed /\ handshake # "done"
    /\ pc \in {"complete", "read", "data", "write"} => handshake = "done"
    /\ reading => handshake = "done"
    /\ slices # <<>> => reading

(* The places of a handler say of the connection what Stages says. *)
LEMMA StagesKept == Spec => []Stages
<1> USE DEF Stages, hsVars, outVars, CloseSocket, OwnerActs
<1>1. Init => Stages
  BY DEF Init
<1>2. Stages /\ [Next]_vars => Stages'
  <2> SUFFICES ASSUME Stages, [Next]_vars PROVE Stages'
    OBVIOUS
  <2>1. CASE StartHandshake
    BY <2>1 DEF StartHandshake
  <2>2. CASE Flight
    BY <2>2 DEF Flight
  <2>3. CASE HandshakeDone
    BY <2>3 DEF HandshakeDone
  <2>4. CASE HandshakeWants
    BY <2>4 DEF HandshakeWants
  <2>5. CASE HandshakeFails
    BY <2>5 DEF HandshakeFails
  <2>6. CASE StartRead
    BY <2>6 DEF StartRead
  <2>7. ASSUME NEW n \in 1..MaxChunk, Write(n) PROVE Stages'
    BY <2>7 DEF Write
  <2>8. CASE Close
    BY <2>8 DEF Close
  <2>9. CASE Return
    BY <2>9 DEF Return
  <2>10. CASE HandleIo
    BY <2>10 DEF HandleIo, ThenWrite
  <2>11. CASE ReadData
    BY <2>11 DEF ReadData
  <2>12. CASE ReadRenegotiates
    BY <2>12 DEF ReadRenegotiates
  <2>13. CASE ReadWantsRead
    BY <2>13 DEF ReadWantsRead, ThenWrite
  <2>14. CASE ReadEnds
    BY <2>14 DEF ReadEnds
  <2>15. CASE WriteSlice
    BY <2>15 DEF WriteSlice
  <2>16. CASE WriteWants
    BY <2>16 DEF WriteWants
  <2>17. CASE WriteFails
    BY <2>17 DEF WriteFails
  <2>18. CASE WriteDone
    BY <2>18 DEF WriteDone
  <2>19. CASE PeerFlight
    BY <2>19 DEF PeerFlight
  <2>20. CASE PeerSend
    BY <2>20 DEF PeerSend
  <2>21. CASE PeerRenegotiates
    BY <2>21 DEF PeerRenegotiates
  <2>22. CASE PeerAnswers
    BY <2>22 DEF PeerAnswers
  <2>23. CASE PeerEnds
    BY <2>23 DEF PeerEnds
  <2>24. CASE PeerReads
    BY <2>24 DEF PeerReads
  <2>25. CASE UNCHANGED vars
    BY <2>25 DEF vars
  <2> QED
    BY <2>1, <2>2, <2>3, <2>4, <2>5, <2>6, <2>7, <2>8, <2>9, <2>10, <2>11, <2>12,
       <2>13, <2>14, <2>15, <2>16, <2>17, <2>18, <2>19, <2>20, <2>21, <2>22, <2>23,
       <2>24, <2>25 DEF Next, Handler
<1> QED
  BY <1>1, <1>2, PTL DEF Spec

-----------------------------------------------------------------------------
(* How often the owner is told. *)
Tellings ==
    /\ outcomes = 0 \/ (outcomes = 1 /\ (closed \/ handshake = "done"))
    /\ ends \in {0, 1, 2} /\ (ends > 0 => closed) /\ (ends = 2 => pc = "idle")
    /\ delivered \in Nat /\ (ends + delivered > 0 => handshake = "done")

(* The handshake's outcome is told once, the end of the connection at most   *)
(* twice and only when it is closed, whatever the callbacks do in between:   *)
(* the second time is doRead() running into the socket its callback closed,  *)
(* after which the handler is over and none starts again.                    *)
THEOREM ToldAsPromised == Spec => []ToldOnce
<1> USE DEF Tellings, hsVars, inVars, CloseSocket, OwnerActs
<1>1. Init => Tellings
  BY DEF Init
<1>2. Stages /\ Tellings /\ [Next]_vars => Tellings'
  <2> SUFFICES ASSUME Stages, Tellings, [Next]_vars PROVE Tellings'
    OBVIOUS
  <2> USE DEF Stages
  <2>1. CASE StartHandshake
    BY <2>1 DEF StartHandshake
  <2>2. CASE Flight
    BY <2>2 DEF Flight
  <2>3. CASE HandshakeDone
    BY <2>3 DEF HandshakeDone
  <2>4. CASE HandshakeWants
    BY <2>4 DEF HandshakeWants
  <2>5. CASE HandshakeFails
    BY <2>5 DEF HandshakeFails
  <2>6. CASE StartRead
    BY <2>6 DEF StartRead
  <2>7. ASSUME NEW n \in 1..MaxChunk, Write(n) PROVE Tellings'
    BY <2>7 DEF Write
  <2>8. CASE Close
    BY <2>8 DEF Close
  <2>9. CASE Return
    BY <2>9 DEF Return
  <2>10. CASE HandleIo
    BY <2>10 DEF HandleIo
  <2>11. CASE ReadData
    BY <2>11 DEF ReadData
  <2>12. CASE ReadRenegotiates
    BY <2>12 DEF ReadRenegotiates
  <2>13. CASE ReadWantsRead
    BY <2>13 DEF ReadWantsRead
  <2>14. CASE ReadEnds
    BY <2>14 DEF ReadEnds
  <2>15. CASE WriteSlice
    BY <2>15 DEF WriteSlice
  <2>16. CASE WriteWants
    BY <2>16 DEF WriteWants
  <2>17. CASE WriteFails
    BY <2>17 DEF WriteFails
  <2>18. CASE WriteDone
    BY <2>18 DEF WriteDone
  <2>19. CASE PeerFlight
    BY <2>19 DEF PeerFlight
  <2>20. CASE PeerSend
    BY <2>20 DEF PeerSend
  <2>21. CASE PeerRenegotiates
    BY <2>21 DEF PeerRenegotiates
  <2>22. CASE PeerAnswers
    BY <2>22 DEF PeerAnswers
  <2>23. CASE PeerEnds
    BY <2>23 DEF PeerEnds
  <2>24. CASE PeerReads
    BY <2>24 DEF PeerReads
  <2>25. CASE UNCHANGED vars
    BY <2>25 DEF vars
  <2> QED
    BY <2>1, <2>2, <2>3, <2>4, <2>5, <2>6, <2>7, <2>8, <2>9, <2>10, <2>11, <2>12,
       <2>13, <2>14, <2>15, <2>16, <2>17, <2>18, <2>19, <2>20, <2>21, <2>22, <2>23,
       <2>24, <2>25 DEF Next, Handler
<1>3. Tellings => ToldOnce
  BY DEF ToldOnce
<1> QED
  BY <1>1, <1>2, <1>3, StagesKept, PTL DEF Spec

-----------------------------------------------------------------------------
(* A sequence is the concatenation of a prefix and the rest. *)
LEMMA SplitSeq ==
    ASSUME NEW S, NEW s \in Seq(S), NEW n \in 0..Len(s)
    PROVE  /\ SubSeq(s, 1, n) \in Seq(S)
           /\ SubSeq(s, n + 1, Len(s)) \in Seq(S)
           /\ SubSeq(s, 1, n) \o SubSeq(s, n + 1, Len(s)) = s
<1>1. SubSeq(s, 1, n) \in Seq(S) /\ Len(SubSeq(s, 1, n)) = n
      /\ \A i \in 1..n : SubSeq(s, 1, n)[i] = s[i]
  BY SubSeqProperties, LenProperties
<1>2. /\ SubSeq(s, n + 1, Len(s)) \in Seq(S)
      /\ Len(SubSeq(s, n + 1, Len(s))) = Len(s) - n
      /\ \A i \in 1..(Len(s) - n) : SubSeq(s, n + 1, Len(s))[i] = s[n + i]
  BY SubSeqProperties, LenProperties
<1> DEFINE p == SubSeq(s, 1, n)
           q == SubSeq(s, n + 1, Len(s))
<1> HIDE DEF p, q
<1>3. p \in Seq(S) /\ Len(p) = n /\ (\A i \in 1..n : p[i] = s[i])
      /\ q \in Seq(S) /\ Len(q) = Len(s) - n /\ (\A i \in 1..(Len(s) - n) : q[i] = s[n + i])
      /\ Len(s) \in Nat
  BY <1>1, <1>2, LenProperties DEF p, q
<1>4. p \in Seq(S) /\ q \in Seq(S)
  BY <1>3
<1>5. p \o q \in Seq(S) /\ Len(p \o q) = Len(p) + Len(q)
  BY <1>4, ConcatProperties
<1>6. p \o q \in Seq(S) /\ Len(p \o q) = Len(s)
  BY <1>5, <1>3
<1>7. ASSUME NEW i \in 1..Len(s) PROVE (p \o q)[i] = s[i]
  <2>1. (p \o q)[i] = IF i <= n THEN p[i] ELSE q[i - n]
    BY <1>3, ConcatProperties
  <2> QED
    BY <1>3, <2>1
<1>8. p \o q = s
  BY <1>6, <1>7, SeqEqual
<1> QED
  BY <1>3, <1>8 DEF p, q

(* Moving a prefix of the last part to the end of the first part. *)
LEMMA MovePrefix ==
    ASSUME NEW S, NEW a \in Seq(S), NEW b \in Seq(S), NEW n \in 0..Len(b)
    PROVE  (a \o SubSeq(b, 1, n)) \o SubSeq(b, n + 1, Len(b)) = a \o b
<1> DEFINE p == SubSeq(b, 1, n)
           q == SubSeq(b, n + 1, Len(b))
<1> HIDE DEF p, q
<1>1. p \in Seq(S) /\ q \in Seq(S)
  BY SplitSeq DEF p, q
<1>2. p \o q = b
  BY SplitSeq DEF p, q
<1>3. (a \o p) \o q = a \o (p \o q)
  BY <1>1, ConcatAssociative, SMTT(30)
<1>4. (a \o p) \o q = a \o b
  BY ONLY <1>2, <1>3, Zenon
<1> QED
  BY <1>4, Zenon DEF p, q

(* Slices sl cut a buffer of len bytes into pieces: e holds their ends. *)
Cuts(e, sl, len) ==
    /\ e \in [0..Len(sl) -> Nat]
    /\ e[0] = 0 /\ e[Len(sl)] = len
    /\ \A i \in 1..Len(sl) : e[i] = e[i - 1] + sl[i]
    /\ \A i, j \in 0..Len(sl) : i <= j => e[i] <= e[j]

(* A new slice behind the others cuts the longer buffer. *)
LEMMA CutsOneMore ==
    ASSUME NEW sl \in Seq(Nat \ {0}), NEW len \in Nat, NEW e, Cuts(e, sl, len),
           NEW n \in Nat \ {0}
    PROVE  \E f : Cuts(f, Append(sl, n), len + n)
<1> DEFINE L == Len(sl)
           f == [i \in 0..(L + 1) |-> IF i <= L THEN e[i] ELSE len + n]
<1>1. L \in Nat /\ Len(Append(sl, n)) = L + 1 /\ Append(sl, n)[L + 1] = n
      /\ \A i \in 1..L : Append(sl, n)[i] = sl[i]
  OBVIOUS
<1>2. /\ e \in [0..L -> Nat] /\ e[0] = 0 /\ e[L] = len
      /\ \A i \in 1..L : e[i] = e[i - 1] + sl[i]
      /\ \A i, j \in 0..L : i <= j => e[i] <= e[j]
  BY DEF Cuts
<1> HIDE DEF L
<1>3. f \in [0..(L + 1) -> Nat] /\ f[0] = 0 /\ f[L + 1] = len + n
  BY <1>1, <1>2
<1>4. ASSUME NEW i \in 1..(L + 1) PROVE f[i] = f[i - 1] + Append(sl, n)[i]
  BY <1>1, <1>2
<1>5. ASSUME NEW i \in 0..(L + 1), NEW j \in 0..(L + 1), i <= j PROVE f[i] <= f[j]
  BY <1>1, <1>2, <1>5
<1> HIDE DEF f
<1> QED
  BY <1>1, <1>3, <1>4, <1>5 DEF Cuts

(* A last slice that takes more bytes cuts the longer buffer. *)
LEMMA CutsLongerLast ==
    ASSUME NEW sl \in Seq(Nat \ {0}), sl # <<>>, NEW len \in Nat, NEW e, Cuts(e, sl, len),
           NEW n \in Nat \ {0}
    PROVE  \E f : Cuts(f, [sl EXCEPT ![Len(sl)] = @ + n], len + n)
<1> DEFINE L == Len(sl)
           tl == [sl EXCEPT ![Len(sl)] = @ + n]
           f == [i \in 0..L |-> IF i < L THEN e[i] ELSE len + n]
<1>1. L \in Nat /\ L >= 1 /\ Len(tl) = L /\ tl[L] = sl[L] + n
      /\ \A i \in 1..(L - 1) : tl[i] = sl[i]
  OBVIOUS
<1>2. /\ e \in [0..L -> Nat] /\ e[0] = 0 /\ e[L] = len
      /\ \A i \in 1..L : e[i] = e[i - 1] + sl[i] /\ sl[i] \in Nat
      /\ \A i, j \in 0..L : i <= j => e[i] <= e[j]
  BY DEF Cuts
<1> HIDE DEF L, tl
<1>3. f \in [0..L -> Nat] /\ f[0] = 0 /\ f[L] = len + n
  BY <1>1, <1>2
<1>4. ASSUME NEW i \in 1..L PROVE f[i] = f[i - 1] + tl[i]
  <2>1. i - 1 \in 0..L /\ i - 1 < L /\ f[i - 1] = e[i - 1]
    BY <1>1
  <2>2. e[i] = e[i - 1] + sl[i] /\ sl[i] \in Nat /\ e[i - 1] \in Nat
    BY <1>2, <2>1
  <2>3. CASE i = L
    <3>1. f[i] = e[i] + n /\ tl[i] = sl[i] + n
      BY <1>1, <1>2, <2>3
    <3> HIDE DEF f
    <3> QED
      BY <2>1, <2>2, <3>1
  <2>4. CASE i < L
    <3>1. f[i] = e[i] /\ tl[i] = sl[i]
      BY <1>1, <2>4
    <3> HIDE DEF f
    <3> QED
      BY <2>1, <2>2, <3>1
  <2> QED
    BY <1>1, <2>3, <2>4
<1>5. ASSUME NEW i \in 0..L, NEW j \in 0..L, i <= j PROVE f[i] <= f[j]
  <2>1. e[i] <= e[j] /\ e[i] \in Nat /\ e[j] \in Nat
    BY <1>2, <1>5
  <2>2. \A k \in 0..L : f[k] = IF k < L THEN e[k] ELSE e[k] + n
    <3>1. ASSUME NEW k \in 0..L, ~(k < L) PROVE f[k] = e[k] + n
      <4>1. k = L
        BY <1>1, <3>1
      <4> QED
        BY <1>1, <1>2, <4>1
    <3> QED
      BY <3>1
  <2> HIDE DEF f
  <2> QED
    <3>1. f[i] = (IF i < L THEN e[i] ELSE e[i] + n) /\ f[j] = (IF j < L THEN e[j] ELSE e[j] + n)
      BY <2>2
    <3>2. L \in Nat /\ n \in Nat /\ i \in 0..L /\ j \in 0..L /\ i <= j
      BY <1>1, <1>5
    <3> QED
      BY ONLY <2>1, <3>1, <3>2
<1> HIDE DEF f
<1> QED
  BY <1>1, <1>3, <1>4, <1>5 DEF Cuts, tl

(* Without the first slice the others cut what is left. *)
LEMMA CutsWithoutFirst ==
    ASSUME NEW sl \in Seq(Nat \ {0}), sl # <<>>, NEW len \in Nat, NEW e, Cuts(e, sl, len)
    PROVE  Head(sl) \in 1..len /\ \E f : Cuts(f, Tail(sl), len - Head(sl))
<1> DEFINE L == Len(sl)
           h == Head(sl)
           tl == Tail(sl)
           f == [i \in 0..(L - 1) |-> e[i + 1] - h]
<1>1. L \in Nat /\ L >= 1 /\ Len(tl) = L - 1 /\ h = sl[1] /\ h \in Nat \ {0}
      /\ \A i \in 1..(L - 1) : tl[i] = sl[i + 1]
  OBVIOUS
<1>2. /\ e \in [0..L -> Nat] /\ e[0] = 0 /\ e[L] = len
      /\ \A i \in 1..L : e[i] = e[i - 1] + sl[i] /\ sl[i] \in Nat
      /\ \A i, j \in 0..L : i <= j => e[i] <= e[j]
  BY DEF Cuts
<1> HIDE DEF L, h, tl
<1>3. e[1] = h /\ e[1] <= e[L]
  BY <1>1, <1>2
<1>4. h \in 1..len
  BY <1>1, <1>2, <1>3
<1>5. f \in [0..(L - 1) -> Nat] /\ f[0] = 0 /\ f[L - 1] = len - h
  BY <1>1, <1>2, <1>3
<1>6. ASSUME NEW i \in 1..(L - 1) PROVE f[i] = f[i - 1] + tl[i]
  <2>1. i + 1 \in 1..L /\ i \in 0..L /\ (i + 1) - 1 = i /\ (i - 1) + 1 = i
    BY <1>1
  <2>2. e[i + 1] = e[i] + sl[i + 1] /\ sl[i + 1] \in Nat /\ e[i] \in Nat /\ tl[i] = sl[i + 1]
    BY <1>1, <1>2, <2>1
  <2>3. f[i] = e[i + 1] - h /\ f[i - 1] = e[i] - h
    BY <1>1, <2>1
  <2>4. h \in Nat
    BY <1>1
  <2> HIDE DEF f
  <2> QED
    BY ONLY <2>2, <2>3, <2>4
<1>7. ASSUME NEW i \in 0..(L - 1), NEW j \in 0..(L - 1), i <= j PROVE f[i] <= f[j]
  <2>1. i + 1 \in 0..L /\ j + 1 \in 0..L /\ i + 1 <= j + 1
    BY <1>1, <1>7
  <2>2. e[i + 1] <= e[j + 1] /\ e[i + 1] \in Nat /\ e[j + 1] \in Nat
    BY <1>2, <2>1
  <2>3. f[i] = e[i + 1] - h /\ f[j] = e[j + 1] - h
    OBVIOUS
  <2>4. h \in Nat
    BY <1>1
  <2> HIDE DEF f
  <2> QED
    BY ONLY <2>2, <2>3, <2>4
<1> HIDE DEF f
<1>8. Cuts(f, tl, len - h)
  BY <1>1, <1>5, <1>6, <1>7 DEF Cuts
<1> QED
  BY <1>4, <1>8 DEF h, tl

(* The bytes written are those sent and those held, in order. *)
InOrder == sent \o writeBuf = Accepted

Bytes ==
    /\ writeBuf \in Seq(Nat) /\ sent \in Seq(Nat) /\ slices \in Seq(Nat \ {0})
    /\ written \in 0..MaxWritten /\ InOrder
    /\ \E e : Cuts(e, slices, Len(writeBuf))

(* The front slice lies within the buffer. *)
LEMMA FrontFits ==
    ASSUME Bytes, slices # <<>>
    PROVE  Head(slices) \in 1..Len(writeBuf)
           /\ \E f : Cuts(f, Tail(slices), Len(writeBuf) - Head(slices))
<1>1. slices \in Seq(Nat \ {0}) /\ Len(writeBuf) \in Nat
  BY DEF Bytes
<1> QED
  BY <1>1, CutsWithoutFirst DEF Bytes

(* write() keeps slices and bytes in step. *)
LEMMA WriteBytes ==
    ASSUME Bytes, NEW n \in 1..MaxChunk, Write(n)
    PROVE  Bytes'
<1> USE TlsConnectionAssumption
<1> DEFINE chunk == [i \in 1..n |-> written + i]
<1>0. /\ writeBuf \in Seq(Nat) /\ sent \in Seq(Nat) /\ slices \in Seq(Nat \ {0})
      /\ written \in Nat /\ Len(slices) \in Nat /\ Len(writeBuf) \in Nat /\ n \in Nat \ {0}
  BY DEF Bytes
<1>1. /\ chunk \in Seq(Nat) /\ Len(chunk) = n
      /\ [i \in 1..written |-> i] \o chunk = [i \in 1..(written + n) |-> i]
  BY <1>0
<1>2. /\ writeBuf' = writeBuf \o chunk /\ sent' = sent /\ written' = written + n
      /\ written + n <= MaxWritten
  BY DEF Write
<1> HIDE DEF chunk
<1>3. writeBuf \o chunk \in Seq(Nat) /\ Len(writeBuf \o chunk) = Len(writeBuf) + Len(chunk)
  <2>1. writeBuf \in Seq(Nat) /\ chunk \in Seq(Nat)
    BY <1>0, <1>1
  <2> QED
    BY ONLY <2>1, ConcatProperties
<1>4. InOrder'
  <2>1. sent \o (writeBuf \o chunk) = (sent \o writeBuf) \o chunk
    BY <1>0, <1>1, ConcatAssociative, SMTT(30)
  <2> QED
    BY <1>1, <1>2, <2>1 DEF InOrder, Accepted, Bytes
<1>5. /\ slices' \in Seq(Nat \ {0})
      /\ \E f : Cuts(f, slices', Len(writeBuf) + n)
  <2>1. PICK e : Cuts(e, slices, Len(writeBuf))
    BY DEF Bytes
  <2>2. CASE slices' = Append(slices, n)
    BY <1>0, <2>1, <2>2, CutsOneMore
  <2>3. CASE slices # <<>> /\ slices' = [slices EXCEPT ![Len(slices)] = @ + n]
    <3>1. slices' \in Seq(Nat \ {0})
      BY <1>0, <2>3
    <3> QED
      BY <1>0, <2>1, <2>3, <3>1, CutsLongerLast
  <2> QED
    BY <2>2, <2>3 DEF Write
<1>6. Len(writeBuf') = Len(writeBuf) + n /\ writeBuf' \in Seq(Nat)
  BY <1>1, <1>2, <1>3
<1>7. written' \in 0..MaxWritten
  BY <1>0, <1>2
<1> QED
  BY <1>0, <1>2, <1>4, <1>5, <1>6, <1>7 DEF Bytes

(* A successful SSL_write() keeps slices and bytes in step. *)
LEMMA WriteSliceBytes ==
    ASSUME Bytes, WriteSlice
    PROVE  Bytes'
<1> DEFINE h == Head(slices)
<1>0. /\ writeBuf \in Seq(Nat) /\ sent \in Seq(Nat) /\ slices \in Seq(Nat \ {0})
      /\ Len(writeBuf) \in Nat /\ sent \o writeBuf = Accepted
  BY DEF Bytes, InOrder
<1>1. slices # <<>>
  BY DEF WriteSlice
<1>2. h \in 1..Len(writeBuf) /\ \E f : Cuts(f, Tail(slices), Len(writeBuf) - h)
  BY <1>1, FrontFits
<1>3. /\ sent' = sent \o SubSeq(writeBuf, 1, h)
      /\ writeBuf' = SubSeq(writeBuf, h + 1, Len(writeBuf))
      /\ slices' = Tail(slices) /\ written' = written
  BY DEF WriteSlice
<1> HIDE DEF h
<1>4. h \in 0..Len(writeBuf)
  BY <1>2
<1>5. SubSeq(writeBuf, 1, h) \in Seq(Nat) /\ SubSeq(writeBuf, h + 1, Len(writeBuf)) \in Seq(Nat)
  BY <1>0, <1>4, SplitSeq
<1>6. Len(SubSeq(writeBuf, h + 1, Len(writeBuf))) = Len(writeBuf) - h
  BY <1>0, <1>4, SubSeqProperties
<1>7. sent' \in Seq(Nat)
  BY <1>0, <1>3, <1>5, ConcatProperties
<1>8. InOrder'
  <2>1. sent' \o writeBuf' = sent \o writeBuf
    BY <1>0, <1>3, <1>4, MovePrefix
  <2>2. Accepted' = Accepted
    BY <1>3 DEF Accepted
  <2> QED
    BY <1>0, <2>1, <2>2 DEF InOrder
<1>9. slices' \in Seq(Nat \ {0})
  BY <1>0, <1>1, <1>3, HeadTailProperties
<1> QED
  BY <1>2, <1>3, <1>5, <1>6, <1>7, <1>8, <1>9 DEF Bytes

(* Slices and bytes stay in step. *)
LEMMA BytesKept == Spec => []Bytes
<1>1. Init => Bytes
  <2> SUFFICES ASSUME Init PROVE Bytes
    OBVIOUS
  <2>1. Cuts([i \in 0..0 |-> 0], <<>>, 0)
    BY DEF Cuts
  <2>2. InOrder
    BY DEF Init, InOrder, Accepted
  <2> QED
    BY <2>1, <2>2, TlsConnectionAssumption DEF Init, Bytes
<1>2. Bytes /\ [Next]_vars => Bytes'
  <2> SUFFICES ASSUME Bytes, [Next]_vars PROVE Bytes'
    OBVIOUS
  <2>0. ASSUME UNCHANGED <<writeBuf, sent, slices, written>> PROVE Bytes'
    BY <2>0 DEF Bytes, InOrder, Accepted
  <2>1. CASE StartHandshake
    BY <2>1, <2>0 DEF StartHandshake, outVars
  <2>2. CASE Flight
    BY <2>2, <2>0 DEF Flight, outVars
  <2>3. CASE HandshakeDone
    BY <2>3, <2>0 DEF HandshakeDone, outVars
  <2>4. CASE HandshakeWants
    BY <2>4, <2>0 DEF HandshakeWants, outVars
  <2>5. CASE HandshakeFails
    BY <2>5, <2>0 DEF HandshakeFails, outVars
  <2>6. CASE StartRead
    BY <2>6, <2>0 DEF StartRead, outVars
  <2>7. ASSUME NEW n \in 1..MaxChunk, Write(n) PROVE Bytes'
    BY <2>7, WriteBytes
  <2>8. CASE Close
    BY <2>8, <2>0 DEF Close, outVars
  <2>9. CASE Return
    BY <2>9, <2>0 DEF Return, outVars
  <2>10. CASE HandleIo
    BY <2>10, <2>0 DEF HandleIo, outVars
  <2>11. CASE ReadData
    BY <2>11, <2>0 DEF ReadData, outVars
  <2>12. CASE ReadRenegotiates
    BY <2>12, <2>0 DEF ReadRenegotiates, outVars
  <2>13. CASE ReadWantsRead
    BY <2>13, <2>0 DEF ReadWantsRead, outVars
  <2>14. CASE ReadEnds
    BY <2>14, <2>0 DEF ReadEnds, outVars
  <2>15. CASE WriteSlice
    BY <2>15, WriteSliceBytes
  <2>16. CASE WriteWants
    BY <2>16, <2>0 DEF WriteWants, outVars
  <2>17. CASE WriteFails
    BY <2>17, <2>0 DEF WriteFails, outVars
  <2>18. CASE WriteDone
    BY <2>18, <2>0 DEF WriteDone, outVars
  <2>19. CASE PeerFlight
    BY <2>19, <2>0 DEF PeerFlight, outVars
  <2>20. CASE PeerSend
    BY <2>20, <2>0 DEF PeerSend, outVars
  <2>21. CASE PeerRenegotiates
    BY <2>21, <2>0 DEF PeerRenegotiates, outVars
  <2>22. CASE PeerAnswers
    BY <2>22, <2>0 DEF PeerAnswers, outVars
  <2>23. CASE PeerEnds
    BY <2>23, <2>0 DEF PeerEnds, outVars
  <2>24. CASE PeerReads
    BY <2>24, <2>0 DEF PeerReads, outVars
  <2>25. CASE UNCHANGED vars
    BY <2>25, <2>0 DEF vars, outVars
  <2> QED
    BY <2>1, <2>2, <2>3, <2>4, <2>5, <2>6, <2>7, <2>8, <2>9, <2>10, <2>11, <2>12,
       <2>13, <2>14, <2>15, <2>16, <2>17, <2>18, <2>19, <2>20, <2>21, <2>22, <2>23,
       <2>24, <2>25 DEF Next, Handler
<1> QED
  BY <1>1, <1>2, PTL DEF Spec

(* An SSL_write() that has to be repeated is repeated with the same bytes,   *)
(* however much is written in between: write() only ever lengthens the last  *)
(* slice, and the front of the buffer stays the next byte to send.           *)
THEOREM RetriesIntact == Spec => []RetryIntact
<1> DEFINE Kept == /\ retry \in Nat
                   /\ retry > 0 => slices # <<>> /\ Head(slices) >= retry
<1>1. Init => Kept
  BY DEF Init
<1>2. Bytes /\ Kept /\ [Next]_vars => Kept'
  <2> SUFFICES ASSUME Bytes, Kept, [Next]_vars PROVE Kept'
    OBVIOUS
  <2>0. slices \in Seq(Nat \ {0})
    BY DEF Bytes
  <2>1. CASE StartHandshake
    BY <2>1 DEF StartHandshake, outVars
  <2>2. CASE Flight
    BY <2>2 DEF Flight, outVars
  <2>3. CASE HandshakeDone
    BY <2>3 DEF HandshakeDone, outVars
  <2>4. CASE HandshakeWants
    BY <2>4 DEF HandshakeWants, outVars
  <2>5. CASE HandshakeFails
    BY <2>5 DEF HandshakeFails, outVars
  <2>6. CASE StartRead
    BY <2>6 DEF StartRead, outVars
  <2>7. ASSUME NEW n \in 1..MaxChunk, Write(n) PROVE Kept'
    <3>1. retry' = retry /\ n \in Nat \ {0} /\ Len(slices) \in Nat
      BY <2>0, <2>7 DEF Write
    <3>2. \/ slices' = Append(slices, n)
          \/ slices # <<>> /\ slices' = [slices EXCEPT ![Len(slices)] = @ + n]
      BY <2>7 DEF Write
    <3>3. CASE slices' = Append(slices, n)
      BY <2>0, <3>1, <3>3
    <3>4. CASE slices # <<>> /\ slices' = [slices EXCEPT ![Len(slices)] = @ + n]
      <4>1. Len(slices) >= 1 /\ Head(slices) = slices[1] /\ slices[1] \in Nat
        BY <2>0, <3>4
      <4>2. Len(slices') = Len(slices)
        BY <2>0, <3>1, <3>4
      <4>3. slices' # <<>> /\ Head(slices') = slices'[1]
        BY <4>1, <4>2
      <4>4. slices'[1] = slices[1] \/ slices'[1] = slices[1] + n
        BY <2>0, <3>4, <4>1
      <4> QED
        BY <3>1, <3>4, <4>1, <4>3, <4>4
    <3> QED
      BY <3>2, <3>3, <3>4
  <2>8. CASE Close
    BY <2>8 DEF Close, outVars
  <2>9. CASE Return
    BY <2>9 DEF Return, outVars
  <2>10. CASE HandleIo
    BY <2>10 DEF HandleIo, outVars
  <2>11. CASE ReadData
    BY <2>11 DEF ReadData, outVars
  <2>12. CASE ReadRenegotiates
    BY <2>12 DEF ReadRenegotiates, outVars
  <2>13. CASE ReadWantsRead
    BY <2>13 DEF ReadWantsRead, outVars
  <2>14. CASE ReadEnds
    BY <2>14 DEF ReadEnds, outVars
  <2>15. CASE WriteSlice
    BY <2>15 DEF WriteSlice, outVars
  <2>16. CASE WriteWants
    BY <2>0, <2>16 DEF WriteWants
  <2>17. CASE WriteFails
    BY <2>17 DEF WriteFails, outVars
  <2>18. CASE WriteDone
    BY <2>18 DEF WriteDone, outVars
  <2>19. CASE PeerFlight
    BY <2>19 DEF PeerFlight, outVars
  <2>20. CASE PeerSend
    BY <2>20 DEF PeerSend, outVars
  <2>21. CASE PeerRenegotiates
    BY <2>21 DEF PeerRenegotiates, outVars
  <2>22. CASE PeerAnswers
    BY <2>22 DEF PeerAnswers, outVars
  <2>23. CASE PeerEnds
    BY <2>23 DEF PeerEnds, outVars
  <2>24. CASE PeerReads
    BY <2>24 DEF PeerReads, outVars
  <2>25. CASE UNCHANGED vars
    BY <2>25 DEF vars, outVars
  <2> QED
    BY <2>1, <2>2, <2>3, <2>4, <2>5, <2>6, <2>7, <2>8, <2>9, <2>10, <2>11, <2>12,
       <2>13, <2>14, <2>15, <2>16, <2>17, <2>18, <2>19, <2>20, <2>21, <2>22, <2>23,
       <2>24, <2>25 DEF Next, Handler
<1>3. Bytes /\ Kept => RetryIntact
  <2> SUFFICES ASSUME Bytes, Kept, retry > 0 PROVE RetryIntact
    BY DEF RetryIntact
  <2>1. Head(slices) \in 1..Len(writeBuf)
    BY FrontFits
  <2>2. /\ writeBuf \in Seq(Nat) /\ sent \in Seq(Nat) /\ Len(writeBuf) \in Nat
        /\ sent \o writeBuf = Accepted /\ written \in Nat
    BY TlsConnectionAssumption DEF Bytes, InOrder
  <2>3. Len(writeBuf) >= 1 /\ Len(sent) \in Nat
    BY <2>1, <2>2
  <2>4. Head(writeBuf) = writeBuf[1] /\ (sent \o writeBuf)[Len(sent) + 1] = writeBuf[1]
        /\ Len(sent \o writeBuf) = Len(sent) + Len(writeBuf)
    BY <2>2, <2>3
  <2>5. Len(Accepted) = written /\ \A i \in 1..written : Accepted[i] = i
    BY <2>2 DEF Accepted
  <2>6. Accepted[Len(sent) + 1] = Len(sent) + 1
    BY <2>2, <2>3, <2>4, <2>5
  <2> QED
    BY <2>2, <2>4, <2>6 DEF RetryIntact
<1> QED
  BY <1>1, <1>2, <1>3, BytesKept, PTL DEF Spec

-----------------------------------------------------------------------------
(* The flags and the counters of a connection. *)
Flags ==
    /\ isServer \in BOOLEAN /\ closed \in BOOLEAN /\ reading \in BOOLEAN
    /\ peerFlight \in BOOLEAN /\ fin \in BOOLEAN /\ reset \in BOOLEAN

Counters ==
    /\ flights \in 0..3 /\ reg \in SUBSET {"R", "W"}
    /\ renego \in {"no", "asked", "ours", "answered", "over"}
    /\ retry \in Nat /\ room \in 0..SendRoom /\ inq \in Nat /\ received \in Nat
    /\ delivered \in Nat /\ outcomes \in Nat /\ ends \in Nat

(* Every step keeps the flags in their domains. *)
LEMMA FlagsInductive == Flags /\ [Next]_vars => Flags'
<1> SUFFICES ASSUME Flags, [Next]_vars PROVE Flags'
  OBVIOUS
<1> USE DEF Flags, hsVars, peerVars, CloseSocket
<1>1. CASE StartHandshake
  BY <1>1, Zenon DEF StartHandshake
<1>2. CASE Flight
  BY <1>2, Zenon DEF Flight
<1>3. CASE HandshakeDone
  BY <1>3, Zenon DEF HandshakeDone
<1>4. CASE HandshakeWants
  BY <1>4, Zenon DEF HandshakeWants
<1>5. CASE HandshakeFails
  BY <1>5, Zenon DEF HandshakeFails
<1>6. CASE StartRead
  BY <1>6, Zenon DEF StartRead
<1>7. ASSUME NEW n \in 1..MaxChunk, Write(n) PROVE Flags'
  BY <1>7, Zenon DEF Write
<1>8. CASE Close
  BY <1>8, Zenon DEF Close
<1>9. CASE Return
  BY <1>9, Zenon DEF Return
<1>10. CASE HandleIo
  BY <1>10, Zenon DEF HandleIo
<1>11. CASE ReadData
  BY <1>11, Zenon DEF ReadData
<1>12. CASE ReadRenegotiates
  BY <1>12, Zenon DEF ReadRenegotiates
<1>13. CASE ReadWantsRead
  BY <1>13, Zenon DEF ReadWantsRead
<1>14. CASE ReadEnds
  BY <1>14, Zenon DEF ReadEnds
<1>15. CASE WriteSlice
  BY <1>15, Zenon DEF WriteSlice
<1>16. CASE WriteWants
  BY <1>16, Zenon DEF WriteWants
<1>17. CASE WriteFails
  BY <1>17, Zenon DEF WriteFails
<1>18. CASE WriteDone
  BY <1>18, Zenon DEF WriteDone
<1>19. CASE PeerFlight
  BY <1>19, Zenon DEF PeerFlight
<1>20. CASE PeerSend
  BY <1>20, Zenon DEF PeerSend
<1>21. CASE PeerRenegotiates
  BY <1>21, Zenon DEF PeerRenegotiates
<1>22. CASE PeerAnswers
  BY <1>22, Zenon DEF PeerAnswers
<1>23. CASE PeerEnds
  BY <1>23, Zenon DEF PeerEnds
<1>24. CASE PeerReads
  BY <1>24, Zenon DEF PeerReads
<1>25. CASE UNCHANGED vars
  BY <1>25, Zenon DEF vars
<1> QED
  BY <1>1, <1>2, <1>3, <1>4, <1>5, <1>6, <1>7, <1>8, <1>9, <1>10, <1>11, <1>12,
     <1>13, <1>14, <1>15, <1>16, <1>17, <1>18, <1>19, <1>20, <1>21, <1>22, <1>23,
     <1>24, <1>25 DEF Next, Handler

(* A handshake has three flights. *)
LEMMA FlightsLength == Len(Flights) = 3
BY DEF Flights

(* A handshake waits to read or to write. *)
LEMMA WantType ==
    ASSUME flights \in 0..2
    PROVE  Want \in {"R", "W"}
BY DEF Want, Flights

(* Every step keeps the counters in their domains. *)
LEMMA CountersInductive == Bytes /\ Counters /\ [Next]_vars => Counters'
<1> SUFFICES ASSUME Bytes, Counters, [Next]_vars PROVE Counters'
  OBVIOUS
<1>0. SendRoom \in Nat \ {0} /\ (slices # <<>> => Head(slices) \in Nat)
  BY TlsConnectionAssumption DEF Bytes
<1> USE <1>0, FlightsLength
    DEF Counters, hsVars, outVars, inVars, peerVars, CloseSocket
<1>1. CASE StartHandshake
  BY <1>1 DEF StartHandshake
<1>2. CASE Flight
  BY <1>2 DEF Flight, CanFlight
<1>3. CASE HandshakeDone
  BY <1>3 DEF HandshakeDone
<1>4. CASE HandshakeWants
  BY <1>4, WantType DEF HandshakeWants, WatchForSsl
<1>5. CASE HandshakeFails
  BY <1>5 DEF HandshakeFails
<1>6. CASE StartRead
  BY <1>6 DEF StartRead
<1>7. ASSUME NEW n \in 1..MaxChunk, Write(n) PROVE Counters'
  BY <1>7 DEF Write
<1>8. CASE Close
  BY <1>8 DEF Close
<1>9. CASE Return
  BY <1>9 DEF Return
<1>10. CASE HandleIo
  BY <1>10 DEF HandleIo
<1>11. CASE ReadData
  BY <1>11 DEF ReadData
<1>12. CASE ReadRenegotiates
  BY <1>12 DEF ReadRenegotiates
<1>13. CASE ReadWantsRead
  BY <1>13 DEF ReadWantsRead
<1>14. CASE ReadEnds
  BY <1>14 DEF ReadEnds
<1>15. CASE WriteSlice
  BY <1>15 DEF WriteSlice
<1>16. CASE WriteWants
  BY <1>16 DEF WriteWants, WatchForSsl, WriteWant
<1>17. CASE WriteFails
  BY <1>17 DEF WriteFails
<1>18. CASE WriteDone
  BY <1>18 DEF WriteDone
<1>19. CASE PeerFlight
  BY <1>19 DEF PeerFlight
<1>20. CASE PeerSend
  BY <1>20 DEF PeerSend
<1>21. CASE PeerRenegotiates
  BY <1>21 DEF PeerRenegotiates
<1>22. CASE PeerAnswers
  BY <1>22 DEF PeerAnswers
<1>23. CASE PeerEnds
  BY <1>23 DEF PeerEnds
<1>24. CASE PeerReads
  BY <1>24 DEF PeerReads
<1>25. CASE UNCHANGED vars
  BY <1>25 DEF vars
<1> QED
  BY <1>1, <1>2, <1>3, <1>4, <1>5, <1>6, <1>7, <1>8, <1>9, <1>10, <1>11, <1>12,
     <1>13, <1>14, <1>15, <1>16, <1>17, <1>18, <1>19, <1>20, <1>21, <1>22, <1>23,
     <1>24, <1>25 DEF Next, Handler

(* What is watched, also inside the callback of the handshake, from which    *)
(* the loop is returned to without another look at what is wanted.           *)
Watched ==
    /\ closed => reg = {}
    /\ reading /\ ~closed => "R" \in reg
    /\ ~closed /\ pc \in {"idle", "complete"} =>
           /\ handshake = "going" => Want \in reg
           /\ slices # <<>> => (IF renego \in {"ours", "answered"} THEN "R" ELSE "W") \in reg

(* Every step keeps what OpenSSL wants watched. *)
LEMMA WatchedInductive == Stages /\ Watched /\ [Next]_vars => Watched'
<1> SUFFICES ASSUME Stages, Watched, [Next]_vars PROVE Watched'
  OBVIOUS
<1> USE DEF Stages, Watched, Want, Flights, hsVars, outVars, peerVars, CloseSocket
<1>1. CASE StartHandshake
  BY <1>1 DEF StartHandshake
<1>2. CASE Flight
  BY <1>2 DEF Flight
<1>3. CASE HandshakeDone
  BY <1>3 DEF HandshakeDone
<1>4. CASE HandshakeWants
  BY <1>4 DEF HandshakeWants, WatchForSsl
<1>5. CASE HandshakeFails
  BY <1>5 DEF HandshakeFails
<1>6. CASE StartRead
  BY <1>6 DEF StartRead, OwnerActs
<1>7. ASSUME NEW n \in 1..MaxChunk, Write(n) PROVE Watched'
  BY <1>7 DEF Write
<1>8. CASE Close
  BY <1>8 DEF Close
<1>9. CASE Return
  BY <1>9 DEF Return
<1>10. CASE HandleIo
  BY <1>10 DEF HandleIo, ThenWrite
<1>11. CASE ReadData
  BY <1>11 DEF ReadData
<1>12. CASE ReadRenegotiates
  BY <1>12 DEF ReadRenegotiates
<1>13. CASE ReadWantsRead
  BY <1>13 DEF ReadWantsRead, ThenWrite
<1>14. CASE ReadEnds
  BY <1>14 DEF ReadEnds
<1>15. CASE WriteSlice
  BY <1>15 DEF WriteSlice
<1>16. CASE WriteWants
  BY <1>16 DEF WriteWants, WatchForSsl, WriteWant
<1>17. CASE WriteFails
  BY <1>17 DEF WriteFails
<1>18. CASE WriteDone
  BY <1>18 DEF WriteDone
<1>19. CASE PeerFlight
  BY <1>19 DEF PeerFlight
<1>20. CASE PeerSend
  BY <1>20 DEF PeerSend
<1>21. CASE PeerRenegotiates
  BY <1>21 DEF PeerRenegotiates
<1>22. CASE PeerAnswers
  BY <1>22 DEF PeerAnswers
<1>23. CASE PeerEnds
  BY <1>23 DEF PeerEnds
<1>24. CASE PeerReads
  BY <1>24 DEF PeerReads
<1>25. CASE UNCHANGED vars
  BY <1>25 DEF vars
<1> QED
  BY <1>1, <1>2, <1>3, <1>4, <1>5, <1>6, <1>7, <1>8, <1>9, <1>10, <1>11, <1>12,
     <1>13, <1>14, <1>15, <1>16, <1>17, <1>18, <1>19, <1>20, <1>21, <1>22, <1>23,
     <1>24, <1>25 DEF Next, Handler

(* Whatever OpenSSL waits for is watched between two handlers, through the   *)
(* handshake, a renegotiation and every partial write, so that no wanted     *)
(* event is missed; nothing is watched once closed; and every variable stays *)
(* in its domain.                                                            *)
THEOREM NeedsAreWatched == Spec => []NeedsWatched
<1>1. Init => Flags /\ Counters /\ Watched
  <2> SUFFICES ASSUME Init PROVE Flags /\ Counters /\ Watched
    OBVIOUS
  <2>1. Flags
    BY Zenon DEF Init, Flags
  <2>2. Counters /\ Watched
    BY TlsConnectionAssumption DEF Init, Counters, Watched
  <2> QED
    BY <2>1, <2>2
<1>2. Stages /\ Bytes /\ Flags /\ Counters /\ Watched => NeedsWatched
  <2> SUFFICES ASSUME Stages, Bytes, Flags, Counters, Watched PROVE NeedsWatched
    OBVIOUS
  <2>1. TypeOK
    BY FlightsLength, Zenon DEF TypeOK, Stages, Bytes, Flags, Counters
  <2> QED
    BY <2>1 DEF NeedsWatched, Watched
<1> QED
  BY <1>1, <1>2, FlagsInductive, CountersInductive, WatchedInductive, StagesKept, BytesKept,
     PTL DEF Spec

-----------------------------------------------------------------------------
(* The connection implements ByteStream for the data written to it: a write  *)
(* is accepted whole, SSL_write() hands on a slice, the front of what is     *)
(* held, and no handshake, wait, retry or end of either side touches it.     *)
THEOREM ImplementsStream == Spec => StreamSpec
<1> USE TlsConnectionAssumption
<1>1. Init => Stream!Init
  <2>1. ASSUME Init PROVE Accepted = <<>>
    BY <2>1 DEF Init, Accepted
  <2> QED
    BY <2>1 DEF Init, Stream!Init
<1>2. Stages /\ Bytes /\ [Next]_vars
        => [\E bs \in Chunks : Stream!Transfer(bs)]_<<~closed, Accepted, writeBuf, sent>>
  <2> SUFFICES ASSUME Stages, Bytes, [Next]_vars
               PROVE  \/ \E bs \in Chunks : Stream!Transfer(bs)
                      \/ UNCHANGED <<closed, written, writeBuf, sent>>
    BY DEF Accepted
  <2>0. /\ writeBuf \in Seq(Nat) /\ sent \in Seq(Nat) /\ written \in Nat
        /\ written \in 0..MaxWritten /\ Len(writeBuf) \in Nat /\ Accepted \in Seq(Nat)
    BY DEF Bytes, Accepted
  <2>1. /\ writeBuf \o <<>> = writeBuf /\ sent \o <<>> = sent /\ Accepted \o <<>> = Accepted
        /\ SubSeq(writeBuf, 1, 0) = <<>> /\ SubSeq(writeBuf, 0 + 1, Len(writeBuf)) = writeBuf
        /\ (~closed)' \in BOOLEAN
    BY <2>0, ConcatEmptySeq
  <2>2. ASSUME NEW w \in 0..MaxWritten, NEW n \in 0..MaxChunk
        PROVE  [i \in 1..n |-> w + i] \in Chunks
    BY DEF Chunks
  <2>3. <<>> \in Chunks
    <3>1. <<>> = [i \in 1..0 |-> 0 + i] /\ 0 \in 0..MaxWritten /\ 0 \in 0..MaxChunk
      OBVIOUS
    <3> QED
      BY <2>2, <3>1
  <2>4. ASSUME NEW n \in 1..MaxChunk, Write(n)
        PROVE  \E bs \in Chunks : Stream!Transfer(bs)
    <3> DEFINE chunk == [i \in 1..n |-> written + i]
    <3>1. /\ ~closed /\ writeBuf' = writeBuf \o chunk /\ sent' = sent
          /\ written' = written + n
      BY <2>4 DEF Write
    <3>2. chunk \in Chunks /\ chunk \in Seq(Nat)
      <4>1. n \in 0..MaxChunk
        OBVIOUS
      <4>2. chunk \in Chunks
        BY <2>0, <2>2, <4>1
      <4>3. chunk \in Seq(Nat)
        BY <2>0, <4>1
      <4> QED
        BY <4>2, <4>3
    <3>3. Accepted' = Accepted \o chunk
      BY <2>0, <3>1 DEF Accepted
    <3> HIDE DEF chunk
    <3>4. writeBuf \o chunk \in Seq(Nat) /\ Len(writeBuf \o chunk) \in Nat
      BY <2>0, <3>2, ConcatProperties
    <3>5. /\ SubSeq(writeBuf \o chunk, 1, 0) = <<>>
          /\ SubSeq(writeBuf \o chunk, 0 + 1, Len(writeBuf \o chunk)) = writeBuf \o chunk
          /\ 0 \in 0..Len(writeBuf \o chunk)
      BY <3>4
    <3>6. Stream!Transfer(chunk)
      BY <2>1, <3>1, <3>3, <3>5, Zenon DEF Stream!Transfer
    <3> QED
      BY <3>2, <3>6
  <2>5. ASSUME ~closed, UNCHANGED <<written, writeBuf, sent>> PROVE Stream!Transfer(<<>>)
    <3>1. Accepted' = Accepted \o <<>> /\ 0 \in 0..Len(writeBuf)
      BY <2>0, <2>1, <2>5 DEF Accepted
    <3> QED
      BY <2>1, <2>5, <3>1, Zenon DEF Stream!Transfer
  <2>6. CASE WriteSlice
    <3>1. ~closed /\ slices # <<>> /\ written' = written
          /\ sent' = sent \o SubSeq(writeBuf, 1, Head(slices))
          /\ writeBuf' = SubSeq(writeBuf, Head(slices) + 1, Len(writeBuf))
      BY <2>6 DEF WriteSlice
    <3>2. Head(slices) \in 0..Len(writeBuf)
      BY <3>1, FrontFits
    <3>3. Accepted' = Accepted \o <<>>
      BY <2>1, <3>1 DEF Accepted
    <3>4. Stream!Transfer(<<>>)
      BY <2>1, <3>1, <3>2, <3>3, Zenon DEF Stream!Transfer
    <3> QED
      BY <2>3, <3>4
  <2>7. CASE UNCHANGED <<written, writeBuf, sent>> /\ (closed => UNCHANGED closed)
    BY <2>3, <2>5, <2>7
  <2> QED
    BY <2>4, <2>6, <2>7 DEF Next, Handler, vars, outVars, CloseSocket, StartHandshake,
       Flight, HandshakeDone, HandshakeWants, HandshakeFails, StartRead, Close, Return,
       HandleIo, ReadData, ReadRenegotiates, ReadWantsRead, ReadEnds, WriteWants,
       WriteFails, WriteDone, PeerFlight, PeerSend, PeerRenegotiates, PeerAnswers,
       PeerEnds, PeerReads
<1> QED
  BY <1>1, <1>2, StagesKept, BytesKept, PTL DEF Spec, StreamSpec, Stream!Spec
=============================================================================
