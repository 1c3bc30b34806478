-------------------------- MODULE ConnectionProofs --------------------------
(***************************************************************************)
(* Proofs about a connection, for any amount of data, any size of the      *)
(* send buffer and any interleaving of methods, events and peer.           *)
(***************************************************************************)
EXTENDS Connection, SequenceTheorems, TLAPS

(* A sequence is the concatenation of a prefix and the rest. *)
LEMMA SplitSeq ==
    ASSUME NEW S, NEW s \in Seq(S), NEW n \in 0..Len(s)
    PROVE  /\ SubSeq(s, 1, n) \in Seq(S)
           /\ SubSeq(s, n + 1, Len(s)) \in Seq(S)
           /\ SubSeq(s, 1, n) \o SubSeq(s, n + 1, Len(s)) = s
<1>1. SubSeq(s, 1, n) \in Seq(S) /\ Len(SubSeq(s, 1, n)) = n
      /\ \A i \in 1..n : SubSeq(s, 1, n)[i] = s[i]
  BY SubSeqProperties, LenProperties
<1>2. /\ SubSeq(s, n + 1, Len(s)) \in Seq(S)
      /\ Len(SubSeq(s, n + 1, Len(s))) = Len(s) - n
      /\ \A i \in 1..(Len(s) - n) : SubSeq(s, n + 1, Len(s))[i] = s[n + i]
  BY SubSeqProperties, LenProperties
<1> DEFINE p == SubSeq(s, 1, n)
           q == SubSeq(s, n + 1, Len(s))
<1> HIDE DEF p, q
<1>3. p \in Seq(S) /\ Len(p) = n /\ (\A i \in 1..n : p[i] = s[i])
      /\ q \in Seq(S) /\ Len(q) = Len(s) - n /\ (\A i \in 1..(Len(s) - n) : q[i] = s[n + i])
      /\ Len(s) \in Nat
  BY <1>1, <1>2, LenProperties DEF p, q
<1>4. p \in Seq(S) /\ q \in Seq(S)
  BY <1>3
<1>5. p \o q \in Seq(S) /\ Len(p \o q) = Len(p) + Len(q)
  BY <1>4, ConcatProperties
<1>6. p \o q \in Seq(S) /\ Len(p \o q) = Len(s)
  BY <1>5, <1>3
<1>7. ASSUME NEW i \in 1..Len(s) PROVE (p \o q)[i] = s[i]
  <2>1. (p \o q)[i] = IF i <= n THEN p[i] ELSE q[i - n]
    BY <1>3, ConcatProperties
  <2> QED
    BY <1>3, <2>1
<1>8. p \o q = s
  BY <1>6, <1>7, SeqEqual
<1> QED
  BY <1>3, <1>8 DEF p, q

(* What remains of a sequence after a prefix has the rest of its length. *)
LEMMA RestLength ==
    ASSUME NEW S, NEW s \in Seq(S), NEW n \in 0..Len(s)
    PROVE  Len(SubSeq(s, n + 1, Len(s))) = Len(s) - n
BY SubSeqProperties, LenProperties

(* Moving a prefix of the last part to the end of the first part. *)
LEMMA MovePrefix ==
    ASSUME NEW S, NEW a \in Seq(S), NEW b \in Seq(S), NEW n \in 0..Len(b)
    PROVE  (a \o SubSeq(b, 1, n)) \o SubSeq(b, n + 1, Len(b)) = a \o b
<1> DEFINE p == SubSeq(b, 1, n)
           q == SubSeq(b, n + 1, Len(b))
<1> HIDE DEF p, q
<1>1. p \in Seq(S) /\ q \in Seq(S)
  BY SplitSeq DEF p, q
<1>2. p \o q = b
  BY SplitSeq DEF p, q
<1>3. (a \o p) \o q = a \o (p \o q)
  BY <1>1, ConcatAssociative, SMTT(30)
<1>4. (a \o p) \o q = a \o b
  BY ONLY <1>2, <1>3, Zenon
<1> QED
  BY <1>4, Zenon DEF p, q

(* Sequences of one and of two elements. *)
LEMMA ShortSeqs ==
    \A v \in {"W", "WE"} :
        {<<"R">>, <<v>>, <<"R", v>>, <<v, "R">>} \subseteq Seq({"R", "W", "WE", "rest"})
<1> SUFFICES ASSUME NEW S, S = {"R", "W", "WE", "rest"}, NEW v \in {"W", "WE"}
             PROVE  {<<"R">>, <<v>>, <<"R", v>>, <<v, "R">>} \subseteq Seq(S)
  OBVIOUS
<1>1. "R" \in S /\ v \in S
  OBVIOUS
<1>2. <<"R">> \in Seq(S) /\ <<v>> \in Seq(S)
  BY <1>1
<1>3. <<"R", v>> \in Seq(S) /\ <<v, "R">> \in Seq(S)
  BY <1>1
<1> QED
  BY <1>2, <1>3

(* The numbered bytes. *)
LEMMA ChunkType ==
    ASSUME written \in Nat, NEW n \in Nat
    PROVE  /\ Chunk(n) \in Seq(Nat) /\ Len(Chunk(n)) = n
           /\ [i \in 1..written |-> i] \o Chunk(n) = [i \in 1..(written + n) |-> i]
<1>1. Chunk(n) \in Seq(Nat) /\ Len(Chunk(n)) = n /\ \A i \in 1..n : Chunk(n)[i] = written + i
  BY DEF Chunk
<1> DEFINE p == [i \in 1..written |-> i]
           q == [i \in 1..(written + n) |-> i]
<1>2. p \in Seq(Nat) /\ Len(p) = written /\ \A i \in 1..written : p[i] = i
  OBVIOUS
<1>3. q \in Seq(Nat) /\ Len(q) = written + n /\ \A i \in 1..(written + n) : q[i] = i
  OBVIOUS
<1> HIDE DEF p, q
<1>4. p \in Seq(Nat) /\ Chunk(n) \in Seq(Nat)
  BY <1>1, <1>2
<1>5. p \o Chunk(n) \in Seq(Nat) /\ Len(p \o Chunk(n)) = Len(p) + Len(Chunk(n))
  BY <1>4, ConcatProperties
<1>6. p \o Chunk(n) \in Seq(Nat) /\ Len(p \o Chunk(n)) = written + n
  BY <1>1, <1>2, <1>5
<1>7. \A i \in 1..(written + n) : (p \o Chunk(n))[i] = q[i]
  BY <1>1, <1>2, <1>3, ConcatProperties
<1> QED
  BY <1>1, <1>3, <1>6, <1>7, SeqEqual DEF p, q

(* What handleWrite() does with a buffer that holds wb: a prefix goes out,   *)
(* nothing is lost or reordered, and the watched events match what is left.  *)
LEMMA HandleWriteEffect ==
    ASSUME TypeOK, ~closed, NEW wb \in Seq(Nat), HandleWrite(wb)
    PROVE  /\ sent' \in Seq(Nat) /\ writeBuf' \in Seq(Nat)
           /\ room' \in 0..SendRoom /\ errors' \in Nat /\ reporting' \in Nat
           /\ reset' \in BOOLEAN /\ closed' = closed
           /\ sent' \o writeBuf' = sent \o wb
           /\ reg' = Interest(reading, writeBuf')
           /\ \E k \in 0..Len(wb) : /\ sent' = sent \o SubSeq(wb, 1, k)
                                    /\ writeBuf' = SubSeq(wb, k + 1, Len(wb))
<1>1. Len(wb) \in Nat /\ room \in 0..SendRoom /\ SendRoom \in Nat /\ sent \in Seq(Nat)
      /\ errors \in Nat /\ reporting \in Nat /\ reset \in BOOLEAN
  BY LenProperties, ConnectionAssumption DEF TypeOK
<1>2. ASSUME NEW n \in 0..Len(wb), n <= room,
             sent' = sent \o SubSeq(wb, 1, n), writeBuf' = SubSeq(wb, n + 1, Len(wb)),
             room' = room - n
      PROVE  /\ sent' \in Seq(Nat) /\ writeBuf' \in Seq(Nat) /\ room' \in 0..SendRoom
             /\ sent' \o writeBuf' = sent \o wb
             /\ \E k \in 0..Len(wb) : /\ sent' = sent \o SubSeq(wb, 1, k)
                                      /\ writeBuf' = SubSeq(wb, k + 1, Len(wb))
  <2>1. SubSeq(wb, 1, n) \in Seq(Nat) /\ SubSeq(wb, n + 1, Len(wb)) \in Seq(Nat)
    BY SplitSeq
  <2>2. sent \o SubSeq(wb, 1, n) \in Seq(Nat)
    BY <1>1, <2>1, ConcatProperties
  <2>3. (sent \o SubSeq(wb, 1, n)) \o SubSeq(wb, n + 1, Len(wb)) = sent \o wb
    BY <1>1, MovePrefix
  <2>4. room - n \in 0..SendRoom
    BY <1>1, <1>2
  <2>5. \E k \in 0..Len(wb) : /\ sent' = sent \o SubSeq(wb, 1, k)
                             /\ writeBuf' = SubSeq(wb, k + 1, Len(wb))
    BY <1>2, Zenon
  <2> QED
    BY <1>2, <2>1, <2>2, <2>3, <2>4, <2>5
<1>3. CASE FlushFails(wb)
  <2>1. PICK n \in {k \in 0..room : k < Len(wb)} :
            /\ IF n = 0 THEN (reset \/ finSent) /\ UNCHANGED reset
                        ELSE ~reset /\ ~finSent /\ reset' = TRUE
            /\ sent' = sent \o SubSeq(wb, 1, n)
            /\ writeBuf' = SubSeq(wb, n + 1, Len(wb))
            /\ room' = room - n
            /\ reg' = Interest(reading, wb)
            /\ errors' = errors + 1 /\ reporting' = reporting + 1
            /\ UNCHANGED closed
    BY <1>3, Zenon DEF FlushFails
  <2>2. n \in 0..Len(wb) /\ n <= room /\ n < Len(wb) /\ n \in Nat
    BY <1>1
  <2>3. reset' \in BOOLEAN
    <3>1. reset' = reset \/ reset' = TRUE
      BY <2>1, Zenon
    <3> QED
      BY <1>1, <3>1, Zenon
  <2>4. /\ sent' \in Seq(Nat) /\ writeBuf' \in Seq(Nat) /\ room' \in 0..SendRoom
        /\ sent' \o writeBuf' = sent \o wb
        /\ \E k \in 0..Len(wb) : /\ sent' = sent \o SubSeq(wb, 1, k)
                                 /\ writeBuf' = SubSeq(wb, k + 1, Len(wb))
    BY <1>2, <2>1, <2>2
  <2>5. wb # <<>> /\ writeBuf' # <<>>
    <3>1. Len(SubSeq(wb, n + 1, Len(wb))) = Len(wb) - n
      BY <2>2, RestLength
    <3>2. Len(wb) > 0 /\ Len(writeBuf') > 0
      BY <2>1, <2>2, <3>1, <1>1
    <3>3. Len(<<>>) = 0
      OBVIOUS
    <3> QED
      BY <3>2, <3>3
  <2>6. reg' = Interest(reading, writeBuf')
    BY <2>1, <2>5 DEF Interest
  <2>7. errors' \in Nat /\ reporting' \in Nat /\ closed' = closed
    BY <1>1, <2>1
  <2> QED
    BY <2>3, <2>4, <2>6, <2>7
<1>4. CASE FlushSome(wb)
  <2> DEFINE n == Min2(room, Len(wb))
  <2>1. n \in 0..Len(wb) /\ n <= room
    BY <1>1 DEF Min2
  <2>2. /\ sent' = sent \o SubSeq(wb, 1, n)
        /\ writeBuf' = SubSeq(wb, n + 1, Len(wb))
        /\ room' = room - n
        /\ reg' = Interest(reading, writeBuf')
        /\ closed' = closed /\ errors' = errors /\ reporting' = reporting /\ reset' = reset
    BY <1>4 DEF FlushSome
  <2> HIDE DEF n
  <2>3. /\ sent' \in Seq(Nat) /\ writeBuf' \in Seq(Nat) /\ room' \in 0..SendRoom
        /\ sent' \o writeBuf' = sent \o wb
        /\ \E k \in 0..Len(wb) : /\ sent' = sent \o SubSeq(wb, 1, k)
                                 /\ writeBuf' = SubSeq(wb, k + 1, Len(wb))
    BY <1>2, <2>1, <2>2
  <2> QED
    BY <1>1, <2>2, <2>3
<1> QED
  BY <1>3, <1>4 DEF HandleWrite

Inv == TypeOK /\ SentInOrder /\ WatchMatchesInterest

(* Every variable of a connection stays in its domain; the byte accounting   *)
(* and the registration with the loop are right between any two handlers:    *)
(* no byte is lost or reordered, the loop watches what is needed and nothing *)
(* of a closed connection.                                                   *)
THEOREM ConnectionCorrect == Spec => [](TypeOK /\ SentInOrder /\ WatchMatchesInterest)
<1> USE ConnectionAssumption
<1>1. Init => Inv
  <2> SUFFICES ASSUME Init PROVE Inv
    OBVIOUS
  <2>1. closed \in BOOLEAN /\ reading \in BOOLEAN /\ finSent \in BOOLEAN
        /\ fin \in BOOLEAN /\ reset \in BOOLEAN
    BY Zenon DEF Init
  <2>2. TypeOK
    BY <2>1 DEF Init, TypeOK
  <2>3. SentInOrder
    BY DEF Init, SentInOrder
  <2>4. WatchMatchesInterest
    BY DEF Init, WatchMatchesInterest
  <2> QED
    BY <2>2, <2>3, <2>4 DEF Inv
<1>2. Inv /\ [Next]_vars => Inv'
  <2> SUFFICES ASSUME Inv, [Next]_vars PROVE Inv'
    OBVIOUS
  <2> USE DEF Inv
  <2>1. CASE StartRead
    <3>1. reading' \in BOOLEAN
      BY <2>1, Zenon DEF StartRead
    <3>2. TypeOK'
      BY <2>1, <3>1 DEF TypeOK, StartRead, Interest, sockVars, callbackVars
    <3> QED
      BY <2>1, <3>2 DEF StartRead, SentInOrder, WatchMatchesInterest, Interest
  <2>2. CASE StopRead
    <3>1. reading' \in BOOLEAN
      BY <2>2, Zenon DEF StopRead
    <3>2. TypeOK'
      BY <2>2, <3>1 DEF TypeOK, StopRead, Interest, sockVars, callbackVars
    <3> QED
      BY <2>2, <3>2 DEF StopRead, SentInOrder, WatchMatchesInterest, Interest
  <2>3. CASE ShutdownWrite
    <3>1. finSent' \in BOOLEAN
      BY <2>3, Zenon DEF ShutdownWrite
    <3> QED
      BY <2>3, <3>1 DEF TypeOK, ShutdownWrite, SentInOrder, WatchMatchesInterest,
                        sockVars, callbackVars
  <2>4. CASE Close
    <3>1. closed' \in BOOLEAN /\ closed'
      BY <2>4, Zenon DEF Close, CloseSocket
    <3> QED
      BY <2>4, <3>1 DEF TypeOK, Close, CloseSocket, SentInOrder, WatchMatchesInterest,
                        sockVars, callbackVars
  <2>5. ASSUME NEW n \in 1..MaxChunk, Write(n) PROVE Inv'
    <3> DEFINE wb == writeBuf \o Chunk(n)
    <3>1. n \in Nat /\ written \in Nat /\ sent \in Seq(Nat) /\ writeBuf \in Seq(Nat) /\ ~closed
      BY <2>5 DEF TypeOK, Write
    <3>2. Chunk(n) \in Seq(Nat)
      BY <3>1, ChunkType
    <3>3. wb \in Seq(Nat)
      BY <3>1, <3>2, ConcatProperties
    <3>4. HandleWrite(wb)
      BY <2>5 DEF Write
    <3> HIDE DEF wb
    <3>5. /\ sent' \in Seq(Nat) /\ writeBuf' \in Seq(Nat)
          /\ room' \in 0..SendRoom /\ errors' \in Nat /\ reporting' \in Nat
          /\ reset' \in BOOLEAN /\ closed' = closed
          /\ sent' \o writeBuf' = sent \o wb
          /\ reg' = Interest(reading, writeBuf')
      BY <3>1, <3>3, <3>4, HandleWriteEffect
    <3>6. sent \o wb = (sent \o writeBuf) \o Chunk(n)
      <4> DEFINE ch == Chunk(n)
      <4>1. sent \in Seq(Nat) /\ writeBuf \in Seq(Nat) /\ ch \in Seq(Nat)
        BY <3>1, <3>2
      <4> HIDE DEF ch
      <4>2. (sent \o writeBuf) \o ch = sent \o (writeBuf \o ch)
        BY <4>1, ConcatAssociative, SMTT(30)
      <4> QED
        BY <4>2 DEF wb, ch
    <3>7. sent \o wb = [i \in 1..(written + n) |-> i]
      BY <3>1, <3>6, ChunkType DEF SentInOrder
    <3>8. SentInOrder'
      BY <2>5, <3>5, <3>7 DEF Write, SentInOrder
    <3>9. WatchMatchesInterest'
      BY <2>5, <3>1, <3>5 DEF Write, WatchMatchesInterest, Interest
    <3>10. TypeOK'
      <4>1. late' \in Nat
        BY <2>5 DEF Write, TypeOK, Min2
      <4>2. reg' \in SUBSET {"R", "W"}
        BY <3>5 DEF Interest
      <4>3. written' \in 0..MaxWritten
        BY <2>5, <3>1 DEF Write
      <4>4. UNCHANGED <<reading, batch, finSent, inq, received, fin, delivered, closes>>
        BY <2>5 DEF Write
      <4> QED
        BY <3>5, <4>1, <4>2, <4>3, <4>4 DEF TypeOK
    <3> QED
      BY <3>8, <3>9, <3>10
  <2>6. CASE Harvest
    <3>1. batch' \in Seq({"R", "W", "WE", "rest"})
      <4>1. WriteEvent \in {"W", "WE"}
        BY DEF WriteEvent
      <4>2. batch' \in {<<"R">>, <<WriteEvent>>, <<"R", WriteEvent>>, <<WriteEvent, "R">>}
        BY <2>6 DEF Harvest
      <4> HIDE DEF WriteEvent
      <4> QED
        BY <4>1, <4>2, ShortSeqs
    <3> QED
      BY <2>6, <3>1 DEF Harvest, TypeOK, SentInOrder, WatchMatchesInterest,
                        sockVars, callbackVars
  <2>7. CASE Dispatch
    <3>1. batch' \in Seq({"R", "W", "WE", "rest"})
      <4>1. batch # <<>> /\ batch \in Seq({"R", "W", "WE", "rest"})
        BY <2>7 DEF Dispatch, TypeOK
      <4>2. Tail(batch) \in Seq({"R", "W", "WE", "rest"})
        BY <4>1, HeadTailProperties
      <4>3. <<"rest">> \o Tail(batch) \in Seq({"R", "W", "WE", "rest"})
            /\ <<>> \o Tail(batch) \in Seq({"R", "W", "WE", "rest"})
        BY <4>2
      <4> QED
        BY <2>7, <4>2, <4>3 DEF Dispatch
    <3>2. CASE HandleRead /\ ~closed
      <4>1. UNCHANGED <<reading, written, finSent, received, fin, late>>
        BY <2>7 DEF Dispatch
      <4>2. CASE ReadEof
        <5>1. closed' \in BOOLEAN /\ closed'
          BY <4>2, Zenon DEF ReadEof, CloseSocket
        <5>2. reg' = {} /\ UNCHANGED <<inq, delivered, writeBuf, sent, room, reset>>
              /\ closes' \in Nat /\ UNCHANGED <<errors, reporting>>
          BY <3>2, <4>2 DEF HandleRead, ReadEof, CloseSocket, TypeOK
        <5> QED
          BY <3>1, <4>1, <5>1, <5>2 DEF TypeOK, SentInOrder, WatchMatchesInterest
      <4>4. CASE ReadError
        <5>1. UNCHANGED <<closed, reg, inq, delivered, writeBuf, sent, room, reset, closes>>
              /\ errors' \in Nat /\ reporting' \in Nat
          BY <3>2, <4>4 DEF HandleRead, ReadError, TypeOK
        <5> QED
          BY <3>1, <4>1, <5>1 DEF TypeOK, SentInOrder, WatchMatchesInterest
      <4>3. CASE ReadData \/ ReadAgain
        <5>1. UNCHANGED <<closed, reg, closes, errors, reporting, writeBuf, sent, room, reset>>
          BY <3>2, <4>3 DEF HandleRead, ReadData, ReadAgain
        <5>2. inq' \in Nat /\ delivered' \in Nat
          BY <4>3 DEF ReadData, ReadAgain, TypeOK
        <5> QED
          BY <3>1, <4>1, <5>1, <5>2 DEF TypeOK, SentInOrder, WatchMatchesInterest
      <4> QED
        BY <3>2, <4>2, <4>3, <4>4 DEF HandleRead
    <3>3. CASE HandleWrite(writeBuf) /\ ~closed /\ UNCHANGED <<inq, delivered, closes>>
      <4>1. writeBuf \in Seq(Nat)
        BY DEF TypeOK
      <4>2. /\ sent' \in Seq(Nat) /\ writeBuf' \in Seq(Nat)
            /\ room' \in 0..SendRoom /\ errors' \in Nat /\ reporting' \in Nat
            /\ reset' \in BOOLEAN /\ closed' = closed
            /\ sent' \o writeBuf' = sent \o writeBuf
            /\ reg' = Interest(reading, writeBuf')
        BY <3>3, <4>1, HandleWriteEffect
      <4>3. UNCHANGED <<reading, written, finSent, received, fin, late>>
        BY <2>7 DEF Dispatch
      <4> QED
        BY <3>1, <3>3, <4>2, <4>3 DEF TypeOK, SentInOrder, WatchMatchesInterest, Interest
    <3>4. CASE UNCHANGED <<closed, writeBuf, reg, sent, room, inq, reset, callbackVars>>
      BY <2>7, <3>1, <3>4 DEF Dispatch, TypeOK, SentInOrder, WatchMatchesInterest, callbackVars
    <3> QED
      BY <2>7, <3>2, <3>3, <3>4 DEF Dispatch
  <2>8. CASE PeerSend \/ PeerReads
    <3>1. CASE PeerSend
      BY <3>1 DEF PeerSend, TypeOK, SentInOrder, WatchMatchesInterest, callbackVars
    <3>2. CASE PeerReads
      BY <3>2 DEF PeerReads, TypeOK, SentInOrder, WatchMatchesInterest, sockVars, callbackVars
    <3> QED
      BY <2>8, <3>1, <3>2
  <2>9. CASE PeerFin \/ PeerReset
    <3>1. fin' \in BOOLEAN /\ reset' \in BOOLEAN
      BY <2>9, Zenon DEF PeerFin, PeerReset, TypeOK
    <3>2. UNCHANGED <<closed, reading, writeBuf, reg, batch, written, sent, finSent,
                      room, inq, received, delivered, closes, errors, reporting, late>>
      BY <2>9 DEF PeerFin, PeerReset, callbackVars
    <3> QED
      BY <3>1, <3>2 DEF TypeOK, SentInOrder, WatchMatchesInterest
  <2>10. CASE CloseAfterError
    <3>1. closed' \in BOOLEAN /\ closed'
      BY <2>10, Zenon DEF CloseAfterError, CloseSocket
    <3>2. reg' = {} /\ reporting' \in Nat
          /\ UNCHANGED <<reading, writeBuf, batch, written, sent, finSent, room, inq, received,
                         fin, reset, delivered, closes, errors, late>>
      BY <2>10 DEF CloseAfterError, CloseSocket, sockVars, TypeOK
    <3> QED
      BY <3>1, <3>2 DEF TypeOK, SentInOrder, WatchMatchesInterest
  <2>11. CASE UNCHANGED vars
    BY <2>11 DEF vars, TypeOK, SentInOrder, WatchMatchesInterest
  <2> QED
    BY <2>1, <2>2, <2>3, <2>4, <2>5, <2>6, <2>7, <2>8, <2>9, <2>10, <2>11 DEF Next
<1> QED
  BY <1>1, <1>2, PTL DEF Spec, Inv

(* The end of the stream is reported once and last: onClose_ comes from a    *)
(* handler that has closed the connection after read(2) found nothing left;  *)
(* onError_ is followed by close() before the loop dispatches anything else, *)
(* so that only a write() made inside it can report once more.               *)
THEOREM EndCorrect == Spec => []EndIsFinal
<1> DEFINE Counts == delivered + inq = received
           Fresh == closes = 0 /\ errors = 0 /\ reporting = 0
           Closing == closes = 1 /\ errors = 0 /\ reporting = 0 /\ closed /\ fin /\ inq = 0
           Failing == closes = 0 /\ errors > 0 /\ errors <= 1 + late
                      /\ (closed \/ reporting > 0)
           Ends == Fresh \/ Closing \/ Failing
<1>1. Init => Counts /\ Ends
  BY DEF Init
<1>2. TypeOK /\ WatchMatchesInterest /\ Counts /\ Ends /\ [Next]_vars => Counts' /\ Ends'
  <2> SUFFICES ASSUME TypeOK, WatchMatchesInterest, Counts, Ends, [Next]_vars
               PROVE  Counts' /\ Ends'
    OBVIOUS
  <2>0. closes \in Nat /\ errors \in Nat /\ reporting \in Nat /\ late \in Nat
        /\ inq \in Nat /\ delivered \in Nat /\ received \in Nat
    BY DEF TypeOK
  <2>1. ASSUME NEW wb, HandleWrite(wb)
        PROVE  /\ closed' = closed
               /\ \/ errors' = errors /\ reporting' = reporting
                  \/ errors' = errors + 1 /\ reporting' = reporting + 1
    <3>1. CASE FlushSome(wb)
      BY <3>1 DEF FlushSome
    <3>2. CASE FlushFails(wb)
      BY <3>2, Zenon DEF FlushFails
    <3> QED
      BY <2>1, <3>1, <3>2 DEF HandleWrite
  <2>2. ASSUME NEW n \in 1..MaxChunk, Write(n) PROVE Counts' /\ Ends'
    <3>1. ~closed /\ UNCHANGED <<inq, received, fin, delivered, closes>>
          /\ late' = late + Min2(reporting, 1) /\ HandleWrite(writeBuf \o Chunk(n))
      BY <2>2 DEF Write
    <3>2. /\ closed' = closed
          /\ \/ errors' = errors /\ reporting' = reporting
             \/ errors' = errors + 1 /\ reporting' = reporting + 1
      BY <2>1, <3>1
    <3>3. late' \in Nat /\ late' >= late /\ (reporting > 0 => late' = late + 1)
      BY <2>0, <3>1 DEF Min2
    <3>4. Fresh \/ Failing
      BY <3>1
    <3> QED
      BY <2>0, <3>1, <3>2, <3>3, <3>4
  <2>3. CASE Dispatch
    <3>0. reporting = 0 /\ UNCHANGED <<received, fin, late>>
      BY <2>3 DEF Dispatch
    <3>1. CASE HandleRead /\ ~closed
      <4>2. Fresh
        BY <3>0, <3>1, <2>0
      <4>3. CASE ReadData
        <5>1. inq' \in Nat /\ delivered' + inq' = delivered + inq
          BY <2>0, <4>3 DEF ReadData
        <5>2. UNCHANGED <<closes, errors, reporting>>
          BY <4>3 DEF ReadData
        <5> QED
          BY <3>0, <4>2, <5>1, <5>2
      <4>4. CASE ReadEof
        BY <2>0, <3>0, <4>2, <4>4 DEF ReadEof, CloseSocket
      <4>5. CASE ReadAgain
        BY <3>0, <4>2, <4>5 DEF ReadAgain
      <4>6. CASE ReadError
        BY <2>0, <3>0, <4>2, <4>6 DEF ReadError
      <4> QED
        BY <3>1, <4>3, <4>4, <4>5, <4>6 DEF HandleRead
    <3>2. CASE HandleWrite(writeBuf) /\ ~closed /\ UNCHANGED <<inq, delivered, closes>>
      <4>1. Fresh
        BY <3>0, <3>2, <2>0
      <4>2. /\ closed' = closed
            /\ \/ errors' = errors /\ reporting' = reporting
               \/ errors' = errors + 1 /\ reporting' = reporting + 1
        BY <2>1, <3>2
      <4> QED
        BY <2>0, <3>0, <3>2, <4>1, <4>2
    <3>3. CASE UNCHANGED <<closed, writeBuf, reg, sent, room, inq, reset, callbackVars>>
      BY <3>0, <3>3 DEF callbackVars
    <3> QED
      BY <2>3, <3>1, <3>2, <3>3 DEF Dispatch
  <2>4. CASE PeerSend
    <3>1. ~fin /\ UNCHANGED <<closed, fin, delivered, closes, errors, reporting, late>>
          /\ received' = received + 1 /\ inq' = inq + 1
      BY <2>4 DEF PeerSend, callbackVars
    <3> QED
      BY <2>0, <3>1
  <2>5. CASE StartRead \/ StopRead \/ ShutdownWrite \/ Harvest \/ PeerReset \/ PeerReads
    <3>1. UNCHANGED <<closed, inq, received, fin, delivered, closes, errors, reporting, late>>
      BY <2>5 DEF StartRead, StopRead, ShutdownWrite, Harvest, PeerReset, PeerReads,
                  sockVars, callbackVars
    <3> QED
      BY <3>1
  <2>6. CASE PeerFin \/ Close
    <3>1. UNCHANGED <<inq, received, delivered, closes, errors, reporting, late>>
          /\ (fin => fin') /\ (closed => closed')
      BY <2>6 DEF PeerFin, Close, CloseSocket, sockVars, callbackVars
    <3> QED
      BY <3>1
  <2>7. CASE CloseAfterError
    <3>1. reporting > 0 /\ closed' /\ reporting' = reporting - 1
          /\ UNCHANGED <<inq, received, fin, delivered, closes, errors, late>>
      BY <2>7 DEF CloseAfterError, CloseSocket, sockVars
    <3>2. Failing
      BY <3>1, <2>0
    <3> QED
      BY <2>0, <3>1, <3>2
  <2>8. CASE UNCHANGED vars
    BY <2>8 DEF vars
  <2> QED
    BY <2>2, <2>3, <2>4, <2>5, <2>6, <2>7, <2>8 DEF Next
<1>3. TypeOK /\ Counts /\ Ends => EndIsFinal
  BY DEF TypeOK, EndIsFinal
<1> QED
  BY <1>1, <1>2, <1>3, ConnectionCorrect, PTL DEF Spec

(* A closed connection sends nothing, makes no callback and does not reopen, *)
(* whatever is left of the batch of events.                                  *)
THEOREM QuietCorrect == Spec => QuietAfterClose
<1>1. WatchMatchesInterest /\ [Next]_vars
        => [closed => UNCHANGED <<closed, sent, delivered, closes, errors>>]_vars
  <2> SUFFICES ASSUME WatchMatchesInterest, Next, closed
               PROVE  UNCHANGED <<closed, sent, delivered, closes, errors>>
    BY DEF vars
  <2>1. reg = {}
    BY DEF WatchMatchesInterest
  <2>2. ~StartRead /\ ~StopRead /\ ~ShutdownWrite /\ ~Close /\ \A n \in 1..MaxChunk : ~Write(n)
    BY DEF StartRead, StopRead, ShutdownWrite, Close, Write
  <2>3. Dispatch => UNCHANGED <<closed, sent, delivered, closes, errors>>
    BY <2>1 DEF Dispatch, callbackVars
  <2>4. Harvest \/ PeerSend \/ PeerFin \/ PeerReset \/ PeerReads
          => UNCHANGED <<closed, sent, delivered, closes, errors>>
    BY DEF Harvest, PeerSend, PeerFin, PeerReset, PeerReads, callbackVars
  <2>5. CloseAfterError => closed' = TRUE /\ UNCHANGED <<sent, delivered, closes, errors>>
    BY Zenon DEF CloseAfterError, CloseSocket
  <2>6. CASE CloseAfterError
    <3>1. closed' = TRUE /\ UNCHANGED <<sent, delivered, closes, errors>>
      BY <2>5, <2>6
    <3>2. closed = TRUE
      OBVIOUS
    <3> QED
      BY <3>1, <3>2
  <2> QED
    BY <2>2, <2>3, <2>4, <2>6 DEF Next
<1> QED
  BY <1>1, ConnectionCorrect, PTL DEF Spec, QuietAfterClose

(* The connection implements ByteStream: every step accepts some data and    *)
(* hands on a prefix of what is held, or leaves the stream alone.            *)
THEOREM ImplementsStream == Spec => StreamSpec
<1> USE ConnectionAssumption
<1>1. Init => Stream!Init
  <2>1. ASSUME Init PROVE Accepted = <<>>
    BY <2>1 DEF Init, Accepted
  <2> QED
    BY <2>1 DEF Init, Stream!Init
<1>2. TypeOK /\ WatchMatchesInterest /\ [Next]_vars
        => [\E bs \in Chunks : Stream!Transfer(bs)]_<<~closed, Accepted, writeBuf, sent>>
  <2> SUFFICES ASSUME TypeOK, WatchMatchesInterest, [Next]_vars
               PROVE  \/ \E bs \in Chunks : Stream!Transfer(bs)
                      \/ UNCHANGED <<closed, written, writeBuf, sent>>
    BY DEF Accepted
  <2>0. writeBuf \in Seq(Nat) /\ sent \in Seq(Nat)
    BY DEF TypeOK
  <2>a. Accepted \in Seq(Nat)
    BY DEF TypeOK, Accepted
  <2>b. Accepted \o <<>> = Accepted
    BY <2>a, ConcatEmptySeq
  <2>c. ASSUME UNCHANGED written PROVE Accepted' = Accepted \o <<>>
    BY <2>b, <2>c DEF Accepted
  <2>1. <<>> \in Chunks
    <3>1. <<>> = [i \in 1..0 |-> 0 + i]
      OBVIOUS
    <3>2. 0 \in 0..MaxWritten /\ 0 \in 0..MaxChunk
      OBVIOUS
    <3>3. <<>> \in {[i \in 1..0 |-> w + i] : w \in 0..MaxWritten}
      BY <3>1, <3>2
    <3>4. {[i \in 1..0 |-> w + i] : w \in 0..MaxWritten} \in
             {{[i \in 1..n |-> w + i] : w \in 0..MaxWritten} : n \in 0..MaxChunk}
      BY <3>2
    <3> QED
      BY <3>3, <3>4, Zenon DEF Chunks
  <2>2. ASSUME NEW bs \in Chunks, bs \in Seq(Nat), ~closed, HandleWrite(writeBuf \o bs),
               Accepted' = Accepted \o bs
        PROVE  Stream!Transfer(bs)
    <3> DEFINE wb == writeBuf \o bs
    <3>1. wb \in Seq(Nat)
      BY <2>0, <2>2, ConcatProperties
    <3>2. HandleWrite(wb)
      BY <2>2
    <3> HIDE DEF wb
    <3>3. Len(wb) \in Nat
      BY <3>1, LenProperties
    <3>4. \E k \in 0..Len(wb) : /\ sent' = sent \o SubSeq(wb, 1, k)
                               /\ writeBuf' = SubSeq(wb, k + 1, Len(wb))
      BY <2>2, <3>1, <3>2, HandleWriteEffect
    <3>5. (~closed)' \in BOOLEAN
      OBVIOUS
    <3> QED
      BY <2>2, <3>4, <3>5 DEF Stream!Transfer, wb
  <2>3. ASSUME ~closed, UNCHANGED <<written, writeBuf, sent>> PROVE Stream!Transfer(<<>>)
    <3>1. writeBuf \o <<>> = writeBuf /\ sent \o <<>> = sent
      BY <2>0, ConcatEmptySeq
    <3>2. SubSeq(writeBuf, 1, 0) = <<>> /\ SubSeq(writeBuf, 0 + 1, Len(writeBuf)) = writeBuf
      BY <2>0
    <3>3. Len(writeBuf) \in Nat /\ (~closed)' \in BOOLEAN
      BY <2>0, LenProperties
    <3>4. 0 \in 0..Len(writeBuf)
      BY <3>3
    <3> QED
      BY <2>3, <2>c, <3>1, <3>2, <3>3, <3>4 DEF Stream!Transfer
  <2>4. ASSUME NEW n \in 1..MaxChunk, Write(n)
        PROVE  \E bs \in Chunks : Stream!Transfer(bs)
    <3>1. n \in 0..MaxChunk /\ written \in 0..MaxWritten
      BY DEF TypeOK
    <3>2. Chunk(n) \in Chunks
      BY <3>1 DEF Chunk, Chunks
    <3>3. Chunk(n) \in Seq(Nat)
      BY <3>1, ChunkType
    <3>4. ~closed /\ HandleWrite(writeBuf \o Chunk(n))
      BY <2>4 DEF Write
    <3>5. Accepted' = Accepted \o Chunk(n)
      <4>1. written' = written + n /\ n \in Nat /\ written \in Nat
        BY <2>4, <3>1 DEF Write
      <4>2. [i \in 1..written |-> i] \o Chunk(n) = [i \in 1..(written + n) |-> i]
        BY <4>1, ChunkType
      <4> QED
        BY <4>1, <4>2, Zenon DEF Accepted
    <3> QED
      BY <2>2, <3>2, <3>3, <3>4, <3>5
  <2>5. ASSUME HandleWrite(writeBuf), ~closed, UNCHANGED written
        PROVE  \E bs \in Chunks : Stream!Transfer(bs)
    <3>1. writeBuf \o <<>> = writeBuf /\ <<>> \in Seq(Nat)
      BY <2>0, ConcatEmptySeq
    <3> QED
      BY <2>1, <2>2, <2>5, <2>c, <3>1
  <2>6. CASE Dispatch
    <3>1. reg # {} => ~closed
      BY DEF WatchMatchesInterest
    <3> QED
      BY <2>1, <2>3, <2>5, <2>6, <3>1 DEF Dispatch, HandleRead
  <2>7. CASE UNCHANGED <<written, writeBuf, sent>> /\ (closed => UNCHANGED closed)
    BY <2>1, <2>3, <2>7
  <2>8. CASE CloseAfterError
    <3>1. closed' = TRUE /\ UNCHANGED <<written, writeBuf, sent>>
      BY <2>8, Zenon DEF CloseAfterError, CloseSocket
    <3>2. closed => closed = TRUE
      BY DEF TypeOK
    <3> QED
      BY <2>7, <3>1, <3>2
  <2> QED
    BY <2>4, <2>6, <2>7, <2>8 DEF Next, vars, StartRead, StopRead, ShutdownWrite, Close, Harvest,
       PeerSend, PeerFin, PeerReset, PeerReads
<1> QED
  BY <1>1, <1>2, ConnectionCorrect, PTL DEF Spec, StreamSpec, Stream!Spec
=============================================================================
