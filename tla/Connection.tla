----------------------------- MODULE Connection -----------------------------
(***************************************************************************)
(* A plain TCP connection on the event loop (Connection): its methods,     *)
(* called by the session from any callback, the handlers that the loop     *)
(* calls for the events it has harvested, and the peer.                    *)
(*                                                                         *)
(* Every method and handler is one step (they run on the loop's thread),   *)
(* with two exceptions.  Events are harvested first and dispatched later:  *)
(* methods called in between make the rest of the batch stale.  And a      *)
(* failed read or write calls onError_ on a connection that is still open  *)
(* and closes it only when that returns: the methods the owner calls from  *)
(* onError_, a write() that fails again among them, are steps in between.  *)
(* Bytes are numbers in the order they are written; received bytes are     *)
(* only counted.                                                           *)
(***************************************************************************)
EXTENDS Naturals, Sequences

CONSTANTS
    MaxWritten,   \* bound: bytes given to write()
    MaxChunk,     \* bound: bytes given to one write()
    MaxReceived,  \* bound: bytes the peer sends
    SendRoom,     \* capacity of the socket's send buffer
    HalfClose     \* whether shutdownWrite() is used (the proxy never calls it)

ASSUME ConnectionAssumption ==
    /\ MaxWritten \in Nat /\ MaxChunk \in Nat /\ MaxReceived \in Nat
    /\ SendRoom \in Nat \ {0}
    /\ HalfClose \in BOOLEAN

VARIABLES
    closed,       \* closed_
    reading,      \* reading_
    writeBuf,     \* writeBuf_
    reg,          \* the loop's registration of the fd: filters watched, {} if none
    batch,        \* harvested events of the fd still to dispatch
    written,      \* bytes given to write() so far
    sent,         \* bytes the socket has accepted
    finSent,      \* shutdownWrite() was called
    room,         \* free space in the socket's send buffer
    inq,          \* bytes received by the socket and not read
    received,     \* bytes the peer has sent
    fin, reset,   \* the peer has closed or reset the connection
    delivered,    \* bytes given to onData_
    closes, errors,   \* calls of onClose_ and onError_
    reporting,    \* calls of onError_ that have not returned, one inside the other
    late          \* history: calls of write() from inside onError_

vars == <<closed, reading, writeBuf, reg, batch, written, sent, finSent, room,
          inq, received, fin, reset, delivered, closes, errors, reporting, late>>

sockVars == <<inq, received, fin, reset>>
callbackVars == <<delivered, closes, errors, reporting, late>>

Min2(a, b) == IF a < b THEN a ELSE b

Init ==
    /\ closed = FALSE /\ reading = FALSE
    /\ writeBuf = <<>> /\ reg = {} /\ batch = <<>>
    /\ written = 0 /\ sent = <<>> /\ finSent = FALSE /\ room = SendRoom
    /\ inq = 0 /\ received = 0 /\ fin = FALSE /\ reset = FALSE
    /\ delivered = 0 /\ closes = 0 /\ errors = 0 /\ reporting = 0 /\ late = 0

-----------------------------------------------------------------------------
(* Mutant of Interest: EVFILT_WRITE is never watched. *)
InterestReadOnly(r, wb) == IF r THEN {"R"} ELSE {}

(* updateEvents(): the filters watched for the given reading_ and writeBuf_. *)
Interest(r, wb) ==
    {f \in {"R", "W"} : (f = "R" /\ r) \/ (f = "W" /\ wb # <<>>)}

(* close(): unregister, close the socket. *)
CloseSocket == closed' = TRUE /\ reg' = {}

(* Mutant of FlushSome: the whole buffer is drained after a partial send. *)
FlushAll(wb) ==
    LET n == Min2(room, Len(wb))
    IN  /\ sent' = sent \o SubSeq(wb, 1, n)
        /\ writeBuf' = <<>>
        /\ room' = room - n
        /\ reg' = Interest(reading, writeBuf')
        /\ UNCHANGED <<closed, reset, errors, reporting>>

(* handleWrite(), the buffer holding wb: send() what the socket takes, drain *)
(* it, stop at EAGAIN, and recompute the watched events.                     *)
FlushSome(wb) ==
    LET n == Min2(room, Len(wb))
    IN  /\ sent' = sent \o SubSeq(wb, 1, n)
        /\ writeBuf' = SubSeq(wb, n + 1, Len(wb))
        /\ room' = room - n
        /\ reg' = Interest(reading, writeBuf')
        /\ UNCHANGED <<closed, reset, errors, reporting>>

(* ... or a send() fails: at once, or after n bytes went out and the peer    *)
(* reset the connection in between.  onError_ is called; close() is still to *)
(* come.                                                                     *)
FlushFails(wb) ==
    \E n \in {k \in 0..room : k < Len(wb)} :
        /\ IF n = 0 THEN (reset \/ finSent) /\ UNCHANGED reset
                    ELSE ~reset /\ ~finSent /\ reset' = TRUE
        /\ sent' = sent \o SubSeq(wb, 1, n)
        /\ writeBuf' = SubSeq(wb, n + 1, Len(wb))
        /\ room' = room - n
        /\ reg' = Interest(reading, wb)
        /\ errors' = errors + 1 /\ reporting' = reporting + 1
        /\ UNCHANGED closed

HandleWrite(wb) ==
    \/ (wb = <<>> \/ (~reset /\ ~finSent)) /\ FlushSome(wb)
    \/ FlushFails(wb)

-----------------------------------------------------------------------------
(* The methods. *)

(* Mutant of StartRead: updateEvents() is forgotten. *)
StartReadUnregistered ==
    /\ ~closed
    /\ reading' = TRUE
    /\ UNCHANGED <<closed, writeBuf, reg, batch, written, sent, finSent, room,
                   sockVars, callbackVars>>

StartRead ==
    /\ ~closed
    /\ reading' = TRUE
    /\ reg' = Interest(TRUE, writeBuf)
    /\ UNCHANGED <<closed, writeBuf, batch, written, sent, finSent, room,
                   sockVars, callbackVars>>

StopRead ==
    /\ ~closed
    /\ reading' = FALSE
    /\ reg' = Interest(FALSE, writeBuf)
    /\ UNCHANGED <<closed, writeBuf, batch, written, sent, finSent, room,
                   sockVars, callbackVars>>

(* The next n bytes to be written. *)
Chunk(n) == [i \in 1..n |-> written + i]

(* Mutant of Write: closed_ is not looked at. *)
WriteUnguarded(n) ==
    /\ written + n <= MaxWritten
    /\ written' = written + n
    /\ late' = late + Min2(reporting, 1)
    /\ HandleWrite(writeBuf \o Chunk(n))
    /\ UNCHANGED <<reading, batch, finSent, inq, received, fin, delivered, closes>>

(* Both write()s: buffer, watch, flush at once. *)
Write(n) ==
    /\ ~closed
    /\ written + n <= MaxWritten
    /\ written' = written + n
    /\ late' = late + Min2(reporting, 1)
    /\ HandleWrite(writeBuf \o Chunk(n))
    /\ UNCHANGED <<reading, batch, finSent, inq, received, fin, delivered, closes>>

ShutdownWrite ==
    /\ ~closed /\ HalfClose
    /\ finSent' = TRUE
    /\ UNCHANGED <<closed, reading, writeBuf, reg, batch, written, sent, room,
                   sockVars, callbackVars>>

(* close(), the destructor, and releaseSocket() (the fd lives on elsewhere): *)
(* whatever is in writeBuf_ stays there.                                     *)
Close ==
    /\ ~closed
    /\ CloseSocket
    /\ UNCHANGED <<reading, writeBuf, batch, written, sent, finSent, room,
                   sockVars, callbackVars>>

-----------------------------------------------------------------------------
(* The event loop. *)

(* kevent(): the ready ones of the watched filters, in any order.  EV_EOF is *)
(* set on the write filter ("WE") when the socket cannot send any more.      *)
ReadReady == "R" \in reg /\ (inq > 0 \/ fin \/ reset)
WriteReady == "W" \in reg /\ (room > 0 \/ finSent \/ reset)
WriteEvent == IF finSent \/ reset THEN "WE" ELSE "W"

Harvest ==
    /\ batch = <<>> /\ reporting = 0
    /\ \/ ReadReady /\ ~WriteReady /\ batch' = <<"R">>
       \/ WriteReady /\ ~ReadReady /\ batch' = <<WriteEvent>>
       \/ ReadReady /\ WriteReady /\ batch' \in {<<"R", WriteEvent>>, <<WriteEvent, "R">>}
    /\ UNCHANGED <<closed, reading, writeBuf, reg, written, sent, finSent, room,
                   sockVars, callbackVars>>

(* handleRead(): one recv(). *)
ReadData ==
    /\ ~reset
    /\ \E n \in 1..inq : inq' = inq - n /\ delivered' = delivered + n
    /\ UNCHANGED <<closed, reg, closes, errors, reporting>>

(* Mutant of ReadEof: the data received before the FIN is ignored. *)
ReadEofEarly ==
    /\ ~reset /\ fin
    /\ CloseSocket
    /\ closes' = closes + 1
    /\ UNCHANGED <<inq, delivered, errors, reporting>>

ReadEof ==
    /\ ~reset /\ fin /\ inq = 0
    /\ CloseSocket
    /\ closes' = closes + 1
    /\ UNCHANGED <<inq, delivered, errors, reporting>>

ReadAgain ==
    /\ ~reset /\ ~fin /\ inq = 0
    /\ UNCHANGED <<closed, reg, inq, delivered, closes, errors, reporting>>

(* onError_ is called, on a connection that is still open and watched. *)
ReadError ==
    /\ reset
    /\ errors' = errors + 1 /\ reporting' = reporting + 1
    /\ UNCHANGED <<closed, reg, inq, delivered, closes>>

HandleRead ==
    /\ ReadData \/ ReadEof \/ ReadAgain \/ ReadError
    /\ UNCHANGED <<writeBuf, sent, room, reset>>

(* The loop calls the callback now registered for the fd, if there is one,   *)
(* and the handlers of a closed connection return at once.  An event with    *)
(* EV_EOF on the write filter runs handleRead() first, then (step "rest")    *)
(* handleWrite().                                                            *)
Dispatch ==
    /\ batch # <<>> /\ reporting = 0
    /\ LET e == Head(batch)
           called == ~closed /\ (e = "rest" \/ reg # {})
       IN  \/ /\ called /\ e \in {"R", "WE"}
              /\ HandleRead
              /\ batch' = (IF e = "WE" THEN <<"rest">> ELSE <<>>) \o Tail(batch)
           \/ /\ called /\ e \in {"W", "rest"}
              /\ HandleWrite(writeBuf)
              /\ batch' = Tail(batch)
              /\ UNCHANGED <<inq, delivered, closes>>
           \/ /\ ~called
              /\ batch' = Tail(batch)
              /\ UNCHANGED <<closed, writeBuf, reg, sent, room, inq, reset, callbackVars>>
    /\ UNCHANGED <<reading, written, finSent, received, fin, late>>

(* The innermost onError_ returns, and the handler that called it runs       *)
(* close(), which returns at once when the owner has closed already.         *)
CloseAfterError ==
    /\ reporting > 0
    /\ reporting' = reporting - 1
    /\ CloseSocket
    /\ UNCHANGED <<reading, writeBuf, batch, written, sent, finSent, room, sockVars,
                   delivered, closes, errors, late>>

-----------------------------------------------------------------------------
(* The peer: it sends, closes or resets, and reads what was sent to it. *)

PeerSend ==
    /\ ~fin /\ ~reset /\ received < MaxReceived
    /\ received' = received + 1 /\ inq' = inq + 1
    /\ UNCHANGED <<closed, reading, writeBuf, reg, batch, written, sent, finSent,
                   room, fin, reset, callbackVars>>

PeerFin ==
    /\ ~fin /\ ~reset
    /\ fin' = TRUE
    /\ UNCHANGED <<closed, reading, writeBuf, reg, batch, written, sent, finSent,
                   room, inq, received, reset, callbackVars>>

PeerReset ==
    /\ ~reset
    /\ reset' = TRUE
    /\ UNCHANGED <<closed, reading, writeBuf, reg, batch, written, sent, finSent,
                   room, inq, received, fin, callbackVars>>

PeerReads ==
    /\ room < SendRoom
    /\ room' = SendRoom
    /\ UNCHANGED <<closed, reading, writeBuf, reg, batch, written, sent, finSent,
                   sockVars, callbackVars>>

Next ==
    \/ StartRead \/ StopRead \/ ShutdownWrite \/ Close
    \/ \E n \in 1..MaxChunk : Write(n)
    \/ Harvest \/ Dispatch \/ CloseAfterError
    \/ PeerSend \/ PeerFin \/ PeerReset \/ PeerReads

Spec == Init /\ [][Next]_vars

(* The loop harvests what is ready and dispatches what it has harvested,     *)
(* onError_ returns, and the peer keeps reading.  Nothing else is obliged to *)
(* happen.                                                                   *)
FairSpec ==
    /\ Spec
    /\ WF_vars(Harvest) /\ WF_vars(Dispatch) /\ WF_vars(CloseAfterError)
    /\ WF_vars(PeerReads)

-----------------------------------------------------------------------------
(* Domains of the variables of a connection. *)
TypeOK ==
    /\ closed \in BOOLEAN /\ reading \in BOOLEAN /\ finSent \in BOOLEAN
    /\ fin \in BOOLEAN /\ reset \in BOOLEAN
    /\ written \in 0..MaxWritten
    /\ writeBuf \in Seq(Nat) /\ sent \in Seq(Nat)
    /\ reg \in SUBSET {"R", "W"}
    /\ batch \in Seq({"R", "W", "WE", "rest"})
    /\ room \in 0..SendRoom
    /\ inq \in Nat /\ received \in Nat /\ delivered \in Nat
    /\ closes \in Nat /\ errors \in Nat /\ reporting \in Nat /\ late \in Nat

(* Between two handlers, and while onError_ runs, the loop watches exactly   *)
(* what the connection needs: readability while reading_, writability while  *)
(* writeBuf_ holds data, and nothing at all once closed.  A missing watch is *)
(* a stalled connection, a superfluous one a busy loop or a callback on a    *)
(* closed fd.                                                                *)
WatchMatchesInterest ==
    reg = IF closed THEN {}
          ELSE {f \in {"R", "W"} : (f = "R" /\ reading) \/ (f = "W" /\ writeBuf # <<>>)}

(* No byte given to write() is lost, repeated or reordered: what the socket  *)
(* took followed by what is buffered is what was written, over any partial   *)
(* sends; a close leaves a prefix sent.                                      *)
SentInOrder == sent \o writeBuf = [i \in 1..written |-> i]

(* The end is reported once and last.  onClose_ is called at most once, on a *)
(* closed connection, never with an error before or after it, and only when  *)
(* all received data was given to onData_.  onError_ is called on an open    *)
(* connection, which is closed when it returns; a second report can only     *)
(* come from a write() the owner makes inside onError_ (the proxy's          *)
(* callbacks close the session and write nothing).                           *)
EndIsFinal ==
    /\ closes > 0 => closed /\ closes = 1 /\ errors = 0 /\ delivered = received
    /\ errors > 0 => closed \/ reporting > 0
    /\ errors <= 1 + late

(* A closed connection makes no callback and sends nothing, whatever events  *)
(* of its fd are still in the batch and whatever handler is still running.   *)
QuietAfterClose ==
    [][closed => UNCHANGED <<closed, sent, delivered, closes, errors>>]_vars

(* Nothing stalls: buffered data is eventually flushed to a peer that keeps  *)
(* reading, and received data delivered to a connection that keeps reading,  *)
(* unless the connection is closed first.                                    *)
DataMoves ==
    /\ (writeBuf # <<>>) ~> (writeBuf = <<>> \/ closed)
    /\ (inq > 0 /\ reading) ~> (inq = 0 \/ closed \/ ~reading)

(* Connection.hpp, stopRead(): "Stop reading from the socket. Removes the    *)
(* readable watch."  No data is delivered while reading is stopped.          *)
StoppedMeansStopped == [][~reading => UNCHANGED delivered]_vars

(* The connection implements a byte stream (ByteStream) for the data written *)
(* to it: every method, handler and event is a transfer or a stutter.        *)
Accepted == [i \in 1..written |-> i]
Chunks == UNION {{[i \in 1..n |-> w + i] : w \in 0..MaxWritten} : n \in 0..MaxChunk}
Stream == INSTANCE ByteStream WITH
    open <- ~closed, accepted <- Accepted, held <- writeBuf, out <- sent
StreamSpec == Stream!Spec
=============================================================================
