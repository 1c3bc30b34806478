--------------------------- MODULE TlsConnection ----------------------------
(***************************************************************************)
(* A TLS connection on the event loop (TlsConnection): the non-blocking    *)
(* handshake, reading and writing through OpenSSL, which may want the      *)
(* socket to become readable or writable before it goes on.                *)
(*                                                                         *)
(* Handlers run on the loop's thread.  onData_ and the handshake's         *)
(* callback run inside a handler and call methods of the same connection;  *)
(* pc says where the handler stands, and the owner acts between handlers   *)
(* and inside callbacks.  OpenSSL, the socket and the peer are external.   *)
(* The owner is ProxySession: it calls startRead() once the handshakes are *)
(* done and writes only after that.                                        *)
(***************************************************************************)
EXTENDS Naturals, Sequences

CONSTANTS
    MaxWritten,   \* bound: bytes given to write()
    MaxChunk,     \* bound: bytes given to one write()
    MaxReceived,  \* bound: records of data the peer sends
    SendRoom,     \* records the socket's send buffer takes
    Renegotiates  \* whether the peer may start another handshake later

ASSUME TlsConnectionAssumption ==
    /\ Renegotiates \in BOOLEAN
    /\ MaxWritten \in Nat /\ MaxChunk \in Nat /\ MaxReceived \in Nat
    /\ SendRoom \in Nat \ {0}

VARIABLES
    isServer,     \* isServer_
    closed, reading,   \* closed_, reading_
    handshake,    \* "new", "going", "done" (handshakeDone_)
    writeBuf,     \* the bytes of writeBuf_ ...
    slices,       \* ... and the lengths of its slices
    reg,          \* filters the loop watches for the fd, {} if none
    pc,           \* the handler: "idle", "handshake", "complete", "read", "data", "write"
    ret,          \* where doWrite() returns to
    flights,      \* messages of the handshake done
    peerFlight,   \* the peer's next handshake message has arrived
    renego,       \* a later handshake: "no", "asked", "ours", "answered", "over"
    retry,        \* length of the SSL_write() that has to be repeated, 0 if none
    room,         \* records the socket can still take
    inq,          \* records received and not read
    received, fin, reset,   \* what the peer has done
    written, sent,          \* bytes given to write(), bytes taken by SSL_write()
    delivered,              \* records given to onData_
    outcomes, ends          \* calls of the handshake's callbacks; of onClose_, onErrorCb_

hsVars == <<handshake, flights, peerFlight, outcomes>>
outVars == <<writeBuf, slices, retry, sent>>
inVars == <<inq, delivered>>
peerVars == <<isServer, received, fin, reset>>
vars == <<closed, reading, reg, pc, ret, hsVars, outVars, inVars, peerVars, renego,
          room, written, ends>>

(* The handshake as this side sees it: "W" sends a message, "R" awaits one. *)
Flights == IF isServer THEN <<"R", "W", "R">> ELSE <<"W", "R", "W">>

Init ==
    /\ isServer \in BOOLEAN
    /\ closed = FALSE /\ handshake = "new" /\ reading = FALSE
    /\ writeBuf = <<>> /\ slices = <<>> /\ reg = {} /\ pc = "idle" /\ ret = "idle"
    /\ flights = 0 /\ peerFlight = FALSE /\ renego = "no" /\ retry = 0
    /\ room = SendRoom /\ inq = 0 /\ received = 0 /\ fin = FALSE /\ reset = FALSE
    /\ written = 0 /\ sent = <<>> /\ delivered = 0 /\ outcomes = 0 /\ ends = 0

(* close(): no more than once, unregister and close the socket. *)
CloseSocket == closed' = TRUE /\ reg' = {}

(* Mutant of WatchForSsl: writability is never watched. *)
WatchForSslReads(want) == reg' = {"R"}

(* watchForSsl(): what OpenSSL wants, and readability while reading. *)
WatchForSsl(want) == reg' = {want} \cup (IF reading THEN {"R"} ELSE {})

-----------------------------------------------------------------------------
(* The handshake. *)

StartHandshake ==
    /\ pc = "idle" /\ ~closed /\ handshake = "new"
    /\ handshake' = "going" /\ pc' = "handshake"
    /\ UNCHANGED <<closed, reading, reg, ret, flights, peerFlight, outcomes, outVars,
                   inVars, peerVars, renego, room, written, ends>>

(* What SSL_do_handshake() needs for its next message. *)
Want == Flights[flights + 1]
CanFlight == IF Want = "W" THEN room > 0 ELSE peerFlight

(* One message of the handshake is sent or processed by SSL_do_handshake(). *)
Flight ==
    /\ pc = "handshake" /\ flights < Len(Flights) /\ ~reset /\ CanFlight
    /\ flights' = flights + 1
    /\ IF Want = "W" THEN room' = room - 1 /\ UNCHANGED peerFlight
                     ELSE peerFlight' = FALSE /\ UNCHANGED room
    /\ UNCHANGED <<closed, reading, reg, pc, ret, handshake, outcomes, outVars, inVars,
                   peerVars, renego, written, ends>>

(* It returns 1: the completion callback runs. *)
HandshakeDone ==
    /\ pc = "handshake" /\ flights = Len(Flights)
    /\ handshake' = "done" /\ outcomes' = outcomes + 1 /\ pc' = "complete"
    /\ UNCHANGED <<closed, reading, reg, ret, flights, peerFlight, outVars, inVars,
                   peerVars, renego, room, written, ends>>

(* It wants the socket to be readable or writable. *)
HandshakeWants ==
    /\ pc = "handshake" /\ flights < Len(Flights) /\ ~reset /\ ~CanFlight
    /\ Want = "R" => ~fin
    /\ WatchForSsl(Want)
    /\ pc' = "idle"
    /\ UNCHANGED <<closed, reading, ret, hsVars, outVars, inVars, peerVars, renego,
                   room, written, ends>>

(* It fails: close() before the error callback runs. *)
HandshakeFails ==
    /\ pc = "handshake" /\ flights < Len(Flights)
    /\ reset \/ (fin /\ Want = "R" /\ ~CanFlight)
    /\ CloseSocket
    /\ outcomes' = outcomes + 1 /\ pc' = "idle"
    /\ UNCHANGED <<reading, ret, handshake, flights, peerFlight, outVars, inVars,
                   peerVars, renego, room, written, ends>>

-----------------------------------------------------------------------------
(* The owner. *)

OwnerActs == pc \in {"idle", "complete", "data"}

StartRead ==
    /\ OwnerActs /\ ~closed /\ handshake = "done" /\ ~reading
    /\ reading' = TRUE /\ reg' = {"R"}
    /\ UNCHANGED <<closed, pc, ret, hsVars, outVars, inVars, peerVars, renego, room,
                   written, ends>>

(* write(): the data joins the last slice, if that has room, or comes in     *)
(* slices of its own; then doWrite().                                        *)
Write(n) ==
    /\ OwnerActs /\ ~closed /\ reading /\ written + n <= MaxWritten
    /\ written' = written + n
    /\ writeBuf' = writeBuf \o [i \in 1..n |-> written + i]
    /\ \/ slices' = Append(slices, n)
       \/ slices # <<>> /\ slices' = [slices EXCEPT ![Len(slices)] = @ + n]
    /\ pc' = "write" /\ ret' = pc
    /\ UNCHANGED <<closed, reading, reg, hsVars, retry, sent, inVars, peerVars, renego,
                   room, ends>>

Close ==
    /\ OwnerActs /\ ~closed
    /\ CloseSocket
    /\ UNCHANGED <<reading, pc, ret, hsVars, outVars, inVars, peerVars, renego, room,
                   written, ends>>

(* A callback returns: doRead() goes on reading, closed or not. *)
Return ==
    /\ \/ pc = "complete" /\ pc' = "idle"
       \/ pc = "data" /\ pc' = "read"
    /\ UNCHANGED <<closed, reading, reg, ret, hsVars, outVars, inVars, peerVars, renego,
                   room, written, ends>>

-----------------------------------------------------------------------------
(* The loop. *)

Readable == inq > 0 \/ fin \/ reset \/ peerFlight \/ renego \in {"asked", "answered"}
Ready == ("R" \in reg /\ Readable) \/ ("W" \in reg /\ (room > 0 \/ reset))

(* The rest of handleIo() after doRead(): doWrite() if anything is left. *)
ThenWrite == IF slices = <<>> THEN "idle" ELSE "write"

(* handleIo(), for a fresh event or a stale one: it looks at no event bit. *)
HandleIo ==
    /\ pc = "idle" /\ ~closed /\ reg # {}
    /\ IF handshake # "done" THEN pc' = "handshake" /\ UNCHANGED ret
       ELSE pc' = (IF reading THEN "read" ELSE ThenWrite) /\ ret' = "idle"
    /\ UNCHANGED <<closed, reading, reg, hsVars, outVars, inVars, peerVars, renego, room,
                   written, ends>>

(* SSL_read() returns a record; what OpenSSL holds is given out even after   *)
(* close().                                                                  *)
ReadData ==
    /\ pc = "read" /\ inq > 0
    /\ inq' = inq - 1 /\ delivered' = delivered + 1
    /\ pc' = "data"
    /\ UNCHANGED <<closed, reading, reg, ret, hsVars, outVars, peerVars, renego, room,
                   written, ends>>

(* SSL_read() answers the peer's new handshake, or takes the peer's answer. *)
ReadRenegotiates ==
    /\ pc = "read" /\ ~closed
    /\ \/ renego = "asked" /\ room > 0 /\ renego' = "ours" /\ room' = room - 1
       \/ renego = "answered" /\ renego' = "over" /\ UNCHANGED room
    /\ UNCHANGED <<closed, reading, reg, pc, ret, hsVars, outVars, inVars, peerVars,
                   written, ends>>

(* Mutant of ReadWantsRead: handleIo() returns after doRead(). *)
ReadWantsReadOnly ==
    /\ pc = "read" /\ ~closed /\ inq = 0 /\ ~fin /\ ~reset
    /\ renego \notin {"asked", "answered"}
    /\ pc' = "idle" /\ ret' = "idle"
    /\ UNCHANGED <<closed, reading, reg, hsVars, outVars, inVars, peerVars, renego, room,
                   written, ends>>

(* SSL_ERROR_WANT_READ: doRead() returns, handleIo() goes on to doWrite(). *)
ReadWantsRead ==
    /\ pc = "read" /\ ~closed /\ inq = 0 /\ ~fin /\ ~reset
    /\ renego \notin {"asked", "answered"}
    /\ pc' = ThenWrite /\ ret' = "idle"
    /\ UNCHANGED <<closed, reading, reg, hsVars, outVars, inVars, peerVars, renego, room,
                   written, ends>>

(* Mutant of ReadEnds: onClose_ is called and the connection stays open. *)
ReadEndsOpen ==
    /\ pc = "read"
    /\ closed \/ (fin /\ inq = 0) \/ reset \/ (renego = "asked" /\ room = 0)
    /\ ends' = ends + 1 /\ pc' = "idle"
    /\ UNCHANGED <<closed, reg, reading, ret, hsVars, outVars, inVars, peerVars, renego,
                   room, written>>

(* Anything else ends the connection: close(), then onClose_ or onErrorCb_.  *)
(* The peer's end, a reset, a socket closed by the callback, and also        *)
(* SSL_ERROR_WANT_WRITE, when the answer to a new handshake does not fit.    *)
ReadEnds ==
    /\ pc = "read"
    /\ closed \/ (fin /\ inq = 0) \/ reset \/ (renego = "asked" /\ room = 0)
    /\ CloseSocket
    /\ ends' = ends + 1 /\ pc' = "idle"
    /\ UNCHANGED <<reading, ret, hsVars, outVars, inVars, peerVars, renego, room,
                   written>>

(* Mutant of WriteSlice: drain() of one byte more than was taken. *)
WriteSliceMore ==
    /\ pc = "write" /\ ~closed /\ slices # <<>> /\ ~reset /\ room > 0 /\ renego # "ours"
    /\ sent' = sent \o SubSeq(writeBuf, 1, Head(slices))
    /\ writeBuf' = SubSeq(writeBuf, Head(slices) + 2, Len(writeBuf))
    /\ slices' = Tail(slices) /\ retry' = 0 /\ room' = room - 1
    /\ renego' = IF renego = "answered" THEN "over" ELSE renego
    /\ UNCHANGED <<closed, reading, reg, pc, ret, hsVars, inVars, peerVars, written, ends>>

(* SSL_write() takes the front slice, which is drained. *)
WriteSlice ==
    /\ pc = "write" /\ ~closed /\ slices # <<>> /\ ~reset /\ room > 0 /\ renego # "ours"
    /\ sent' = sent \o SubSeq(writeBuf, 1, Head(slices))
    /\ writeBuf' = SubSeq(writeBuf, Head(slices) + 1, Len(writeBuf))
    /\ slices' = Tail(slices) /\ retry' = 0 /\ room' = room - 1
    /\ renego' = IF renego = "answered" THEN "over" ELSE renego
    /\ UNCHANGED <<closed, reading, reg, pc, ret, hsVars, inVars, peerVars, written, ends>>

(* What SSL_write() wants: writability, or the peer's part of a handshake. *)
WriteWant == IF renego = "ours" THEN "R" ELSE "W"

(* Mutant of WriteWants: the slice is drained although it has to be repeated. *)
WriteWantsDrains ==
    /\ pc = "write" /\ ~closed /\ slices # <<>> /\ ~reset /\ (room = 0 \/ renego = "ours")
    /\ WatchForSsl(WriteWant)
    /\ retry' = Head(slices) /\ pc' = ret
    /\ writeBuf' = SubSeq(writeBuf, Head(slices) + 1, Len(writeBuf))
    /\ slices' = Tail(slices)
    /\ UNCHANGED <<closed, reading, ret, hsVars, sent, inVars, peerVars, renego, room,
                   written, ends>>

WriteWants ==
    /\ pc = "write" /\ ~closed /\ slices # <<>> /\ ~reset /\ (room = 0 \/ renego = "ours")
    /\ WatchForSsl(WriteWant)
    /\ retry' = Head(slices) /\ pc' = ret
    /\ UNCHANGED <<closed, reading, ret, hsVars, writeBuf, slices, sent, inVars, peerVars,
                   renego, room, written, ends>>

WriteFails ==
    /\ pc = "write" /\ ~closed /\ slices # <<>> /\ reset
    /\ CloseSocket
    /\ ends' = ends + 1 /\ pc' = ret
    /\ UNCHANGED <<reading, ret, hsVars, outVars, inVars, peerVars, renego, room, written>>

(* All is written: only readability is watched, unless nobody reads. *)
WriteDone ==
    /\ pc = "write" /\ (closed \/ slices = <<>>)
    /\ reg' = IF closed \/ ~reading THEN reg ELSE {"R"}
    /\ pc' = ret
    /\ UNCHANGED <<closed, reading, ret, hsVars, outVars, inVars, peerVars, renego, room,
                   written, ends>>

-----------------------------------------------------------------------------
(* The peer. *)

(* It sends its next handshake message once it has got ours. *)
PeerFlight ==
    /\ ~fin /\ ~reset /\ ~peerFlight /\ flights < Len(Flights) /\ Want = "R"
    /\ peerFlight' = TRUE
    /\ UNCHANGED <<closed, reading, reg, pc, ret, handshake, flights, outcomes, outVars,
                   inVars, peerVars, renego, room, written, ends>>

PeerSend ==
    /\ ~fin /\ ~reset /\ flights = Len(Flights) /\ received < MaxReceived
    /\ received' = received + 1 /\ inq' = inq + 1
    /\ UNCHANGED <<closed, reading, reg, pc, ret, hsVars, outVars, delivered, isServer, fin,
                   reset, renego, room, written, ends>>

(* It starts another handshake, and answers ours. *)
PeerRenegotiates ==
    /\ Renegotiates /\ ~fin /\ ~reset /\ handshake = "done" /\ renego = "no"
    /\ renego' = "asked"
    /\ UNCHANGED <<closed, reading, reg, pc, ret, hsVars, outVars, inVars, peerVars, room,
                   written, ends>>

PeerAnswers ==
    /\ ~fin /\ ~reset /\ renego = "ours"
    /\ renego' = "answered"
    /\ UNCHANGED <<closed, reading, reg, pc, ret, hsVars, outVars, inVars, peerVars, room,
                   written, ends>>

PeerEnds ==
    /\ \/ ~fin /\ fin' = TRUE /\ UNCHANGED reset
       \/ ~reset /\ reset' = TRUE /\ UNCHANGED fin
    /\ UNCHANGED <<closed, reading, reg, pc, ret, hsVars, outVars, inVars, isServer,
                   received, renego, room, written, ends>>

PeerReads ==
    /\ room < SendRoom
    /\ room' = SendRoom
    /\ UNCHANGED <<closed, reading, reg, pc, ret, hsVars, outVars, inVars, peerVars,
                   renego, written, ends>>

-----------------------------------------------------------------------------
Handler ==
    \/ Flight \/ HandshakeDone \/ HandshakeWants \/ HandshakeFails
    \/ ReadData \/ ReadRenegotiates \/ ReadWantsRead \/ ReadEnds
    \/ WriteSlice \/ WriteWants \/ WriteFails \/ WriteDone
    \/ Return

Next ==
    \/ StartHandshake \/ StartRead \/ Close \/ HandleIo
    \/ \E n \in 1..MaxChunk : Write(n)
    \/ Handler
    \/ PeerFlight \/ PeerSend \/ PeerRenegotiates \/ PeerAnswers \/ PeerEnds \/ PeerReads

Spec == Init /\ [][Next]_vars

(* The loop reports what is ready, handlers and callbacks finish, and a peer *)
(* that has not ended answers handshakes and keeps reading.                  *)
FairSpec ==
    /\ Spec
    /\ WF_vars(Ready /\ HandleIo) /\ WF_vars(Handler)
    /\ WF_vars(PeerFlight) /\ WF_vars(PeerAnswers) /\ WF_vars(PeerReads)

-----------------------------------------------------------------------------
(* Domains of the variables of a TLS connection. *)
TypeOK ==
    /\ isServer \in BOOLEAN /\ closed \in BOOLEAN /\ reading \in BOOLEAN
    /\ handshake \in {"new", "going", "done"} /\ flights \in 0..Len(Flights)
    /\ peerFlight \in BOOLEAN /\ fin \in BOOLEAN /\ reset \in BOOLEAN
    /\ writeBuf \in Seq(Nat) /\ slices \in Seq(Nat \ {0}) /\ sent \in Seq(Nat)
    /\ reg \in SUBSET {"R", "W"}
    /\ pc \in {"idle", "handshake", "complete", "read", "data", "write"}
    /\ ret \in {"idle", "complete", "data"}
    /\ renego \in {"no", "asked", "ours", "answered", "over"}
    /\ retry \in Nat /\ room \in 0..SendRoom /\ inq \in Nat /\ received \in Nat
    /\ written \in 0..MaxWritten /\ delivered \in Nat /\ outcomes \in Nat /\ ends \in Nat

(* Whatever OpenSSL waits for is watched: between two handlers the loop      *)
(* watches what the handshake wants, readability while reading, and what the *)
(* last SSL_write() wanted while data is left; and nothing once closed.  The *)
(* domains of the variables are part of it.                                  *)
NeedsWatched ==
    /\ TypeOK
    /\ closed => reg = {}
    /\ ~closed /\ pc = "idle" =>
           /\ handshake = "going" => Want \in reg
           /\ reading => "R" \in reg
           /\ slices # <<>> => (IF renego \in {"ours", "answered"} THEN "R" ELSE "W") \in reg

(* The handshake has one outcome, told once; onClose_ and onErrorCb_ are only *)
(* called on a closed connection that had it, and at most twice: doRead()    *)
(* goes on after a callback whose write failed or that closed the connection *)
(* and runs into the closed socket, but only once.                           *)
ToldOnce ==
    /\ outcomes <= 1 /\ (outcomes = 1 => closed \/ handshake = "done")
    /\ ends <= 2 /\ (ends > 0 => closed)
    /\ ends + delivered > 0 => handshake = "done"

(* An SSL_write() that has to be repeated is repeated with the same bytes    *)
(* and at least the same length, as OpenSSL demands: data written meanwhile  *)
(* may lengthen the front slice and nothing else.                            *)
RetryIntact ==
    retry > 0 => slices # <<>> /\ Head(slices) >= retry /\ Head(writeBuf) = Len(sent) + 1

(* Nothing stalls, whatever OpenSSL wanted in between: a handshake ends,     *)
(* data written is flushed and data received is delivered, unless the        *)
(* connection is closed.                                                     *)
DataMoves ==
    /\ (handshake = "going") ~> (outcomes = 1 \/ closed)
    /\ (slices # <<>>) ~> (slices = <<>> \/ closed)
    /\ (inq > 0 /\ reading) ~> (inq = 0 \/ closed)

(* Like the plain one, the connection implements a byte stream for the data  *)
(* written to it.                                                            *)
Accepted == [i \in 1..written |-> i]
Chunks == UNION {{[i \in 1..n |-> w + i] : w \in 0..MaxWritten} : n \in 0..MaxChunk}
Stream == INSTANCE ByteStream WITH
    open <- ~closed, accepted <- Accepted, held <- writeBuf, out <- sent
StreamSpec == Stream!Spec

(* TlsConnection.hpp: "SSL_do_handshake(), SSL_read(), and SSL_write() may   *)
(* return SSL_ERROR_WANT_READ or SSL_ERROR_WANT_WRITE [...] we register the  *)
(* appropriate event (readable or writable) with the EventLoop and retry     *)
(* when it fires."  What OpenSSL wants never ends a connection.              *)
WantIsRetried == [][ends' # ends => fin \/ reset \/ closed]_vars
=============================================================================
