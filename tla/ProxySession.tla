---------------------------- MODULE ProxySession ----------------------------
(***************************************************************************)
(* One proxied client connection (ProxySession): plain HTTP forwarding,    *)
(* the opaque CONNECT tunnel, and the CONNECT tunnel with TLS              *)
(* interception ("MITM").                                                  *)
(*                                                                         *)
(* All handlers run on the event loop's thread, so each is one step; what  *)
(* interleaves is the order in which the loop reports the client, the      *)
(* upstream, the connect in progress and the handshakes.  A codec callback *)
(* (head, body part, end of a message) is one step: the network may cut    *)
(* the byte stream between any two.  Messages are sequences of parts       *)
(* <<kind, request, index>>; one request is a number, in the order sent.   *)
(*                                                                         *)
(* A connection (Connection, TlsConnection) is its state and the data it   *)
(* buffers.  A send() may fail within a callback of a codec: onError then  *)
(* closes the session, and the decode() that called goes on with the rest  *)
(* of its bytes (decoding).  In a handler that no codec calls, none of     *)
(* which looks at the outcome of a write, a send() that fails is the       *)
(* failure event of that connection right after the handler.               *)
(***************************************************************************)
EXTENDS Integers, Sequences

CONSTANTS
    MaxRequests,        \* bound: requests the client makes
    MaxBody,            \* bound: body parts of one message, bytes one way in a tunnel
    RequestParts,       \* bound: body parts of each request
    ResponseParts,      \* bound: body parts of the response to each request
    MaxPart,            \* bound: body parts given by one onBody
    MaxInspect,         \* kMaxInspectBytes, in parts
    PayloadInspector    \* whether payloadInspector_ is set

ASSUME ProxySessionAssumption ==
    /\ MaxRequests \in Nat /\ MaxBody \in Nat /\ MaxPart \in Nat
    /\ RequestParts \in [1..MaxRequests -> 0..MaxBody]
    /\ ResponseParts \in [1..MaxRequests -> 0..MaxBody]
    /\ MaxInspect \in Nat
    /\ PayloadInspector \in BOOLEAN

VARIABLES
    certGen,       \* certGen_ is set
    closed, isConnect, isTunnel, isTlsMitm,
    client, upstream, tlsClient, tlsUpstream,   \* the connections
    reading,       \* client_ is reading
    connecting,    \* connectingSocket_: "none", "watched", or "idle" (failed)
    req,           \* currentRequest_
    pendingBody,
    decoding,      \* the codec in whose decode() the session was closed, until it returns
    toClient, toUpstream,   \* data buffered by the current connections
    inMessage,     \* upstreamCodec_ is inside a response
    framed,        \* ... whose end the parser can see
    responseBody,
    upRefs, clRefs,     \* references to upstreamCtx and clientCtx held here
    (* What the peers did and saw. *)
    asked,         \* parts of the client's requests, but for the heads of refused ones
    refused,       \* the last request was answered by a 502
    clientGot, upGot,   \* parts received by the client and the current upstream
    linkOk,        \* the current upstream socket is really connected
    upReq,         \* the request the current upstream connection was made for
    answered,      \* responses completed
    part,          \* body parts of the response being parsed
    inspected,     \* calls of payloadInspector_
    pipelined,     \* a request was sent before the answer to the last one
    ending         \* why the session was closed

sessionVars == <<certGen, isConnect, isTunnel, isTlsMitm, req, pendingBody>>
connVars == <<client, upstream, tlsClient, tlsUpstream, connecting, closed, ending,
              decoding>>
parseVars == <<inMessage, framed, responseBody, part, inspected>>
responseVars == <<parseVars, answered>>
ctxVars == <<upRefs, clRefs>>
peerVars == <<linkOk, upReq>>
waitVars == <<refused, pipelined>>
vars == <<sessionVars, connVars, reading, toClient, toUpstream, responseVars,
          ctxVars, asked, clientGot, upGot, peerVars, waitVars>>

ReqHead(r) == <<"req", r, 0>>
Established == <<"200", 0, 0>>
BadGateway(r) == <<"502", r, 0>>
BadRequest == <<"400", 0, 0>>
Raw(i) == <<"raw", 0, i>>
IsIn(x, s) == \E i \in 1..Len(s) : s[i] = x

(* The constructor: the client's socket, wrapped, not yet read. *)
Init ==
    /\ certGen \in BOOLEAN
    /\ closed = FALSE /\ isConnect = FALSE /\ isTunnel = FALSE /\ isTlsMitm = FALSE
    /\ client = "open" /\ reading = FALSE
    /\ upstream = "none" /\ tlsClient = "none" /\ tlsUpstream = "none"
    /\ connecting = "none"
    /\ req = 0 /\ pendingBody = <<>> /\ toClient = <<>> /\ toUpstream = <<>>
    /\ inMessage = FALSE /\ framed = FALSE /\ responseBody = <<>>
    /\ upRefs = 0 /\ clRefs = 0
    /\ asked = <<>> /\ clientGot = <<>> /\ upGot = <<>>
    /\ linkOk = FALSE /\ upReq = 0 /\ answered = 0 /\ part = 0
    /\ inspected = <<>> /\ pipelined = FALSE /\ refused = FALSE
    /\ ending = "none" /\ decoding = "none"

Start ==
    /\ ~closed /\ ~reading /\ client = "open" /\ ~isTlsMitm
    /\ reading' = TRUE
    /\ UNCHANGED <<sessionVars, connVars, toClient, toUpstream, responseVars,
                   ctxVars, asked, clientGot, upGot, peerVars, waitVars>>

-----------------------------------------------------------------------------
(* close() and writing. *)

CloseConn(c) == IF c = "none" THEN "none" ELSE "closed"

(* Mutant of CloseAll: the connecting socket is forgotten. *)
CloseConnections(why, codec) ==
    /\ closed' = TRUE /\ decoding' \in {"none", codec}
    /\ client' = CloseConn(client) /\ upstream' = CloseConn(upstream)
    /\ tlsClient' = CloseConn(tlsClient) /\ tlsUpstream' = CloseConn(tlsUpstream)
    /\ ending' = why
    /\ UNCHANGED connecting

(* close(): every connection and the connecting socket; why is a note.  The  *)
(* codec that called, if any, may have bytes left.                           *)
CloseAll(why, codec) ==
    /\ closed' = TRUE /\ decoding' \in {"none", codec}
    /\ connecting' = "none"
    /\ client' = CloseConn(client) /\ upstream' = CloseConn(upstream)
    /\ tlsClient' = CloseConn(tlsClient) /\ tlsUpstream' = CloseConn(tlsUpstream)
    /\ ending' = why

(* Where writeToClient() and writeToUpstream() can write. *)
ClientOpen == IF isTlsMitm /\ tlsClient # "none" THEN tlsClient = "open"
                                                 ELSE client = "open"
UpstreamOpen == IF isTlsMitm /\ tlsUpstream # "none" THEN tlsUpstream = "open"
                                                     ELSE upstream = "open"

(* onError of a plain connection whose send() failed, in a callback of codec *)
(* ("none": of the loop).                                                    *)
WriteFails(codec) == CloseAll(IF codec = "none" THEN "refused" ELSE "write", codec)

(* What becomes of the session when codec's callback writes to conn. *)
Written(conn, codec) == UNCHANGED connVars \/ (conn = "open" /\ WriteFails(codec))

WriteToClient(ps) == toClient' = IF ClientOpen THEN toClient \o ps ELSE toClient
WriteToUpstream(ps) ==
    toUpstream' = IF UpstreamOpen THEN toUpstream \o ps ELSE toUpstream

(* Mutant of WriteEstablished: no immediate flush. *)
BufferEstablished == toClient' = Append(toClient, Established) /\ UNCHANGED clientGot

(* The 200: a socket with nothing pending takes these few bytes at once. *)
WriteEstablished ==
    IF toClient = <<>>
    THEN clientGot' = Append(clientGot, Established) /\ UNCHANGED toClient
    ELSE toClient' = Append(toClient, Established) /\ UNCHANGED clientGot

(* The loop flushes what is buffered. *)
FlushClient ==
    /\ ~closed /\ ClientOpen /\ toClient # <<>>
    /\ clientGot' = Append(clientGot, Head(toClient))
    /\ toClient' = Tail(toClient)
    /\ UNCHANGED <<sessionVars, connVars, reading, toUpstream, responseVars, ctxVars,
                   asked, upGot, peerVars, waitVars>>

FlushUpstream ==
    /\ ~closed /\ UpstreamOpen /\ linkOk /\ toUpstream # <<>>
    /\ upGot' = Append(upGot, Head(toUpstream))
    /\ toUpstream' = Tail(toUpstream)
    /\ UNCHANGED <<sessionVars, connVars, reading, toClient, responseVars, ctxVars,
                   asked, clientGot, peerVars, waitVars>>

-----------------------------------------------------------------------------
(* The upstream connection. *)

(* forwardRequest() on a plain upstream; without a connection (a connect     *)
(* that failed, or a reset) the write of the head fails, and onError closes  *)
(* the session.                                                              *)
ForwardRequest(r, ok, codec) ==
    /\ IF ok
       THEN /\ upstream' = "open"
            /\ toUpstream' = <<ReqHead(r)>> \o pendingBody
            /\ pendingBody' = <<>>
            /\ connecting' = "none"
            /\ UNCHANGED <<client, tlsClient, tlsUpstream, closed, ending, decoding>>
       ELSE /\ WriteFails(codec)
            /\ toUpstream' = <<>>
            /\ UNCHANGED pendingBody
    /\ UNCHANGED <<isTunnel, isTlsMitm, reading, toClient, clientGot, ctxVars>>

(* startTunnel() without a CertGenerator: the opaque tunnel. *)
StartTunnel ==
    /\ isTunnel' = TRUE
    /\ upstream' = "open" /\ connecting' = "none" /\ toUpstream' = <<>>
    /\ WriteEstablished
    /\ UNCHANGED <<client, tlsClient, tlsUpstream, closed, ending, decoding, isTlsMitm,
                   pendingBody, reading, ctxVars>>

(* startTlsMitm(): the socket leaves the Connection for a TlsConnection. *)
StartTlsMitm ==
    /\ isTlsMitm' = TRUE
    /\ upstream' = "none" /\ tlsUpstream' = "handshake" /\ connecting' = "none"
    /\ toUpstream' = <<>>
    /\ WriteEstablished
    /\ reading' = FALSE
    /\ upRefs' = upRefs + 1
    /\ UNCHANGED <<client, tlsClient, closed, ending, decoding, isTunnel, pendingBody, clRefs>>

(* onUpstreamConnected() of a session that is open, for request r; an        *)
(* earlier upstream_ is destroyed.  ok: whether the socket is really         *)
(* connected, which the code does not check.                                 *)
OnUpstreamConnected(r, connect, ok, codec) ==
    /\ ~closed
    /\ linkOk' = ok /\ upReq' = r /\ upGot' = <<>>
    /\ answered' = IF connect THEN r ELSE answered     \* by the 200
    /\ IF ~connect THEN ForwardRequest(r, ok, codec)
       ELSE IF certGen THEN StartTlsMitm ELSE StartTunnel

(* connectUpstream() fails at once: 502, and the session stays as it is      *)
(* unless that cannot be sent.                                               *)
ConnectFails(r, sock) ==
    /\ refused' = TRUE
    /\ WriteToClient(<<BadGateway(r)>>)
    /\ \/ /\ connecting' = sock
          /\ UNCHANGED <<client, upstream, tlsClient, tlsUpstream, closed, ending, decoding>>
       \/ client = "open" /\ WriteFails("client")
    /\ UNCHANGED <<isTunnel, isTlsMitm, pendingBody, reading, toUpstream, clientGot, upGot,
                   ctxVars, peerVars, answered>>

(* Mutant of ConnectWaits: the connecting socket is not watched. *)
ConnectUnwatched ==
    /\ connecting' = "idle" /\ refused' = FALSE
    /\ UNCHANGED <<client, upstream, tlsClient, tlsUpstream, closed, ending, decoding,
                   isTunnel, isTlsMitm, pendingBody, reading, toClient, toUpstream,
                   clientGot, upGot, ctxVars, peerVars, answered>>

ConnectWaits ==
    /\ connecting' = "watched" /\ refused' = FALSE
    /\ UNCHANGED <<client, upstream, tlsClient, tlsUpstream, closed, ending, decoding,
                   isTunnel, isTlsMitm, pendingBody, reading, toClient, toUpstream,
                   clientGot, upGot, ctxVars, peerVars, answered>>

(* connect() succeeds at once, in a session that is closed: the socket is    *)
(* left in connectingSocket_.                                                *)
ConnectLeft ==
    /\ closed
    /\ connecting' = "idle" /\ refused' = FALSE
    /\ UNCHANGED <<client, upstream, tlsClient, tlsUpstream, closed, ending, decoding,
                   isTunnel, isTlsMitm, pendingBody, reading, toClient, toUpstream,
                   clientGot, upGot, ctxVars, peerVars, answered>>

(* connectUpstream(): no socket, connect() fails, succeeds, or is in         *)
(* progress.  A head written to a socket just connected may fail all the     *)
(* same; closed_ is looked at only when the socket is connected.             *)
ConnectUpstream(r, connect) ==
    \/ ConnectFails(r, connecting)
    \/ ConnectFails(r, "idle")
    \/ /\ refused' = FALSE
       /\ \E ok \in BOOLEAN : (connect => ok) /\ OnUpstreamConnected(r, connect, ok, "client")
    \/ ConnectLeft
    \/ ConnectWaits

(* The event of the connecting socket, which reports failure as well. *)
ConnectEvent ==
    /\ connecting = "watched"
    /\ \E ok \in BOOLEAN : OnUpstreamConnected(req, isConnect, ok, "none")
    /\ UNCHANGED <<certGen, isConnect, req, parseVars, asked, waitVars>>

(* ... in a session that is closed: the socket is unregistered and left. *)
ConnectEventClosed ==
    /\ closed /\ decoding = "none" /\ connecting = "watched"
    /\ connecting' = "idle"
    /\ UNCHANGED <<client, upstream, tlsClient, tlsUpstream, closed, ending, decoding,
                   sessionVars, reading, toClient, toUpstream, responseVars, ctxVars, asked,
                   clientGot, upGot, peerVars, waitVars>>

-----------------------------------------------------------------------------
(* The client. *)

(* The client's codec parses what the client sends, and what is left in the  *)
(* decode() in which the session was closed; after a CONNECT it only         *)
(* swallows it until the mode changes.                                       *)
ClientParsed ==
    \/ /\ ~closed
       /\ IF isTlsMitm THEN tlsClient = "open"
                       ELSE client = "open" /\ reading /\ ~isConnect
    \/ decoding = "client" /\ ~isConnect

DecodeEnds ==
    /\ decoding # "none"
    /\ decoding' = "none"
    /\ UNCHANGED <<client, upstream, tlsClient, tlsUpstream, connecting, closed, ending,
                   sessionVars, reading, toClient, toUpstream, responseVars, ctxVars, asked,
                   clientGot, upGot, peerVars, waitVars>>

(* The last request is answered: its response was parsed to the end, or its  *)
(* 502 has gone out.                                                         *)
LastAnswered == req = answered \/ (refused /\ toClient = <<>>)

(* onRequest(): CONNECT, or forward it on the TLS connection, or connect. *)
OnRequest ==
    /\ ClientParsed /\ req < MaxRequests
    /\ req' = req + 1
    /\ pipelined' = (pipelined \/ ~LastAnswered)
    /\ \/ /\ ~isTlsMitm
          /\ isConnect' = TRUE
          /\ UNCHANGED asked
          /\ ConnectUpstream(req', TRUE)
       \/ /\ ~isTlsMitm
          /\ ConnectUpstream(req', FALSE)
          /\ asked' = IF refused' THEN asked ELSE Append(asked, ReqHead(req'))
          /\ UNCHANGED isConnect
       \/ /\ isTlsMitm
          /\ asked' = Append(asked, ReqHead(req'))
          /\ WriteToUpstream(<<ReqHead(req')>> \o pendingBody)
          /\ pendingBody' = IF UpstreamOpen THEN <<>> ELSE pendingBody
          /\ UNCHANGED <<isConnect, connVars, isTunnel, isTlsMitm, reading, toClient,
                         refused, clientGot, upGot, ctxVars, peerVars, answered>>
    /\ UNCHANGED <<certGen, parseVars>>

BodyPart(i) == <<"rbody", req, i>>
BodyParts == {i \in 1..MaxBody : IsIn(BodyPart(i), asked)}

(* The codec is in a message with a body. *)
InRequest == req > 0 /\ (isTlsMitm => IsIn(ReqHead(req), asked))

(* Mutant of OnRequestBody: the body overtakes what is pending. *)
OnRequestBodyUnqueued ==
    /\ ClientParsed /\ InRequest
    /\ \E i \in 1..RequestParts[req] :
         /\ BodyParts = 1..(i - 1)
         /\ asked' = Append(asked, BodyPart(i))
         /\ WriteToUpstream(<<BodyPart(i)>>)
    /\ UNCHANGED <<sessionVars, connVars, reading, toClient, responseVars, ctxVars,
                   clientGot, upGot, peerVars, waitVars>>

(* onRequestBody(): to the upstream, or kept until there is one. *)
OnRequestBody ==
    /\ ClientParsed /\ InRequest
    /\ \E i \in 1..RequestParts[req] :
         /\ BodyParts = 1..(i - 1)
         /\ asked' = Append(asked, BodyPart(i))
         /\ LET body == Append(pendingBody, BodyPart(i))
            IN  /\ WriteToUpstream(body)
                /\ pendingBody' = IF UpstreamOpen THEN <<>> ELSE body
    /\ Written(upstream, "client")
    /\ UNCHANGED <<certGen, isConnect, isTunnel, isTlsMitm, req, reading, toClient,
                   responseVars, ctxVars, clientGot, upGot, peerVars, waitVars>>

(* onClientData(): a parse error is answered by 400 (only a plain client)    *)
(* and the session is closed, after what write() flushed at once.            *)
ClientParseError ==
    /\ ~closed /\ ClientParsed
    /\ LET buffered == IF isTlsMitm THEN <<>> ELSE Append(toClient, BadRequest)
       IN  \E n \in 0..Len(buffered) :
             /\ clientGot' = clientGot \o SubSeq(buffered, 1, n)
             /\ toClient' = SubSeq(buffered, n + 1, Len(buffered))
    /\ CloseAll("client", "none")
    /\ UNCHANGED <<sessionVars, reading, toUpstream, responseVars, ctxVars, asked,
                   upGot, peerVars, waitVars>>

(* onClientData() in a tunnel. *)
TunnelFromClient ==
    /\ ~closed /\ isTunnel /\ client = "open" /\ reading
    /\ \E i \in 1..MaxBody :
         /\ {j \in 1..MaxBody : IsIn(Raw(j), asked)} = 1..(i - 1)
         /\ asked' = Append(asked, Raw(i))
         /\ WriteToUpstream(<<Raw(i)>>)
    /\ UNCHANGED <<sessionVars, connVars, reading, toClient, responseVars, ctxVars,
                   clientGot, upGot, peerVars, waitVars>>

(* The client ends or fails: onClientClose(), onError.  A client that is not *)
(* read is still noticed while data is pending for it.                       *)
ClientEnds ==
    /\ ~closed /\ client = "open" /\ (reading \/ toClient # <<>>)
    /\ CloseAll("client", "none")
    /\ UNCHANGED <<sessionVars, reading, toClient, toUpstream, responseVars,
                   ctxVars, asked, clientGot, upGot, peerVars, waitVars>>

-----------------------------------------------------------------------------
(* The upstream's responses. *)

(* The upstream's codec parses what the upstream sends, and what is left in  *)
(* the decode() in which the session was closed.                             *)
UpstreamParsed ==
    \/ /\ ~closed /\ linkOk
       /\ IF isTlsMitm THEN tlsUpstream = "open" ELSE upstream = "open" /\ ~isTunnel
    \/ decoding = "upstream"

(* The request being answered: on a TLS connection, one after the other. *)
Responding == IF isTlsMitm THEN answered + 1 ELSE upReq

(* onResponse(): a response begins; without a length and not chunked, the    *)
(* parser will not see its end.                                              *)
OnResponse ==
    /\ UpstreamParsed /\ ~inMessage /\ IsIn(ReqHead(Responding), upGot)
    /\ inMessage' = TRUE /\ framed' \in BOOLEAN /\ part' = 0
    /\ WriteToClient(<<<<"head", Responding, 0>>>>)
    /\ Written(client, "upstream")
    /\ UNCHANGED <<sessionVars, reading, toUpstream, responseBody, answered,
                   inspected, ctxVars, asked, clientGot, upGot, peerVars, waitVars>>

(* onResponseBody() with n more parts: kept for the inspector unless the cap *)
(* is reached already, and passed on.                                        *)
OnResponseBody(n) ==
    LET body == [i \in 1..n |-> <<"body", Responding, part + i>>]
    IN  /\ UpstreamParsed /\ inMessage /\ part + n <= ResponseParts[Responding]
        /\ part' = part + n
        /\ responseBody' = IF PayloadInspector /\ Len(responseBody) < MaxInspect
                           THEN responseBody \o body ELSE responseBody
        /\ WriteToClient(body)
        /\ Written(client, "upstream")
        /\ UNCHANGED <<sessionVars, reading, toUpstream, inMessage, framed,
                       answered, inspected, ctxVars, asked, clientGot, upGot, peerVars,
                       waitVars>>

(* Mutant of ResetBodies: the response body is kept. *)
KeepResponseBody == pendingBody' = <<>> /\ UNCHANGED responseBody

ResetBodies == pendingBody' = <<>> /\ responseBody' = <<>>

(* onResponseComplete(): inspect, reset, and close unless intercepting; an   *)
(* upstream sends one response to a request, so this ends its decode().      *)
OnResponseComplete ==
    /\ UpstreamParsed /\ inMessage /\ framed
    /\ inMessage' = FALSE
    /\ answered' = Responding
    /\ inspected' = IF PayloadInspector /\ responseBody # <<>>
                    THEN Append(inspected, [url |-> req, body |-> responseBody,
                                            of |-> Responding, parts |-> part])
                    ELSE inspected
    /\ ResetBodies
    /\ IF isTlsMitm THEN UNCHANGED connVars
       ELSE IF closed THEN /\ decoding' = "none"
                           /\ UNCHANGED <<client, upstream, tlsClient, tlsUpstream, connecting,
                                          closed, ending>>
       ELSE CloseAll("complete", "none")
    /\ UNCHANGED <<certGen, isConnect, isTunnel, isTlsMitm, req, reading, toClient,
                   toUpstream, framed, part, ctxVars, asked, clientGot, upGot,
                   peerVars, waitVars>>

(* The upstream's bytes do not parse. *)
UpstreamParseError ==
    /\ ~closed /\ UpstreamParsed
    /\ CloseAll("upstream", "none")
    /\ UNCHANGED <<sessionVars, reading, toClient, toUpstream, responseVars,
                   ctxVars, asked, clientGot, upGot, peerVars, waitVars>>

(* onUpstreamData() in a tunnel. *)
TunnelFromUpstream ==
    /\ ~closed /\ isTunnel /\ upstream = "open" /\ linkOk
    /\ part < MaxBody
    /\ part' = part + 1
    /\ WriteToClient(<<Raw(part')>>)
    /\ UNCHANGED <<sessionVars, connVars, reading, toUpstream, inMessage, framed,
                   responseBody, answered, inspected, ctxVars, asked, clientGot, upGot,
                   peerVars, waitVars>>

(* The upstream ends (onUpstreamClose(); "eof") or fails (onError). *)
UpstreamEnds ==
    /\ ~closed /\ upstream = "open"
    /\ \/ linkOk /\ CloseAll("eof", "none")
       \/ CloseAll("upstream", "none")
    /\ UNCHANGED <<sessionVars, reading, toClient, toUpstream, responseVars,
                   ctxVars, asked, clientGot, upGot, peerVars, waitVars>>

-----------------------------------------------------------------------------
(* TLS interception. *)

(* The upstream handshake is done: forge a certificate, take the client's    *)
(* socket (its Connection's buffer is gone), start the client's handshake.   *)
UpstreamHandshakeDone ==
    /\ ~closed /\ tlsUpstream = "handshake" /\ linkOk
    /\ tlsUpstream' = "ready"
    /\ client' = "none" /\ toClient' = <<>>
    /\ tlsClient' = "handshake"
    /\ clRefs' = clRefs + 1
    /\ UNCHANGED <<sessionVars, upstream, connecting, closed, ending, decoding, reading,
                   toUpstream, responseVars, upRefs, asked, clientGot, upGot,
                   peerVars, waitVars>>

(* The upstream handshake fails, or no certificate can be made. *)
UpstreamHandshakeFails ==
    /\ ~closed /\ tlsUpstream = "handshake"
    /\ upRefs' = upRefs - 1
    /\ CloseAll("handshake", "none")
    /\ UNCHANGED <<sessionVars, reading, toClient, toUpstream, responseVars,
                   clRefs, asked, clientGot, upGot, peerVars, waitVars>>

(* The client handshake is done: fresh codecs, both sides are read. *)
ClientHandshakeDone ==
    /\ ~closed /\ tlsClient = "handshake"
    /\ tlsClient' = "open" /\ tlsUpstream' = "open"
    /\ inMessage' = FALSE
    /\ upRefs' = upRefs - 1 /\ clRefs' = clRefs - 1
    /\ UNCHANGED <<sessionVars, client, upstream, connecting, closed, ending, decoding, reading,
                   toClient, toUpstream, framed, responseBody, part, answered,
                   inspected, asked, clientGot, upGot, peerVars, waitVars>>

(* Mutant of ClientHandshakeFails: upstreamCtx is not freed. *)
ClientHandshakeFailsHalf ==
    /\ ~closed /\ tlsClient = "handshake"
    /\ clRefs' = clRefs - 1
    /\ CloseAll("handshake", "none")
    /\ UNCHANGED <<sessionVars, reading, toClient, toUpstream, responseVars, upRefs,
                   asked, clientGot, upGot, peerVars, waitVars>>

ClientHandshakeFails ==
    /\ ~closed /\ tlsClient = "handshake"
    /\ upRefs' = upRefs - 1 /\ clRefs' = clRefs - 1
    /\ CloseAll("handshake", "none")
    /\ UNCHANGED <<sessionVars, reading, toClient, toUpstream, responseVars,
                   asked, clientGot, upGot, peerVars, waitVars>>

(* A TLS peer ends: onClose closes the session. *)
TlsEnds ==
    /\ ~closed /\ (tlsClient = "open" \/ tlsUpstream = "open")
    /\ CloseAll("eof", "none")
    /\ UNCHANGED <<sessionVars, reading, toClient, toUpstream, responseVars,
                   ctxVars, asked, clientGot, upGot, peerVars, waitVars>>

(* SSL_read or SSL_write fails: the TlsConnection closes itself, and no      *)
(* onError was set.                                                          *)
TlsFails ==
    /\ ~closed
    /\ \/ tlsClient = "open" /\ tlsClient' = "closed" /\ UNCHANGED tlsUpstream
       \/ tlsUpstream = "open" /\ tlsUpstream' = "closed" /\ UNCHANGED tlsClient
    /\ UNCHANGED <<sessionVars, client, upstream, connecting, closed, ending, decoding, reading,
                   toClient, toUpstream, responseVars, ctxVars, asked, clientGot, upGot,
                   peerVars, waitVars>>

(* Server::run() closes the session once its loop has ended. *)
Close ==
    /\ ~closed
    /\ CloseAll("server", "none")
    /\ UNCHANGED <<sessionVars, reading, toClient, toUpstream, responseVars,
                   ctxVars, asked, clientGot, upGot, peerVars, waitVars>>

-----------------------------------------------------------------------------
Next ==
    \/ Start \/ Close
    \/ OnRequest \/ OnRequestBody \/ ClientParseError \/ ClientEnds
    \/ DecodeEnds
    \/ ConnectEvent \/ ConnectEventClosed
    \/ OnResponse \/ OnResponseComplete \/ UpstreamParseError \/ UpstreamEnds
    \/ \E n \in 1..MaxPart : OnResponseBody(n)
    \/ TunnelFromClient \/ TunnelFromUpstream
    \/ UpstreamHandshakeDone \/ UpstreamHandshakeFails
    \/ ClientHandshakeDone \/ ClientHandshakeFails \/ TlsEnds \/ TlsFails
    \/ FlushClient \/ FlushUpstream

Spec == Init /\ [][Next]_vars

(* The loop reports the outcome of a connect (TCP gives up eventually) and   *)
(* flushes buffers to peers that read.                                       *)
FairSpec ==
    Spec /\ WF_vars(ConnectEvent) /\ WF_vars(FlushClient) /\ WF_vars(FlushUpstream)

-----------------------------------------------------------------------------
Parts(kinds) == kinds \X (0..MaxRequests) \X (0..MaxBody)

(* Domains of the variables of a session. *)
TypeOK ==
    /\ certGen \in BOOLEAN /\ closed \in BOOLEAN /\ isConnect \in BOOLEAN
    /\ isTunnel \in BOOLEAN /\ isTlsMitm \in BOOLEAN /\ reading \in BOOLEAN
    /\ client \in {"none", "open", "closed"} /\ upstream \in {"none", "open", "closed"}
    /\ tlsClient \in {"none", "handshake", "open", "closed"}
    /\ tlsUpstream \in {"none", "handshake", "ready", "open", "closed"}
    /\ connecting \in {"none", "watched", "idle"}
    /\ req \in 0..MaxRequests /\ upReq \in 0..MaxRequests /\ answered \in 0..MaxRequests
    /\ asked \in Seq(Parts({"req", "rbody", "raw"}))
    /\ upGot \in Seq(Parts({"req", "rbody", "raw"}))
    /\ toUpstream \in Seq(Parts({"req", "rbody", "raw"}))
    /\ pendingBody \in Seq(Parts({"rbody"}))
    /\ toClient \in Seq(Parts({"head", "body", "raw", "200", "400", "502"}))
    /\ clientGot \in Seq(Parts({"head", "body", "raw", "200", "400", "502"}))
    /\ responseBody \in Seq(Parts({"body"}))
    /\ inMessage \in BOOLEAN /\ framed \in BOOLEAN /\ linkOk \in BOOLEAN
    /\ pipelined \in BOOLEAN /\ refused \in BOOLEAN /\ part \in 0..MaxBody
    /\ upRefs \in Int /\ clRefs \in Int
    /\ inspected \in Seq([url : 0..MaxRequests, body : Seq(Parts({"body"})),
                          of : 0..MaxRequests, parts : 0..MaxBody])
    /\ ending \in {"none", "client", "upstream", "eof", "complete", "refused",
                   "write", "handshake", "server"}
    /\ decoding \in {"none", "client", "upstream"}

(* A session ends as a whole: once closed it has no open connection and no   *)
(* handshake, and never again, whatever its codecs still parse; and no plain *)
(* connection is closed under a session that goes on.  A connecting socket   *)
(* goes with the session, but for one that a request left in the decode()    *)
(* starts after a failed write in it has closed the session (ClosedHolds):   *)
(* no other end leaves one.                                                  *)
AllOrNothing ==
    IF closed THEN /\ {client, upstream, tlsClient, tlsUpstream} \subseteq {"none", "closed"}
                   /\ connecting = "none" \/ ending = "write"
              ELSE client # "closed" /\ upstream # "closed"

(* When TLS takes over the client's socket, the client has been told 200 in  *)
(* the clear, nobody else reads the socket, and the upstream's handshake is  *)
(* behind us, so that its failure could still be seen by the client.         *)
SocketHandover ==
    tlsClient # "none" =>
        /\ client = "none" /\ upstream = "none" /\ ~reading
        /\ tlsUpstream \in {"ready", "open", "closed"}
        /\ ~pipelined => IsIn(Established, clientGot)

(* Each SSL_CTX made for an interception is released exactly once: held      *)
(* during the handshakes that need it, given up when they succeed and when   *)
(* one of them fails, never given up twice.  (A session closed from outside  *)
(* in the middle of a handshake keeps them: no callback runs.)               *)
CtxAccounting ==
    /\ upRefs \in {0, 1} /\ clRefs \in {0, 1}
    /\ ending = "handshake" => upRefs = 0 /\ clRefs = 0
    /\ ~closed => /\ upRefs = 1 <=> (tlsUpstream \in {"handshake", "ready"})
                  /\ clRefs = 1 <=> (tlsClient = "handshake")

(* A request refused by a 502 had a body, which pendingBody_ keeps. *)
LeftOver == asked # <<>> /\ Head(asked)[1] = "rbody"

(* The upstream is sent what the client asked, in order, head before body,   *)
(* whether the body came before or after the connect was done; until then    *)
(* the body is kept.  For a client that waits for each response, also after  *)
(* requests refused by a 502, as long as those had no body: the body of a    *)
(* refused request is sent with the next one (RefusedBodyDropped).           *)
RequestIntact ==
    ~closed /\ ~pipelined /\ ~LeftOver /\ tlsUpstream # "closed" =>
        IF UpstreamOpen THEN upGot \o toUpstream = asked /\ pendingBody = <<>>
                        ELSE asked # <<>> => pendingBody = Tail(asked)

(* What the inspector gets is one response's body, from its first part on,   *)
(* whole unless the cap was reached and then past the cap by less than one   *)
(* onBody(), under the URL of its own request, and each response once.  (For *)
(* a client that waits for each response.)                                   *)
InspectionIntact ==
    ~pipelined =>
        \A k \in 1..Len(inspected) :
            LET e == inspected[k] IN
            /\ e.url = e.of
            /\ e.body = [i \in 1..Len(e.body) |-> <<"body", e.of, i>>]
            /\ Len(e.body) = e.parts \/ Len(e.body) >= MaxInspect
            /\ Len(e.body) < MaxInspect + MaxPart
            /\ \A j \in 1..(k - 1) : inspected[j].of # e.of

(* Every plain request is eventually sent to an upstream or answered by an   *)
(* error, unless the session ends or a later request takes its place.        *)
RequestForwarded ==
    \A r \in 1..MaxRequests :
        (req = r /\ ~isConnect) ~>
            \/ IsIn(ReqHead(r), upGot) \/ IsIn(BadGateway(r), clientGot)
            \/ closed \/ req # r \/ isConnect

-----------------------------------------------------------------------------
(* What the repository says and the code does not do.  The runs show the     *)
(* first two; the others fail in the same way as invariants of               *)
(* ProxySession.cfg.                                                         *)

(* ProxySession.cpp: "signal end-of-response by closing the connection [...] *)
(* close is the only way the client knows the body is complete."  Closing at *)
(* the end of a response leaves nothing of it unsent.                        *)
ResponseDelivered == ending = "complete" => toClient = <<>>

(* ProxySession.cpp, onUpstreamConnected(): "Now wrap the connected socket   *)
(* in a Connection".                                                         *)
WrapsConnected == upstream = "open" => linkOk

(* ProxySession.cpp, onResponseBody(): "Accumulate for AI inspection (up to  *)
(* cap)".                                                                    *)
InspectCapped == Len(responseBody) <= MaxInspect

(* TlsConnection.hpp: "Same pattern as Connection: set onData/onClose/       *)
(* onError, then startRead()."  As with Connection, a session whose TLS      *)
(* connection has failed does not stay open.                                 *)
NoHalfOpen == ~closed => tlsClient # "closed" /\ tlsUpstream # "closed"

(* Server.hpp: "The proxy fires this with captured response bodies."  No     *)
(* captured body is left when its response has ended with the connection.    *)
CapturedIsInspected == ending = "eof" /\ ~framed => responseBody = <<>>

(* ProxySession.cpp, close(): "Clean up connecting socket if mid-connect".   *)
(* A closed session holds no connecting socket.                              *)
ClosedHolds == closed => connecting = "none"

(* README.md: "inspects requests/responses, and forwards them transparently" *)
(* after a 502, too: what waits to be sent is of the request under way, for  *)
(* a client that waits for each response.                                    *)
RefusedBodyDropped ==
    ~pipelined => \A i \in 1..Len(pendingBody) : pendingBody[i][2] = req

(* README.md: "inspects requests/responses, and forwards them transparently" *)
(* also when the client does not wait for the response: an upstream gets the *)
(* parts of its own request only.                                            *)
OwnRequestOnly ==
    upstream = "open" /\ ~isTunnel =>
        \A i \in 1..Len(upGot) : upGot[i][2] = upReq
=============================================================================
