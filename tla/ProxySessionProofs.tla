------------------------- MODULE ProxySessionProofs -------------------------
(***************************************************************************)
(* Proofs about a proxied session, for any number of requests, any bodies  *)
(* and any cap on what is inspected.                                       *)
(***************************************************************************)
EXTENDS ProxySession, SequenceTheorems, TLAPS

(* The modes of a session: a tunnel or an interception follows a CONNECT;    *)
(* interception leaves the plain upstream and the connecting socket behind   *)
(* and the client unread, and its two TLS connections advance in step.       *)
Modes ==
    /\ isTunnel \/ isTlsMitm => isConnect
    /\ ~isTlsMitm => tlsUpstream = "none" /\ tlsClient = "none"
    /\ isTlsMitm => /\ ~isTunnel /\ ~reading
                    /\ upstream = "none" /\ connecting = "none"
                    /\ tlsUpstream \in {"handshake", "ready", "open", "closed"}
    /\ tlsClient \in {"none", "handshake", "open", "closed"}
    /\ tlsClient = "none" => tlsUpstream \notin {"ready", "open"}
    /\ tlsClient # "none" => client = "none"
    /\ tlsClient = "handshake" => tlsUpstream = "ready"
    /\ tlsClient \in {"open", "closed"} => tlsUpstream \in {"open", "closed"}
    /\ isTunnel /\ ~closed => upstream = "open" /\ connecting = "none"
    /\ decoding # "none" => closed /\ ~isTunnel /\ ~isTlsMitm

(* A client that waits for each response: where its request stands.  After a *)
(* 502 there is no upstream and no connect to wait for.                      *)
Turns ==
    ~closed /\ ~pipelined =>
        /\ isTlsMitm => req \in {answered, answered + 1}
        /\ ~isTlsMitm /\ ~isTunnel => answered = 0
        /\ req = 0 => /\ asked = <<>> /\ toClient = <<>> /\ pendingBody = <<>>
                      /\ upstream = "none" /\ connecting = "none" /\ ~isConnect
        /\ refused => /\ upstream = "none" /\ connecting # "watched"
                      /\ ~isTunnel /\ ~isTlsMitm
        /\ connecting = "watched" => upstream = "none" /\ toClient = <<>>
        /\ isTlsMitm => IsIn(Established, clientGot)
        /\ upstream = "open" /\ ~isTunnel => ~isConnect /\ upReq = req

(* ... and what was asked before the upstream is there, if no body of a      *)
(* refused request is left.                                                  *)
AskedBefore ==
    ~closed /\ ~pipelined /\ ~LeftOver =>
        /\ isConnect /\ ~isTunnel /\ tlsUpstream \in {"none", "handshake", "ready"} =>
              asked = <<>> /\ pendingBody = <<>>
        /\ refused => asked = <<>> /\ pendingBody = <<>>
        /\ tlsUpstream \in {"handshake", "ready"} => upGot = <<>> /\ toUpstream = <<>>
        /\ ~isConnect /\ req > 0 /\ ~refused => asked # <<>> /\ Head(asked) = ReqHead(req)

(* What an upstream may be sent after n requests: their heads, and parts. *)
Sendable(n) == {ReqHead(r) : r \in 1..n} \cup Parts({"rbody", "raw"})

(* Every request an upstream gets was made. *)
HeadsMade ==
    /\ req \in 0..MaxRequests
    /\ upGot \in Seq(Sendable(req)) /\ toUpstream \in Seq(Sendable(req))
    /\ pendingBody \in Seq(Parts({"rbody"}))
    /\ connecting = "watched" => req > 0

(* A response is only parsed for a request that was made. *)
Parsing ==
    /\ answered \in 0..MaxRequests /\ upReq \in 0..MaxRequests
    /\ upstream = "open" => upReq \in 1..req
    /\ inMessage /\ tlsUpstream = "open" => answered + 1 \in 1..req
    /\ decoding = "upstream" => inMessage /\ upReq \in 1..req

(* The response being parsed is that of the current request, and its body is *)
(* collected from its start.                                                 *)
Collecting ==
    (~closed \/ decoding = "upstream") /\ ~pipelined =>
        IF inMessage
        THEN /\ Responding = req
             /\ IF isTlsMitm THEN tlsUpstream \in {"open", "closed"}
                             ELSE ~isTunnel /\ (upstream = "open" \/ closed)
             /\ responseBody = [i \in 1..Len(responseBody) |-> <<"body", Responding, i>>]
             /\ PayloadInspector => Len(responseBody) = part \/ Len(responseBody) >= MaxInspect
             /\ responseBody = <<>> \/ Len(responseBody) < MaxInspect + MaxPart
        ELSE responseBody = <<>>

(* What was inspected is answered. *)
InspectedBefore ==
    ~pipelined => /\ (~closed \/ decoding = "upstream") /\ ~isTlsMitm => inspected = <<>>
                  /\ \A k \in 1..Len(inspected) : inspected[k].of <= answered

-----------------------------------------------------------------------------
(* A session ends as a whole, whichever event ends it: close() leaves no     *)
(* connection open, none is opened after it although the codecs go on, and   *)
(* no plain connection closes without it.  A connecting socket outlives the  *)
(* session only where a write failed in a decode(): the invariant says that  *)
(* a closed session still parses in no other case.                           *)
THEOREM EndsAsAWhole == Spec => []AllOrNothing
<1> DEFINE Inv == AllOrNothing /\ (decoding # "none" => closed /\ ending = "write")
<1> USE DEF AllOrNothing, connVars, CloseAll, WriteFails, Written, waitVars, CloseConn
<1>1. Init => Inv
  BY DEF Init
<1>2. Inv /\ [Next]_vars => Inv'
  <2> SUFFICES ASSUME Inv, [Next]_vars PROVE Inv'
    OBVIOUS
  <2>1. CASE Start
    BY <2>1 DEF Start
  <2>2. CASE Close
    BY <2>2 DEF Close
  <2>3. CASE OnRequest
    BY <2>3 DEF OnRequest, ClientParsed, ConnectUpstream, ConnectFails, ConnectLeft,
       ConnectWaits, OnUpstreamConnected,
           ForwardRequest, StartTunnel, StartTlsMitm
  <2>4. CASE OnRequestBody
    BY <2>4 DEF OnRequestBody, ClientParsed
  <2>5. CASE ClientParseError
    BY <2>5 DEF ClientParseError
  <2>6. CASE ClientEnds
    BY <2>6 DEF ClientEnds
  <2>7. CASE ConnectEvent
    BY <2>7 DEF ConnectEvent, OnUpstreamConnected, ForwardRequest, StartTunnel, StartTlsMitm
  <2>8. CASE OnResponse
    BY <2>8 DEF OnResponse, UpstreamParsed
  <2>9. CASE OnResponseComplete
    BY <2>9 DEF OnResponseComplete, UpstreamParsed
  <2>10. CASE UpstreamParseError
    BY <2>10 DEF UpstreamParseError
  <2>11. CASE UpstreamEnds
    BY <2>11 DEF UpstreamEnds
  <2>12. ASSUME NEW n \in 1..MaxPart, OnResponseBody(n) PROVE Inv'
    BY <2>12 DEF OnResponseBody, UpstreamParsed
  <2>13. CASE TunnelFromClient
    BY <2>13 DEF TunnelFromClient
  <2>14. CASE TunnelFromUpstream
    BY <2>14 DEF TunnelFromUpstream
  <2>15. CASE UpstreamHandshakeDone
    BY <2>15 DEF UpstreamHandshakeDone
  <2>16. CASE UpstreamHandshakeFails
    BY <2>16 DEF UpstreamHandshakeFails
  <2>17. CASE ClientHandshakeDone
    BY <2>17 DEF ClientHandshakeDone
  <2>18. CASE ClientHandshakeFails
    BY <2>18 DEF ClientHandshakeFails
  <2>19. CASE TlsEnds
    BY <2>19 DEF TlsEnds
  <2>20. CASE TlsFails
    BY <2>20 DEF TlsFails
  <2>21. CASE FlushClient
    BY <2>21 DEF FlushClient
  <2>22. CASE FlushUpstream
    BY <2>22 DEF FlushUpstream
  <2>23. CASE UNCHANGED vars
    BY <2>23 DEF vars
  <2>24. CASE DecodeEnds
    BY <2>24 DEF DecodeEnds
  <2>25. CASE ConnectEventClosed
    BY <2>25 DEF ConnectEventClosed
  <2> QED
    BY <2>1, <2>2, <2>3, <2>4, <2>5, <2>6, <2>7, <2>8, <2>9, <2>10, <2>11, <2>12, <2>13,
       <2>14, <2>15, <2>16, <2>17, <2>18, <2>19, <2>20, <2>21, <2>22, <2>23, <2>24, <2>25 DEF
       Next
<1> QED
  BY <1>1, <1>2, PTL DEF Spec

-----------------------------------------------------------------------------
(* The modes of a session are kept apart by every step.                      *)
THEOREM ModesKept == Spec => []Modes
<1> USE DEF Modes, sessionVars, connVars, CloseAll, WriteFails, Written, waitVars, CloseConn
<1>1. Init => Modes
  BY DEF Init
<1>2. Modes /\ [Next]_vars => Modes'
  <2> SUFFICES ASSUME Modes, [Next]_vars PROVE Modes'
    OBVIOUS
  <2>1. CASE Start
    BY <2>1 DEF Start
  <2>2. CASE Close
    BY <2>2 DEF Close
  <2>3. CASE OnRequest
    BY <2>3 DEF OnRequest, ClientParsed, ConnectUpstream, ConnectFails, ConnectLeft, ConnectWaits,
             OnUpstreamConnected, ForwardRequest, StartTunnel, StartTlsMitm
  <2>4. CASE OnRequestBody
    BY <2>4 DEF OnRequestBody, ClientParsed
  <2>5. CASE ClientParseError
    BY <2>5 DEF ClientParseError
  <2>6. CASE ClientEnds
    BY <2>6 DEF ClientEnds
  <2>7. CASE ConnectEvent
    BY <2>7 DEF ConnectEvent, OnUpstreamConnected, ForwardRequest, StartTunnel, StartTlsMitm
  <2>8. CASE OnResponse
    BY <2>8 DEF OnResponse, UpstreamParsed
  <2>9. CASE OnResponseComplete
    BY <2>9 DEF OnResponseComplete, UpstreamParsed
  <2>10. CASE UpstreamParseError
    BY <2>10 DEF UpstreamParseError
  <2>11. CASE UpstreamEnds
    BY <2>11 DEF UpstreamEnds
  <2>12. ASSUME NEW n \in 1..MaxPart, OnResponseBody(n) PROVE Modes'
    BY <2>12 DEF OnResponseBody, UpstreamParsed
  <2>13. CASE TunnelFromClient
    BY <2>13 DEF TunnelFromClient
  <2>14. CASE TunnelFromUpstream
    BY <2>14 DEF TunnelFromUpstream
  <2>15. CASE UpstreamHandshakeDone
    BY <2>15 DEF UpstreamHandshakeDone
  <2>16. CASE UpstreamHandshakeFails
    BY <2>16 DEF UpstreamHandshakeFails
  <2>17. CASE ClientHandshakeDone
    BY <2>17 DEF ClientHandshakeDone
  <2>18. CASE ClientHandshakeFails
    BY <2>18 DEF ClientHandshakeFails
  <2>19. CASE TlsEnds
    BY <2>19 DEF TlsEnds
  <2>20. CASE TlsFails
    BY <2>20 DEF TlsFails
  <2>21. CASE FlushClient
    BY <2>21 DEF FlushClient
  <2>22. CASE FlushUpstream
    BY <2>22 DEF FlushUpstream
  <2>23. CASE UNCHANGED vars
    BY <2>23 DEF vars
  <2>24. CASE DecodeEnds
    BY <2>24 DEF DecodeEnds
  <2>25. CASE ConnectEventClosed
    BY <2>25 DEF ConnectEventClosed
  <2> QED
    BY <2>1, <2>2, <2>3, <2>4, <2>5, <2>6, <2>7, <2>8, <2>9, <2>10, <2>11, <2>12, <2>13,
       <2>14, <2>15, <2>16, <2>17, <2>18, <2>19, <2>20, <2>21, <2>22, <2>23, <2>24, <2>25 DEF
       Next
<1> QED
  BY <1>1, <1>2, PTL DEF Spec

-----------------------------------------------------------------------------
(* No reason to end is noted before the end. *)
Ongoing == ~closed => ending = "none"

(* Each SSL_CTX is released exactly once, whatever the order in which the    *)
(* two handshakes succeed, fail or are cut short.                            *)
THEOREM ContextsReleased == Spec => []CtxAccounting
<1> DEFINE Inv == Ongoing /\ CtxAccounting
<1> USE DEF Ongoing, CtxAccounting, sessionVars, connVars, ctxVars, CloseAll, WriteFails, Written, waitVars, CloseConn
<1>1. Init => Inv
  BY DEF Init
<1>2. Modes /\ Inv /\ [Next]_vars => Inv'
  <2> SUFFICES ASSUME Modes, Inv, [Next]_vars PROVE Inv'
    OBVIOUS
  <2> USE DEF Modes
  <2>1. CASE Start
    BY <2>1 DEF Start
  <2>2. CASE Close
    BY <2>2 DEF Close
  <2>3. CASE OnRequest
    BY <2>3 DEF OnRequest, ClientParsed, ConnectUpstream, ConnectFails, ConnectLeft, ConnectWaits,
             OnUpstreamConnected, ForwardRequest, StartTunnel, StartTlsMitm
  <2>4. CASE OnRequestBody
    BY <2>4 DEF OnRequestBody, ClientParsed
  <2>5. CASE ClientParseError
    BY <2>5 DEF ClientParseError
  <2>6. CASE ClientEnds
    BY <2>6 DEF ClientEnds
  <2>7. CASE ConnectEvent
    BY <2>7 DEF ConnectEvent, OnUpstreamConnected, ForwardRequest, StartTunnel, StartTlsMitm
  <2>8. CASE OnResponse
    BY <2>8 DEF OnResponse
  <2>9. CASE OnResponseComplete
    BY <2>9 DEF OnResponseComplete
  <2>10. CASE UpstreamParseError
    BY <2>10 DEF UpstreamParseError
  <2>11. CASE UpstreamEnds
    BY <2>11 DEF UpstreamEnds
  <2>12. ASSUME NEW n \in 1..MaxPart, OnResponseBody(n) PROVE Inv'
    BY <2>12 DEF OnResponseBody
  <2>13. CASE TunnelFromClient
    BY <2>13 DEF TunnelFromClient
  <2>14. CASE TunnelFromUpstream
    BY <2>14 DEF TunnelFromUpstream
  <2>15. CASE UpstreamHandshakeDone
    BY <2>15 DEF UpstreamHandshakeDone
  <2>16. CASE UpstreamHandshakeFails
    BY <2>16 DEF UpstreamHandshakeFails
  <2>17. CASE ClientHandshakeDone
    BY <2>17 DEF ClientHandshakeDone
  <2>18. CASE ClientHandshakeFails
    BY <2>18 DEF ClientHandshakeFails
  <2>19. CASE TlsEnds
    BY <2>19 DEF TlsEnds
  <2>20. CASE TlsFails
    BY <2>20 DEF TlsFails
  <2>21. CASE FlushClient
    BY <2>21 DEF FlushClient
  <2>22. CASE FlushUpstream
    BY <2>22 DEF FlushUpstream
  <2>23. CASE UNCHANGED vars
    BY <2>23 DEF vars
  <2>24. CASE DecodeEnds
    BY <2>24 DEF DecodeEnds
  <2>25. CASE ConnectEventClosed
    BY <2>25 DEF ConnectEventClosed
  <2> QED
    BY <2>1, <2>2, <2>3, <2>4, <2>5, <2>6, <2>7, <2>8, <2>9, <2>10, <2>11, <2>12, <2>13,
       <2>14, <2>15, <2>16, <2>17, <2>18, <2>19, <2>20, <2>21, <2>22, <2>23, <2>24, <2>25 DEF
       Next
<1> QED
  BY <1>1, <1>2, ModesKept, PTL DEF Spec

-----------------------------------------------------------------------------
(* A sequence over a smaller set is one over a larger set. *)
LEMMA SeqOfSubset ==
    ASSUME NEW S, NEW T, S \subseteq T
    PROVE  Seq(S) \subseteq Seq(T)
BY SeqDef

(* What could be sent after m requests can be sent after more. *)
LEMMA SendableGrows ==
    ASSUME NEW m \in Nat, NEW n \in Nat, m <= n
    PROVE  Sendable(m) \subseteq Sendable(n)
<1>1. 1..m \subseteq 1..n
  OBVIOUS
<1> QED
  BY <1>1 DEF Sendable

(* Every step keeps the heads sent among the requests made. *)
LEMMA HeadsMadeInductive == HeadsMade /\ [Next]_vars => HeadsMade'
<1> SUFFICES ASSUME HeadsMade, [Next]_vars PROVE HeadsMade'
  OBVIOUS
<1> USE ProxySessionAssumption
<1>0. /\ req \in 0..MaxRequests /\ req \in Nat /\ MaxRequests \in Nat
      /\ upGot \in Seq(Sendable(req)) /\ toUpstream \in Seq(Sendable(req))
      /\ pendingBody \in Seq(Parts({"rbody"})) /\ <<>> \in Seq(Parts({"rbody"}))
  BY DEF HeadsMade
<1>1. ASSUME UNCHANGED <<req, upGot, toUpstream, pendingBody>>,
             connecting' \in {connecting, "none", "idle"}
      PROVE  HeadsMade'
  BY <1>1 DEF HeadsMade
<1>2. ASSUME req' \in {req, req + 1}, req' <= MaxRequests, req' > 0,
             NEW ps \in Seq(Sendable(req')),
             upGot' = upGot \/ upGot' = <<>>,
             toUpstream' = ps \/ toUpstream' = toUpstream \o ps \/ toUpstream' = toUpstream,
             pendingBody' \in Seq(Parts({"rbody"}))
      PROVE  HeadsMade'
  <2>1. Sendable(req) \subseteq Sendable(req') /\ req' \in 0..MaxRequests
    BY <1>0, <1>2, SendableGrows
  <2>2. upGot \in Seq(Sendable(req')) /\ toUpstream \in Seq(Sendable(req'))
    BY <1>0, <2>1, SeqOfSubset
  <2>3. upGot' \in Seq(Sendable(req'))
    <3>1. <<>> \in Seq(Sendable(req'))
      OBVIOUS
    <3> QED
      BY <1>2, <2>2, <3>1, Zenon
  <2>4. toUpstream \o ps \in Seq(Sendable(req'))
    BY <1>2, <2>2, ConcatProperties
  <2>5. toUpstream' \in Seq(Sendable(req'))
    BY ONLY <1>2, <2>2, <2>4
  <2> QED
    BY <1>2, <2>1, <2>3, <2>5 DEF HeadsMade
<1>3. ASSUME req' \in {req, req + 1}, req' <= MaxRequests, req' > 0
      PROVE  <<ReqHead(req')>> \o pendingBody \in Seq(Sendable(req'))
  <2>1. ReqHead(req') \in Sendable(req')
    <3>1. req' \in 1..req'
      BY <1>0, <1>3
    <3> QED
      BY <3>1 DEF Sendable
  <2>2. Parts({"rbody"}) \subseteq Sendable(req')
    BY DEF Sendable, Parts
  <2>3. <<ReqHead(req')>> \in Seq(Sendable(req')) /\ pendingBody \in Seq(Sendable(req'))
    BY <1>0, <2>1, <2>2, SeqOfSubset
  <2> QED
    BY <2>3, ConcatProperties
<1>4. ASSUME req' \in {req, req + 1}, req' <= MaxRequests, req' > 0,
             NEW connect, NEW ok, NEW codec, OnUpstreamConnected(req', connect, ok, codec)
      PROVE  HeadsMade'
  <2> DEFINE ps == <<ReqHead(req')>> \o pendingBody
  <2>1. ps \in Seq(Sendable(req')) /\ <<>> \in Seq(Sendable(req'))
    BY <1>3, <1>4
  <2>2. /\ upGot' = <<>> /\ (toUpstream' = ps \/ toUpstream' = <<>>)
        /\ pendingBody' = pendingBody \/ pendingBody' = <<>>
    BY <1>4 DEF OnUpstreamConnected, ForwardRequest, StartTunnel, StartTlsMitm
  <2>3. pendingBody' \in Seq(Parts({"rbody"}))
    BY <1>0, <2>2
  <2> HIDE DEF ps
  <2> QED
    BY <1>2, <1>4, <2>1, <2>2, <2>3
<1>5. CASE OnRequest
  <2> DEFINE ps == <<ReqHead(req')>> \o pendingBody
  <2>1. req' = req + 1 /\ req' <= MaxRequests /\ req' > 0
    BY <1>0, <1>5 DEF OnRequest
  <2>2. ps \in Seq(Sendable(req'))
    BY <1>3, <2>1
  <2>3. CASE isTlsMitm
    <3>1. /\ upGot' = upGot /\ (toUpstream' = toUpstream \o ps \/ toUpstream' = toUpstream)
          /\ pendingBody' = pendingBody \/ pendingBody' = <<>>
      BY <1>5, <2>3 DEF OnRequest, WriteToUpstream
    <3> HIDE DEF ps
    <3> QED
      BY <1>0, <1>2, <2>1, <2>2, <3>1
  <2>4. ASSUME NEW connect, ConnectUpstream(req', connect) PROVE HeadsMade'
    <3>1. ASSUME NEW ok \in BOOLEAN, OnUpstreamConnected(req', connect, ok, "client")
          PROVE  HeadsMade'
      BY <1>4, <2>1, <3>1
    <3>2. CASE UNCHANGED <<upGot, toUpstream, pendingBody>>
      BY <1>0, <1>2, <2>1, <2>2, <3>2
    <3> QED
      BY <2>4, <3>1, <3>2 DEF ConnectUpstream, ConnectFails, ConnectLeft, ConnectWaits
  <2> QED
    BY <1>5, <2>3, <2>4 DEF OnRequest
<1>6. CASE OnRequestBody
  <2>1. PICK i \in 1..RequestParts[req] :
          LET body == Append(pendingBody, BodyPart(i))
          IN  WriteToUpstream(body) /\ pendingBody' = IF UpstreamOpen THEN <<>> ELSE body
    BY <1>6 DEF OnRequestBody
  <2> DEFINE body == Append(pendingBody, BodyPart(i))
  <2>2. req \in 1..MaxRequests /\ UNCHANGED <<req, upGot>>
    BY <1>0, <1>6 DEF OnRequestBody, InRequest
  <2>3. BodyPart(i) \in Parts({"rbody"}) /\ Parts({"rbody"}) \subseteq Sendable(req')
    BY <2>1, <2>2 DEF BodyPart, Parts, Sendable
  <2>4. body \in Seq(Parts({"rbody"}))
    BY <1>0, <2>3
  <2>5. body \in Seq(Sendable(req'))
    BY <2>3, <2>4, SeqOfSubset
  <2>6. /\ toUpstream' = toUpstream \o body \/ toUpstream' = toUpstream
        /\ pendingBody' = <<>> \/ pendingBody' = body
    BY <2>1 DEF WriteToUpstream
  <2> HIDE DEF body
  <2>7. pendingBody' \in Seq(Parts({"rbody"}))
    BY <1>0, <2>4, <2>6, Zenon
  <2>8. req <= MaxRequests /\ req > 0
    BY ONLY <1>0, <2>2
  <2> QED
    BY <1>2, <2>2, <2>5, <2>6, <2>7, <2>8
<1>7. CASE ConnectEvent
  <2>1. PICK ok \in BOOLEAN : OnUpstreamConnected(req, isConnect, ok, "none")
    BY <1>7 DEF ConnectEvent
  <2>2. req' = req /\ req > 0
    BY <1>7 DEF ConnectEvent, HeadsMade
  <2> QED
    BY <1>0, <1>4, <2>1, <2>2
<1>8. CASE TunnelFromClient
  <2>1. PICK i \in 1..MaxBody : WriteToUpstream(<<Raw(i)>>)
    BY <1>8 DEF TunnelFromClient
  <2>2. Raw(i) \in Sendable(req)
    BY DEF Raw, Sendable, Parts
  <2>3. <<Raw(i)>> \in Seq(Sendable(req))
    BY <2>2
  <2>4. toUpstream' \in Seq(Sendable(req))
    BY <1>0, <2>1, <2>3, ConcatProperties DEF WriteToUpstream
  <2> QED
    BY <1>8, <2>4 DEF TunnelFromClient, HeadsMade, sessionVars, connVars
<1>9. CASE FlushUpstream
  <2>1. Head(toUpstream) \in Sendable(req) /\ Tail(toUpstream) \in Seq(Sendable(req))
    BY <1>0, <1>9, HeadTailProperties DEF FlushUpstream
  <2>2. upGot' \in Seq(Sendable(req)) /\ toUpstream' \in Seq(Sendable(req))
    BY <1>0, <1>9, <2>1 DEF FlushUpstream
  <2> QED
    BY <1>9, <2>2 DEF FlushUpstream, HeadsMade, sessionVars, connVars
<1>10. CASE OnResponseComplete
  BY <1>0, <1>10 DEF OnResponseComplete, ResetBodies, HeadsMade, connVars, CloseAll
<1>11. ASSUME NEW n \in 1..MaxPart, OnResponseBody(n) PROVE HeadsMade'
  BY <1>1, <1>11 DEF OnResponseBody, sessionVars, connVars, Written, WriteFails, CloseAll
<1>12. CASE \/ Start \/ Close \/ ClientParseError \/ ClientEnds \/ OnResponse
           \/ UpstreamParseError \/ UpstreamEnds \/ TunnelFromUpstream
           \/ UpstreamHandshakeDone \/ UpstreamHandshakeFails \/ ClientHandshakeDone
           \/ ClientHandshakeFails \/ TlsEnds \/ TlsFails \/ FlushClient
           \/ DecodeEnds \/ ConnectEventClosed
  BY <1>1, <1>12 DEF Start, Close, ClientParseError, ClientEnds, OnResponse,
        UpstreamParseError, UpstreamEnds, TunnelFromUpstream, UpstreamHandshakeDone,
        UpstreamHandshakeFails, ClientHandshakeDone, ClientHandshakeFails, TlsEnds,
        TlsFails, FlushClient, DecodeEnds, ConnectEventClosed, sessionVars, connVars,
        CloseAll, WriteFails, Written
<1>13. CASE UNCHANGED vars
  BY <1>1, <1>13 DEF vars, sessionVars, connVars
<1> QED
  BY <1>5, <1>6, <1>7, <1>8, <1>9, <1>10, <1>11, <1>12, <1>13 DEF Next

(* A head that an upstream got is that of a request made. *)
LEMMA HeadWasMade ==
    ASSUME HeadsMade, NEW x, IsIn(ReqHead(x), upGot)
    PROVE  x \in 1..req
<1>1. PICK i \in 1..Len(upGot) : upGot[i] = ReqHead(x)
  BY DEF IsIn
<1>2. ReqHead(x) \in Sendable(req)
  BY <1>1, ElementOfSeq DEF HeadsMade
<1>3. ReqHead(x) \notin Parts({"rbody", "raw"})
  BY DEF ReqHead, Parts
<1>4. PICK r \in 1..req : ReqHead(x) = ReqHead(r)
  BY <1>2, <1>3 DEF Sendable
<1> QED
  BY <1>4 DEF ReqHead

(* Every step keeps responses to requests that were made. *)
LEMMA ParsingInductive == Modes /\ HeadsMade /\ Parsing /\ [Next]_vars => Parsing'
<1> SUFFICES ASSUME Modes, HeadsMade, Parsing, [Next]_vars PROVE Parsing'
  OBVIOUS
<1>0. req \in 0..MaxRequests /\ MaxRequests \in Nat /\ (connecting = "watched" => req > 0)
  BY ProxySessionAssumption DEF HeadsMade
<1> USE <1>0 DEF Modes, Parsing, sessionVars, connVars, parseVars, responseVars, peerVars,
                 CloseAll, WriteFails, Written, waitVars, CloseConn
<1>1. CASE Start
  BY <1>1 DEF Start
<1>2. CASE Close
  BY <1>2 DEF Close
<1>3. CASE OnRequest
  BY <1>3 DEF OnRequest, ClientParsed, ConnectUpstream, ConnectFails, ConnectLeft, ConnectWaits,
           OnUpstreamConnected, ForwardRequest, StartTunnel, StartTlsMitm
<1>4. CASE OnRequestBody
  BY <1>4 DEF OnRequestBody
<1>5. CASE ClientParseError
  BY <1>5 DEF ClientParseError
<1>6. CASE ClientEnds
  BY <1>6 DEF ClientEnds
<1>7. CASE ConnectEvent
  BY <1>7 DEF ConnectEvent, OnUpstreamConnected, ForwardRequest, StartTunnel, StartTlsMitm
<1>8. CASE OnResponse
  BY <1>8, HeadWasMade DEF OnResponse, UpstreamParsed, Responding
<1>9. CASE OnResponseComplete
  BY <1>9 DEF OnResponseComplete, UpstreamParsed, Responding
<1>10. CASE UpstreamParseError
  BY <1>10 DEF UpstreamParseError
<1>11. CASE UpstreamEnds
  BY <1>11 DEF UpstreamEnds
<1>12. ASSUME NEW n \in 1..MaxPart, OnResponseBody(n) PROVE Parsing'
  BY <1>12 DEF OnResponseBody, UpstreamParsed
<1>13. CASE TunnelFromClient
  BY <1>13 DEF TunnelFromClient
<1>14. CASE TunnelFromUpstream
  BY <1>14 DEF TunnelFromUpstream
<1>15. CASE UpstreamHandshakeDone
  BY <1>15 DEF UpstreamHandshakeDone
<1>16. CASE UpstreamHandshakeFails
  BY <1>16 DEF UpstreamHandshakeFails
<1>17. CASE ClientHandshakeDone
  BY <1>17 DEF ClientHandshakeDone
<1>18. CASE ClientHandshakeFails
  BY <1>18 DEF ClientHandshakeFails
<1>19. CASE TlsEnds
  BY <1>19 DEF TlsEnds
<1>20. CASE TlsFails
  BY <1>20 DEF TlsFails
<1>21. CASE FlushClient
  BY <1>21 DEF FlushClient
<1>22. CASE FlushUpstream
  BY <1>22 DEF FlushUpstream
<1>23. CASE UNCHANGED vars
  BY <1>23 DEF vars
<1>24. CASE DecodeEnds
  BY <1>24 DEF DecodeEnds
<1>25. CASE ConnectEventClosed
  BY <1>25 DEF ConnectEventClosed
<1> QED
  BY <1>1, <1>2, <1>3, <1>4, <1>5, <1>6, <1>7, <1>8, <1>9, <1>10, <1>11, <1>12, <1>13, <1>14,
     <1>15, <1>16, <1>17, <1>18, <1>19, <1>20, <1>21, <1>22, <1>23, <1>24, <1>25 DEF Next

(* The flags, the connections and the references of a session. *)
Flags ==
    /\ certGen \in BOOLEAN /\ closed \in BOOLEAN /\ isConnect \in BOOLEAN
    /\ isTunnel \in BOOLEAN /\ isTlsMitm \in BOOLEAN /\ reading \in BOOLEAN
    /\ inMessage \in BOOLEAN /\ framed \in BOOLEAN /\ linkOk \in BOOLEAN
    /\ pipelined \in BOOLEAN /\ refused \in BOOLEAN

Handles ==
    /\ client \in {"none", "open", "closed"} /\ upstream \in {"none", "open", "closed"}
    /\ tlsClient \in {"none", "handshake", "open", "closed"}
    /\ tlsUpstream \in {"none", "handshake", "ready", "open", "closed"}
    /\ connecting \in {"none", "watched", "idle"}
    /\ upRefs \in Int /\ clRefs \in Int
    /\ ending \in {"none", "client", "upstream", "eof", "complete", "refused",
                   "write", "handshake", "server"}
    /\ decoding \in {"none", "client", "upstream"}

(* Every step keeps the mode flags Boolean. *)
LEMMA FlagsInductive == Flags /\ [Next]_vars => Flags'
<1> SUFFICES ASSUME Flags, [Next]_vars PROVE Flags'
  OBVIOUS
<1> USE DEF Flags, sessionVars, connVars, parseVars, responseVars, peerVars, CloseAll, WriteFails, Written, waitVars
<1>1. CASE Start
  BY <1>1, Zenon DEF Start
<1>2. CASE Close
  BY <1>2, Zenon DEF Close
<1>3. CASE OnRequest
  BY <1>3, Zenon DEF OnRequest, ConnectUpstream, ConnectFails, ConnectLeft, ConnectWaits,
     OnUpstreamConnected, ForwardRequest, StartTunnel, StartTlsMitm
<1>4. CASE OnRequestBody
  BY <1>4, Zenon DEF OnRequestBody
<1>5. CASE ClientParseError
  BY <1>5, Zenon DEF ClientParseError
<1>6. CASE ClientEnds
  BY <1>6, Zenon DEF ClientEnds
<1>7. CASE ConnectEvent
  <2>1. PICK ok \in BOOLEAN : OnUpstreamConnected(req, isConnect, ok, "none")
    BY <1>7 DEF ConnectEvent
  <2>2. UNCHANGED <<certGen, isConnect, inMessage, framed, refused, pipelined>>
    BY <1>7, Zenon DEF ConnectEvent
  <2>3. CASE ForwardRequest(req, ok, "none")
    BY <2>1, <2>2, <2>3, Zenon DEF OnUpstreamConnected, ForwardRequest
  <2>4. CASE StartTunnel
    BY <2>1, <2>2, <2>4, Zenon DEF OnUpstreamConnected, StartTunnel
  <2>5. CASE StartTlsMitm
    BY <2>1, <2>2, <2>5, Zenon DEF OnUpstreamConnected, StartTlsMitm
  <2> QED
    BY <2>1, <2>3, <2>4, <2>5, Zenon DEF OnUpstreamConnected
<1>8. CASE OnResponse
  BY <1>8, Zenon DEF OnResponse
<1>9. CASE OnResponseComplete
  BY <1>9, Zenon DEF OnResponseComplete
<1>10. CASE UpstreamParseError
  BY <1>10, Zenon DEF UpstreamParseError
<1>11. CASE UpstreamEnds
  BY <1>11, Zenon DEF UpstreamEnds
<1>12. ASSUME NEW n \in 1..MaxPart, OnResponseBody(n) PROVE Flags'
  BY <1>12, Zenon DEF OnResponseBody
<1>13. CASE TunnelFromClient
  BY <1>13, Zenon DEF TunnelFromClient
<1>14. CASE TunnelFromUpstream
  BY <1>14, Zenon DEF TunnelFromUpstream
<1>15. CASE UpstreamHandshakeDone
  BY <1>15, Zenon DEF UpstreamHandshakeDone
<1>16. CASE UpstreamHandshakeFails
  BY <1>16, Zenon DEF UpstreamHandshakeFails
<1>17. CASE ClientHandshakeDone
  BY <1>17, Zenon DEF ClientHandshakeDone
<1>18. CASE ClientHandshakeFails
  BY <1>18, Zenon DEF ClientHandshakeFails
<1>19. CASE TlsEnds
  BY <1>19, Zenon DEF TlsEnds
<1>20. CASE TlsFails
  BY <1>20, Zenon DEF TlsFails
<1>21. CASE FlushClient
  BY <1>21, Zenon DEF FlushClient
<1>22. CASE FlushUpstream
  BY <1>22, Zenon DEF FlushUpstream
<1>23. CASE UNCHANGED vars
  BY <1>23, Zenon DEF vars
<1>24. CASE DecodeEnds
  BY <1>24, Zenon DEF DecodeEnds
<1>25. CASE ConnectEventClosed
  BY <1>25, Zenon DEF ConnectEventClosed
<1> QED
  BY <1>1, <1>2, <1>3, <1>4, <1>5, <1>6, <1>7, <1>8, <1>9, <1>10, <1>11, <1>12, <1>13, <1>14,
     <1>15, <1>16, <1>17, <1>18, <1>19, <1>20, <1>21, <1>22, <1>23, <1>24, <1>25 DEF Next

(* Every step keeps the states of the five connections in their domains. *)
LEMMA HandlesInductive == Handles /\ [Next]_vars => Handles'
<1> SUFFICES ASSUME Handles, [Next]_vars PROVE Handles'
  OBVIOUS
<1> USE DEF Handles, sessionVars, connVars, ctxVars, CloseAll, WriteFails, Written, waitVars, CloseConn
<1>1. CASE Start
  BY <1>1 DEF Start
<1>2. CASE Close
  BY <1>2 DEF Close
<1>3. CASE OnRequest
  BY <1>3 DEF OnRequest, ConnectUpstream, ConnectFails, ConnectLeft, ConnectWaits,
     OnUpstreamConnected, ForwardRequest, StartTunnel, StartTlsMitm
<1>4. CASE OnRequestBody
  BY <1>4 DEF OnRequestBody
<1>5. CASE ClientParseError
  BY <1>5 DEF ClientParseError
<1>6. CASE ClientEnds
  BY <1>6 DEF ClientEnds
<1>7. CASE ConnectEvent
  BY <1>7 DEF ConnectEvent, OnUpstreamConnected, ForwardRequest, StartTunnel, StartTlsMitm
<1>8. CASE OnResponse
  BY <1>8 DEF OnResponse
<1>9. CASE OnResponseComplete
  BY <1>9 DEF OnResponseComplete
<1>10. CASE UpstreamParseError
  BY <1>10 DEF UpstreamParseError
<1>11. CASE UpstreamEnds
  BY <1>11 DEF UpstreamEnds
<1>12. ASSUME NEW n \in 1..MaxPart, OnResponseBody(n) PROVE Handles'
  BY <1>12 DEF OnResponseBody
<1>13. CASE TunnelFromClient
  BY <1>13 DEF TunnelFromClient
<1>14. CASE TunnelFromUpstream
  BY <1>14 DEF TunnelFromUpstream
<1>15. CASE UpstreamHandshakeDone
  BY <1>15 DEF UpstreamHandshakeDone
<1>16. CASE UpstreamHandshakeFails
  BY <1>16 DEF UpstreamHandshakeFails
<1>17. CASE ClientHandshakeDone
  BY <1>17 DEF ClientHandshakeDone
<1>18. CASE ClientHandshakeFails
  BY <1>18 DEF ClientHandshakeFails
<1>19. CASE TlsEnds
  BY <1>19 DEF TlsEnds
<1>20. CASE TlsFails
  BY <1>20 DEF TlsFails
<1>21. CASE FlushClient
  BY <1>21 DEF FlushClient
<1>22. CASE FlushUpstream
  BY <1>22 DEF FlushUpstream
<1>23. CASE UNCHANGED vars
  BY <1>23 DEF vars
<1>24. CASE DecodeEnds
  BY <1>24 DEF DecodeEnds
<1>25. CASE ConnectEventClosed
  BY <1>25 DEF ConnectEventClosed
<1> QED
  BY <1>1, <1>2, <1>3, <1>4, <1>5, <1>6, <1>7, <1>8, <1>9, <1>10, <1>11, <1>12, <1>13, <1>14,
     <1>15, <1>16, <1>17, <1>18, <1>19, <1>20, <1>21, <1>22, <1>23, <1>24, <1>25 DEF Next

Requests == Parts({"req", "rbody", "raw"})
Replies == Parts({"head", "body", "raw", "200", "400", "502"})
Inspections == [url : 0..MaxRequests, body : Seq(Parts({"body"})),
                of : 0..MaxRequests, parts : 0..MaxBody]

(* The data of a session. *)
Data ==
    /\ asked \in Seq(Requests)
    /\ toClient \in Seq(Replies) /\ clientGot \in Seq(Replies)
    /\ responseBody \in Seq(Parts({"body"})) /\ part \in 0..MaxBody
    /\ inspected \in Seq(Inspections)

(* What the client has asked stays a sequence of parts of requests. *)
LEMMA AskedType ==
    ASSUME HeadsMade, HeadsMade', asked \in Seq(Requests), [Next]_vars
    PROVE  asked' \in Seq(Requests)
<1> USE ProxySessionAssumption
<1>0. req \in 0..MaxRequests /\ req' \in 0..MaxRequests
  BY DEF HeadsMade
<1>1. CASE OnRequest
  <2>1. ReqHead(req') \in Requests
    BY <1>0 DEF ReqHead, Requests, Parts
  <2>2. asked' = asked \/ asked' = Append(asked, ReqHead(req'))
    BY <1>1 DEF OnRequest
  <2>3. Append(asked, ReqHead(req')) \in Seq(Requests)
    BY <2>1, AppendProperties
  <2> QED
    BY <2>2, <2>3, Zenon
<1>2. CASE OnRequestBody
  <2>1. PICK i \in 1..RequestParts[req] : asked' = Append(asked, BodyPart(i))
    BY <1>2 DEF OnRequestBody
  <2>2. RequestParts[req] \in 0..MaxBody
    BY <1>0, <1>2 DEF OnRequestBody, InRequest
  <2>3. i \in 0..MaxBody
    BY <2>2
  <2>4. BodyPart(i) \in Requests
    BY <1>0, <2>3 DEF BodyPart, Requests, Parts
  <2> QED
    BY <2>1, <2>4, AppendProperties
<1>3. CASE TunnelFromClient
  <2>1. PICK i \in 1..MaxBody : asked' = Append(asked, Raw(i))
    BY <1>3 DEF TunnelFromClient
  <2>2. Raw(i) \in Requests
    BY DEF Raw, Requests, Parts
  <2> QED
    BY <2>1, <2>2, AppendProperties
<1>4. ASSUME NEW n \in 1..MaxPart, OnResponseBody(n) PROVE asked' \in Seq(Requests)
  BY <1>4 DEF OnResponseBody
<1>5. CASE \/ Start \/ Close \/ ClientParseError \/ ClientEnds \/ ConnectEvent
           \/ OnResponse \/ OnResponseComplete \/ UpstreamParseError
           \/ UpstreamEnds \/ TunnelFromUpstream \/ UpstreamHandshakeDone
           \/ UpstreamHandshakeFails \/ ClientHandshakeDone
           \/ ClientHandshakeFails \/ TlsEnds \/ TlsFails \/ FlushClient
           \/ FlushUpstream \/ UNCHANGED vars \/ DecodeEnds \/ ConnectEventClosed
  BY <1>5 DEF Start, Close, ClientParseError, ClientEnds, ConnectEvent, OnResponse,
        OnResponseComplete, UpstreamParseError, UpstreamEnds, TunnelFromUpstream,
        UpstreamHandshakeDone, UpstreamHandshakeFails, ClientHandshakeDone,
        ClientHandshakeFails, TlsEnds, TlsFails, FlushClient, FlushUpstream, DecodeEnds,
           ConnectEventClosed, vars,
        sessionVars, connVars, parseVars, responseVars
<1> QED
  BY <1>1, <1>2, <1>3, <1>4, <1>5 DEF Next

(* The body of a response is within its bounds. *)
LEMMA BodyType ==
    ASSUME Parsing, Modes, req \in 0..MaxRequests, part \in 0..MaxBody,
           NEW n \in 1..MaxPart, OnResponseBody(n)
    PROVE  /\ part + n \in 0..MaxBody
           /\ [i \in 1..n |-> <<"body", Responding, part + i>>] \in Seq(Parts({"body"}))
<1> USE ProxySessionAssumption
<1>1. Responding \in 1..MaxRequests /\ part + n <= ResponseParts[Responding]
  BY DEF OnResponseBody, UpstreamParsed, Responding, Parsing, Modes
<1>2. part + n \in 0..MaxBody
  BY <1>1
<1>3. \A i \in 1..n : <<"body", Responding, part + i>> \in Parts({"body"})
  BY <1>1, <1>2 DEF Parts
<1>4. [i \in 1..n |-> <<"body", Responding, part + i>>] \in Seq(Parts({"body"}))
  <2> DEFINE F(i) == <<"body", Responding, part + i>>
  <2>0. n \in Nat
    OBVIOUS
  <2>1. \A i \in 1..n : F(i) \in Parts({"body"})
    BY <1>3, Zenon
  <2> HIDE DEF F
  <2>2. [i \in 1..n |-> F(i)] \in Seq(Parts({"body"}))
    BY <2>0, <2>1
  <2> QED
    BY <2>2 DEF F
<1> QED
  BY <1>2, <1>4

(* What goes to the client stays a sequence of parts of replies. *)
LEMMA RepliesType ==
    ASSUME Modes, HeadsMade, HeadsMade', Parsing, Data, [Next]_vars
    PROVE  toClient' \in Seq(Replies) /\ clientGot' \in Seq(Replies)
<1> USE ProxySessionAssumption
<1>0. /\ req \in 0..MaxRequests /\ req' \in 0..MaxRequests /\ part \in 0..MaxBody
      /\ toClient \in Seq(Replies) /\ clientGot \in Seq(Replies)
      /\ upReq \in 0..MaxRequests /\ answered \in 0..MaxRequests
  BY DEF HeadsMade, Data, Parsing
<1>1. ASSUME NEW ps \in Seq(Replies), WriteToClient(ps), clientGot' = clientGot
      PROVE  toClient' \in Seq(Replies) /\ clientGot' \in Seq(Replies)
  BY <1>0, <1>1, ConcatProperties DEF WriteToClient
<1>2. ASSUME NEW r, NEW connect, NEW ok, NEW codec, OnUpstreamConnected(r, connect, ok, codec)
      PROVE  toClient' \in Seq(Replies) /\ clientGot' \in Seq(Replies)
  <2>1. Established \in Replies
    BY DEF Established, Replies, Parts
  <2>2. Append(toClient, Established) \in Seq(Replies)
    BY <1>0, <2>1, AppendProperties
  <2>3. Append(clientGot, Established) \in Seq(Replies)
    BY <1>0, <2>1, AppendProperties
  <2>4. /\ toClient' = toClient \/ toClient' = Append(toClient, Established)
        /\ clientGot' = clientGot \/ clientGot' = Append(clientGot, Established)
    BY <1>2 DEF OnUpstreamConnected, ForwardRequest, StartTunnel, StartTlsMitm,
                WriteEstablished
  <2> QED
    BY <1>0, <2>2, <2>3, <2>4, Zenon
<1>3. CASE OnRequest
  <2>1. CASE isTlsMitm
    BY <1>0, <1>3, <2>1 DEF OnRequest
  <2>2. ASSUME NEW connect, ConnectUpstream(req', connect)
        PROVE  toClient' \in Seq(Replies) /\ clientGot' \in Seq(Replies)
    <3>1. <<BadGateway(req')>> \in Seq(Replies)
      <4>1. BadGateway(req') \in Replies
        BY <1>0 DEF BadGateway, Replies, Parts
      <4> QED
        BY <4>1
    <3>2. ASSUME NEW sock, ConnectFails(req', sock)
          PROVE  toClient' \in Seq(Replies) /\ clientGot' \in Seq(Replies)
      BY <1>1, <3>1, <3>2 DEF ConnectFails
    <3> QED
      BY <1>0, <1>2, <2>2, <3>2 DEF ConnectUpstream, ConnectLeft, ConnectWaits
  <2> QED
    BY <1>3, <2>1, <2>2 DEF OnRequest
<1>4. CASE ConnectEvent
  BY <1>2, <1>4 DEF ConnectEvent
<1>5. CASE OnResponse
  <2>1. Responding \in 0..MaxRequests
    BY <1>0, <1>5, HeadWasMade DEF OnResponse
  <2>2. <<"head", Responding, 0>> \in Replies
    BY <2>1 DEF Replies, Parts
  <2>3. <<<<"head", Responding, 0>>>> \in Seq(Replies)
    BY <2>2
  <2> QED
    BY <1>1, <1>5, <2>3 DEF OnResponse
<1>6. ASSUME NEW n \in 1..MaxPart, OnResponseBody(n)
      PROVE  toClient' \in Seq(Replies) /\ clientGot' \in Seq(Replies)
  <2> DEFINE body == [i \in 1..n |-> <<"body", Responding, part + i>>]
  <2>1. body \in Seq(Parts({"body"}))
    BY <1>0, <1>6, BodyType
  <2>2. Parts({"body"}) \subseteq Replies
    BY DEF Replies, Parts
  <2>3. body \in Seq(Replies)
    BY <2>1, <2>2, SeqOfSubset
  <2>4. WriteToClient(body) /\ clientGot' = clientGot
    BY <1>6 DEF OnResponseBody
  <2> HIDE DEF body
  <2> QED
    BY <1>1, <2>3, <2>4
<1>7. CASE ClientParseError
  <2> DEFINE buffered == IF isTlsMitm THEN <<>> ELSE Append(toClient, BadRequest)
  <2>1. BadRequest \in Replies
    BY DEF BadRequest, Replies, Parts
  <2>2. Append(toClient, BadRequest) \in Seq(Replies)
    BY <1>0, <2>1, AppendProperties
  <2>3. buffered \in Seq(Replies)
    BY <2>2
  <2>4. PICK n \in 0..Len(buffered) :
          /\ clientGot' = clientGot \o SubSeq(buffered, 1, n)
          /\ toClient' = SubSeq(buffered, n + 1, Len(buffered))
    BY <1>7 DEF ClientParseError
  <2> HIDE DEF buffered
  <2>5. SubSeq(buffered, 1, n) \in Seq(Replies)
        /\ SubSeq(buffered, n + 1, Len(buffered)) \in Seq(Replies)
    BY <2>3, LenProperties, SubSeqProperties
  <2> QED
    BY <1>0, <2>4, <2>5, ConcatProperties
<1>8. CASE TunnelFromUpstream
  <2>1. part' \in 0..MaxBody
    BY <1>0, <1>8 DEF TunnelFromUpstream
  <2>2. Raw(part') \in Replies
    BY <2>1 DEF Raw, Replies, Parts
  <2>3. <<Raw(part')>> \in Seq(Replies)
    BY <2>2
  <2> QED
    BY <1>1, <1>8, <2>3 DEF TunnelFromUpstream
<1>9. CASE UpstreamHandshakeDone
  BY <1>0, <1>9 DEF UpstreamHandshakeDone
<1>10. CASE FlushClient
  <2>1. Head(toClient) \in Replies /\ Tail(toClient) \in Seq(Replies)
    BY <1>0, <1>10, HeadTailProperties DEF FlushClient
  <2> QED
    BY <1>0, <1>10, <2>1, AppendProperties DEF FlushClient
<1>11. CASE \/ Start \/ Close \/ OnRequestBody \/ ClientEnds \/ OnResponseComplete
            \/ UpstreamParseError \/ UpstreamEnds \/ TunnelFromClient
            \/ UpstreamHandshakeFails \/ ClientHandshakeDone
            \/ ClientHandshakeFails \/ TlsEnds \/ TlsFails \/ FlushUpstream
            \/ UNCHANGED vars \/ DecodeEnds \/ ConnectEventClosed
  BY <1>0, <1>11 DEF Start, Close, OnRequestBody, ClientEnds, OnResponseComplete,
        UpstreamParseError, UpstreamEnds, TunnelFromClient, UpstreamHandshakeFails,
        ClientHandshakeDone, ClientHandshakeFails, TlsEnds, TlsFails, FlushUpstream,
           DecodeEnds, ConnectEventClosed, vars,
        sessionVars, connVars, parseVars, responseVars
<1> QED
  BY <1>3, <1>4, <1>5, <1>6, <1>7, <1>8, <1>9, <1>10, <1>11 DEF Next

(* What is captured and inspected stays parts of response bodies. *)
LEMMA CollectedType ==
    ASSUME Modes, HeadsMade, Parsing, Data, [Next]_vars
    PROVE  /\ responseBody' \in Seq(Parts({"body"})) /\ part' \in 0..MaxBody
           /\ inspected' \in Seq(Inspections)
<1> USE ProxySessionAssumption
<1>0. /\ req \in 0..MaxRequests /\ part \in 0..MaxBody /\ part \in Nat
      /\ responseBody \in Seq(Parts({"body"})) /\ inspected \in Seq(Inspections)
  BY DEF HeadsMade, Data
<1>1. CASE OnResponse
  BY <1>0, <1>1 DEF OnResponse
<1>2. CASE OnResponseComplete
  <2> DEFINE e == [url |-> req, body |-> responseBody, of |-> Responding, parts |-> part]
  <2>1. Responding \in 0..MaxRequests
    BY <1>0, <1>2 DEF OnResponseComplete, UpstreamParsed, Responding, Parsing, Modes
  <2>2. e \in Inspections
    BY <1>0, <2>1 DEF Inspections
  <2>3. inspected' = inspected \/ inspected' = Append(inspected, e)
    BY <1>2 DEF OnResponseComplete
  <2> HIDE DEF e
  <2>4. Append(inspected, e) \in Seq(Inspections)
    BY <1>0, <2>2, AppendProperties
  <2>5. inspected' \in Seq(Inspections)
    BY <1>0, <2>3, <2>4, Zenon
  <2> QED
    BY <1>0, <1>2, <2>5 DEF OnResponseComplete, ResetBodies
<1>3. ASSUME NEW n \in 1..MaxPart, OnResponseBody(n)
      PROVE  /\ responseBody' \in Seq(Parts({"body"})) /\ part' \in 0..MaxBody
             /\ inspected' \in Seq(Inspections)
  <2> DEFINE body == [i \in 1..n |-> <<"body", Responding, part + i>>]
  <2>1. body \in Seq(Parts({"body"})) /\ part + n \in 0..MaxBody
    BY <1>0, <1>3, BodyType
  <2>2. responseBody' = responseBody \o body \/ responseBody' = responseBody
    BY <1>3 DEF OnResponseBody
  <2> HIDE DEF body
  <2>3. responseBody \o body \in Seq(Parts({"body"}))
    BY <1>0, <2>1, ConcatProperties
  <2>4. responseBody' \in Seq(Parts({"body"}))
    BY <1>0, <2>2, <2>3, Zenon
  <2> QED
    BY <1>0, <1>3, <2>1, <2>4 DEF OnResponseBody
<1>4. CASE TunnelFromUpstream
  BY <1>0, <1>4 DEF TunnelFromUpstream
<1>5. CASE \/ Start \/ Close \/ OnRequest \/ OnRequestBody \/ ClientParseError
           \/ ClientEnds \/ ConnectEvent \/ UpstreamParseError \/ UpstreamEnds
           \/ TunnelFromClient \/ UpstreamHandshakeDone \/ UpstreamHandshakeFails
           \/ ClientHandshakeDone \/ ClientHandshakeFails \/ TlsEnds \/ TlsFails
           \/ FlushClient \/ FlushUpstream \/ UNCHANGED vars \/ DecodeEnds \/ ConnectEventClosed
  BY <1>0, <1>5 DEF Start, Close, OnRequest, OnRequestBody, ClientParseError, ClientEnds,
        ConnectEvent, UpstreamParseError, UpstreamEnds, TunnelFromClient,
        UpstreamHandshakeDone, UpstreamHandshakeFails, ClientHandshakeDone,
        ClientHandshakeFails, TlsEnds, TlsFails, FlushClient, FlushUpstream, DecodeEnds,
           ConnectEventClosed, vars,
        sessionVars, connVars, parseVars, responseVars, ConnectUpstream, ConnectFails,
        ConnectLeft, ConnectWaits, OnUpstreamConnected
<1> QED
  BY <1>1, <1>2, <1>3, <1>4, <1>5 DEF Next

Typing == Modes /\ HeadsMade /\ Parsing /\ Flags /\ Handles /\ Data

(* The strengthened type invariant holds throughout. *)
LEMMA TypingKept == Spec => []Typing
<1>1. Init => HeadsMade /\ Parsing /\ Flags /\ Handles /\ Data
  <2> SUFFICES ASSUME Init PROVE HeadsMade /\ Parsing /\ Flags /\ Handles /\ Data
    OBVIOUS
  <2> USE ProxySessionAssumption
  <2>1. Flags
    BY Zenon DEF Init, Flags
  <2>2. HeadsMade /\ Parsing /\ Handles /\ Data
    BY DEF Init, HeadsMade, Parsing, Handles, Data
  <2> QED
    BY <2>1, <2>2
<1>2. Modes /\ HeadsMade /\ Parsing /\ Flags /\ Handles /\ Data /\ [Next]_vars
        => (HeadsMade /\ Parsing /\ Flags /\ Handles /\ Data)'
  <2> SUFFICES ASSUME Modes, HeadsMade, Parsing, Flags, Handles, Data, [Next]_vars
               PROVE  (HeadsMade /\ Parsing /\ Flags /\ Handles /\ Data)'
    OBVIOUS
  <2>1. HeadsMade' /\ Parsing' /\ Flags' /\ Handles'
    BY HeadsMadeInductive, ParsingInductive, FlagsInductive, HandlesInductive
  <2>2. asked \in Seq(Requests)
    BY DEF Data
  <2>3. Data'
    BY <2>1, <2>2, AskedType, RepliesType, CollectedType DEF Data
  <2> QED
    BY <2>1, <2>3
<1> QED
  BY <1>1, <1>2, ModesKept, PTL DEF Spec, Typing

(* What is asked, pending, buffered and sent upstream are parts of requests. *)
LEMMA RequestsType ==
    ASSUME Typing
    PROVE  /\ asked \in Seq(Requests) /\ upGot \in Seq(Requests)
           /\ toUpstream \in Seq(Requests) /\ pendingBody \in Seq(Requests)
<1> USE ProxySessionAssumption DEF Typing
<1>1. Sendable(req) \subseteq Requests
  <2>1. \A r \in 1..req : ReqHead(r) \in Requests
    BY DEF HeadsMade, ReqHead, Requests, Parts
  <2>2. Parts({"rbody", "raw"}) \subseteq Requests
    BY DEF Requests, Parts
  <2> QED
    BY <2>1, <2>2 DEF Sendable
<1>2. Parts({"rbody"}) \subseteq Requests
  BY DEF Requests, Parts
<1> QED
  BY <1>1, <1>2, SeqOfSubset DEF HeadsMade, Data

(* Every variable of a session stays in its domain: no part is ever made of  *)
(* a request that was not made or beyond the body it belongs to.             *)
THEOREM TypeCorrect == Spec => []TypeOK
<1>1. Typing => TypeOK
  <2> SUFFICES ASSUME Typing PROVE TypeOK
    OBVIOUS
  <2> USE ProxySessionAssumption DEF Typing
  <2>2. upGot \in Seq(Requests) /\ toUpstream \in Seq(Requests)
    BY RequestsType
  <2>3. /\ req \in 0..MaxRequests /\ upReq \in 0..MaxRequests
        /\ answered \in 0..MaxRequests /\ pendingBody \in Seq(Parts({"rbody"}))
    BY DEF HeadsMade, Parsing
  <2> QED
    BY <2>2, <2>3, Zenon DEF TypeOK, Flags, Handles, Data, Requests, Replies, Inspections
<1> QED
  BY <1>1, TypingKept, PTL

-----------------------------------------------------------------------------
(* A client that waits for each response. *)

(* Neither the end of a session nor pipelining is ever undone, no session    *)
(* ends in the step that begins an interception, and only an open session    *)
(* can be closed in a decode().                                              *)
LEMMA OneWay ==
    ASSUME [Next]_vars
    PROVE  /\ ~pipelined' => ~pipelined
           /\ ~closed' => ~closed
           /\ isTlsMitm' => isTlsMitm \/ ~closed'
           /\ decoding' = "upstream" => ~closed \/ decoding = "upstream"
<1> USE DEF ClientParsed, UpstreamParsed, sessionVars, connVars, CloseAll, WriteFails, Written, waitVars
<1> DEFINE Goal == /\ ~pipelined' => ~pipelined
                   /\ ~closed' => ~closed
                   /\ isTlsMitm' => isTlsMitm \/ ~closed'
                   /\ decoding' = "upstream" => ~closed \/ decoding = "upstream"
<1>1. CASE Start
  BY <1>1 DEF Start
<1>2. CASE Close
  BY <1>2 DEF Close
<1>3. CASE OnRequest
  <2>1. ~pipelined' => ~pipelined
    BY <1>3 DEF OnRequest
  <2>2. CASE isTlsMitm
    BY <1>3, <2>1, <2>2 DEF OnRequest
  <2>3. ASSUME NEW connect, ConnectUpstream(req', connect), ~isTlsMitm PROVE Goal
    BY <2>1, <2>3 DEF ConnectUpstream, ConnectFails, ConnectLeft, ConnectWaits, OnUpstreamConnected,
                      ForwardRequest, StartTunnel, StartTlsMitm
  <2> QED
    BY <1>3, <2>2, <2>3 DEF OnRequest
<1>4. CASE OnRequestBody
  BY <1>4 DEF OnRequestBody
<1>5. CASE ClientParseError
  BY <1>5 DEF ClientParseError
<1>6. CASE ClientEnds
  BY <1>6 DEF ClientEnds
<1>7. CASE ConnectEvent
  BY <1>7 DEF ConnectEvent, OnUpstreamConnected, ForwardRequest, StartTunnel, StartTlsMitm
<1>8. CASE OnResponse
  BY <1>8 DEF OnResponse
<1>9. CASE OnResponseComplete
  BY <1>9 DEF OnResponseComplete
<1>10. CASE UpstreamParseError
  BY <1>10 DEF UpstreamParseError
<1>11. CASE UpstreamEnds
  BY <1>11 DEF UpstreamEnds
<1>12. ASSUME NEW n \in 1..MaxPart, OnResponseBody(n) PROVE Goal
  BY <1>12 DEF OnResponseBody
<1>13. CASE TunnelFromClient
  BY <1>13 DEF TunnelFromClient
<1>14. CASE TunnelFromUpstream
  BY <1>14 DEF TunnelFromUpstream
<1>15. CASE UpstreamHandshakeDone
  BY <1>15 DEF UpstreamHandshakeDone
<1>16. CASE UpstreamHandshakeFails
  BY <1>16 DEF UpstreamHandshakeFails
<1>17. CASE ClientHandshakeDone
  BY <1>17 DEF ClientHandshakeDone
<1>18. CASE ClientHandshakeFails
  BY <1>18 DEF ClientHandshakeFails
<1>19. CASE TlsEnds
  BY <1>19 DEF TlsEnds
<1>20. CASE TlsFails
  BY <1>20 DEF TlsFails
<1>21. CASE FlushClient
  BY <1>21 DEF FlushClient
<1>22. CASE FlushUpstream
  BY <1>22 DEF FlushUpstream
<1>23. CASE UNCHANGED vars
  BY <1>23 DEF vars
<1>24. CASE DecodeEnds
  BY <1>24 DEF DecodeEnds
<1>25. CASE ConnectEventClosed
  BY <1>25 DEF ConnectEventClosed
<1> QED
  BY <1>1, <1>2, <1>3, <1>4, <1>5, <1>6, <1>7, <1>8, <1>9, <1>10, <1>11, <1>12, <1>13, <1>14,
     <1>15, <1>16, <1>17, <1>18, <1>19, <1>20, <1>21, <1>22, <1>23, <1>24, <1>25 DEF Next

(* What the client got it keeps. *)
LEMMA Told ==
    ASSUME NEW s \in Seq(Replies), NEW x
    PROVE  /\ IsIn(x, Append(s, x))
           /\ \A y : IsIn(y, s) => IsIn(y, Append(s, x))
BY DEF IsIn

(* Every step keeps the order of an exchange with a client that waits. *)
LEMMA TurnsInductive == Typing /\ Turns /\ [Next]_vars => Turns'
<1> SUFFICES ASSUME Typing, Turns, [Next]_vars PROVE Turns'
  OBVIOUS
<1>0. /\ Modes /\ req \in Nat /\ answered \in Nat /\ upReq \in Nat
      /\ connecting = "watched" => req > 0
      /\ inMessage /\ tlsUpstream = "open" => answered + 1 \in 1..req
      /\ clientGot \in Seq(Replies) /\ toClient \in Seq(Replies)
  BY DEF Typing, HeadsMade, Parsing, Data
<1> USE <1>0 DEF Modes, Turns, sessionVars, connVars, responseVars, peerVars,
                 CloseAll, WriteFails, Written, waitVars, CloseConn
<1>1. CASE Start
  BY <1>1 DEF Start
<1>2. CASE Close
  BY <1>2 DEF Close
<1>3. CASE OnRequest
  <2> SUFFICES ASSUME ~closed', ~pipelined' PROVE Turns'
    BY DEF Turns
  <2>0. ~closed
    BY OneWay
  <2>1. ~closed /\ ~pipelined /\ LastAnswered /\ req' = req + 1
    BY <1>3, <2>0 DEF OnRequest
  <2>2. CASE isTlsMitm
    BY <1>3, <2>1, <2>2 DEF OnRequest, LastAnswered
  <2>3. CASE ~isTlsMitm
    <3>1. ~isConnect /\ ~isTunnel /\ answered = 0 /\ req' > 0
      BY <1>3, <2>1, <2>3 DEF OnRequest, ClientParsed
    <3>2. toClient = <<>> /\ upstream = "none" /\ connecting # "watched"
      BY <2>1, <2>3, <3>1 DEF LastAnswered
    <3>3. CASE isConnect' /\ OnUpstreamConnected(req', TRUE, TRUE, "client") /\ ~refused'
      <4>1. answered' = req' /\ connecting' = "none"
        BY <3>1, <3>3 DEF OnUpstreamConnected, StartTunnel, StartTlsMitm
      <4>2. CASE certGen
        <5>1. StartTlsMitm
          BY <3>3, <4>2 DEF OnUpstreamConnected
        <5>2. isTlsMitm' /\ upstream' = "none" /\ clientGot' = Append(clientGot, Established)
          BY <3>2, <5>1 DEF StartTlsMitm, WriteEstablished
        <5>3. IsIn(Established, clientGot')
          BY <5>2, Told
        <5> QED
          BY <3>1, <3>3, <4>1, <5>2, <5>3
      <4>3. CASE ~certGen
        <5>1. StartTunnel
          BY <3>3, <4>3 DEF OnUpstreamConnected
        <5> QED
          BY <2>3, <3>1, <3>3, <4>1, <5>1 DEF StartTunnel
      <4> QED
        BY <4>2, <4>3
    <3>4. ASSUME NEW ok \in BOOLEAN, ~isConnect', ~refused',
                 OnUpstreamConnected(req', FALSE, ok, "client")
          PROVE  Turns'
      BY <2>3, <3>1, <3>4 DEF OnUpstreamConnected, ForwardRequest
    <3>5. CASE ConnectLeft \/ ConnectWaits \/ \E sock \in {connecting, "idle"} :
       ConnectFails(req', sock)
      BY <2>0, <2>3, <3>1, <3>2, <3>5 DEF ConnectFails, ConnectLeft, ConnectWaits
    <3>6. \/ isConnect' /\ ConnectUpstream(req', TRUE)
          \/ ~isConnect' /\ ConnectUpstream(req', FALSE)
      BY <1>3, <2>3, <3>1 DEF OnRequest
    <3> QED
      BY <3>3, <3>4, <3>5, <3>6 DEF ConnectUpstream
  <2> QED
    BY <2>2, <2>3
<1>4. CASE OnRequestBody
  BY <1>4 DEF OnRequestBody, ClientParsed, InRequest
<1>5. CASE ClientParseError
  BY <1>5 DEF ClientParseError
<1>6. CASE ClientEnds
  BY <1>6 DEF ClientEnds
<1>7. CASE ConnectEvent
  BY <1>7, Told DEF ConnectEvent, OnUpstreamConnected, ForwardRequest, StartTunnel,
     StartTlsMitm, WriteEstablished
<1>8. CASE OnResponse
  BY <1>8 DEF OnResponse, UpstreamParsed
<1>9. CASE OnResponseComplete
  BY <1>9 DEF OnResponseComplete, UpstreamParsed, Responding, ResetBodies
<1>10. CASE UpstreamParseError
  BY <1>10 DEF UpstreamParseError
<1>11. CASE UpstreamEnds
  BY <1>11 DEF UpstreamEnds
<1>12. ASSUME NEW n \in 1..MaxPart, OnResponseBody(n) PROVE Turns'
  BY <1>12 DEF OnResponseBody, UpstreamParsed
<1>13. CASE TunnelFromClient
  BY <1>13 DEF TunnelFromClient
<1>14. CASE TunnelFromUpstream
  BY <1>14 DEF TunnelFromUpstream
<1>15. CASE UpstreamHandshakeDone
  BY <1>15 DEF UpstreamHandshakeDone
<1>16. CASE UpstreamHandshakeFails
  BY <1>16 DEF UpstreamHandshakeFails
<1>17. CASE ClientHandshakeDone
  BY <1>17 DEF ClientHandshakeDone
<1>18. CASE ClientHandshakeFails
  BY <1>18 DEF ClientHandshakeFails
<1>19. CASE TlsEnds
  BY <1>19 DEF TlsEnds
<1>20. CASE TlsFails
  BY <1>20 DEF TlsFails
<1>21. CASE FlushClient
  BY <1>21, Told DEF FlushClient
<1>22. CASE FlushUpstream
  BY <1>22 DEF FlushUpstream
<1>23. CASE UNCHANGED vars
  BY <1>23 DEF vars
<1>24. CASE DecodeEnds
  BY <1>24 DEF DecodeEnds
<1>25. CASE ConnectEventClosed
  BY <1>25 DEF ConnectEventClosed
<1> QED
  BY <1>1, <1>2, <1>3, <1>4, <1>5, <1>6, <1>7, <1>8, <1>9, <1>10, <1>11, <1>12, <1>13, <1>14,
     <1>15, <1>16, <1>17, <1>18, <1>19, <1>20, <1>21, <1>22, <1>23, <1>24, <1>25 DEF Next

(* A client that waits for its answers takes turns with its upstream. *)
LEMMA TurnsKept == Spec => []Turns
<1>1. Init => Turns
  BY DEF Init, Turns
<1> QED
  BY <1>1, TurnsInductive, TypingKept, PTL DEF Spec

(* What the client has got it has got for good. *)
LEMMA ToldStays ==
    ASSUME clientGot \in Seq(Replies), toClient \in Seq(Replies), [Next]_vars,
           NEW x, IsIn(x, clientGot)
    PROVE  IsIn(x, clientGot')
<1>1. ASSUME NEW ps \in Seq(Replies), clientGot' = clientGot \o ps
      PROVE  IsIn(x, clientGot')
  BY <1>1, ConcatProperties DEF IsIn
<1>2. CASE ClientParseError
  <2> DEFINE buffered == IF isTlsMitm THEN <<>> ELSE Append(toClient, BadRequest)
  <2>1. BadRequest \in Replies
    BY ProxySessionAssumption DEF BadRequest, Replies, Parts
  <2>2. Append(toClient, BadRequest) \in Seq(Replies)
    BY <2>1, AppendProperties
  <2>3. buffered \in Seq(Replies)
    BY <2>2
  <2>4. PICK n \in 0..Len(buffered) : clientGot' = clientGot \o SubSeq(buffered, 1, n)
    BY <1>2 DEF ClientParseError
  <2> HIDE DEF buffered
  <2>5. SubSeq(buffered, 1, n) \in Seq(Replies)
    BY <2>3, LenProperties, SubSeqProperties
  <2> QED
    BY <1>1, <2>4, <2>5
<1>3. CASE OnRequest \/ ConnectEvent \/ FlushClient
  <2>1. clientGot' = clientGot \/ \E y : clientGot' = Append(clientGot, y)
    BY <1>3 DEF OnRequest, ConnectEvent, FlushClient, ConnectUpstream, ConnectFails,
        ConnectLeft, ConnectWaits, OnUpstreamConnected, ForwardRequest, StartTunnel, StartTlsMitm,
        WriteEstablished
  <2> QED
    BY <2>1 DEF IsIn
<1>4. ASSUME NEW n \in 1..MaxPart, OnResponseBody(n) PROVE IsIn(x, clientGot')
  BY <1>4 DEF OnResponseBody
<1>5. CASE \/ Start \/ Close \/ OnRequestBody \/ ClientEnds \/ OnResponse
           \/ OnResponseComplete \/ UpstreamParseError \/ UpstreamEnds
           \/ TunnelFromClient \/ TunnelFromUpstream \/ UpstreamHandshakeDone
           \/ UpstreamHandshakeFails \/ ClientHandshakeDone
           \/ ClientHandshakeFails \/ TlsEnds \/ TlsFails \/ FlushUpstream
           \/ UNCHANGED vars \/ DecodeEnds \/ ConnectEventClosed
  BY <1>5 DEF Start, Close, OnRequestBody, ClientEnds, OnResponse, OnResponseComplete,
        UpstreamParseError, UpstreamEnds, TunnelFromClient, TunnelFromUpstream,
        UpstreamHandshakeDone, UpstreamHandshakeFails, ClientHandshakeDone,
        ClientHandshakeFails, TlsEnds, TlsFails, FlushUpstream, DecodeEnds,
           ConnectEventClosed, vars, sessionVars, connVars,
        parseVars, responseVars
<1> QED
  BY <1>2, <1>3, <1>4, <1>5 DEF Next

(* When TLS takes over the client's socket, the 200 has gone out in the      *)
(* clear, nobody else reads the socket, and the upstream's handshake is done *)
(* - and it stays so, whatever becomes of the session.  The 200 is certain   *)
(* only because a CONNECT of a client that waits finds nothing buffered      *)
(* before it (Turns): UpstreamHandshakeDone drops what is.                   *)
THEOREM HandoverInTheClear == Spec => []SocketHandover
<1> DEFINE InClear == ~pipelined /\ isTlsMitm => IsIn(Established, clientGot)
<1>1. Init => InClear
  BY DEF Init
<1>2. Typing /\ Turns /\ Turns' /\ InClear /\ [Next]_vars => InClear'
  <2> SUFFICES ASSUME Typing, Turns, Turns', InClear, [Next]_vars, ~pipelined', isTlsMitm'
               PROVE  IsIn(Established, clientGot')
    BY Zenon
  <2>1. Modes /\ clientGot \in Seq(Replies) /\ toClient \in Seq(Replies)
    BY DEF Typing, Data
  <2>2. CASE isTlsMitm
    <3>1. ~pipelined
      BY OneWay
    <3> QED
      BY <2>1, <2>2, <3>1, ToldStays
  <2>3. CASE ~isTlsMitm
    <3>1. ~closed'
      BY <2>3, OneWay
    <3> QED
      BY <3>1 DEF Turns
  <2> QED
    BY <2>2, <2>3
<1>3. Modes /\ InClear => SocketHandover
  BY DEF Modes, SocketHandover
<1> QED
  BY <1>1, <1>2, <1>3, ModesKept, TypingKept, TurnsKept, PTL DEF Spec

-----------------------------------------------------------------------------
(* Sequences of parts. *)

(* A part added to a buffer is added to what was sent and buffered. *)
LEMMA AppendAtEnd ==
    ASSUME NEW S, NEW s \in Seq(S), NEW t \in Seq(S), NEW x
    PROVE  s \o (t \o <<x>>) = Append(s \o t, x)
<1> DEFINE T == S \cup {x}
<1>1. s \in Seq(T) /\ t \in Seq(T) /\ x \in T
  BY SeqOfSubset
<1> HIDE DEF T
<1> QED
  BY <1>1

(* Sending the first part of a buffer keeps what was sent and buffered. *)
LEMMA MoveOne ==
    ASSUME NEW S, NEW s \in Seq(S), NEW t \in Seq(S), t # <<>>
    PROVE  Append(s, Head(t)) \o Tail(t) = s \o t
OBVIOUS

(* A part added behind others leaves the first in front. *)
LEMMA TailOfAppend ==
    ASSUME NEW S, NEW s \in Seq(S), s # <<>>, NEW x
    PROVE  /\ Tail(Append(s, x)) = Append(Tail(s), x)
           /\ Head(Append(s, x)) = Head(s) /\ Append(s, x) # <<>>
<1> DEFINE T == S \cup {x}
<1>1. s \in Seq(T) /\ x \in T
  BY SeqOfSubset
<1> HIDE DEF T
<1> QED
  BY <1>1

(* A head, and what follows it. *)
LEMMA HeadThenTail ==
    ASSUME NEW S, NEW s \in Seq(S), s # <<>>
    PROVE  <<Head(s)>> \o Tail(s) = s
OBVIOUS

(* An empty buffer adds nothing. *)
LEMMA WithEmpty ==
    ASSUME NEW S, NEW s \in Seq(S)
    PROVE  s \o <<>> = s /\ <<>> \o s = s
OBVIOUS

(* The body of a refused request that is left stays. *)
LEMMA LeftOverStays ==
    ASSUME asked \in Seq(Requests), [Next]_vars, ~LeftOver'
    PROVE  ~LeftOver
<1>1. ASSUME NEW x, asked' = Append(asked, x) PROVE ~LeftOver
  BY <1>1, TailOfAppend DEF LeftOver
<1>2. CASE asked' = asked
  BY <1>2 DEF LeftOver
<1>3. CASE OnRequest \/ OnRequestBody \/ TunnelFromClient
  <2>1. asked' = asked \/ \E x : asked' = Append(asked, x)
    BY <1>3 DEF OnRequest, OnRequestBody, TunnelFromClient
  <2> QED
    BY <1>1, <1>2, <2>1
<1>4. ASSUME NEW n \in 1..MaxPart, OnResponseBody(n) PROVE ~LeftOver
  BY <1>2, <1>4 DEF OnResponseBody
<1>5. CASE \/ Start \/ Close \/ ClientParseError \/ ClientEnds \/ ConnectEvent
           \/ OnResponse \/ OnResponseComplete \/ UpstreamParseError
           \/ UpstreamEnds \/ TunnelFromUpstream \/ UpstreamHandshakeDone
           \/ UpstreamHandshakeFails \/ ClientHandshakeDone
           \/ ClientHandshakeFails \/ TlsEnds \/ TlsFails \/ FlushClient
           \/ FlushUpstream \/ UNCHANGED vars \/ DecodeEnds \/ ConnectEventClosed
  <2>1. asked' = asked
    BY <1>5 DEF Start, Close, ClientParseError, ClientEnds, ConnectEvent, OnResponse,
        OnResponseComplete, UpstreamParseError, UpstreamEnds, TunnelFromUpstream,
        UpstreamHandshakeDone, UpstreamHandshakeFails, ClientHandshakeDone,
        ClientHandshakeFails, TlsEnds, TlsFails, FlushClient, FlushUpstream, DecodeEnds,
        ConnectEventClosed, vars
  <2> QED
    BY <1>2, <2>1
<1> QED
  BY <1>3, <1>4, <1>5 DEF Next

(* Every step keeps what was asked before the upstream is there. *)
LEMMA AskedBeforeInductive ==
    Typing /\ Turns /\ AskedBefore /\ [Next]_vars => AskedBefore'
<1> SUFFICES ASSUME Typing, Turns, AskedBefore, [Next]_vars, ~closed', ~pipelined',
                    ~LeftOver'
             PROVE  AskedBefore'
  BY DEF AskedBefore
<1>0. /\ Modes /\ asked \in Seq(Requests) /\ upGot \in Seq(Requests)
      /\ toUpstream \in Seq(Requests) /\ pendingBody \in Seq(Requests)
      /\ ~closed /\ ~pipelined /\ ~LeftOver /\ req \in Nat
  BY RequestsType, OneWay, LeftOverStays DEF Typing, HeadsMade
<1> USE <1>0 DEF Modes, AskedBefore, sessionVars, connVars, CloseAll, WriteFails, Written, waitVars, CloseConn
<1>1. CASE Start
  BY <1>1 DEF Start
<1>2. CASE Close
  BY <1>2 DEF Close
<1>3. CASE OnRequest
  <2>1. LastAnswered /\ req' = req + 1
    BY <1>3 DEF OnRequest
  <2>2. CASE isTlsMitm
    BY <1>3, <2>1, <2>2 DEF OnRequest, ClientParsed, Turns
  <2>3. CASE ~isTlsMitm
    <3>1. ~isConnect /\ asked = <<>> /\ pendingBody = <<>>
      <4>1. ~isConnect /\ ~isTunnel
        BY <1>3, <2>3 DEF OnRequest, ClientParsed
      <4>2. CASE req = answered
        BY <2>3, <4>1, <4>2 DEF Turns
      <4>3. CASE refused
        BY <4>1, <4>3
      <4> QED
        BY <2>1, <4>1, <4>2, <4>3 DEF LastAnswered
    <3>2. /\ isConnect' => asked' = <<>>
          /\ ~isConnect' => asked' = IF refused' THEN <<>> ELSE <<ReqHead(req')>>
      <4>1. \/ isConnect' /\ asked' = asked
            \/ /\ isConnect' = isConnect
               /\ asked' = IF refused' THEN asked ELSE Append(asked, ReqHead(req'))
        BY <1>3, <2>3 DEF OnRequest
      <4>2. Append(<<>>, ReqHead(req')) = <<ReqHead(req')>>
        OBVIOUS
      <4> QED
        BY <3>1, <4>1, <4>2
    <3>3. /\ pendingBody' = <<>>
          /\ tlsUpstream' \in {"handshake", "ready"} => upGot' = <<>> /\ toUpstream' = <<>>
      BY <1>3, <2>3, <3>1 DEF OnRequest, ConnectUpstream, ConnectFails, ConnectLeft, ConnectWaits,
          OnUpstreamConnected, ForwardRequest, StartTunnel, StartTlsMitm
    <3> QED
      BY <3>2, <3>3
  <2> QED
    BY <2>2, <2>3
<1>4. CASE OnRequestBody
  <2>1. PICK i : asked' = Append(asked, BodyPart(i))
    BY <1>4 DEF OnRequestBody
  <2>2. asked # <<>> => asked' # <<>> /\ Head(asked') = Head(asked)
    BY <2>1, TailOfAppend
  <2>3. ~refused
    <3>1. SUFFICES ASSUME refused PROVE FALSE
      OBVIOUS
    <3>2. asked = <<>>
      BY <3>1
    <3>3. Head(Append(<<>>, BodyPart(i))) = BodyPart(i) /\ Append(<<>>, BodyPart(i)) # <<>>
      OBVIOUS
    <3>4. BodyPart(i)[1] = "rbody"
      BY DEF BodyPart
    <3> QED
      BY <2>1, <3>2, <3>3, <3>4 DEF LeftOver
  <2>4. asked # <<>>
    BY <1>4, <2>3 DEF OnRequestBody, ClientParsed, InRequest, IsIn
  <2> QED
    BY <1>4, <2>2, <2>3, <2>4 DEF OnRequestBody, ClientParsed
<1>5. CASE ClientParseError
  BY <1>5 DEF ClientParseError
<1>6. CASE ClientEnds
  BY <1>6 DEF ClientEnds
<1>7. CASE ConnectEvent
  BY <1>7 DEF ConnectEvent, OnUpstreamConnected, ForwardRequest, StartTunnel, StartTlsMitm
<1>8. CASE OnResponse
  BY <1>8 DEF OnResponse
<1>9. CASE OnResponseComplete
  BY <1>9 DEF OnResponseComplete, UpstreamParsed, ResetBodies
<1>10. CASE UpstreamParseError
  BY <1>10 DEF UpstreamParseError
<1>11. CASE UpstreamEnds
  BY <1>11 DEF UpstreamEnds
<1>12. ASSUME NEW n \in 1..MaxPart, OnResponseBody(n) PROVE AskedBefore'
  BY <1>12 DEF OnResponseBody
<1>13. CASE TunnelFromClient
  BY <1>13 DEF TunnelFromClient, Turns
<1>14. CASE TunnelFromUpstream
  BY <1>14 DEF TunnelFromUpstream
<1>15. CASE UpstreamHandshakeDone
  BY <1>15 DEF UpstreamHandshakeDone
<1>16. CASE UpstreamHandshakeFails
  BY <1>16 DEF UpstreamHandshakeFails
<1>17. CASE ClientHandshakeDone
  BY <1>17 DEF ClientHandshakeDone
<1>18. CASE ClientHandshakeFails
  BY <1>18 DEF ClientHandshakeFails
<1>19. CASE TlsEnds
  BY <1>19 DEF TlsEnds
<1>20. CASE TlsFails
  BY <1>20 DEF TlsFails
<1>21. CASE FlushClient
  BY <1>21 DEF FlushClient
<1>22. CASE FlushUpstream
  BY <1>22 DEF FlushUpstream
<1>23. CASE UNCHANGED vars
  BY <1>23 DEF vars
<1>24. CASE DecodeEnds
  BY <1>24 DEF DecodeEnds
<1>25. CASE ConnectEventClosed
  BY <1>25 DEF ConnectEventClosed
<1> QED
  BY <1>1, <1>2, <1>3, <1>4, <1>5, <1>6, <1>7, <1>8, <1>9, <1>10, <1>11, <1>12, <1>13, <1>14,
     <1>15, <1>16, <1>17, <1>18, <1>19, <1>20, <1>21, <1>22, <1>23, <1>24, <1>25 DEF Next

(* Every step keeps requests intact. *)
LEMMA RequestInductive ==
    Typing /\ Turns /\ AskedBefore /\ RequestIntact /\ [Next]_vars => RequestIntact'
<1> SUFFICES ASSUME Typing, Turns, AskedBefore, RequestIntact, [Next]_vars,
                    ~closed', ~pipelined', ~LeftOver', tlsUpstream' # "closed"
             PROVE  IF UpstreamOpen'
                    THEN upGot' \o toUpstream' = asked' /\ pendingBody' = <<>>
                    ELSE asked' # <<>> => pendingBody' = Tail(asked')
  BY DEF RequestIntact
<1>0. /\ Modes /\ asked \in Seq(Requests) /\ upGot \in Seq(Requests)
      /\ toUpstream \in Seq(Requests) /\ pendingBody \in Seq(Requests)
      /\ ~closed /\ ~pipelined /\ ~LeftOver
      /\ req \in Nat /\ (connecting = "watched" => req > 0)
  BY RequestsType, OneWay, LeftOverStays DEF Typing, HeadsMade
<1> DEFINE Intact == IF UpstreamOpen'
                     THEN upGot' \o toUpstream' = asked' /\ pendingBody' = <<>>
                     ELSE asked' # <<>> => pendingBody' = Tail(asked')
<1> USE <1>0 DEF Modes, UpstreamOpen, sessionVars, connVars, CloseAll, WriteFails, Written, waitVars, CloseConn
<1>1. CASE Start
  BY <1>1 DEF Start, RequestIntact
<1>2. CASE Close
  BY <1>2 DEF Close, RequestIntact
<1>3. CASE OnRequest
  <2>1. LastAnswered /\ req' = req + 1
    BY <1>3 DEF OnRequest
  <2>2. CASE isTlsMitm
    <3>1. tlsUpstream = "open" /\ UpstreamOpen /\ UpstreamOpen'
      BY <1>3, <2>2 DEF OnRequest, ClientParsed
    <3>2. upGot \o toUpstream = asked /\ pendingBody = <<>>
      BY <3>1 DEF RequestIntact
    <3>3. /\ upGot' = upGot /\ toUpstream' = toUpstream \o (<<ReqHead(req')>> \o pendingBody)
          /\ pendingBody' = <<>> /\ asked' = Append(asked, ReqHead(req'))
      BY <1>3, <2>2, <3>1 DEF OnRequest, WriteToUpstream
    <3>4. <<ReqHead(req')>> \o <<>> = <<ReqHead(req')>>
      OBVIOUS
    <3>5. upGot \o (toUpstream \o <<ReqHead(req')>>) = Append(upGot \o toUpstream, ReqHead(req'))
      BY AppendAtEnd
    <3> QED
      BY <3>1, <3>2, <3>3, <3>4, <3>5
  <2>3. CASE ~isTlsMitm
    <3>1. /\ ~isConnect /\ asked = <<>> /\ pendingBody = <<>>
          /\ upstream = "none" /\ tlsUpstream = "none"
      <4>1. ~isConnect /\ ~isTunnel /\ tlsUpstream = "none"
        BY <1>3, <2>3 DEF OnRequest, ClientParsed
      <4>2. CASE req = answered
        BY <2>3, <4>1, <4>2 DEF Turns
      <4>3. CASE refused
        BY <4>1, <4>3 DEF Turns, AskedBefore
      <4> QED
        BY <2>1, <4>1, <4>2, <4>3 DEF LastAnswered
    <3>2. Append(<<>>, ReqHead(req')) = <<ReqHead(req')>> /\ Tail(<<ReqHead(req')>>) = <<>>
          /\ <<ReqHead(req')>> \o <<>> = <<ReqHead(req')>> /\ <<>> \o <<>> = <<>>
          /\ <<>> \o <<ReqHead(req')>> = <<ReqHead(req')>>
      OBVIOUS
    <3>3. CASE asked' = <<>> /\ ConnectUpstream(req', TRUE)
      BY <2>3, <3>1, <3>2, <3>3 DEF ConnectUpstream, ConnectFails, ConnectLeft, ConnectWaits,
          OnUpstreamConnected, StartTunnel, StartTlsMitm
    <3>4. CASE /\ asked' = IF refused' THEN <<>> ELSE <<ReqHead(req')>>
               /\ ConnectUpstream(req', FALSE)
      BY <2>3, <3>1, <3>2, <3>4 DEF ConnectUpstream, ConnectFails, ConnectLeft, ConnectWaits,
          OnUpstreamConnected, ForwardRequest
    <3> QED
      BY <1>3, <2>3, <3>1, <3>2, <3>3, <3>4 DEF OnRequest
  <2> QED
    BY <2>2, <2>3
<1>4. CASE OnRequestBody
  <2>1. PICK i : /\ asked' = Append(asked, BodyPart(i))
                 /\ WriteToUpstream(Append(pendingBody, BodyPart(i)))
                 /\ pendingBody' = IF UpstreamOpen THEN <<>>
                                                   ELSE Append(pendingBody, BodyPart(i))
    BY <1>4 DEF OnRequestBody
  <2>2. asked # <<>>
    <3>1. CASE isTlsMitm
      BY <1>4, <3>1 DEF OnRequestBody, InRequest, IsIn
    <3>2. CASE ~isTlsMitm /\ ~refused
      BY <1>4, <3>2 DEF OnRequestBody, ClientParsed, InRequest, AskedBefore
    <3>3. ASSUME refused, asked = <<>> PROVE FALSE
      <4>1. Head(Append(<<>>, BodyPart(i))) = BodyPart(i) /\ Append(<<>>, BodyPart(i)) # <<>>
        OBVIOUS
      <4>2. BodyPart(i)[1] = "rbody"
        BY DEF BodyPart
      <4> QED
        BY <2>1, <3>3, <4>1, <4>2 DEF LeftOver
    <3> QED
      BY <3>1, <3>2, <3>3
  <2>3. UNCHANGED <<upGot, isTlsMitm, tlsUpstream, upstream>>
    BY <1>4 DEF OnRequestBody
  <2>4. CASE UpstreamOpen /\ tlsUpstream # "closed"
    <3>1. upGot \o toUpstream = asked /\ pendingBody = <<>>
      BY <2>4 DEF RequestIntact
    <3>2. toUpstream' = toUpstream \o <<BodyPart(i)>>
      BY <2>1, <2>4, <3>1 DEF WriteToUpstream
    <3>3. upGot' \o toUpstream' = asked'
      <4>1. upGot \o (toUpstream \o <<BodyPart(i)>>) = Append(upGot \o toUpstream, BodyPart(i))
        BY AppendAtEnd
      <4> QED
        BY <2>1, <2>3, <3>1, <3>2, <4>1, Zenon
    <3> QED
      BY <2>1, <2>3, <2>4, <3>3
  <2>5. CASE ~UpstreamOpen /\ tlsUpstream # "closed"
    <3>1. pendingBody = Tail(asked)
      BY <2>2, <2>5 DEF RequestIntact
    <3>2. pendingBody' = Tail(asked')
      BY <2>1, <2>2, <2>5, <3>1, TailOfAppend
    <3> QED
      BY <2>3, <2>5, <3>2
  <2> QED
    BY <2>3, <2>4, <2>5
<1>5. CASE ClientParseError
  BY <1>5 DEF ClientParseError, RequestIntact
<1>6. CASE ClientEnds
  BY <1>6 DEF ClientEnds, RequestIntact
<1>7. CASE ConnectEvent
  <2>1. PICK ok \in BOOLEAN : OnUpstreamConnected(req, isConnect, ok, "none")
    BY <1>7 DEF ConnectEvent
  <2>2. /\ upstream = "none" /\ ~UpstreamOpen /\ ~isTlsMitm /\ ~isTunnel
        /\ tlsUpstream = "none" /\ req > 0 /\ asked' = asked /\ ~refused
    BY <1>7 DEF ConnectEvent, Turns
  <2>3. asked # <<>> => pendingBody = Tail(asked)
    BY <2>2 DEF RequestIntact
  <2>4. CASE isConnect
    <3>1. asked = <<>> /\ pendingBody = <<>>
      BY <2>2, <2>4 DEF AskedBefore
    <3>2. <<>> \o <<>> = <<>>
      OBVIOUS
    <3> QED
      BY <2>1, <2>2, <2>4, <3>1, <3>2 DEF OnUpstreamConnected, StartTunnel, StartTlsMitm
  <2>5. CASE ~isConnect
    <3>1. asked # <<>> /\ Head(asked) = ReqHead(req)
      BY <2>2, <2>5 DEF AskedBefore
    <3>2. <<>> \o asked = asked /\ <<Head(asked)>> \o Tail(asked) = asked
      BY <3>1, WithEmpty, HeadThenTail
    <3>3. upGot' = <<>> /\ toUpstream' = asked /\ pendingBody' = <<>> /\ upstream' = "open"
      BY <2>1, <2>3, <2>5, <3>1, <3>2 DEF OnUpstreamConnected, ForwardRequest
    <3>4. isTlsMitm' = isTlsMitm
      BY <2>1, <2>5 DEF OnUpstreamConnected, ForwardRequest
    <3> QED
      BY <2>2, <3>2, <3>3, <3>4
  <2> QED
    BY <2>4, <2>5
<1>8. CASE OnResponse
  BY <1>8 DEF OnResponse, RequestIntact
<1>9. CASE OnResponseComplete
  BY <1>9 DEF OnResponseComplete, UpstreamParsed, ResetBodies, RequestIntact
<1>10. CASE UpstreamParseError
  BY <1>10 DEF UpstreamParseError, RequestIntact
<1>11. CASE UpstreamEnds
  BY <1>11 DEF UpstreamEnds, RequestIntact
<1>12. ASSUME NEW n \in 1..MaxPart, OnResponseBody(n) PROVE Intact
  BY <1>12 DEF OnResponseBody, RequestIntact
<1>13. CASE TunnelFromClient
  <2>1. PICK i : asked' = Append(asked, Raw(i)) /\ WriteToUpstream(<<Raw(i)>>)
    BY <1>13 DEF TunnelFromClient
  <2>2. UpstreamOpen /\ UpstreamOpen' /\ UNCHANGED <<upGot, pendingBody>>
        /\ tlsUpstream # "closed"
    BY <1>13 DEF TunnelFromClient
  <2>3. upGot \o toUpstream = asked /\ pendingBody = <<>>
    BY <2>2 DEF RequestIntact
  <2>4. upGot' \o toUpstream' = asked'
    <3>1. toUpstream' = toUpstream \o <<Raw(i)>>
      BY <2>1, <2>2 DEF WriteToUpstream
    <3>2. upGot \o (toUpstream \o <<Raw(i)>>) = Append(upGot \o toUpstream, Raw(i))
      BY AppendAtEnd
    <3> QED
      BY <2>1, <2>2, <2>3, <3>1, <3>2, Zenon
  <2> QED
    BY <2>2, <2>3, <2>4
<1>14. CASE TunnelFromUpstream
  BY <1>14 DEF TunnelFromUpstream, RequestIntact
<1>15. CASE UpstreamHandshakeDone
  BY <1>15 DEF UpstreamHandshakeDone, RequestIntact
<1>16. CASE UpstreamHandshakeFails
  BY <1>16 DEF UpstreamHandshakeFails, RequestIntact
<1>17. CASE ClientHandshakeDone
  <2>1. asked = <<>> /\ pendingBody = <<>> /\ upGot = <<>> /\ toUpstream = <<>>
    BY <1>17 DEF ClientHandshakeDone, AskedBefore
  <2>2. <<>> \o <<>> = <<>>
    OBVIOUS
  <2> QED
    BY <1>17, <2>1, <2>2 DEF ClientHandshakeDone
<1>18. CASE ClientHandshakeFails
  BY <1>18 DEF ClientHandshakeFails, RequestIntact
<1>19. CASE TlsEnds
  BY <1>19 DEF TlsEnds, RequestIntact
<1>20. CASE TlsFails
  BY <1>20 DEF TlsFails, RequestIntact
<1>21. CASE FlushClient
  BY <1>21 DEF FlushClient, RequestIntact
<1>22. CASE FlushUpstream
  <2>1. upGot' \o toUpstream' = upGot \o toUpstream
    BY <1>22, MoveOne DEF FlushUpstream
  <2>2. UNCHANGED <<asked, pendingBody, isTlsMitm, tlsUpstream, upstream>>
    BY <1>22 DEF FlushUpstream
  <2> QED
    BY <2>1, <2>2 DEF RequestIntact
<1>23. CASE UNCHANGED vars
  BY <1>23 DEF vars, RequestIntact
<1>24. CASE DecodeEnds
  BY <1>24 DEF DecodeEnds, RequestIntact
<1>25. CASE ConnectEventClosed
  BY <1>25 DEF ConnectEventClosed, RequestIntact
<1> QED
  BY <1>1, <1>2, <1>3, <1>4, <1>5, <1>6, <1>7, <1>8, <1>9, <1>10, <1>11, <1>12, <1>13, <1>14,
     <1>15, <1>16, <1>17, <1>18, <1>19, <1>20, <1>21, <1>22, <1>23, <1>24, <1>25 DEF Next

(* The upstream is sent exactly what the client asked, in order, whether a   *)
(* body part came before or after the connect was done, on a plain           *)
(* connection, through a tunnel and inside an interception: for a client     *)
(* that waits for each response, none of whose refused requests had a body.  *)
THEOREM RequestsIntact == Spec => []RequestIntact
<1>1. Init => AskedBefore /\ RequestIntact
  BY DEF Init, AskedBefore, RequestIntact, UpstreamOpen
<1> QED
  BY <1>1, AskedBeforeInductive, RequestInductive, TypingKept, TurnsKept, PTL DEF Spec

-----------------------------------------------------------------------------
(* The inspector. *)

(* A body collected up to m and the next n parts are the body up to m + n. *)
LEMMA WholeThenMore ==
    ASSUME NEW r, NEW m \in Nat, NEW n \in Nat
    PROVE  LET Whole(k) == [i \in 1..k |-> <<"body", r, i>>]
           IN  /\ Whole(m) \o [i \in 1..n |-> <<"body", r, m + i>>] = Whole(m + n)
               /\ Len(Whole(m + n)) = m + n
OBVIOUS

(* Every step keeps what is captured the front of the response under way. *)
LEMMA CollectingInductive ==
    Typing /\ Turns /\ Collecting /\ [Next]_vars => Collecting'
<1> SUFFICES ASSUME Typing, Turns, Collecting, [Next]_vars,
                    ~closed' \/ decoding' = "upstream", ~pipelined'
             PROVE  Collecting'
  BY DEF Collecting
<1>0. /\ Modes /\ responseBody \in Seq(Parts({"body"})) /\ Len(responseBody) \in Nat
      /\ ~closed \/ decoding = "upstream"
      /\ ~pipelined /\ req \in Nat /\ answered \in Nat /\ upReq \in Nat
      /\ part \in Nat /\ MaxInspect \in Nat /\ MaxPart \in Nat
  BY ProxySessionAssumption, OneWay DEF Typing, HeadsMade, Parsing, Data
<1> USE <1>0 DEF Modes, sessionVars, connVars, parseVars, responseVars, peerVars, CloseAll, WriteFails, Written, waitVars
<1>1. CASE Start
  BY <1>1 DEF Start, Collecting, Responding
<1>2. CASE Close
  BY <1>2 DEF Close, Collecting, Responding
<1>3. CASE OnRequest
  <2>1. LastAnswered /\ ~closed /\ req' = req + 1 /\ UNCHANGED <<inMessage, responseBody>>
    BY <1>3 DEF OnRequest, ClientParsed
  <2>2. ~isTlsMitm => upstream = "none"
    BY <1>3, <2>1 DEF OnRequest, ClientParsed, LastAnswered, Turns
  <2>3. ~inMessage
    BY <2>1, <2>2 DEF Collecting, Responding, LastAnswered, Turns
  <2> QED
    BY <2>1, <2>3 DEF Collecting
<1>4. CASE OnRequestBody
  BY <1>4 DEF OnRequestBody, Collecting, Responding
<1>5. CASE ClientParseError
  BY <1>5 DEF ClientParseError, Collecting, Responding
<1>6. CASE ClientEnds
  BY <1>6 DEF ClientEnds, Collecting, Responding
<1>7. CASE ConnectEvent
  <2>1. ~inMessage /\ UNCHANGED <<inMessage, responseBody>>
    BY <1>7 DEF ConnectEvent, OnUpstreamConnected, Collecting, Turns
  <2> QED
    BY <2>1 DEF Collecting
<1>8. CASE OnResponse
  <2>1. responseBody = <<>> /\ responseBody' = <<>> /\ part' = 0 /\ inMessage'
    BY <1>8 DEF OnResponse, Collecting
  <2>2. /\ UpstreamParsed /\ ~closed /\ UNCHANGED <<req, isTlsMitm, isTunnel>>
        /\ UNCHANGED <<tlsUpstream, upstream>> \/ (closed' /\ ~isTlsMitm)
    BY <1>8 DEF OnResponse, UpstreamParsed, Typing, Parsing
  <2>3. Responding' = Responding
    BY <1>8 DEF OnResponse, Responding
  <2>4. Responding \in 1..req
    BY <1>8, HeadWasMade DEF OnResponse, Typing
  <2>5. Responding = req
    BY <2>2, <2>4 DEF UpstreamParsed, Responding, Turns
  <2>6. <<>> = [i \in 1..Len(<<>>) |-> <<"body", Responding, i>>] /\ Len(<<>>) = 0
    OBVIOUS
  <2> QED
    BY <2>1, <2>2, <2>3, <2>5, <2>6 DEF Collecting, UpstreamParsed
<1>9. CASE OnResponseComplete
  BY <1>9 DEF OnResponseComplete, ResetBodies, Collecting
<1>10. CASE UpstreamParseError
  BY <1>10 DEF UpstreamParseError, Collecting, Responding
<1>11. CASE UpstreamEnds
  BY <1>11 DEF UpstreamEnds, Collecting, Responding
<1>12. ASSUME NEW n \in 1..MaxPart, OnResponseBody(n) PROVE Collecting'
  <2> DEFINE body == [i \in 1..n |-> <<"body", Responding, part + i>>]
             Whole(m) == [i \in 1..m |-> <<"body", Responding, i>>]
  <2>1. /\ UpstreamParsed /\ inMessage /\ inMessage' /\ part' = part + n
        /\ UNCHANGED <<req, isTlsMitm, isTunnel>>
        /\ UNCHANGED <<tlsUpstream, upstream, closed>> \/ (closed' /\ ~isTlsMitm)
    BY <1>12 DEF OnResponseBody, UpstreamParsed
  <2>2. Responding' = Responding
    BY <1>12 DEF OnResponseBody, Responding
  <2>3. /\ Responding = req
        /\ IF isTlsMitm THEN tlsUpstream \in {"open", "closed"}
                        ELSE ~isTunnel /\ (upstream = "open" \/ closed)
        /\ responseBody = Whole(Len(responseBody))
        /\ PayloadInspector => Len(responseBody) = part \/ Len(responseBody) >= MaxInspect
        /\ responseBody = <<>> \/ Len(responseBody) < MaxInspect + MaxPart
    BY <2>1 DEF Collecting
  <2>4. CASE PayloadInspector /\ Len(responseBody) < MaxInspect
    <3>0. Len(responseBody) = part
      <4>1. PayloadInspector => Len(responseBody) = part \/ Len(responseBody) >= MaxInspect
        BY <2>3
      <4> QED
        BY ONLY <1>0, <2>4, <4>1
    <3>1. responseBody' = responseBody \o body
      BY <1>12, <2>4, Zenon DEF OnResponseBody
    <3>2. Whole(part) \o body = Whole(part + n) /\ Len(Whole(part + n)) = part + n
      BY WholeThenMore
    <3>3. responseBody' = Whole(part + n) /\ Len(responseBody') = part + n
      BY <2>3, <3>0, <3>1, <3>2
    <3> HIDE DEF body
    <3> QED
      BY <2>1, <2>2, <2>3, <2>4, <3>0, <3>3 DEF Collecting
  <2>5. CASE ~(PayloadInspector /\ Len(responseBody) < MaxInspect)
    <3>1. responseBody' = responseBody
      BY <1>12, <2>5 DEF OnResponseBody
    <3>2. PayloadInspector => Len(responseBody) >= MaxInspect
      BY <2>5
    <3>3. IF isTlsMitm' THEN tlsUpstream' \in {"open", "closed"}
                        ELSE ~isTunnel' /\ (upstream' = "open" \/ closed')
      <4>1. CASE closed' /\ ~isTlsMitm
        BY <2>1, <2>3, <4>1
      <4>2. CASE UNCHANGED <<tlsUpstream, upstream, closed>>
        <5>1. UNCHANGED <<isTlsMitm, isTunnel>>
          BY <2>1
        <5>2. IF isTlsMitm THEN tlsUpstream \in {"open", "closed"}
                           ELSE ~isTunnel /\ (upstream = "open" \/ closed)
          BY <2>3
        <5> QED
          BY ONLY <4>2, <5>1, <5>2, Zenon
      <4> QED
        BY <2>1, <4>1, <4>2
    <3> HIDE DEF body
    <3> QED
      BY <2>1, <2>2, <2>3, <3>1, <3>2, <3>3 DEF Collecting
  <2> QED
    BY <2>4, <2>5
<1>13. CASE TunnelFromClient
  BY <1>13 DEF TunnelFromClient, Collecting, Responding
<1>14. CASE TunnelFromUpstream
  <2>1. ~inMessage
    BY <1>14 DEF TunnelFromUpstream, Collecting
  <2> QED
    BY <1>14, <2>1 DEF TunnelFromUpstream, Collecting
<1>15. CASE UpstreamHandshakeDone
  BY <1>15 DEF UpstreamHandshakeDone, Collecting, Responding
<1>16. CASE UpstreamHandshakeFails
  BY <1>16 DEF UpstreamHandshakeFails, Collecting, Responding
<1>17. CASE ClientHandshakeDone
  <2>1. ~inMessage
    BY <1>17 DEF ClientHandshakeDone, Collecting
  <2> QED
    BY <1>17, <2>1 DEF ClientHandshakeDone, Collecting
<1>18. CASE ClientHandshakeFails
  BY <1>18 DEF ClientHandshakeFails, Collecting, Responding
<1>19. CASE TlsEnds
  BY <1>19 DEF TlsEnds, Collecting, Responding
<1>20. CASE TlsFails
  BY <1>20 DEF TlsFails, Collecting, Responding
<1>21. CASE FlushClient
  BY <1>21 DEF FlushClient, Collecting, Responding
<1>22. CASE FlushUpstream
  BY <1>22 DEF FlushUpstream, Collecting, Responding
<1>23. CASE UNCHANGED vars
  BY <1>23 DEF vars, Collecting, Responding
<1>24. CASE DecodeEnds
  BY <1>24 DEF DecodeEnds, Collecting, Responding
<1>25. CASE ConnectEventClosed
  BY <1>25 DEF ConnectEventClosed, Collecting, Responding
<1> QED
  BY <1>1, <1>2, <1>3, <1>4, <1>5, <1>6, <1>7, <1>8, <1>9, <1>10, <1>11, <1>12, <1>13, <1>14,
     <1>15, <1>16, <1>17, <1>18, <1>19, <1>20, <1>21, <1>22, <1>23, <1>24, <1>25 DEF Next

(* Every step keeps what was inspected among the responses answered. *)
LEMMA InspectedInductive == Typing /\ InspectedBefore /\ [Next]_vars => InspectedBefore'
<1> SUFFICES ASSUME Typing, InspectedBefore, [Next]_vars, ~pipelined'
             PROVE  InspectedBefore'
  BY DEF InspectedBefore
<1>0. /\ Modes /\ inspected \in Seq(Inspections) /\ ~pipelined
      /\ answered \in Nat /\ upReq \in Nat /\ req \in Nat /\ MaxRequests \in Nat
      /\ \A k \in 1..Len(inspected) : inspected[k].of \in Nat
  <2>1. inspected \in Seq(Inspections) /\ MaxRequests \in Nat
    BY ProxySessionAssumption DEF Typing, Data
  <2>2. \A k \in 1..Len(inspected) : inspected[k].of \in Nat
    <3>1. \A k \in 1..Len(inspected) : inspected[k] \in Inspections
      BY <2>1, ElementOfSeq
    <3> QED
      BY <2>1, <3>1 DEF Inspections
  <2> QED
    BY <2>1, <2>2, OneWay DEF Typing, HeadsMade, Parsing
<1> USE <1>0 DEF sessionVars, connVars, parseVars, responseVars, CloseAll, WriteFails, Written, waitVars
<1>1. CASE Start
  BY <1>1 DEF Start, InspectedBefore
<1>2. CASE Close
  BY <1>2 DEF Close, InspectedBefore
<1>3. CASE OnRequest
  <2>1. inspected' = inspected
    BY <1>3 DEF OnRequest
  <2>2. CASE isTlsMitm
    BY <1>3, <2>1, <2>2 DEF OnRequest, InspectedBefore
  <2>3. CASE ~isTlsMitm
    <3>1. CASE ~closed
      BY <2>1, <2>3, <3>1 DEF InspectedBefore
    <3>2. CASE closed
      <4>1. decoding # "upstream" /\ UNCHANGED <<closed, answered>> /\ decoding' # "upstream"
        BY <1>3, <2>3, <3>2 DEF OnRequest, ClientParsed, ConnectUpstream, ConnectFails,
            ConnectLeft, ConnectWaits, OnUpstreamConnected
      <4> QED
        BY <2>1, <3>2, <4>1 DEF InspectedBefore
    <3> QED
      BY <3>1, <3>2
  <2> QED
    BY <2>2, <2>3
<1>4. CASE OnRequestBody
  BY <1>4 DEF OnRequestBody, InspectedBefore
<1>5. CASE ClientParseError
  BY <1>5 DEF ClientParseError, InspectedBefore
<1>6. CASE ClientEnds
  BY <1>6 DEF ClientEnds, InspectedBefore
<1>7. CASE ConnectEvent
  <2>1. inspected' = inspected /\ ~closed /\ ~isTlsMitm
    BY <1>7 DEF ConnectEvent, OnUpstreamConnected, Modes
  <2> QED
    BY <2>1 DEF InspectedBefore
<1>8. CASE OnResponse
  BY <1>8 DEF OnResponse, UpstreamParsed, InspectedBefore
<1>9. CASE OnResponseComplete
  <2> DEFINE e == [url |-> req, body |-> responseBody, of |-> Responding, parts |-> part]
  <2>1. /\ ~closed \/ decoding = "upstream"
        /\ answered' = Responding /\ isTlsMitm' = isTlsMitm
        /\ ~isTlsMitm => closed' /\ decoding' = "none"
        /\ inspected' = inspected \/ inspected' = Append(inspected, e)
    BY <1>9 DEF OnResponseComplete, UpstreamParsed
  <2>2. \A k \in 1..Len(inspected) : inspected[k].of <= Responding
    BY <2>1 DEF InspectedBefore, Responding
  <2>3. CASE inspected' = inspected
    BY <2>1, <2>2, <2>3 DEF InspectedBefore
  <2>4. CASE inspected' = Append(inspected, e)
    <3>1. e.of = Responding /\ Responding \in Nat
      BY DEF Responding
    <3> HIDE DEF e
    <3>2. \A k \in 1..Len(inspected') : inspected'[k].of <= answered'
      BY <2>1, <2>2, <2>4, <3>1, AppendProperties
    <3> QED
      BY <2>1, <3>2 DEF InspectedBefore
  <2> QED
    BY <2>1, <2>3, <2>4
<1>10. CASE UpstreamParseError
  BY <1>10 DEF UpstreamParseError, InspectedBefore
<1>11. CASE UpstreamEnds
  BY <1>11 DEF UpstreamEnds, InspectedBefore
<1>12. ASSUME NEW n \in 1..MaxPart, OnResponseBody(n) PROVE InspectedBefore'
  BY <1>12 DEF OnResponseBody, UpstreamParsed, InspectedBefore
<1>13. CASE TunnelFromClient
  BY <1>13 DEF TunnelFromClient, InspectedBefore
<1>14. CASE TunnelFromUpstream
  BY <1>14 DEF TunnelFromUpstream, InspectedBefore
<1>15. CASE UpstreamHandshakeDone
  BY <1>15 DEF UpstreamHandshakeDone, InspectedBefore
<1>16. CASE UpstreamHandshakeFails
  BY <1>16 DEF UpstreamHandshakeFails, InspectedBefore
<1>17. CASE ClientHandshakeDone
  BY <1>17 DEF ClientHandshakeDone, InspectedBefore
<1>18. CASE ClientHandshakeFails
  BY <1>18 DEF ClientHandshakeFails, InspectedBefore
<1>19. CASE TlsEnds
  BY <1>19 DEF TlsEnds, InspectedBefore
<1>20. CASE TlsFails
  BY <1>20 DEF TlsFails, InspectedBefore
<1>21. CASE FlushClient
  BY <1>21 DEF FlushClient, InspectedBefore
<1>22. CASE FlushUpstream
  BY <1>22 DEF FlushUpstream, InspectedBefore
<1>23. CASE UNCHANGED vars
  BY <1>23 DEF vars, InspectedBefore
<1>24. CASE DecodeEnds
  BY <1>24 DEF DecodeEnds, InspectedBefore
<1>25. CASE ConnectEventClosed
  BY <1>25 DEF ConnectEventClosed, InspectedBefore
<1> QED
  BY <1>1, <1>2, <1>3, <1>4, <1>5, <1>6, <1>7, <1>8, <1>9, <1>10, <1>11, <1>12, <1>13, <1>14,
     <1>15, <1>16, <1>17, <1>18, <1>19, <1>20, <1>21, <1>22, <1>23, <1>24, <1>25 DEF Next

(* Every step keeps inspections intact. *)
LEMMA InspectionInductive ==
    Typing /\ Turns /\ Collecting /\ InspectedBefore /\ InspectionIntact /\ [Next]_vars
        => InspectionIntact'
<1> SUFFICES ASSUME Typing, Turns, Collecting, InspectedBefore, InspectionIntact, [Next]_vars,
                    ~pipelined'
             PROVE  InspectionIntact'
  BY DEF InspectionIntact
<1>0. inspected \in Seq(Inspections) /\ ~pipelined
  BY OneWay DEF Typing, Data
<1>1. ASSUME inspected' = inspected PROVE InspectionIntact'
  BY <1>0, <1>1 DEF InspectionIntact
<1>2. CASE OnResponseComplete
  <2> DEFINE e == [url |-> req, body |-> responseBody, of |-> Responding, parts |-> part]
             Good(f) == /\ f.url = f.of
                        /\ f.body = [i \in 1..Len(f.body) |-> <<"body", f.of, i>>]
                        /\ Len(f.body) = f.parts \/ Len(f.body) >= MaxInspect
                        /\ Len(f.body) < MaxInspect + MaxPart
  <2>1. CASE inspected' = inspected
    BY <1>1, <2>1
  <2>2. CASE inspected' = Append(inspected, e) /\ PayloadInspector /\ responseBody # <<>>
    <3>1. (~closed \/ decoding = "upstream") /\ inMessage /\ UpstreamParsed
      BY <1>2 DEF OnResponseComplete, UpstreamParsed
    <3>2. Good(e)
      BY <1>0, <2>2, <3>1 DEF Collecting
    <3>3. \A j \in 1..Len(inspected) : inspected[j].of # e.of
      <4>1. CASE isTlsMitm
        <5>1. \A j \in 1..Len(inspected) : inspected[j].of <= answered
          BY <1>0 DEF InspectedBefore
        <5>2. \A j \in 1..Len(inspected) : inspected[j] \in Inspections
          BY <1>0, ElementOfSeq
        <5>3. \A j \in 1..Len(inspected) : inspected[j].of \in Nat
          BY <5>2, ProxySessionAssumption DEF Inspections
        <5>4. e.of = answered + 1 /\ answered \in Nat
          BY <4>1, ProxySessionAssumption DEF Responding, Typing, Parsing
        <5> HIDE DEF e
        <5> QED
          BY ONLY <5>1, <5>3, <5>4
      <4>2. CASE ~isTlsMitm
        BY <1>0, <3>1, <4>2 DEF InspectedBefore
      <4> QED
        BY <4>1, <4>2
    <3>4. \A k \in 1..Len(inspected) :
            Good(inspected[k]) /\ \A j \in 1..(k - 1) : inspected[j].of # inspected[k].of
      BY <1>0 DEF InspectionIntact
    <3> HIDE DEF e, Good
    <3>5. /\ Len(inspected') = Len(inspected) + 1 /\ Len(inspected) \in Nat
          /\ inspected'[Len(inspected) + 1] = e
          /\ \A k \in 1..Len(inspected) : inspected'[k] = inspected[k]
      BY <1>0, <2>2, AppendProperties
    <3>6. \A k \in 1..Len(inspected') :
            Good(inspected'[k]) /\ \A j \in 1..(k - 1) : inspected'[j].of # inspected'[k].of
      BY ONLY <3>2, <3>3, <3>4, <3>5
    <3> QED
      BY <3>6 DEF InspectionIntact, Good
  <2> QED
    BY <1>2, <2>1, <2>2 DEF OnResponseComplete
<1>3. ASSUME NEW n \in 1..MaxPart, OnResponseBody(n) PROVE InspectionIntact'
  BY <1>1, <1>3 DEF OnResponseBody
<1>4. CASE \/ Start \/ Close \/ OnRequest \/ OnRequestBody \/ ClientParseError
           \/ ClientEnds \/ ConnectEvent \/ OnResponse \/ UpstreamParseError
           \/ UpstreamEnds \/ TunnelFromClient \/ TunnelFromUpstream
           \/ UpstreamHandshakeDone \/ UpstreamHandshakeFails
           \/ ClientHandshakeDone \/ ClientHandshakeFails \/ TlsEnds \/ TlsFails
           \/ FlushClient \/ FlushUpstream \/ UNCHANGED vars \/ DecodeEnds \/ ConnectEventClosed
  BY <1>1, <1>4 DEF Start, Close, OnRequest, OnRequestBody, ClientParseError, ClientEnds,
        ConnectEvent, OnResponse, UpstreamParseError, UpstreamEnds, TunnelFromClient,
        TunnelFromUpstream, UpstreamHandshakeDone, UpstreamHandshakeFails,
        ClientHandshakeDone, ClientHandshakeFails, TlsEnds, TlsFails, FlushClient,
        FlushUpstream, DecodeEnds, ConnectEventClosed, vars, sessionVars, connVars,
           parseVars, responseVars
<1> QED
  BY <1>2, <1>3, <1>4 DEF Next

(* What the inspector gets is one response's body, from its first part on,   *)
(* whole or past the cap by less than one onBody(), under the URL of its own *)
(* request, and each response once: currentRequest_ and responseBody_ belong *)
(* to the same exchange whenever onResponseComplete() pairs them, for a      *)
(* client that waits for each response.                                      *)
THEOREM InspectionsIntact == Spec => []InspectionIntact
<1>1. Init => Collecting /\ InspectedBefore /\ InspectionIntact
  BY DEF Init, Collecting, InspectedBefore, InspectionIntact
<1> QED
  BY <1>1, CollectingInductive, InspectedInductive, InspectionInductive, TypingKept,
     TurnsKept, PTL DEF Spec
=============================================================================
