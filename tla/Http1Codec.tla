----------------------------- MODULE Http1Codec -----------------------------
(***************************************************************************)
(* The HTTP/1.1 codec (Http1Codec over llhttp) between a peer's byte       *)
(* stream and what the session forwards of it: requests to the upstream    *)
(* (clientCodec_) or responses to the client (upstreamCodec_).             *)
(*                                                                         *)
(* The stream is cut into decode() calls anywhere, and llhttp (external)   *)
(* makes one callback for each span that lies in the data it has.  A       *)
(* symbol of the wire is a fragment of a span, or a mark llhttp acts on;   *)
(* names, values and URLs are sequences of fragments.  Versions, status    *)
(* codes and hasBody are copied and decide nothing, so they are left out.  *)
(* When a forwarded part is really written is ProxySession's concern.      *)
(***************************************************************************)
EXTENDS Naturals, Sequences, SequencesExt, FiniteSetsExt, TLC

CONSTANTS
    Streams,   \* [request, mitm : BOOLEAN, messages : Seq(message)]
    LowerCase, \* function: the lower-case form of the fragments that have capitals
    Number     \* function: the value of the fragments that are numerals

(* A message as its sender means it: method (a response's: of the request it *)
(* answers, "100" if it is an interim one), line (URL or reason), headers as *)
(* <<name, value>> lines, body, trailers, malformed; and the host, port and  *)
(* path that a request is for.                                               *)
Methods == {"GET", "POST", "PUT", "DELETE", "PATCH", "HEAD", "OPTIONS", "CONNECT", "TRACE"}

VARIABLES
    stream, wire,  \* the input and its symbols, chosen at the start
    fed, at,       \* symbols given to decode(), symbols consumed by llhttp
    phase, left,   \* llhttp: what it expects next; body bytes to come
    head,          \* currentRequest_ or currentResponse_ (line, headers),
                   \*   currentHeaderField_, currentHeaderValue_, inHeaderValue_
    mitm,          \* isTlsMitm_ of the session
    closed,        \* the session has closed
    targets,       \* arguments of connectUpstream()
    out            \* messages the session forwarded

vars == <<stream, wire, fed, at, phase, left, head, mitm, closed, targets, out>>

-----------------------------------------------------------------------------
(* HeaderMap: keys compare without regard to case, set() keeps the first     *)
(* spelling of a name and the last value.                                    *)
Lower(name) == [i \in 1..Len(name) |->
    IF name[i] \in DOMAIN LowerCase THEN LowerCase[name[i]] ELSE name[i]]

Set(headers, name, value) ==
    LET k == Lower(name)
    IN  IF k \in DOMAIN headers THEN [headers EXCEPT ![k].value = value]
        ELSE headers @@ (k :> [name |-> name, value |-> value])

Without(headers, names) == [k \in DOMAIN headers \ names |-> headers[k]]

Host == <<"ho", "st">>
ContentLength == <<"content-", "length">>
TransferEncoding == <<"transfer-", "encoding">>

(* How a receiver finds the end of a message, from its header names. *)
Framing(request, method, names) ==
    IF method = "100" THEN "none"
    ELSE IF TransferEncoding \in names THEN "chunked"
    ELSE IF ContentLength \in names THEN "length"
    ELSE IF request THEN "none" ELSE "close"

-----------------------------------------------------------------------------
(* The wire. *)
Mark(k) == <<[k |-> k, c |-> ""]>>
Span(k, s) == IF s = <<>> THEN Mark(k) ELSE [i \in 1..Len(s) |-> [k |-> k, c |-> s[i]]]
Lines(hs) == FlattenSeq([i \in 1..Len(hs) |-> Span("field", hs[i][1]) \o Span("value", hs[i][2])])

NamesOf(m) == {Lower(m.headers[i][1]) : i \in 1..Len(m.headers)}
FramingOf(m) == Framing(stream.request, m.method, NamesOf(m))

Wire(request, m) ==
    Mark("start") \o Span("line", m.line) \o Lines(m.headers)
    \o Mark(IF m.malformed THEN "bad" ELSE "eoh")
    \o (IF m.body = <<>> THEN <<>> ELSE Span("data", m.body))
    \o (IF Framing(request, m.method, NamesOf(m)) = "chunked"
        THEN Lines(m.trailers) \o Mark("last") ELSE <<>>)

Expected(k) == at < fed /\ wire[at + 1].k = k

(* The longest span of kind k that starts here, in the data of this call. *)
SpanEnd(k) == Max({j \in at..fed : \A i \in (at + 1)..j : wire[i].k = k})
Bytes(j) == SelectSeq([i \in 1..(j - at) |-> wire[at + i].c], LAMBDA c : c # "")

(* The message llhttp is in, by the beginnings it has passed. *)
Begun == Cardinality({i \in 1..at : wire[i].k = "start"})
Current == stream.messages[Begun]

EmptyHead == [line |-> <<>>, headers |-> <<>>, field |-> <<>>, value |-> <<>>,
              inHeaderValue |-> FALSE]

Init ==
    /\ stream \in Streams
    /\ wire = FlattenSeq([i \in 1..Len(stream.messages) |->
                             Wire(stream.request, stream.messages[i])])
    /\ fed = 0 /\ at = 0 /\ phase = "idle" /\ left = 0
    /\ head = EmptyHead
    /\ mitm = (stream.mitm /\ ~stream.request)
    /\ closed = FALSE
    /\ targets = <<>> /\ out = <<>>

(* decode(): n more symbols, once the last call's are consumed.  A client    *)
(* waits for the answer to its CONNECT.                                      *)
Decode(n) ==
    /\ at = fed /\ phase # "upgraded" /\ ~closed
    /\ fed' = fed + n
    /\ \A i \in (fed + 1)..(fed + n) : wire[i].k = "start" =>
          \A j \in 1..Cardinality({h \in 1..(i - 1) : wire[h].k = "start"}) :
              stream.messages[j].method = "CONNECT" => mitm
    /\ UNCHANGED <<stream, wire, at, phase, left, head, mitm, closed, targets, out>>

-----------------------------------------------------------------------------
(* The callbacks of the head. *)
FinishHeader(h) ==
    IF h.field = <<>> THEN h
    ELSE [h EXCEPT !.headers = Set(@, h.field, h.value), !.field = <<>>, !.value = <<>>]

(* Mutant of OnMessageBegin: the headers of the last message stay. *)
OnMessageBeginKeeps ==
    /\ phase = "idle" /\ Expected("start")
    /\ at' = at + 1 /\ phase' = "head"
    /\ head' = [head EXCEPT !.line = <<>>]
    /\ UNCHANGED <<stream, wire, fed, left, mitm, closed, targets, out>>

OnMessageBegin ==
    /\ phase = "idle" /\ Expected("start")
    /\ at' = at + 1 /\ phase' = "head"
    /\ head' = EmptyHead
    /\ UNCHANGED <<stream, wire, fed, left, mitm, closed, targets, out>>

AppendLine ==
    /\ phase = "head" /\ Expected("line")
    /\ at' = SpanEnd("line")
    /\ head' = [head EXCEPT !.line = @ \o Bytes(at')]
    /\ UNCHANGED <<stream, wire, fed, phase, left, mitm, closed, targets, out>>

OnUrl == stream.request /\ AppendLine

OnStatus == ~stream.request /\ AppendLine

OnHeaderField ==
    /\ phase \in {"head", "chunked"} /\ Expected("field")
    /\ at' = SpanEnd("field")
    /\ LET h == IF head.inHeaderValue THEN FinishHeader(head) ELSE head
       IN  head' = [h EXCEPT !.field = @ \o Bytes(at'), !.inHeaderValue = FALSE]
    /\ UNCHANGED <<stream, wire, fed, phase, left, mitm, closed, targets, out>>

OnHeaderValue ==
    /\ phase \in {"head", "chunked"} /\ Expected("value")
    /\ at' = SpanEnd("value")
    /\ head' = [head EXCEPT !.value = @ \o Bytes(at'), !.inHeaderValue = TRUE]
    /\ UNCHANGED <<stream, wire, fed, phase, left, mitm, closed, targets, out>>

-----------------------------------------------------------------------------
(* Host, port and path.  std::stoi() throws where there is no number, and    *)
(* nothing catches it.                                                       *)
Throws == [host |-> <<>>, port |-> 65536]

Positions(s, c) == {i \in 1..Len(s) : s[i] = c}
From(s, i) == SubSeq(s, i, Len(s))

SplitAt(s, colon) ==
    LET digits == From(s, colon + 1)
    IN  IF digits = <<>> \/ Head(digits) \notin DOMAIN Number THEN Throws
        ELSE [host |-> SubSeq(s, 1, colon - 1), port |-> Number[Head(digits)] % 65536]

(* Mutant of Authority: the port is not split off. *)
AuthorityWhole(s, port) == [host |-> s, port |-> port]

Authority(s, port) ==
    IF Positions(s, ":") = {} THEN [host |-> s, port |-> port]
    ELSE SplitAt(s, Min(Positions(s, ":")))

ParseHostFromUrl(url, port) ==
    IF Positions(url, "://") = {} THEN [host |-> <<>>, port |-> port]
    ELSE LET rest == From(url, Min(Positions(url, "://")) + 1)
             path == Positions(rest, "/")
         IN  Authority(IF path = {} THEN rest ELSE SubSeq(rest, 1, Min(path) - 1), port)

HostOf(h) ==
    LET given == IF Host \in DOMAIN h.headers THEN Authority(h.headers[Host].value, 80)
                 ELSE [host |-> <<>>, port |-> 80]
    IN  IF given.host = <<>> /\ given # Throws THEN ParseHostFromUrl(h.line, given.port)
        ELSE given

(* handleConnect(): the last colon of the URL separates the port. *)
ConnectTarget(url) ==
    IF Positions(url, ":") = {} THEN [host |-> url, port |-> 443]
    ELSE SplitAt(url, Max(Positions(url, ":")))

(* onRequest(): port 0 stands for 80. *)
PlainTarget(t) == IF t.port = 0 THEN [t EXCEPT !.port = 80] ELSE t

(* forwardRequest(): an absolute URL becomes its path. *)
OriginForm(url) ==
    IF Positions(url, "://") = {} THEN url
    ELSE LET p == {i \in Positions(url, "/") : i > Min(Positions(url, "://"))}
         IN  IF p = {} THEN <<"/">> ELSE From(url, Min(p))

(* methodToString() of stringToMethod(). *)
MethodSent(method) == IF method \in Methods THEN method ELSE "UNKNOWN"

(* onResponse(): the headers that no longer fit the body are dropped. *)
(* Mutant of Stripped: Content-Length is dropped of intercepted responses too. *)
StrippedBoth(headers) == Without(headers, {TransferEncoding, ContentLength})

Stripped(headers) ==
    Without(headers, IF mitm THEN {TransferEncoding} ELSE {TransferEncoding, ContentLength})

EncodedRequest(h) ==
    [message |-> Begun, method |-> MethodSent(Current.method), line |-> OriginForm(h.line),
     headers |-> h.headers, body |-> <<>>, complete |-> FALSE]

EncodedResponse(h) ==
    [message |-> Begun, method |-> Current.method, line |-> h.line,
     headers |-> Stripped(h.headers), body |-> <<>>, complete |-> FALSE]

-----------------------------------------------------------------------------
(* onHeadersComplete(): the last header, then the session's callback.  It    *)
(* returns 0, whatever the request was: llhttp goes by the headers.          *)
LengthOf(m) ==
    IF FramingOf(m) # "length" THEN 0
    ELSE LET i == CHOOSE j \in 1..Len(m.headers) : Lower(m.headers[j][1]) = ContentLength
         IN  Number[m.headers[i][2][1]]

BodyPhase ==
    IF Current.method = "CONNECT" THEN "end"
    ELSE CASE FramingOf(Current) = "length" -> IF LengthOf(Current) = 0 THEN "end" ELSE "length"
           [] FramingOf(Current) = "none" -> "end"
           [] OTHER -> FramingOf(Current)

(* The request is refused by an exception, goes to the upstream of its       *)
(* host, or, of an intercepted session, to the upstream it has.              *)
OnRequestHead(h) ==
    LET t == HostOf(h)
        connect == Current.method = "CONNECT"
        target == IF connect THEN ConnectTarget(h.line) ELSE PlainTarget(t)
    IN  IF t = Throws \/ (connect /\ target = Throws)
        THEN phase' = "thrown" /\ closed' = TRUE /\ UNCHANGED <<left, targets, out>>
        ELSE /\ phase' = BodyPhase /\ left' = LengthOf(Current)
             /\ targets' = IF connect \/ ~mitm THEN Append(targets, target) ELSE targets
             /\ out' = IF connect THEN out ELSE Append(out, EncodedRequest(h))
             /\ UNCHANGED closed

(* A closed session writes to nobody. *)
OnResponseHead(h) ==
    /\ phase' = BodyPhase /\ left' = LengthOf(Current)
    /\ out' = IF closed THEN out ELSE Append(out, EncodedResponse(h))
    /\ UNCHANGED <<targets, closed>>

OnHeadersComplete ==
    /\ phase = "head" /\ Expected("eoh")
    /\ at' = at + 1
    /\ LET h == FinishHeader(head)
       IN  /\ head' = h
           /\ IF stream.request THEN OnRequestHead(h) ELSE OnResponseHead(h)
    /\ UNCHANGED <<stream, wire, fed, mitm>>

(* onBody(): the session forwards the bytes as they are.  A body of known    *)
(* length, or one that ends with the stream, is whatever bytes come.         *)
OnBody ==
    /\ \/ phase = "length" /\ at < fed /\ at' = Min({fed, at + left})
       \/ phase = "close" /\ at < fed /\ at' = fed
       \/ phase = "chunked" /\ Expected("data") /\ at' = SpanEnd("data")
    /\ left' = IF phase = "length" THEN left - (at' - at) ELSE left
    /\ phase' = IF phase = "length" /\ left' = 0 THEN "end" ELSE phase
    /\ out' = IF closed THEN out
              ELSE [out EXCEPT ![Len(out)].body = @ \o Bytes(at')]
    /\ UNCHANGED <<stream, wire, fed, head, mitm, closed, targets>>

(* onMessageComplete(): only responses have a callback; it closes a plain    *)
(* session, whose client takes the close for the end of the body.            *)
OnMessageComplete ==
    /\ \/ phase = "end" /\ at' = at
       \/ phase = "chunked" /\ Expected("last") /\ at' = at + 1
    /\ phase' = IF Current.method = "CONNECT" THEN "upgraded" ELSE "idle"
    /\ out' = IF closed \/ Current.method = "CONNECT" THEN out
              ELSE [out EXCEPT ![Len(out)].complete = TRUE]
    /\ closed' = (closed \/ (~stream.request /\ ~mitm))
    /\ UNCHANGED <<stream, wire, fed, left, head, mitm, targets>>

(* llhttp refuses what it did not expect, decode() returns the error and the *)
(* session closes.                                                           *)
ParseError ==
    /\ at < fed
    /\ \/ phase = "idle" /\ ~Expected("start")
       \/ phase = "head" /\ (Expected("start") \/ Expected("bad") \/ Expected("data") \/ Expected("last"))
       \/ phase = "chunked" /\ (Expected("start") \/ Expected("line") \/ Expected("eoh") \/ Expected("bad"))
    /\ at' = fed /\ phase' = "failed" /\ closed' = TRUE
    /\ UNCHANGED <<stream, wire, fed, left, head, mitm, targets, out>>

(* A fresh codec takes the place of the one that saw CONNECT, once the TLS   *)
(* handshakes are done.                                                      *)
ReplaceCodec ==
    /\ phase = "upgraded"
    /\ phase' = "idle" /\ left' = 0 /\ head' = EmptyHead
    /\ mitm' = TRUE
    /\ UNCHANGED <<stream, wire, fed, at, closed, targets, out>>

(* The stream is at its end, or nobody reads it any more. *)
Done ==
    /\ \/ at = fed /\ phase # "end" /\ (fed = Len(wire) \/ closed)
       \/ phase = "thrown"
    /\ UNCHANGED vars

Callback ==
    \/ OnMessageBegin
    \/ OnUrl
    \/ OnStatus
    \/ OnHeaderField
    \/ OnHeaderValue
    \/ OnHeadersComplete
    \/ OnBody
    \/ OnMessageComplete
    \/ ParseError

Next ==
    \/ \E n \in 1..(Len(wire) - fed) : Decode(n)
    \/ Callback
    \/ ReplaceCodec
    \/ Done

Spec == Init /\ [][Next]_vars

-----------------------------------------------------------------------------
(* Properties. *)
Sent(i) == stream.messages[out[i].message]
Framers == {ContentLength, TransferEncoding}
Once(m, k) == \E i \in 1..Len(m.headers) :
    {j \in 1..Len(m.headers) : Lower(m.headers[j][1]) = k} = {i}

(* Messages up to the first response to HEAD that announces a length. *)
Readable(j) == \A h \in 1..j : LET m == stream.messages[h]
    IN  ~(~stream.request /\ m.method = "HEAD" /\ LengthOf(m) > 0)

HeadersKept(i) ==
    /\ DOMAIN out[i].headers \ Framers = NamesOf(Sent(i)) \ Framers
    /\ \A j \in 1..Len(Sent(i).headers) :
          LET l == Sent(i).headers[j]
              k == Lower(l[1])
          IN  Once(Sent(i), k) /\ k \notin Framers
              => out[i].headers[k] = [name |-> l[1], value |-> l[2]]

LineKept(i) ==
    IF ~stream.request THEN out[i].line = Sent(i).line
    ELSE Positions(Sent(i).path, "://") = {} => out[i].line = Sent(i).path

(* However decode()'s calls cut the stream, each message is forwarded in its *)
(* order with its own line, headers and body, nothing left over from the one *)
(* before; and when the stream has been read each has been forwarded, to its *)
(* end unless only the end of the connection ends it.                        *)
Reassembled ==
    /\ \A i \in 1..Len(out) : Readable(out[i].message) =>
          /\ LineKept(i) /\ HeadersKept(i)
          /\ IsPrefix(out[i].body, Sent(i).body)
          /\ out[i].complete => out[i].body = Sent(i).body
    /\ \A i \in 1..Len(out) : i > 1 => out[i].message = out[i - 1].message + 1
    /\ LET n == Len(stream.messages) IN
       (at = Len(wire) /\ phase # "end" /\ ~closed /\ Readable(n)) =>
          \A j \in 1..n : stream.messages[j].method = "CONNECT" \/ \E i \in 1..Len(out) :
              /\ out[i].message = j
              /\ out[i].complete \/ FramingOf(stream.messages[j]) = "close"
              /\ out[i].body = stream.messages[j].body

(* The receiver of a forwarded message finds the same body. *)
ReadBack(i) ==
    LET f == Framing(stream.request, out[i].method, DOMAIN out[i].headers)
    IN  CASE f = "length" -> Number[out[i].headers[ContentLength].value[1]] = Len(out[i].body)
          [] f = "none" -> out[i].body = <<>>
          [] f = "close" -> closed
          [] f = "chunked" -> FALSE

(* A message whose length is given, or that goes to a plain client, still    *)
(* ends where its body does after llhttp has decoded it and the session has  *)
(* rewritten its headers: the length is kept, or the close is the end.       *)
FramingKept ==
    \A i \in 1..Len(out) :
        /\ out[i].complete /\ Readable(out[i].message)
        /\ FramingOf(Sent(i)) = "chunked" => (~stream.request /\ ~mitm)
        => ReadBack(i)

(* The session connects to the host and port that the request is for,        *)
(* whichever of Host and URL has them and wherever they were cut; the port   *)
(* is a number of sixteen bits, as a port is (else see PortKept).            *)
TargetRecovered ==
    \A i \in 1..Len(targets) :
        /\ targets[i].host = stream.messages[i].host
        /\ stream.messages[i].port < 65536 => targets[i].port = stream.messages[i].port

(* What the code does not keep of a message; the README has the cases. *)

(* Chunked messages can be read by the receiver. *)
ChunkedKept ==
    \A i \in 1..Len(out) : out[i].complete /\ Readable(out[i].message) => ReadBack(i)

(* The end of a response to HEAD is where its head ends. *)
HeadAnswered ==
    \A i \in 1..Len(out) : Sent(i).method = "HEAD" => out[i].body = <<>>

(* Every value of a repeated header is forwarded. *)
RepeatedKept ==
    \A i \in 1..Len(out) : \A j \in 1..Len(Sent(i).headers) :
        LET l == Sent(i).headers[j]
        IN  Lower(l[1]) \in DOMAIN out[i].headers => out[i].headers[Lower(l[1])].value = l[2]

(* The path of a request is forwarded as it came. *)
PathKept == \A i \in 1..Len(out) : stream.request => out[i].line = Sent(i).path

(* So is its method. *)
MethodKept == \A i \in 1..Len(out) : out[i].method = Sent(i).method

(* An interim response does not end the session. *)
InterimPassed ==
    (\E i \in 1..Len(out) : out[i].complete /\ Sent(i).method = "100") /\ at < Len(wire) => ~closed

(* No request goes to a port other than its own. *)
PortKept == \A i \in 1..Len(targets) : targets[i].port = stream.messages[i].port

(* A host without a number after its first colon is not fatal. *)
HostAccepted == phase # "thrown"
=============================================================================
