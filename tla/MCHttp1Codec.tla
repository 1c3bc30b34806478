---------------------------- MODULE MCHttp1Codec ----------------------------
(* Streams of up to two messages after an optional CONNECT: each message     *)
(* shows one form of URL, header or framing, and any two follow each other.  *)
EXTENDS Http1Codec

MCLowerCase == "Ho" :> "ho" @@ "HO" :> "ho" @@ "Content-" :> "content-" @@ "Length" :> "length"
    @@ "Transfer-" :> "transfer-" @@ "Encoding" :> "encoding" @@ "A" :> "a"
MCNumber == "0" :> 0 @@ "2" :> 2 @@ "80" :> 80 @@ "81" :> 81 @@ "443" :> 443
    @@ "65617" :> 65617   \* 81 in sixteen bits

Length(n) == <<<<"Content-", "Length">>, <<n>>>>
Chunked == <<<<"Transfer-", "Encoding">>, <<"chunked">>>>
HostIs(v) == <<<<"Ho", "st">>, v>>
A(v) == <<<<"A">>, v>>

Message(method, line, headers, body, trailers) ==
    [method |-> method, line |-> line, headers |-> headers, body |-> body,
     trailers |-> trailers, malformed |-> FALSE,
     host |-> <<"h">>, port |-> 80, path |-> line]

Absolute == <<"http", "://", "h", "/", "p">>
WithPort == <<"http", "://", "h", ":", "81", "/", "p">>

Literal == <<"[", ":", ":", "1", "]">>   \* an IPv6 address

Requests == {
    [Message("GET", Absolute, <<HostIs(<<"h">>), A(<<>>)>>, <<>>, <<>>) EXCEPT !.path = <<"/", "p">>],
    [Message("GET", WithPort, <<>>, <<>>, <<>>) EXCEPT !.path = <<"/", "p">>, !.port = 81],
    [Message("GET", <<"http", "://", "h">>, <<A(<<"x">>), A(<<"y">>)>>, <<>>, <<>>) EXCEPT !.path = <<"/">>],
    [Message("POST", <<"/", "p">>, <<HostIs(<<"h", ":", "81">>), Length("2")>>, <<"b", "c">>, <<>>)
        EXCEPT !.port = 81],
    Message("POST", <<"/", "p">>, <<HostIs(<<"h">>), Chunked, A(<<"x", "y">>)>>, <<"b", "c">>, <<A(<<"z">>)>>),
    Message("GET", <<"/", "q", "://", "h", "/", "p">>, <<<<<<"HO", "st">>, <<"h", ":", "0">>>>>>, <<>>, <<>>),
    Message("PROPFIND", <<"/", "p">>, <<HostIs(<<"h">>), Length("0")>>, <<>>, <<>>),
    Message("GET", <<"/", "p">>, <<HostIs(<<"h", ":">>)>>, <<>>, <<>>),
    [Message("GET", <<"/", "p">>, <<HostIs(<<"h", ":", "65617">>)>>, <<>>, <<>>) EXCEPT !.port = 65617],
    [Message("GET", <<"/", "p">>, <<HostIs(Literal)>>, <<>>, <<>>) EXCEPT !.host = Literal],
    [Message("GET", <<"/", "p">>, <<HostIs(<<"h">>)>>, <<>>, <<>>) EXCEPT !.malformed = TRUE]}

Connects == {
    [Message("CONNECT", <<"h", ":", "443">>, <<HostIs(<<"h", ":", "443">>)>>, <<>>, <<>>) EXCEPT !.port = 443],
    [Message("CONNECT", <<"h">>, <<>>, <<>>, <<>>) EXCEPT !.port = 443],
    [Message("CONNECT", Literal \o <<":", "443">>, <<>>, <<>>, <<>>) EXCEPT !.host = Literal, !.port = 443]}

Responses == {
    Message("GET", <<"O", "K">>, <<A(<<"x">>), Length("2")>>, <<"b", "c">>, <<>>),
    Message("GET", <<"O", "K">>, <<A(<<"x">>), A(<<"y">>), Length("0")>>, <<>>, <<>>),
    Message("GET", <<>>, <<Chunked, A(<<>>)>>, <<"b", "c">>, <<A(<<"z">>)>>),
    Message("HEAD", <<"O", "K">>, <<Length("2"), A(<<"x">>)>>, <<>>, <<>>),
    Message("100", <<"Co", "nt">>, <<>>, <<>>, <<>>),
    [Message("GET", <<"O", "K">>, <<A(<<"x">>)>>, <<>>, <<>>) EXCEPT !.malformed = TRUE]}

UntilClose == Message("GET", <<"O", "K">>, <<A(<<"x">>)>>, <<"b", "c">>, <<>>)

Pairs(S, T) == {<<m>> : m \in T} \cup {<<l, m>> : l \in S, m \in T}

MCStreams ==
    {[request |-> TRUE, mitm |-> FALSE, messages |-> s] : s \in Pairs(Requests, Requests)}
    \cup {[request |-> TRUE, mitm |-> TRUE, messages |-> <<c>> \o s] :
             c \in Connects, s \in Pairs(Requests, Requests)}
    \cup {[request |-> FALSE, mitm |-> i, messages |-> s] :
             i \in BOOLEAN, s \in Pairs(Responses, Responses \cup {UntilClose})}
=============================================================================
