------------------------------- MODULE Server -------------------------------
(***************************************************************************)
(* The server around the sessions: the listener that accepts clients,      *)
(* pauses when descriptors run out and is resumed by a timer (Listener),   *)
(* the list of sessions (Server), and the loop that dispatches a batch of  *)
(* harvested events to whatever is registered by then (KqueueLoop).        *)
(*                                                                         *)
(* Descriptors are numbers and are used again, lowest first.  A session is *)
(* reduced to the descriptors it owns and what it does with the loop's     *)
(* registrations of them.  fdEntries_ and the kernel's filters are kept    *)
(* apart: closing a descriptor drops its filters but not its entry.  One   *)
(* read of a client may carry several requests: the steps of the callbacks *)
(* of one decode() follow one another (pc = "decode"), and a write that    *)
(* fails among them closes the session before the next one.                *)
(***************************************************************************)
EXTENDS Naturals, Sequences, FiniteSets

CONSTANTS
    MaxFds,       \* descriptors the process may have beside the listening one
    MaxClients,   \* bound: clients that connect
    MaxConnects   \* bound: connects to an upstream

ASSUME ServerAssumption ==
    MaxFds \in Nat \ {0} /\ MaxClients \in Nat /\ MaxConnects \in Nat

Fds == 1..MaxFds
Ids == 1..MaxClients      \* sessions, in the order they are made
Listening == 0            \* the listening socket in a batch
Timer == MaxFds + 1       \* the timer in a batch

VARIABLES
    pc,        \* run(): "idle", "kevent", "dispatch", "accept" (in onReadable()),
               \* "decode" (in the decode() of session cur), "done"
    cur,       \* the session in decode(), 0 if none
    running,   \* running_ of the loop
    lsock,     \* the listening socket: "none", "open", "closed"
    lwatched,  \* ... is registered
    timer,     \* resumeTimer_: "none", "ticking", "expired"
    client,    \* the descriptor of each session's client_ or tlsClient_, 0 if none
    conn,      \* ... of its connectingSocket_
    up,        \* ... of its upstream_ or tlsUpstream_
    started,   \* sessions made so far
    closed,    \* sessions with closed_
    mode,      \* of each session: "http", "connect" (isConnect_), "piped" (isTunnel_, isTlsMitm_)
    listed,    \* sessions in sessions_
    entry,     \* fdEntries_: what each descriptor's callback calls
    noted,     \* descriptors with a filter in the kernel
    connects,  \* connects so far
    batch,     \* harvested events, each with whether its descriptor was closed since
    waiting,   \* clients in the accept queue
    arrived,   \* clients that have connected
    early      \* a connect in progress was taken for done because of another's event

listenVars == <<lsock, lwatched, timer>>
regVars == <<entry, noted>>
sessVars == <<client, conn, up, started, closed, mode, listed, connects>>
vars == <<pc, cur, running, listenVars, sessVars, regVars, batch, waiting, arrived, early>>

(* Callbacks in fdEntries_: none, one of a Connection or TlsConnection of a  *)
(* session (which holds a plain pointer to it), or the one that waits for a  *)
(* session's connect.                                                        *)
NoEntry == <<"none", 0>>
Io(i) == <<"io", i>>
Connect(i) == <<"connect", i>>
Entries == {NoEntry} \cup ({"io", "connect"} \X Ids)

Owned(i) == {client[i], conn[i], up[i]} \ {0}
Free == {f \in Fds : \A i \in Ids : f \notin Owned(i)}
Lowest == CHOOSE f \in Free : \A g \in Free : f <= g

Init ==
    /\ pc = "idle" /\ cur = 0 /\ running = TRUE
    /\ lsock = "none" /\ lwatched = FALSE /\ timer = "none"
    /\ client = [i \in Ids |-> 0] /\ conn = [i \in Ids |-> 0] /\ up = [i \in Ids |-> 0]
    /\ started = 0 /\ closed = {} /\ mode = [i \in Ids |-> "http"] /\ listed = {} /\ connects = 0
    /\ entry = [f \in Fds |-> NoEntry] /\ noted = {}
    /\ batch = <<>> /\ waiting = 0 /\ arrived = 0 /\ early = FALSE

-----------------------------------------------------------------------------
(* Listener::start(): the socket is made, bound and watched, or a step fails *)
(* with or without a socket.                                                 *)
ListenerStarts == lsock' = "open" /\ lwatched' = TRUE
ListenerFails == lsock' \in {"none", "open"} /\ UNCHANGED lwatched

(* Listener::stop(). *)
ListenerStops == lsock' = (IF lsock = "open" THEN "closed" ELSE lsock) /\ lwatched' = FALSE

(* Server::run() up to the loop; without a certificate or a listener the     *)
(* server gives up.                                                          *)
Run ==
    /\ pc = "idle"
    /\ \/ ListenerStarts /\ pc' = "kevent"
       \/ ListenerFails /\ pc' = "done"
    /\ UNCHANGED <<cur, running, timer, sessVars, regVars, batch, waiting, arrived, early>>

(* Server::stop(), from a signal handler or another thread. *)
Stop ==
    /\ running /\ pc \notin {"idle", "done"}
    /\ running' = FALSE
    /\ UNCHANGED <<pc, cur, listenVars, sessVars, regVars, batch, waiting, arrived, early>>

(* KqueueLoop::remove() of the descriptors in fds, from fdEntries_ and from  *)
(* the kernel.                                                               *)
Removed(fds) == [f \in Fds |-> IF f \in fds THEN NoEntry ELSE entry[f]]

(* The loop has ended: stop the listener, close and drop every session.      *)
(* close() returns at once for those closed before.                          *)
Cleanup ==
    /\ pc = "kevent" /\ ~running
    /\ pc' = "done"
    /\ ListenerStops
    /\ client' = [i \in Ids |-> 0] /\ up' = [i \in Ids |-> 0]
    /\ conn' = [i \in Ids |-> IF i \in closed THEN conn[i] ELSE 0]
    /\ closed' = closed \cup 1..started /\ listed' = {}
    /\ LET fds == UNION {Owned(i) : i \in Ids \ closed}
       IN  entry' = Removed(fds) /\ noted' = noted \ fds
    /\ UNCHANGED <<cur, running, timer, started, mode, connects, batch, waiting, arrived,
                   early>>

(* kevent() reports all that is ready, in any order: the listening socket    *)
(* while a client waits, the timer once expired, and some descriptors.       *)
Orders(S) == {q \in [1..Cardinality(S) -> S] : \A i, j \in DOMAIN q : i # j => q[i] # q[j]}

Harvest ==
    /\ pc = "kevent" /\ running
    /\ \E fds \in SUBSET noted :
         LET ready == fds \cup (IF lwatched /\ waiting > 0 THEN {Listening} ELSE {})
                          \cup (IF timer = "expired" THEN {Timer} ELSE {})
         IN  /\ ready # {}
             /\ \E q \in Orders(ready) :
                  batch' = [i \in DOMAIN q |-> [of |-> q[i], stale |-> FALSE]]
    /\ pc' = "dispatch"
    /\ UNCHANGED <<cur, running, listenVars, sessVars, regVars, waiting, arrived, early>>

(* The events in q once the descriptors in fds are closed; the batch without *)
(* the event being dispatched.                                               *)
Marked(q, fds) ==
    [i \in 1..Len(q) |-> [of |-> q[i].of, stale |-> q[i].stale \/ q[i].of \in fds \cap Fds]]
Rest(fds) == Marked(Tail(batch), fds)

BatchDone ==
    /\ pc = "dispatch" /\ batch = <<>>
    /\ pc' = "kevent"
    /\ UNCHANGED <<cur, running, listenVars, sessVars, regVars, batch, waiting, arrived, early>>

-----------------------------------------------------------------------------
(* The listener. *)

Dispatches(e) == pc = "dispatch" /\ batch # <<>> /\ Head(batch).of = e

OnReadable ==
    /\ Dispatches(Listening)
    /\ pc' = IF lwatched THEN "accept" ELSE pc
    /\ batch' = Rest({})
    /\ UNCHANGED <<cur, running, listenVars, sessVars, regVars, waiting, arrived, early>>

(* What accept() finds: no client, no descriptor for it, or both. *)
AcceptResult ==
    IF waiting = 0 THEN "WouldBlock" ELSE IF Free = {} THEN "FdExhausted" ELSE "client"

(* accept() gives a client: onNewConnection() makes and starts a session.    *)
(* Its sweep over sessions_ looks for null pointers and finds none.          *)
Accept ==
    /\ pc = "accept" /\ AcceptResult = "client" /\ started < MaxClients
    /\ waiting' = waiting - 1
    /\ started' = started + 1
    /\ client' = [client EXCEPT ![started + 1] = Lowest]
    /\ listed' = listed \cup {started + 1}
    /\ entry' = [entry EXCEPT ![Lowest] = Io(started + 1)]
    /\ noted' = noted \cup {Lowest}
    /\ UNCHANGED <<pc, cur, running, listenVars, conn, up, closed, mode, connects, batch,
                   arrived, early>>

(* accept() fails for a client that has gone, or setNonblocking() fails and  *)
(* the client is dropped: the loop goes on.                                  *)
AcceptFails ==
    /\ pc = "accept" /\ AcceptResult = "client"
    /\ waiting' = waiting - 1
    /\ UNCHANGED <<pc, cur, running, listenVars, sessVars, regVars, batch, arrived, early>>

AcceptWouldBlock ==
    /\ pc = "accept" /\ AcceptResult = "WouldBlock"
    /\ pc' = "dispatch"
    /\ UNCHANGED <<cur, running, listenVars, sessVars, regVars, batch, waiting, arrived, early>>

(* Mutant of PauseAccepting: the handle of the timer is not kept, and its    *)
(* destructor cancels the timer.                                             *)
PauseUnheld ==
    /\ pc = "accept" /\ AcceptResult = "FdExhausted"
    /\ lwatched' = FALSE /\ timer' = "none"
    /\ pc' = "dispatch"
    /\ UNCHANGED <<cur, running, lsock, sessVars, regVars, batch, waiting, arrived, early>>

(* No descriptor is left: pauseAccepting(). *)
PauseAccepting ==
    /\ pc = "accept" /\ AcceptResult = "FdExhausted"
    /\ lwatched' = FALSE /\ timer' = "ticking"
    /\ pc' = "dispatch"
    /\ UNCHANGED <<cur, running, lsock, sessVars, regVars, batch, waiting, arrived, early>>

(* Mutant of ResumeAccepting: the timer is only reset. *)
ResumeUnwatched ==
    /\ Dispatches(Timer)
    /\ timer' = "none"
    /\ batch' = Rest({})
    /\ UNCHANGED <<pc, cur, running, lsock, lwatched, sessVars, regVars, waiting, arrived, early>>

(* The timer's event: the entry is erased, and resumeAccepting() runs. *)
ResumeAccepting ==
    /\ Dispatches(Timer)
    /\ timer' = "none" /\ lwatched' = TRUE
    /\ batch' = Rest({})
    /\ UNCHANGED <<pc, cur, running, lsock, sessVars, regVars, waiting, arrived, early>>

-----------------------------------------------------------------------------
(* The sessions. *)

(* The callback in fdEntries_ of the descriptor whose event is next. *)
Calls(f, e) == Dispatches(f) /\ f \in Fds /\ entry[f] = e

(* The loop finds no registration, or the callback finds nothing to do. *)
Ignored ==
    /\ \E f \in Fds : Dispatches(f) /\ entry[f][1] # "connect"
    /\ batch' = Rest({})
    /\ UNCHANGED <<pc, cur, running, listenVars, sessVars, regVars, waiting, arrived, early>>

(* Mutant of CloseSession: the upstream's registration is not removed. *)
CloseSessionRegistered(i, more) ==
    /\ i \notin closed
    /\ closed' = closed \cup {i}
    /\ client' = [client EXCEPT ![i] = 0]
    /\ conn' = [conn EXCEPT ![i] = 0]
    /\ up' = [up EXCEPT ![i] = 0]
    /\ entry' = Removed((Owned(i) \cup more) \ {up[i]})
    /\ noted' = noted \ (Owned(i) \cup more)

(* ProxySession::close(): the connecting socket and the connections are      *)
(* unregistered and closed, and the session stays in sessions_; the          *)
(* descriptors in more were unregistered just before.                        *)
CloseSession(i, more) ==
    /\ i \notin closed
    /\ closed' = closed \cup {i}
    /\ client' = [client EXCEPT ![i] = 0]
    /\ conn' = [conn EXCEPT ![i] = 0]
    /\ up' = [up EXCEPT ![i] = 0]
    /\ entry' = Removed(Owned(i) \cup more)
    /\ noted' = noted \ (Owned(i) \cup more)

(* An end or an error of the client or the upstream. *)
SessionEnds(i) ==
    /\ \E f \in Fds : Calls(f, Io(i)) /\ ~Head(batch).stale
    /\ CloseSession(i, {})
    /\ batch' = Rest(Owned(i))
    /\ UNCHANGED <<pc, cur, running, listenVars, started, mode, listed, connects, waiting,
                   arrived, early>>

(* Data of the client: onClientData(), while it is not passed through. *)
ClientData(i) ==
    /\ Calls(client[i], Io(i)) /\ ~Head(batch).stale
    /\ mode[i] # "piped"
    /\ pc' = "decode" /\ cur' = i
    /\ batch' = Rest({})
    /\ UNCHANGED <<running, listenVars, sessVars, regVars, waiting, arrived, early>>

(* Some write of this decode() fails, and onError_ closes the session; the   *)
(* parser goes on.                                                           *)
WriteFails(i) ==
    /\ pc = "decode" /\ cur = i
    /\ CloseSession(i, {})
    /\ batch' = Marked(batch, Owned(i))
    /\ UNCHANGED <<pc, cur, running, listenVars, started, mode, listed, connects, waiting,
                   arrived, early>>

(* A request, also of a session that is closed by now: connectUpstream()     *)
(* makes a socket, and the assignment to connectingSocket_ closes the one    *)
(* that was there, whose entry stays in fdEntries_.  m is the mode after a   *)
(* request that may be a CONNECT.                                            *)
Requests(i, m) ==
    /\ pc = "decode" /\ cur = i /\ mode[i] # "piped"
    /\ Free # {} /\ connects < MaxConnects
    /\ connects' = connects + 1
    /\ m \in {mode[i], "connect"}
    /\ batch' = Marked(batch, {conn[i]})
    /\ UNCHANGED <<pc, cur, running, listenVars, client, started, closed, listed, waiting,
                   arrived, early>>

(* connect() is in progress and the socket watched. *)
ConnectInProgress(i, m) ==
    /\ Requests(i, m)
    /\ mode' = [mode EXCEPT ![i] = m]
    /\ conn' = [conn EXCEPT ![i] = Lowest]
    /\ entry' = [entry EXCEPT ![Lowest] = Connect(i)]
    /\ noted' = (noted \ {conn[i]}) \cup {Lowest}
    /\ UNCHANGED up

(* connect() fails (502), or is done at once in a closed session: the socket *)
(* stays in connectingSocket_, open and unwatched.                           *)
ConnectLeft(i, m) ==
    /\ Requests(i, m)
    /\ mode' = [mode EXCEPT ![i] = m]
    /\ conn' = [conn EXCEPT ![i] = Lowest]
    /\ noted' = noted \ {conn[i]}
    /\ UNCHANGED <<up, entry>>

(* onUpstreamConnected(): the socket u becomes the upstream and is watched   *)
(* as one, and an earlier upstream is unregistered and closed.  A CONNECT    *)
(* ends in a tunnel, or in an interception, which stops reading the client   *)
(* for the time being and so unregisters it.  The descriptors in more were   *)
(* unregistered just before.                                                 *)
Take(i, u, m, more) ==
    /\ up' = [up EXCEPT ![i] = u]
    /\ conn' = [conn EXCEPT ![i] = 0]
    /\ mode' = [mode EXCEPT ![i] = IF m = "http" THEN m ELSE "piped"]
    /\ \E quiet \in {{}} \cup (IF m = "connect" THEN {{client[i]}} ELSE {}) :
          /\ entry' = [Removed({up[i]} \cup more \cup quiet) EXCEPT ![u] = Io(i)]
          /\ noted' = (noted \ ({conn[i], up[i]} \cup more \cup quiet)) \cup {u}

(* connect() is done at once. *)
ConnectAtOnce(i, m) ==
    /\ i \notin closed
    /\ Requests(i, m)
    /\ Take(i, Lowest, m, {})

DecodeDone ==
    /\ pc = "decode"
    /\ pc' = "dispatch" /\ cur' = 0
    /\ UNCHANGED <<running, listenVars, sessVars, regVars, batch, waiting, arrived, early>>

(* The callback that waits for a connect, whatever event it was called for:  *)
(* it takes connectingSocket_ as it is by now.                               *)
SessionConnected(i) ==
    \E f \in Fds :
        /\ Calls(f, Connect(i)) /\ i \notin closed /\ conn[i] # 0
        /\ Take(i, conn[i], mode[i], {f})
        /\ batch' = Rest({up[i]})
        /\ early' = (early \/ Head(batch).stale \/ f # conn[i])
        /\ UNCHANGED <<pc, cur, running, listenVars, client, started, closed, listed, connects,
                       waiting, arrived>>

(* ... and the first write to the upstream fails, or to the client: the      *)
(* connect was refused, or there is no connecting socket any more.           *)
SessionConnectFails(i) ==
    \E f \in Fds :
        /\ Calls(f, Connect(i))
        /\ CloseSession(i, {f})
        /\ batch' = Rest(Owned(i))
        /\ UNCHANGED <<pc, cur, running, listenVars, started, mode, listed, connects, waiting,
                       arrived, early>>

(* A tunnel is not written to at once: without a connecting socket it is     *)
(* left with an upstream that has no descriptor.                             *)
SessionLosesUpstream(i) ==
    \E f \in Fds :
        /\ Calls(f, Connect(i)) /\ i \notin closed /\ conn[i] = 0
        /\ mode[i] # "http" /\ client[i] \in noted
        /\ up' = [up EXCEPT ![i] = 0]
        /\ mode' = [mode EXCEPT ![i] = "piped"]
        /\ entry' = Removed({f, up[i]}) /\ noted' = noted \ {f, up[i]}
        /\ batch' = Rest({up[i]})
        /\ UNCHANGED <<pc, cur, running, listenVars, client, conn, started, closed, listed,
                       connects, waiting, arrived, early>>

(* ... and the session is closed: the socket stays open and unwatched. *)
ClosedConnected(i) ==
    \E f \in Fds :
        /\ Calls(f, Connect(i)) /\ i \in closed
        /\ entry' = Removed({f}) /\ noted' = noted \ {f}
        /\ batch' = Rest({})
        /\ UNCHANGED <<pc, cur, running, listenVars, sessVars, waiting, arrived, early>>

(* The upstream's TLS handshake is done: the client's socket is watched      *)
(* again for its own.                                                        *)
ClientHandover(i) ==
    /\ Calls(up[i], Io(i)) /\ ~Head(batch).stale
    /\ client[i] # 0 /\ client[i] \notin noted
    /\ entry' = [entry EXCEPT ![client[i]] = Io(i)]
    /\ noted' = noted \cup {client[i]}
    /\ batch' = Rest({})
    /\ UNCHANGED <<pc, cur, running, listenVars, sessVars, waiting, arrived, early>>

-----------------------------------------------------------------------------
(* Clients connect, and time passes. *)
Arrive ==
    /\ lsock = "open" /\ pc # "done" /\ arrived < MaxClients
    /\ arrived' = arrived + 1 /\ waiting' = waiting + 1
    /\ UNCHANGED <<pc, cur, running, listenVars, sessVars, regVars, batch, early>>

Expire ==
    /\ timer = "ticking"
    /\ timer' = "expired"
    /\ UNCHANGED <<pc, cur, running, lsock, lwatched, sessVars, regVars, batch, waiting, arrived,
                   early>>

SessionStep(i) ==
    \/ SessionEnds(i) \/ ClientData(i) \/ WriteFails(i)
    \/ \E m \in {"http", "connect"} :
          ConnectInProgress(i, m) \/ ConnectLeft(i, m) \/ ConnectAtOnce(i, m)
    \/ SessionConnected(i) \/ SessionConnectFails(i) \/ SessionLosesUpstream(i)
    \/ ClosedConnected(i) \/ ClientHandover(i)

Loop ==
    \/ Cleanup \/ Harvest \/ BatchDone
    \/ OnReadable \/ Accept \/ AcceptFails \/ AcceptWouldBlock
    \/ PauseAccepting \/ ResumeAccepting
    \/ Ignored \/ DecodeDone \/ \E i \in Ids : SessionStep(i)

Next == Run \/ Stop \/ Loop \/ Arrive \/ Expire

Spec == Init /\ [][Next]_vars

(* The loop's thread goes on while something is ready, and timers expire. *)
FairSpec == Spec /\ WF_vars(Loop) /\ WF_vars(Expire)

-----------------------------------------------------------------------------
(* Domains of the variables of the server. *)
TypeOK ==
    /\ pc \in {"idle", "kevent", "dispatch", "accept", "decode", "done"}
    /\ cur \in 0..MaxClients /\ running \in BOOLEAN
    /\ lsock \in {"none", "open", "closed"} /\ lwatched \in BOOLEAN
    /\ timer \in {"none", "ticking", "expired"}
    /\ client \in [Ids -> 0..MaxFds] /\ conn \in [Ids -> 0..MaxFds] /\ up \in [Ids -> 0..MaxFds]
    /\ started \in 0..MaxClients /\ closed \in SUBSET Ids /\ listed \in SUBSET Ids
    /\ mode \in [Ids -> {"http", "connect", "piped"}] /\ connects \in Nat
    /\ entry \in [Fds -> Entries] /\ noted \in SUBSET Fds
    /\ batch \in Seq([of : Fds \cup {Listening, Timer}, stale : BOOLEAN])
    /\ waiting \in Nat /\ arrived \in Nat /\ early \in BOOLEAN

(* The listener is never forgotten: while the loop runs, its socket is       *)
(* either watched or due to be resumed by the one pending timer, whose event *)
(* finds it paused; so pausing on exhaustion cannot last, nor double up.     *)
AcceptingOrResuming ==
    pc \in {"kevent", "dispatch", "accept", "decode"} =>
        lsock = "open" /\ (lwatched <=> timer = "none")

(* No descriptor belongs to two sessions, or twice to one: closing a session *)
(* never closes another's socket.                                            *)
SoleOwner ==
    \A i, j \in Ids : \A f \in Fds :
        /\ f \in Owned(i) /\ f \in Owned(j) => i = j
        /\ f = client[i] => f # conn[i] /\ f # up[i]
        /\ f = conn[i] => f # up[i]

(* What the kernel watches is an open descriptor, and its entry calls the    *)
(* session that owns it, for what it owns it as.                             *)
WatchedByOwner ==
    \A f \in noted : \E i \in Ids :
        \/ entry[f] = Io(i) /\ i \notin closed /\ f \in {client[i], up[i]}
        \/ entry[f] = Connect(i) /\ f = conn[i]

(* An entry that holds a plain pointer to a connection is gone when the      *)
(* connection's filters are, so no event finds it after its descriptor is    *)
(* closed.                                                                   *)
IoIsWatched == \A f \in Fds : entry[f][1] = "io" => f \in noted

(* No open session is deaf: it has its client or its upstream watched. *)
NoneDeaf ==
    \A i \in Ids : i <= started /\ i \notin closed => client[i] \in noted \/ up[i] \in noted

(* Events reach their owners, across closing and reuse of descriptors: every *)
(* fresh event is for an open descriptor and calls its owner, no entry       *)
(* outlives the connection it points to (what close(), releaseSocket() and   *)
(* watch() are for), and no open session is deaf.  The converse does not     *)
(* hold: a socket whose connect failed, or that a closed session started,    *)
(* stays open and unwatched, and the entry of a replaced connecting socket   *)
(* stays behind (NoStaleEntry).                                              *)
EventsReachOwners == TypeOK /\ SoleOwner /\ WatchedByOwner /\ IoIsWatched /\ NoneDeaf

(* EventLoop.hpp: "Remove all watches for a given fd".  No entry of          *)
(* fdEntries_ outlives its descriptor.                                       *)
NoStaleEntry == \A f \in Free : entry[f] = NoEntry

(* ProxySession.cpp, close(): "Clean up connecting socket if mid-connect".   *)
(* A closed session owns no descriptor.                                      *)
ClosedOwnsNothing == \A i \in closed : Owned(i) = {}

(* Accepting goes on: a paused listener is resumed, and a waiting client is  *)
(* taken, unless every descriptor is in use, or the server stops.            *)
AcceptGoesOn ==
    /\ (lsock = "open" /\ ~lwatched) ~> (lwatched \/ ~running \/ pc = "done")
    /\ (waiting > 0) ~> (waiting = 0 \/ Free = {} \/ ~running \/ pc = "done")

(* ProxySession.cpp: "In progress — watch for writable to know when connect  *)
(* completes".  No connect is taken for complete because of an event of the  *)
(* descriptor's earlier owner, or of a socket it has replaced.               *)
ConnectOnOwnEvent == ~early

(* Server.cpp: "Clean up closed sessions".  Of the sessions closed before,   *)
(* none is left in sessions_ once a new one is accepted.                     *)
SessionsCleaned == [][Accept => listed' \cap closed = {}]_vars
=============================================================================
