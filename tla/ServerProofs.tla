---------------------------- MODULE ServerProofs ----------------------------
(***************************************************************************)
(* Proofs about the server, for any number of descriptors and clients: the *)
(* listener is never forgotten, and events reach the owners of their       *)
(* descriptors through every reuse.                                        *)
(***************************************************************************)
EXTENDS Server, SequenceTheorems, FiniteSetTheorems, WellFoundedInduction, TLAPS

(* A nonempty set of natural numbers has a least element. *)
LEMMA LeastNatural ==
    ASSUME NEW T, T \subseteq Nat, T # {}
    PROVE  \E f \in T : \A g \in T : f <= g
<1> DEFINE R == OpToRel(<, Nat)
<1>1. PICK f \in T : \A g \in T : <<g, f>> \notin R
  <2> HIDE DEF R
  <2>1. IsWellFoundedOn(R, Nat)
    BY NatLessThanWellFounded DEF R
  <2> QED
    BY <2>1, WFMin
<1>2. ASSUME NEW g \in T PROVE f <= g
  <2>1. g \in Nat /\ f \in Nat
    OBVIOUS
  <2>2. ~(g < f)
    BY <1>1, <2>1 DEF OpToRel
  <2> QED
    BY <2>1, <2>2
<1> QED
  BY <1>2

(* A descriptor is found whenever one is free. *)
LEMMA LowestIsFree ==
    ASSUME Free # {}
    PROVE  Lowest \in Free
<1>1. Free \subseteq Nat
  BY DEF Free, Fds
<1>2. \E f \in Free : \A g \in Free : f <= g
  BY <1>1, LeastNatural
<1> QED
  BY <1>2 DEF Lowest

Events == [of : Fds \cup {Listening, Timer}, stale : BOOLEAN]

(* A harvested batch is a sequence of events. *)
LEMMA HarvestType ==
    ASSUME NEW ready, ready \subseteq Fds \cup {Listening, Timer}, NEW q \in Orders(ready)
    PROVE  [i \in DOMAIN q |-> [of |-> q[i], stale |-> FALSE]] \in Seq(Events)
<1>1. IsFiniteSet(Fds \cup {Listening, Timer})
  <2>1. Fds \cup {Listening, Timer} = 0..(MaxFds + 1)
    BY ServerAssumption DEF Fds, Listening, Timer
  <2>2. 0 \in Int /\ MaxFds + 1 \in Int
    BY ServerAssumption
  <2>3. IsFiniteSet(0..(MaxFds + 1))
    BY <2>2, FS_Interval
  <2> QED
    BY <2>1, <2>3
<1>2. Cardinality(ready) \in Nat
  BY <1>1, FS_Subset, FS_CardinalityType
<1>3. q \in [1..Cardinality(ready) -> ready]
  BY DEF Orders
<1>4. \A i \in 1..Cardinality(ready) : [of |-> q[i], stale |-> FALSE] \in Events
  BY <1>3 DEF Events
<1> QED
  BY <1>2, <1>3, <1>4

(* Marking events as stale keeps them events. *)
LEMMA MarkedType ==
    ASSUME NEW q \in Seq(Events), NEW fds
    PROVE  Marked(q, fds) \in Seq(Events)
<1>1. Len(q) \in Nat /\ \A i \in 1..Len(q) : q[i] \in Events
  BY ElementOfSeq, LenProperties
<1>2. \A i \in 1..Len(q) :
         [of |-> q[i].of, stale |-> q[i].stale \/ q[i].of \in fds \cap Fds] \in Events
  BY <1>1 DEF Events
<1> QED
  BY <1>1, <1>2 DEF Marked

(* What is left of a batch, marked, is one. *)
LEMMA RestType ==
    ASSUME NEW fds, batch \in Seq(Events), batch # <<>>
    PROVE  Rest(fds) \in Seq(Events)
<1>1. Tail(batch) \in Seq(Events)
  BY HeadTailProperties
<1> QED
  BY <1>1, MarkedType DEF Rest

(* The registrations without some descriptors'. *)
LEMMA RemovedType ==
    ASSUME entry \in [Fds -> Entries], NEW fds
    PROVE  Removed(fds) \in [Fds -> Entries]
BY DEF Removed, Entries

(* Closing a session leaves the descriptors and registrations in their       *)
(* domains.                                                                  *)
LEMMA CloseTypes ==
    ASSUME TypeOK, NEW i \in Ids, NEW more, CloseSession(i, more)
    PROVE  /\ client' \in [Ids -> 0..MaxFds] /\ conn' \in [Ids -> 0..MaxFds]
           /\ up' \in [Ids -> 0..MaxFds] /\ closed' \in SUBSET Ids
           /\ entry' \in [Fds -> Entries] /\ noted' \in SUBSET Fds
<1>1. entry' \in [Fds -> Entries]
  BY RemovedType DEF TypeOK, CloseSession
<1>2. 0 \in 0..MaxFds
  BY ServerAssumption
<1> QED
  BY <1>1, <1>2 DEF TypeOK, CloseSession

(* So does taking a connected socket for its upstream. *)
LEMMA TakeTypes ==
    ASSUME TypeOK, NEW i \in Ids, NEW u \in Fds, NEW m \in {"http", "connect", "piped"},
           NEW more, Take(i, u, m, more)
    PROVE  /\ conn' \in [Ids -> 0..MaxFds] /\ up' \in [Ids -> 0..MaxFds]
           /\ mode' \in [Ids -> {"http", "connect", "piped"}]
           /\ entry' \in [Fds -> Entries] /\ noted' \in SUBSET Fds
<1>1. PICK quiet : /\ entry' = [Removed({up[i]} \cup more \cup quiet) EXCEPT ![u] = Io(i)]
                   /\ noted' = (noted \ ({conn[i], up[i]} \cup more \cup quiet)) \cup {u}
  BY DEF Take
<1>2. Removed({up[i]} \cup more \cup quiet) \in [Fds -> Entries]
  BY RemovedType DEF TypeOK
<1>3. Io(i) \in Entries
  BY DEF Io, Entries
<1>4. entry' \in [Fds -> Entries]
  BY <1>1, <1>2, <1>3
<1>5. u \in 0..MaxFds /\ 0 \in 0..MaxFds
  BY ServerAssumption DEF Fds
<1>6. noted' \in SUBSET Fds
  BY <1>1 DEF TypeOK
<1>7. conn' \in [Ids -> 0..MaxFds] /\ up' \in [Ids -> 0..MaxFds]
  BY <1>5 DEF TypeOK, Take
<1>8. mode' \in [Ids -> {"http", "connect", "piped"}]
  BY DEF TypeOK, Take
<1> QED
  BY <1>4, <1>6, <1>7, <1>8

(* The batch of events, the connects and the mode of a session's request. *)
LEMMA RequestTypes ==
    ASSUME TypeOK, NEW i \in Ids, NEW m \in {"http", "connect"}, Requests(i, m)
    PROVE  /\ Lowest \in Free /\ Lowest \in Fds /\ connects' \in Nat
           /\ batch' \in Seq(Events)
<1>1. Lowest \in Free
  BY LowestIsFree DEF Requests
<1>2. Lowest \in Fds
  BY <1>1 DEF Free
<1>3. batch \in Seq(Events)
  BY DEF TypeOK, Events
<1>4. batch' \in Seq(Events)
  BY <1>3, MarkedType DEF Requests
<1>5. connects' \in Nat
  BY DEF TypeOK, Requests
<1> QED
  BY <1>1, <1>2, <1>4, <1>5

(* A step of a session leaves the descriptors, the registrations and the     *)
(* batch in their domains.                                                   *)
LEMMA SessionTypes ==
    ASSUME TypeOK, NEW i \in Ids, SessionStep(i)
    PROVE  TypeOK'
<1> USE ServerAssumption
<1>0. batch \in Seq(Events)
  BY DEF TypeOK, Events
<1> DEFINE Tables == /\ client' \in [Ids -> 0..MaxFds] /\ conn' \in [Ids -> 0..MaxFds]
                     /\ up' \in [Ids -> 0..MaxFds] /\ closed' \in SUBSET Ids
                     /\ mode' \in [Ids -> {"http", "connect", "piped"}]
                     /\ entry' \in [Fds -> Entries] /\ noted' \in SUBSET Fds
           Others == UNCHANGED <<running, listenVars, started, listed, waiting, arrived>>
<1>a. ASSUME Tables, Others, batch' \in Seq(Events), connects' \in Nat, early' \in BOOLEAN,
             pc' \in {"dispatch", "decode"} \/ pc' = pc, cur' \in 0..MaxClients
      PROVE  TypeOK'
  <2>1. running' = running /\ lwatched' = lwatched
    BY <1>a DEF listenVars
  <2>2. running' \in BOOLEAN /\ lwatched' \in BOOLEAN
    BY <2>1, Zenon DEF TypeOK
  <2> QED
    BY <1>a, <2>2 DEF TypeOK, listenVars, Events
<1>b. early \in BOOLEAN /\ cur \in 0..MaxClients /\ connects \in Nat
  BY Zenon DEF TypeOK
<1>1. CASE SessionEnds(i) \/ SessionConnectFails(i)
  <2>1. PICK more : CloseSession(i, more)
    BY <1>1 DEF SessionEnds, SessionConnectFails
  <2>2. batch' = Rest(Owned(i)) /\ batch # <<>>
    BY <1>1 DEF SessionEnds, SessionConnectFails, Calls, Dispatches
  <2>3. Tables
    BY <1>1, <2>1, CloseTypes DEF SessionEnds, SessionConnectFails, TypeOK
  <2>4. batch' \in Seq(Events)
    BY <1>0, <2>2, RestType
  <2>5. Others /\ early' = early /\ cur' = cur /\ pc' = pc /\ connects' = connects
    BY <1>1 DEF SessionEnds, SessionConnectFails
  <2> HIDE DEF Tables, Others
  <2> QED
    BY <1>a, <1>b, <2>3, <2>4, <2>5
<1>2. CASE WriteFails(i)
  <2>1. CloseSession(i, {}) /\ batch' = Marked(batch, Owned(i))
    BY <1>2 DEF WriteFails
  <2>2. Tables
    BY <1>2, <2>1, CloseTypes DEF WriteFails, TypeOK
  <2>3. batch' \in Seq(Events)
    BY <1>0, <2>1, MarkedType
  <2>4. Others /\ early' = early /\ cur' = cur /\ pc' = pc /\ connects' = connects
    BY <1>2 DEF WriteFails
  <2> HIDE DEF Tables, Others
  <2> QED
    BY <1>a, <1>b, <2>2, <2>3, <2>4
<1>3. CASE ClientData(i)
  <2>1. batch' = Rest({}) /\ batch # <<>>
    BY <1>3 DEF ClientData, Calls, Dispatches
  <2>2. batch' \in Seq(Events)
    BY <1>0, <2>1, RestType
  <2>3. Tables /\ Others /\ early' = early /\ connects' = connects
    BY <1>3 DEF ClientData, TypeOK, sessVars, regVars
  <2>4. pc' = "decode" /\ cur' \in 0..MaxClients
    BY <1>3 DEF ClientData, Ids
  <2> HIDE DEF Tables, Others
  <2> QED
    BY <1>a, <1>b, <2>2, <2>3, <2>4
<1>4. ASSUME NEW m \in {"http", "connect"},
             ConnectInProgress(i, m) \/ ConnectLeft(i, m) \/ ConnectAtOnce(i, m)
      PROVE  TypeOK'
  <2>1. Requests(i, m)
    BY <1>4 DEF ConnectInProgress, ConnectLeft, ConnectAtOnce
  <2>2. Lowest \in Fds /\ Lowest \in 0..MaxFds /\ connects' \in Nat /\ batch' \in Seq(Events)
    BY <2>1, RequestTypes DEF Fds
  <2>3. Others /\ early' = early /\ pc' = pc /\ cur' = cur /\ client' = client
        /\ closed' = closed
    BY <2>1 DEF Requests
  <2>4. Tables
    <3>1. CASE ConnectInProgress(i, m)
      <4>1. Connect(i) \in Entries
        BY DEF Connect, Entries
      <4> QED
        BY <2>2, <2>3, <3>1, <4>1 DEF ConnectInProgress, TypeOK
    <3>2. CASE ConnectLeft(i, m)
      BY <2>2, <2>3, <3>2 DEF ConnectLeft, TypeOK
    <3>3. CASE ConnectAtOnce(i, m)
      <4>1. Take(i, Lowest, m, {})
        BY <3>3 DEF ConnectAtOnce
      <4>2. m \in {"http", "connect", "piped"} /\ TypeOK
        OBVIOUS
      <4>3. /\ conn' \in [Ids -> 0..MaxFds] /\ up' \in [Ids -> 0..MaxFds]
            /\ mode' \in [Ids -> {"http", "connect", "piped"}]
            /\ entry' \in [Fds -> Entries] /\ noted' \in SUBSET Fds
        BY ONLY <2>2, <4>1, <4>2, i \in Ids, TakeTypes
      <4> QED
        BY <2>3, <4>3 DEF TypeOK
    <3> QED
      BY <1>4, <3>1, <3>2, <3>3
  <2> HIDE DEF Tables, Others
  <2> QED
    BY <1>a, <1>b, <2>2, <2>3, <2>4
<1>5. CASE SessionConnected(i)
  <2>1. PICK f \in Fds :
          /\ batch # <<>> /\ conn[i] # 0
          /\ Take(i, conn[i], mode[i], {f})
          /\ batch' = Rest({up[i]})
          /\ early' = (early \/ Head(batch).stale \/ f # conn[i])
          /\ UNCHANGED <<pc, cur, running, listenVars, client, started, closed, listed,
                         connects, waiting, arrived>>
    BY <1>5 DEF SessionConnected, Calls, Dispatches
  <2>2. conn[i] \in Fds /\ mode[i] \in {"http", "connect", "piped"}
    <3>1. conn[i] \in 0..MaxFds
      BY DEF TypeOK
    <3> QED
      BY <2>1, <3>1 DEF TypeOK, Fds
  <2>3. early' \in BOOLEAN
    BY <2>1, Zenon
  <2>4. batch' \in Seq(Events)
    BY <1>0, <2>1, RestType
  <2>5. Tables
    BY <2>1, <2>2, TakeTypes DEF TypeOK
  <2>6. Others /\ cur' = cur /\ pc' = pc /\ connects' = connects
    BY <2>1
  <2> HIDE DEF Tables, Others
  <2> QED
    BY <1>a, <1>b, <2>3, <2>4, <2>5, <2>6
<1>6. CASE SessionLosesUpstream(i)
  <2>1. PICK f \in Fds :
          /\ batch # <<>>
          /\ up' = [up EXCEPT ![i] = 0]
          /\ mode' = [mode EXCEPT ![i] = "piped"]
          /\ entry' = Removed({f, up[i]}) /\ noted' = noted \ {f, up[i]}
          /\ batch' = Rest({up[i]})
          /\ UNCHANGED <<pc, cur, running, listenVars, client, conn, started, closed, listed,
                         connects, waiting, arrived, early>>
    BY <1>6 DEF SessionLosesUpstream, Calls, Dispatches
  <2>2. batch' \in Seq(Events)
    BY <1>0, <2>1, RestType
  <2>3. entry' \in [Fds -> Entries]
    BY <2>1, RemovedType DEF TypeOK
  <2>4. Tables
    <3>1. up' \in [Ids -> 0..MaxFds] /\ mode' \in [Ids -> {"http", "connect", "piped"}]
      BY <2>1 DEF TypeOK
    <3>2. noted' \in SUBSET Fds /\ client' = client /\ conn' = conn /\ closed' = closed
      BY <2>1 DEF TypeOK
    <3> QED
      BY <2>3, <3>1, <3>2 DEF TypeOK
  <2>5. Others /\ early' = early /\ cur' = cur /\ pc' = pc /\ connects' = connects
    BY <2>1
  <2> HIDE DEF Tables, Others
  <2> QED
    BY <1>a, <1>b, <2>2, <2>4, <2>5
<1>7. CASE ClosedConnected(i)
  <2>1. PICK f \in Fds :
          /\ batch # <<>>
          /\ entry' = Removed({f}) /\ noted' = noted \ {f}
          /\ batch' = Rest({})
          /\ UNCHANGED <<pc, cur, running, listenVars, sessVars, waiting, arrived, early>>
    BY <1>7 DEF ClosedConnected, Calls, Dispatches
  <2>2. batch' \in Seq(Events)
    BY <1>0, <2>1, RestType
  <2>3. entry' \in [Fds -> Entries]
    BY <2>1, RemovedType DEF TypeOK
  <2>4. Tables
    BY <2>1, <2>3 DEF TypeOK, sessVars
  <2>5. Others /\ early' = early /\ cur' = cur /\ pc' = pc /\ connects' = connects
    BY <2>1 DEF sessVars
  <2> HIDE DEF Tables, Others
  <2> QED
    BY <1>a, <1>b, <2>2, <2>4, <2>5
<1>8. CASE ClientHandover(i)
  <2>1. /\ batch # <<>> /\ client[i] # 0
        /\ entry' = [entry EXCEPT ![client[i]] = Io(i)]
        /\ noted' = noted \cup {client[i]}
        /\ batch' = Rest({})
        /\ UNCHANGED <<pc, cur, running, listenVars, sessVars, waiting, arrived, early>>
    BY <1>8 DEF ClientHandover, Calls, Dispatches
  <2>2. batch' \in Seq(Events)
    BY <1>0, <2>1, RestType
  <2>3. client[i] \in Fds
    <3>1. client[i] \in 0..MaxFds
      BY DEF TypeOK
    <3> QED
      BY <2>1, <3>1 DEF Fds
  <2>4. Tables
    <3>1. Io(i) \in Entries
      BY DEF Io, Entries
    <3> QED
      BY <2>1, <2>3, <3>1 DEF TypeOK, sessVars
  <2>5. Others /\ early' = early /\ cur' = cur /\ pc' = pc /\ connects' = connects
    BY <2>1 DEF sessVars
  <2> HIDE DEF Tables, Others
  <2> QED
    BY <1>a, <1>b, <2>2, <2>4, <2>5
<1> QED
  BY <1>1, <1>2, <1>3, <1>4, <1>5, <1>6, <1>7, <1>8 DEF SessionStep

(* Every variable of the server stays in its domain. *)
THEOREM TypeCorrect == Spec => []TypeOK
<1> USE ServerAssumption
<1>1. Init => TypeOK
  <2> SUFFICES ASSUME Init PROVE TypeOK
    OBVIOUS
  <2>1. running \in BOOLEAN /\ lwatched \in BOOLEAN /\ early \in BOOLEAN
    BY Zenon DEF Init
  <2> QED
    BY <2>1 DEF Init, TypeOK, Entries, NoEntry
<1>2. TypeOK /\ [Next]_vars => TypeOK'
  <2> SUFFICES ASSUME TypeOK, [Next]_vars PROVE TypeOK'
    OBVIOUS
  <2>0. batch \in Seq(Events)
    BY DEF TypeOK, Events
  <2> USE DEF TypeOK, listenVars, sessVars, regVars
  <2>1. CASE Run
    <3>1. lwatched' \in BOOLEAN
      BY <2>1, Zenon DEF Run, ListenerStarts, ListenerFails
    <3> QED
      BY <2>1, <3>1 DEF Run, ListenerStarts, ListenerFails
  <2>2. CASE Stop
    <3>1. running' \in BOOLEAN
      BY <2>2, Zenon DEF Stop
    <3> QED
      BY <2>2, <3>1 DEF Stop
  <2>3. CASE Cleanup
    <3>1. lwatched' \in BOOLEAN
      BY <2>3, Zenon DEF Cleanup, ListenerStops
    <3>2. entry' \in [Fds -> Entries]
      BY <2>3, RemovedType DEF Cleanup
    <3>3. client' \in [Ids -> 0..MaxFds] /\ up' \in [Ids -> 0..MaxFds]
      BY <2>3 DEF Cleanup
    <3>4. conn' \in [Ids -> 0..MaxFds]
      BY <2>3 DEF Cleanup
    <3>5. closed' \in SUBSET Ids /\ listed' \in SUBSET Ids
      BY <2>3 DEF Cleanup, Ids
    <3>6. noted' \in SUBSET Fds
      BY <2>3 DEF Cleanup
    <3>7. lsock' \in {"none", "open", "closed"} /\ pc' = "done"
      BY <2>3 DEF Cleanup, ListenerStops
    <3>8. UNCHANGED <<cur, running, timer, started, mode, connects, batch, waiting, arrived,
                      early>>
      BY <2>3 DEF Cleanup
    <3> QED
      BY <3>1, <3>2, <3>3, <3>4, <3>5, <3>6, <3>7, <3>8
  <2>4. CASE Harvest
    <3>1. batch' \in Seq(Events)
      <4>1. PICK fds \in SUBSET noted :
              LET ready == fds \cup (IF lwatched /\ waiting > 0 THEN {Listening} ELSE {})
                               \cup (IF timer = "expired" THEN {Timer} ELSE {})
              IN  \E q \in Orders(ready) :
                    batch' = [i \in DOMAIN q |-> [of |-> q[i], stale |-> FALSE]]
        BY <2>4 DEF Harvest
      <4> DEFINE ready == fds \cup (IF lwatched /\ waiting > 0 THEN {Listening} ELSE {})
                              \cup (IF timer = "expired" THEN {Timer} ELSE {})
      <4>2. ready \subseteq Fds \cup {Listening, Timer}
        OBVIOUS
      <4>3. PICK q \in Orders(ready) :
              batch' = [i \in DOMAIN q |-> [of |-> q[i], stale |-> FALSE]]
        BY <4>1
      <4> HIDE DEF ready
      <4> QED
        BY <4>2, <4>3, HarvestType
    <3> QED
      BY <2>4, <3>1 DEF Harvest, Events
  <2>5. CASE BatchDone \/ AcceptWouldBlock
    BY <2>5 DEF BatchDone, AcceptWouldBlock
  <2>6. CASE OnReadable
    <3>1. batch' \in Seq(Events)
      BY <2>0, <2>6, RestType DEF OnReadable, Dispatches
    <3> QED
      BY <2>6, <3>1 DEF OnReadable, Events
  <2>7. CASE Accept
    <3>1. Lowest \in Fds /\ waiting' \in Nat
      BY <2>7, LowestIsFree DEF Accept, AcceptResult, Free
    <3>2. started + 1 \in Ids /\ started' \in 0..MaxClients
      BY <2>7 DEF Accept, Ids
    <3>3. entry' \in [Fds -> Entries]
      BY <2>7, <3>1, <3>2 DEF Accept, Entries, Io
    <3>4. client' \in [Ids -> 0..MaxFds]
      BY <2>7, <3>1, <3>2 DEF Accept, Fds
    <3> QED
      BY <2>7, <3>1, <3>2, <3>3, <3>4 DEF Accept
  <2>8. CASE AcceptFails
    BY <2>8 DEF AcceptFails, AcceptResult
  <2>9. CASE PauseAccepting
    <3>1. lwatched' \in BOOLEAN
      BY <2>9, Zenon DEF PauseAccepting
    <3> QED
      BY <2>9, <3>1 DEF PauseAccepting
  <2>10. CASE ResumeAccepting
    <3>1. lwatched' \in BOOLEAN
      BY <2>10, Zenon DEF ResumeAccepting
    <3>2. batch' \in Seq(Events)
      BY <2>0, <2>10, RestType DEF ResumeAccepting, Dispatches
    <3> QED
      BY <2>10, <3>1, <3>2 DEF ResumeAccepting, Events
  <2>11. CASE Ignored
    <3>1. batch' \in Seq(Events)
      BY <2>0, <2>11, RestType DEF Ignored, Dispatches
    <3> QED
      BY <2>11, <3>1 DEF Ignored, Events
  <2>12. CASE DecodeDone
    BY <2>12 DEF DecodeDone
  <2>13. ASSUME NEW i \in Ids, SessionStep(i) PROVE TypeOK'
    BY <2>13, SessionTypes DEF TypeOK
  <2>14. CASE Arrive \/ Expire
    BY <2>14 DEF Arrive, Expire
  <2>15. CASE UNCHANGED vars
    BY <2>15 DEF vars
  <2> QED
    BY <2>1, <2>2, <2>3, <2>4, <2>5, <2>6, <2>7, <2>8, <2>9, <2>10, <2>11, <2>12, <2>13,
       <2>14, <2>15
    DEF Next, Loop
<1> QED
  BY <1>1, <1>2, PTL DEF Spec

(* Before the loop runs the listener has no timer. *)
NoTimerYet == pc = "idle" => timer = "none"

(* While the loop runs, the listening socket is watched or a timer will      *)
(* watch it again, never both and never neither: Listener's pause and resume *)
(* on descriptor exhaustion cannot lose the socket.                          *)
THEOREM ListenerKept == Spec => []AcceptingOrResuming
<1> DEFINE Inv == AcceptingOrResuming /\ NoTimerYet
<1>1. Init => Inv
  BY DEF Init, AcceptingOrResuming, NoTimerYet
<1>2. Inv /\ [Next]_vars => Inv'
  <2> SUFFICES ASSUME Inv, [Next]_vars PROVE Inv'
    OBVIOUS
  <2> USE DEF AcceptingOrResuming, NoTimerYet
  <2>1. CASE Run
    BY <2>1 DEF Run, ListenerStarts, ListenerFails
  <2>2. CASE Cleanup
    BY <2>2 DEF Cleanup
  <2>3. CASE PauseAccepting
    BY <2>3 DEF PauseAccepting
  <2>4. CASE ResumeAccepting
    BY <2>4 DEF ResumeAccepting, Dispatches
  <2>5. CASE Expire
    BY <2>5 DEF Expire
  <2>6. CASE /\ UNCHANGED listenVars
             /\ pc' = pc \/ {pc, pc'} \subseteq {"kevent", "dispatch", "accept", "decode"}
    BY <2>6 DEF listenVars
  <2>7. CASE Stop \/ Harvest \/ BatchDone \/ OnReadable \/ Accept \/ AcceptFails
             \/ AcceptWouldBlock \/ DecodeDone \/ Arrive
    <3>1. UNCHANGED listenVars
      BY <2>7 DEF Stop, Harvest, BatchDone, OnReadable, Accept, AcceptFails,
                  AcceptWouldBlock, DecodeDone, Arrive
    <3>2. pc' = pc \/ {pc, pc'} \subseteq {"kevent", "dispatch", "accept", "decode"}
      BY <2>7 DEF Stop, Harvest, BatchDone, OnReadable, Accept, AcceptFails,
                  AcceptWouldBlock, DecodeDone, Arrive, Dispatches
    <3> QED
      BY <2>6, <3>1, <3>2
  <2>8. CASE Ignored
    BY <2>6, <2>8 DEF Ignored
  <2>10. ASSUME NEW i \in Ids, SessionStep(i) PROVE Inv'
    <3>1. UNCHANGED listenVars
      BY <2>10 DEF SessionStep, SessionEnds, ClientData, WriteFails, ConnectInProgress,
                   ConnectLeft, ConnectAtOnce, Requests, SessionConnected,
                   SessionConnectFails, SessionLosesUpstream, ClosedConnected,
                   ClientHandover
    <3>2. pc' = pc \/ {pc, pc'} \subseteq {"dispatch", "decode"}
      BY <2>10 DEF SessionStep, SessionEnds, ClientData, WriteFails, ConnectInProgress,
                   ConnectLeft, ConnectAtOnce, Requests, SessionConnected,
                   SessionConnectFails, SessionLosesUpstream, ClosedConnected,
                   ClientHandover, Calls, Dispatches
    <3> QED
      BY <2>6, <3>1, <3>2
  <2>9. CASE UNCHANGED vars
    BY <2>6, <2>9 DEF vars
  <2> QED
    BY <2>1, <2>2, <2>3, <2>4, <2>5, <2>7, <2>8, <2>9, <2>10 DEF Next, Loop
<1> QED
  BY <1>1, <1>2, PTL DEF Spec

(* The kinds of entries are apart, and each names one session. *)
LEMMA EntryKinds ==
    ASSUME NEW i, NEW j
    PROVE  /\ Io(i) = Io(j) => i = j
           /\ Connect(i) = Connect(j) => i = j
           /\ Io(i) # Connect(j)
           /\ Io(i) # NoEntry /\ Connect(i) # NoEntry
BY DEF Io, Connect, NoEntry

(* SoleOwner without the sets. *)
Distinct ==
    \A i, j \in Ids :
        /\ client[i] # 0 => /\ client[i] # conn[j] /\ client[i] # up[j]
                            /\ client[i] = client[j] => i = j
        /\ conn[i] # 0 => conn[i] # up[j] /\ (conn[i] = conn[j] => i = j)
        /\ up[i] # 0 => (up[i] = up[j] => i = j)

(* IoIsWatched by the session the entry points to. *)
IoIsNoted == \A f \in Fds : \A i \in Ids : entry[f] = Io(i) => f \in noted

(* What is closed, called back or being decoded is a session made before, and *)
(* the sessions to come own nothing yet.                                     *)
Known ==
    /\ \A i \in closed : i <= started
    /\ \A f \in Fds : \A i \in Ids : entry[f] = Io(i) \/ entry[f] = Connect(i) => i <= started
    /\ cur <= started
    /\ \A i \in Ids : i > started => client[i] = 0

(* The inductive invariant: descriptors, sessions and registrations. *)
Wiring == Distinct /\ WatchedByOwner /\ IoIsNoted /\ NoneDeaf /\ Known

(* Descriptors owned are numbers from one up. *)
LEMMA OwnedRange ==
    ASSUME TypeOK, NEW i \in Ids
    PROVE  /\ client[i] = 0 \/ client[i] \in Fds
           /\ conn[i] = 0 \/ conn[i] \in Fds
           /\ up[i] = 0 \/ up[i] \in Fds
           /\ 0 \notin Fds
<1>1. client[i] \in 0..MaxFds /\ conn[i] \in 0..MaxFds /\ up[i] \in 0..MaxFds
  BY DEF TypeOK
<1> QED
  BY <1>1, ServerAssumption DEF Fds

(* A free descriptor is nobody's, so that it is not watched either. *)
LEMMA FreeIsNobodys ==
    ASSUME TypeOK, WatchedByOwner, NEW f \in Free
    PROVE  /\ f \in Fds /\ f # 0 /\ f \notin noted
           /\ \A i \in Ids : f # client[i] /\ f # conn[i] /\ f # up[i]
<1>1. f \in Fds /\ f # 0
  BY ServerAssumption DEF Free, Fds
<1>2. \A i \in Ids : f # client[i] /\ f # conn[i] /\ f # up[i]
  BY <1>1 DEF Free, Owned
<1> QED
  BY <1>1, <1>2 DEF WatchedByOwner

(* The invariant gives what is claimed of events. *)
LEMMA WiringDelivers == TypeOK /\ Wiring => EventsReachOwners
<1> SUFFICES ASSUME TypeOK, Wiring PROVE EventsReachOwners
  OBVIOUS
<1>1. SoleOwner
  <2> SUFFICES ASSUME NEW i \in Ids, NEW j \in Ids, NEW f \in Fds
               PROVE  /\ f \in Owned(i) /\ f \in Owned(j) => i = j
                      /\ f = client[i] => f # conn[i] /\ f # up[i]
                      /\ f = conn[i] => f # up[i]
    BY DEF SoleOwner
  <2>1. f # 0
    BY ServerAssumption DEF Fds
  <2> QED
    BY <2>1 DEF Wiring, Distinct, Owned
<1>2. IoIsWatched
  <2> SUFFICES ASSUME NEW f \in Fds, entry[f][1] = "io" PROVE f \in noted
    BY DEF IoIsWatched
  <2>1. entry[f] \in Entries
    BY DEF TypeOK
  <2>2. PICK i \in Ids : entry[f] = <<"io", i>>
    BY <2>1 DEF Entries, NoEntry
  <2> QED
    BY <2>2 DEF Wiring, IoIsNoted, Io
<1> QED
  BY <1>1, <1>2 DEF EventsReachOwners, Wiring

(* Closing a session, with the descriptor f of an entry that waits for its   *)
(* connect or none, keeps the wiring of the others.                          *)
LEMMA CloseKeeps ==
    ASSUME TypeOK, Wiring, NEW i \in Ids, i <= started, NEW more,
           \A f \in more : f \in Fds /\ entry[f] = Connect(i),
           CloseSession(i, more), started' = started, cur' <= started
    PROVE  Wiring'
<1>1. /\ closed' = closed \cup {i}
      /\ client' = [client EXCEPT ![i] = 0]
      /\ conn' = [conn EXCEPT ![i] = 0]
      /\ up' = [up EXCEPT ![i] = 0]
      /\ entry' = Removed(Owned(i) \cup more)
      /\ noted' = noted \ (Owned(i) \cup more)
  BY DEF CloseSession
<1>2. /\ client'[i] = 0 /\ conn'[i] = 0 /\ up'[i] = 0
      /\ \A j \in Ids : j # i => client'[j] = client[j] /\ conn'[j] = conn[j] /\ up'[j] = up[j]
  BY <1>1 DEF TypeOK
<1>3. \A f \in Fds : /\ f \in noted' => f \in noted /\ f \notin Owned(i) /\ entry'[f] = entry[f]
                     /\ \/ entry'[f] = NoEntry
                        \/ entry'[f] = entry[f] /\ f \notin Owned(i) \cup more
  <2> SUFFICES ASSUME NEW f \in Fds
               PROVE  /\ f \in noted' => f \in noted /\ f \notin Owned(i) /\ entry'[f] = entry[f]
                      /\ \/ entry'[f] = NoEntry
                         \/ entry'[f] = entry[f] /\ f \notin Owned(i) \cup more
    OBVIOUS
  <2> DEFINE gone == Owned(i) \cup more
  <2>1. entry'[f] = IF f \in gone THEN NoEntry ELSE entry[f]
    BY <1>1 DEF Removed
  <2>2. noted' = noted \ gone /\ Owned(i) \subseteq gone
    BY <1>1
  <2>3. f \in noted' => f \in noted /\ f \notin gone
    BY <2>2
  <2> HIDE DEF gone
  <2>4. f \in gone => entry'[f] = NoEntry
    BY <2>1
  <2>5. f \notin gone => entry'[f] = entry[f]
    BY <2>1
  <2>6. f \in noted' => f \in noted /\ f \notin Owned(i) /\ entry'[f] = entry[f]
    BY <2>2, <2>3, <2>5
  <2>7. entry'[f] = NoEntry \/ (entry'[f] = entry[f] /\ f \notin Owned(i) \cup more)
    <3>1. CASE f \in gone
      BY <2>4, <3>1
    <3>2. CASE f \notin gone
      <4>1. f \notin Owned(i) \cup more
        BY <3>2 DEF gone
      <4> QED
        BY <2>5, <3>2, <4>1
    <3> QED
      BY <3>1, <3>2
  <2> QED
    BY <2>6, <2>7
<1>4. noted' \subseteq Fds /\ 0 \notin Fds
  BY <1>1, OwnedRange DEF TypeOK
<1>5. Distinct'
  BY <1>2 DEF Wiring, Distinct
<1>6. WatchedByOwner'
  <2> SUFFICES ASSUME NEW f \in noted'
               PROVE  \E j \in Ids :
                        \/ entry'[f] = Io(j) /\ j \notin closed' /\ f \in {client'[j], up'[j]}
                        \/ entry'[f] = Connect(j) /\ f = conn'[j]
    BY DEF WatchedByOwner
  <2>1. f \in Fds /\ f \in noted /\ f \notin Owned(i) /\ entry'[f] = entry[f] /\ f # 0
    BY <1>3, <1>4
  <2>2. PICK j \in Ids : \/ entry[f] = Io(j) /\ j \notin closed /\ f \in {client[j], up[j]}
                         \/ entry[f] = Connect(j) /\ f = conn[j]
    BY <2>1 DEF Wiring, WatchedByOwner
  <2>3. j # i
    BY <2>1, <2>2 DEF Owned
  <2> QED
    BY <1>1, <1>2, <2>1, <2>2, <2>3
<1>7. IoIsNoted'
  <2> SUFFICES ASSUME NEW f \in Fds, NEW j \in Ids, entry'[f] = Io(j) PROVE f \in noted'
    BY DEF IoIsNoted
  <2>1. entry'[f] = entry[f] /\ f \notin Owned(i) \cup more
    BY <1>3, EntryKinds
  <2> QED
    BY <1>1, <2>1 DEF Wiring, IoIsNoted
<1>8. NoneDeaf'
  <2> SUFFICES ASSUME NEW j \in Ids, j <= started', j \notin closed'
               PROVE  client'[j] \in noted' \/ up'[j] \in noted'
    BY DEF NoneDeaf
  <2>1. j # i /\ j \notin closed /\ client'[j] = client[j] /\ up'[j] = up[j]
    BY <1>1, <1>2
  <2>2. PICK f \in {client[j], up[j]} : f \in noted
    BY <2>1 DEF Wiring, NoneDeaf
  <2>3. f \in Fds /\ f # 0
    BY <1>4, <2>2 DEF TypeOK
  <2>4. f \notin Owned(i)
    BY <2>1, <2>2, <2>3 DEF Wiring, Distinct, Owned
  <2>5. f \notin more
    <3> SUFFICES ASSUME f \in more PROVE FALSE
      OBVIOUS
    <3>1. PICK k \in Ids : \/ entry[f] = Io(k)
                           \/ entry[f] = Connect(k) /\ f = conn[k]
      BY <2>2 DEF Wiring, WatchedByOwner
    <3>2. k = i /\ f = conn[i]
      BY <3>1, EntryKinds
    <3> QED
      BY <2>3, <2>4, <3>2 DEF Owned
  <2> QED
    BY <1>1, <2>1, <2>2, <2>4, <2>5
<1>9. Known'
  <2>1. \A j \in closed' : j <= started'
    BY <1>1 DEF Wiring, Known
  <2>2. \A f \in Fds : \A j \in Ids :
           entry'[f] = Io(j) \/ entry'[f] = Connect(j) => j <= started'
    BY <1>3, EntryKinds DEF Wiring, Known
  <2>3. \A j \in Ids : j > started' => client'[j] = 0
    BY <1>2 DEF Wiring, Known
  <2> QED
    BY <2>1, <2>2, <2>3 DEF Known
<1> QED
  BY <1>5, <1>6, <1>7, <1>8, <1>9 DEF Wiring

(* A session that has a new socket connecting, watched or not, loses the one *)
(* before it and disturbs no other.                                          *)
LEMMA ConnectKeeps ==
    ASSUME TypeOK, Wiring, NEW i \in Ids, i <= started, NEW u \in Free,
           conn' = [conn EXCEPT ![i] = u],
           \/ /\ entry' = [entry EXCEPT ![u] = Connect(i)]
              /\ noted' = (noted \ {conn[i]}) \cup {u}
           \/ entry' = entry /\ noted' = noted \ {conn[i]},
           UNCHANGED <<client, up, started, closed, cur>>
    PROVE  Wiring'
<1>1. /\ u \in Fds /\ u # 0 /\ u \notin noted
      /\ \A j \in Ids : u # client[j] /\ u # conn[j] /\ u # up[j]
  BY FreeIsNobodys DEF Wiring
<1>2. conn'[i] = u /\ \A j \in Ids : j # i => conn'[j] = conn[j]
  BY DEF TypeOK
<1>3. \A f \in Fds : f # u => entry'[f] = entry[f] /\ (f \in noted' <=> f \in noted /\ f # conn[i])
  BY DEF TypeOK
<1>4. \/ entry'[u] = entry[u] /\ u \notin noted'
      \/ entry'[u] = Connect(i) /\ u \in noted'
  <2>1. CASE /\ entry' = [entry EXCEPT ![u] = Connect(i)]
             /\ noted' = (noted \ {conn[i]}) \cup {u}
    BY <1>1, <2>1 DEF TypeOK
  <2>2. CASE entry' = entry /\ noted' = noted \ {conn[i]}
    <3>1. u \notin noted'
      BY <1>1, <2>2
    <3>2. entry'[u] = entry[u]
      BY <2>2
    <3> QED
      BY <3>1, <3>2
  <2> QED
    BY <2>1, <2>2
<1>5. noted' \subseteq Fds /\ 0 \notin Fds /\ noted \subseteq Fds
  BY <1>1, OwnedRange DEF TypeOK
<1>6. Distinct'
  BY <1>1, <1>2 DEF Wiring, Distinct
<1>7. WatchedByOwner'
  <2> SUFFICES ASSUME NEW f \in noted'
               PROVE  \E j \in Ids :
                        \/ entry'[f] = Io(j) /\ j \notin closed' /\ f \in {client'[j], up'[j]}
                        \/ entry'[f] = Connect(j) /\ f = conn'[j]
    BY DEF WatchedByOwner
  <2>1. CASE f = u
    BY <1>2, <1>4, <2>1
  <2>2. CASE f # u
    <3>1. f \in noted /\ f # conn[i] /\ entry'[f] = entry[f]
      BY <1>3, <1>5, <2>2
    <3> QED
      BY <1>2, <3>1 DEF Wiring, WatchedByOwner
  <2> QED
    BY <2>1, <2>2
<1>8. IoIsNoted'
  <2> SUFFICES ASSUME NEW f \in Fds, NEW j \in Ids, entry'[f] = Io(j) PROVE f \in noted'
    BY DEF IoIsNoted
  <2>1. f # u
    BY <1>1, <1>4, EntryKinds DEF Wiring, IoIsNoted
  <2>2. f \in noted /\ entry[f] = Io(j)
    BY <1>3, <2>1 DEF Wiring, IoIsNoted
  <2>3. f # conn[i]
    <3>1. PICK k \in Ids : \/ entry[f] = Io(k) /\ f \in {client[k], up[k]}
                           \/ entry[f] = Connect(k)
      BY <2>2 DEF Wiring, WatchedByOwner
    <3>2. f \in {client[k], up[k]} /\ f # 0
      BY <1>5, <2>2, <3>1, EntryKinds
    <3> QED
      BY <3>2 DEF Wiring, Distinct
  <2> QED
    BY <1>3, <2>1, <2>2, <2>3
<1>9. NoneDeaf'
  <2> SUFFICES ASSUME NEW j \in Ids, j <= started, j \notin closed
               PROVE  client[j] \in noted' \/ up[j] \in noted'
    BY DEF NoneDeaf
  <2>1. PICK f \in {client[j], up[j]} : f \in noted
    BY DEF Wiring, NoneDeaf
  <2>2. f # 0 /\ f # u /\ f # conn[i]
    BY <1>1, <1>5, <2>1 DEF Wiring, Distinct
  <2> QED
    BY <1>3, <1>5, <2>1, <2>2
<1>10. Known'
  <2>1. \A f \in Fds : \A j \in Ids :
           entry'[f] = Io(j) \/ entry'[f] = Connect(j) => j <= started'
    BY <1>3, <1>4, EntryKinds DEF Wiring, Known
  <2> QED
    BY <2>1 DEF Wiring, Known
<1> QED
  BY <1>6, <1>7, <1>8, <1>9, <1>10 DEF Wiring

(* A session that takes a socket of its own or a free one for its upstream   *)
(* hears it, and lets go of the upstream it had.                             *)
LEMMA TakeKeeps ==
    ASSUME TypeOK, Wiring, NEW i \in Ids, i \notin closed, i <= started,
           NEW u \in Fds, u = conn[i] \/ u \in Free, NEW m, NEW more,
           \A f \in more : f \in Fds /\ entry[f] = Connect(i),
           Take(i, u, m, more),
           UNCHANGED <<client, started, closed, cur>>
    PROVE  Wiring'
<1>0. u # 0 /\ 0 \notin Fds /\ noted \subseteq Fds
  BY OwnedRange DEF TypeOK
<1>1. \A j \in Ids : u # client[j] /\ u # up[j] /\ (j # i => u # conn[j])
  <2>1. CASE u = conn[i]
    BY <1>0, <2>1 DEF Wiring, Distinct
  <2>2. CASE u \in Free
    BY <2>2, FreeIsNobodys DEF Wiring
  <2> QED
    BY <2>1, <2>2
<1>2. PICK quiet \in SUBSET {client[i]} :
         /\ entry' = [Removed({up[i]} \cup more \cup quiet) EXCEPT ![u] = Io(i)]
         /\ noted' = (noted \ ({conn[i], up[i]} \cup more \cup quiet)) \cup {u}
  BY DEF Take
<1>3. /\ up'[i] = u /\ conn'[i] = 0
      /\ \A j \in Ids : j # i => conn'[j] = conn[j] /\ up'[j] = up[j]
  BY DEF TypeOK, Take
<1> DEFINE gone == {up[i]} \cup more \cup quiet
<1>4. entry'[u] = Io(i) /\ u \in noted'
  BY <1>2 DEF Removed
<1>5. \A f \in Fds : f # u => /\ f \in gone => entry'[f] = NoEntry
                              /\ f \notin gone => entry'[f] = entry[f]
                              /\ f \in noted' <=> f \in noted /\ f # conn[i] /\ f \notin gone
  BY <1>2 DEF Removed
<1>6. noted' \subseteq Fds
  BY <1>0, <1>2
<1>7. up[i] \in gone /\ \A f \in gone : f = up[i] \/ f = client[i] \/ entry[f] = Connect(i)
  OBVIOUS
<1> HIDE DEF gone
<1>8. Distinct'
  BY <1>0, <1>1, <1>3 DEF Wiring, Distinct
<1>9. WatchedByOwner'
  <2> SUFFICES ASSUME NEW f \in noted'
               PROVE  \E j \in Ids :
                        \/ entry'[f] = Io(j) /\ j \notin closed' /\ f \in {client'[j], up'[j]}
                        \/ entry'[f] = Connect(j) /\ f = conn'[j]
    BY DEF WatchedByOwner
  <2>1. CASE f = u
    BY <1>3, <1>4, <2>1
  <2>2. CASE f # u
    <3>1. f \in noted /\ f # conn[i] /\ f # up[i] /\ entry'[f] = entry[f]
      BY <1>5, <1>6, <1>7, <2>2
    <3>2. PICK j \in Ids : \/ entry[f] = Io(j) /\ j \notin closed /\ f \in {client[j], up[j]}
                           \/ entry[f] = Connect(j) /\ f = conn[j]
      BY <3>1 DEF Wiring, WatchedByOwner
    <3> QED
      BY <1>3, <3>1, <3>2
  <2> QED
    BY <2>1, <2>2
<1>10. IoIsNoted'
  <2> SUFFICES ASSUME NEW f \in Fds, NEW j \in Ids, entry'[f] = Io(j), f # u
               PROVE  f \in noted'
    BY <1>4 DEF IoIsNoted
  <2>1. f \notin gone /\ entry[f] = Io(j)
    BY <1>5, EntryKinds
  <2>2. f \in noted
    BY <2>1 DEF Wiring, IoIsNoted
  <2>3. PICK k \in Ids : \/ entry[f] = Io(k) /\ f \in {client[k], up[k]}
                         \/ entry[f] = Connect(k)
    BY <2>2 DEF Wiring, WatchedByOwner
  <2>4. f \in {client[k], up[k]} /\ f # 0
    BY <1>0, <2>1, <2>3, EntryKinds
  <2>5. f # conn[i]
    BY <2>4 DEF Wiring, Distinct
  <2> QED
    BY <1>5, <2>1, <2>2, <2>5
<1>11. NoneDeaf'
  <2> SUFFICES ASSUME NEW j \in Ids, j <= started, j \notin closed
               PROVE  client[j] \in noted' \/ up'[j] \in noted'
    BY DEF NoneDeaf
  <2>1. CASE j = i
    BY <1>3, <1>4, <2>1
  <2>2. CASE j # i
    <3>1. PICK f \in {client[j], up[j]} : f \in noted
      BY DEF Wiring, NoneDeaf
    <3>2. f \in Fds /\ f # 0
      BY <1>0, <3>1
    <3>3. f # u /\ f # conn[i] /\ f # up[i] /\ f # client[i]
      BY <1>1, <2>2, <3>1, <3>2 DEF Wiring, Distinct
    <3>4. entry[f] # Connect(i)
      <4>1. PICK k \in Ids : \/ entry[f] = Io(k)
                             \/ entry[f] = Connect(k) /\ f = conn[k]
        BY <3>1 DEF Wiring, WatchedByOwner
      <4> QED
        BY <3>3, <4>1, EntryKinds
    <3>5. f \notin gone
      BY <1>7, <3>3, <3>4
    <3> QED
      BY <1>3, <1>5, <2>2, <3>1, <3>2, <3>3, <3>5
  <2> QED
    BY <2>1, <2>2
<1>12. Known'
  <2>1. ASSUME NEW f \in Fds, NEW j \in Ids, entry'[f] = Io(j) \/ entry'[f] = Connect(j)
        PROVE  j <= started'
    <3>1. CASE f = u
      BY <1>4, <2>1, <3>1, EntryKinds
    <3>2. CASE f # u
      BY <1>5, <2>1, <3>2, EntryKinds DEF Wiring, Known
    <3> QED
      BY <3>1, <3>2
  <2> QED
    BY <2>1 DEF Wiring, Known
<1> QED
  BY <1>8, <1>9, <1>10, <1>11, <1>12 DEF Wiring

(* A descriptor whose entry waits for a connect may lose its entry and its   *)
(* filter, and with it an upstream that is let go by a client that is heard. *)
LEMMA DropKeeps ==
    ASSUME TypeOK, Wiring, NEW i \in Ids, i <= started, NEW f \in Fds, entry[f] = Connect(i),
           NEW old,
           \/ old = 0 /\ up' = up
           \/ old = up[i] /\ up' = [up EXCEPT ![i] = 0] /\ client[i] \in noted,
           entry' = Removed({f, old}), noted' = noted \ {f, old},
           UNCHANGED <<client, conn, started, closed, cur>>
    PROVE  Wiring'
<1>0. 0 \notin Fds /\ noted \subseteq Fds
  BY OwnedRange DEF TypeOK
<1>1. \A g \in Fds : /\ g \in {f, old} => entry'[g] = NoEntry
                     /\ g \notin {f, old} => entry'[g] = entry[g]
                     /\ g \in noted' <=> g \in noted /\ g \notin {f, old}
  BY DEF Removed
<1>2. \A j \in Ids : /\ j # i => up'[j] = up[j]
                     /\ up'[j] = up[j] \/ up'[j] = 0
                     /\ up'[j] = up[j] \/ up[j] = old
  BY DEF TypeOK
<1>3. Distinct'
  BY <1>2 DEF Wiring, Distinct
<1>4. WatchedByOwner'
  <2> SUFFICES ASSUME NEW g \in noted'
               PROVE  \E j \in Ids :
                        \/ entry'[g] = Io(j) /\ j \notin closed' /\ g \in {client'[j], up'[j]}
                        \/ entry'[g] = Connect(j) /\ g = conn'[j]
    BY DEF WatchedByOwner
  <2>1. g \in noted /\ g \notin {f, old} /\ entry'[g] = entry[g]
    BY <1>0, <1>1
  <2>2. PICK j \in Ids : \/ entry[g] = Io(j) /\ j \notin closed /\ g \in {client[j], up[j]}
                         \/ entry[g] = Connect(j) /\ g = conn[j]
    BY <2>1 DEF Wiring, WatchedByOwner
  <2> QED
    BY <1>2, <2>1, <2>2
<1>5. IoIsNoted'
  BY <1>1, EntryKinds DEF Wiring, IoIsNoted
<1>6. NoneDeaf'
  <2> SUFFICES ASSUME NEW j \in Ids, j <= started, j \notin closed
               PROVE  client[j] \in noted' \/ up'[j] \in noted'
    BY DEF NoneDeaf
  <2>1. PICK g \in {client[j], up[j]} : g \in noted /\ (j = i => g = client[j] \/ old = 0)
    BY DEF Wiring, NoneDeaf
  <2>2. g \in Fds /\ g # 0
    BY <1>0, <2>1
  <2>3. g # f
    <3> SUFFICES ASSUME g = f PROVE FALSE
      OBVIOUS
    <3>1. PICK k \in Ids : \/ entry[f] = Io(k)
                           \/ entry[f] = Connect(k) /\ f = conn[k]
      BY <2>1 DEF Wiring, WatchedByOwner
    <3>2. f = conn[i]
      BY <3>1, EntryKinds
    <3> QED
      BY <2>1, <2>2, <3>2 DEF Wiring, Distinct
  <2>4. g # old
    BY <2>1, <2>2 DEF Wiring, Distinct
  <2>5. g = client[j] \/ g = up'[j]
    BY <1>2, <2>1, <2>4
  <2> QED
    BY <1>1, <2>1, <2>2, <2>3, <2>4, <2>5
<1>7. Known'
  <2>1. \A g \in Fds : \A j \in Ids :
           entry'[g] = Io(j) \/ entry'[g] = Connect(j) => j <= started'
    BY <1>1, EntryKinds DEF Wiring, Known
  <2> QED
    BY <2>1 DEF Wiring, Known
<1> QED
  BY <1>3, <1>4, <1>5, <1>6, <1>7 DEF Wiring

(* What an entry that is called says of its session. *)
LEMMA CalledIsKnown ==
    ASSUME TypeOK, Wiring, NEW i \in Ids, NEW f,
           Calls(f, Io(i)) \/ Calls(f, Connect(i))
    PROVE  /\ f \in Fds /\ i <= started
           /\ Calls(f, Io(i)) => i \notin closed /\ f \in noted
<1>1. f \in Fds /\ (entry[f] = Io(i) \/ entry[f] = Connect(i))
  BY DEF Calls
<1>2. i <= started
  BY <1>1 DEF Wiring, Known
<1>3. ASSUME Calls(f, Io(i)) PROVE i \notin closed /\ f \in noted
  <2>1. entry[f] = Io(i) /\ f \in noted
    BY <1>1, <1>3 DEF Calls, Wiring, IoIsNoted
  <2>2. PICK k \in Ids : \/ entry[f] = Io(k) /\ k \notin closed
                         \/ entry[f] = Connect(k)
    BY <2>1 DEF Wiring, WatchedByOwner
  <2>3. k = i /\ k \notin closed
    BY <2>1, <2>2, EntryKinds
  <2> QED
    BY <2>1, <2>3
<1> QED
  BY <1>1, <1>2, <1>3

(* A step of a session keeps the wiring. *)
LEMMA SessionKeeps ==
    ASSUME TypeOK, Wiring, NEW i \in Ids, SessionStep(i)
    PROVE  Wiring'
<1>0. cur <= started
  BY DEF Wiring, Known
<1>1. CASE SessionEnds(i)
  <2>1. PICK f \in Fds : Calls(f, Io(i))
    BY <1>1 DEF SessionEnds
  <2>2. CloseSession(i, {}) /\ started' = started /\ cur' = cur
    BY <1>1 DEF SessionEnds
  <2>3. i <= started
    BY <2>1, CalledIsKnown
  <2> QED
    BY <1>0, <2>2, <2>3, CloseKeeps
<1>2. CASE ClientData(i)
  <2>1. Calls(client[i], Io(i)) /\ cur' = i /\ UNCHANGED <<sessVars, regVars>>
    BY <1>2 DEF ClientData
  <2>2. i <= started
    BY <2>1, CalledIsKnown
  <2> QED
    BY <2>1, <2>2 DEF Wiring, Distinct, WatchedByOwner, IoIsNoted, NoneDeaf, Known, sessVars,
                      regVars
<1>3. CASE WriteFails(i)
  <2>1. CloseSession(i, {}) /\ started' = started /\ cur' = cur /\ cur = i
    BY <1>3 DEF WriteFails
  <2> QED
    BY <1>0, <2>1, CloseKeeps
<1>4. ASSUME NEW m \in {"http", "connect"},
             ConnectInProgress(i, m) \/ ConnectLeft(i, m) \/ ConnectAtOnce(i, m)
      PROVE  Wiring'
  <2>1. Requests(i, m)
    BY <1>4 DEF ConnectInProgress, ConnectLeft, ConnectAtOnce
  <2>2. Lowest \in Free /\ Lowest \in Fds
    BY <2>1, RequestTypes
  <2>3. i <= started /\ UNCHANGED <<client, started, closed, cur>>
    BY <1>0, <2>1 DEF Requests
  <2>4. CASE ConnectInProgress(i, m)
    <3>1. /\ conn' = [conn EXCEPT ![i] = Lowest] /\ up' = up
          /\ entry' = [entry EXCEPT ![Lowest] = Connect(i)]
          /\ noted' = (noted \ {conn[i]}) \cup {Lowest}
      BY <2>4 DEF ConnectInProgress
    <3> QED
      BY <2>2, <2>3, <3>1, ConnectKeeps
  <2>5. CASE ConnectLeft(i, m)
    <3>1. /\ conn' = [conn EXCEPT ![i] = Lowest] /\ up' = up
          /\ entry' = entry /\ noted' = noted \ {conn[i]}
      BY <2>5 DEF ConnectLeft
    <3> QED
      BY <2>2, <2>3, <3>1, ConnectKeeps
  <2>6. CASE ConnectAtOnce(i, m)
    <3>1. i \notin closed /\ Take(i, Lowest, m, {})
      BY <2>6 DEF ConnectAtOnce
    <3> QED
      BY <2>2, <2>3, <3>1, TakeKeeps
  <2> QED
    BY <1>4, <2>4, <2>5, <2>6
<1>5. CASE SessionConnected(i)
  <2>1. PICK f \in Fds :
          /\ Calls(f, Connect(i)) /\ i \notin closed /\ conn[i] # 0
          /\ Take(i, conn[i], mode[i], {f})
          /\ UNCHANGED <<client, started, closed, cur>>
    BY <1>5 DEF SessionConnected
  <2>2. i <= started /\ entry[f] = Connect(i)
    BY <2>1, CalledIsKnown DEF Calls
  <2>3. conn[i] \in Fds
    BY <2>1, OwnedRange
  <2> QED
    BY <2>1, <2>2, <2>3, TakeKeeps
<1>6. CASE SessionConnectFails(i)
  <2>1. PICK f \in Fds :
          /\ Calls(f, Connect(i)) /\ CloseSession(i, {f}) /\ started' = started /\ cur' = cur
    BY <1>6 DEF SessionConnectFails
  <2>2. i <= started /\ entry[f] = Connect(i)
    BY <2>1, CalledIsKnown DEF Calls
  <2> QED
    BY <1>0, <2>1, <2>2, CloseKeeps
<1>7. CASE SessionLosesUpstream(i)
  <2>1. PICK f \in Fds :
          /\ Calls(f, Connect(i)) /\ client[i] \in noted
          /\ up' = [up EXCEPT ![i] = 0]
          /\ entry' = Removed({f, up[i]}) /\ noted' = noted \ {f, up[i]}
          /\ UNCHANGED <<client, conn, started, closed, cur>>
    BY <1>7 DEF SessionLosesUpstream
  <2>2. i <= started /\ entry[f] = Connect(i)
    BY <2>1, CalledIsKnown DEF Calls
  <2> QED
    BY <2>1, <2>2, DropKeeps
<1>8. CASE ClosedConnected(i)
  <2>1. PICK f \in Fds :
          /\ Calls(f, Connect(i))
          /\ entry' = Removed({f}) /\ noted' = noted \ {f}
          /\ UNCHANGED <<client, conn, up, started, closed, cur>>
    BY <1>8 DEF ClosedConnected, sessVars
  <2>2. i <= started /\ entry[f] = Connect(i)
    BY <2>1, CalledIsKnown DEF Calls
  <2>3. entry' = Removed({f, 0}) /\ noted' = noted \ {f, 0}
    BY <2>1, OwnedRange DEF Removed, TypeOK
  <2> QED
    BY <2>1, <2>2, <2>3, DropKeeps
<1>9. CASE ClientHandover(i)
  <2> DEFINE c == client[i]
  <2>1. /\ Calls(up[i], Io(i)) /\ c # 0 /\ c \notin noted
        /\ entry' = [entry EXCEPT ![c] = Io(i)]
        /\ noted' = noted \cup {c}
        /\ UNCHANGED <<client, conn, up, started, closed, cur>>
    BY <1>9 DEF ClientHandover, sessVars
  <2>2. i <= started /\ i \notin closed
    BY <2>1, CalledIsKnown
  <2>3. c \in Fds
    BY <2>1, OwnedRange
  <2>4. entry'[c] = Io(i) /\ \A f \in Fds : f # c => entry'[f] = entry[f]
    BY <2>1, <2>3 DEF TypeOK
  <2>5. noted \subseteq Fds
    BY DEF TypeOK
  <2> HIDE DEF c
  <2>6. Distinct'
    BY <2>1 DEF Wiring, Distinct
  <2>7. WatchedByOwner'
    <3> SUFFICES ASSUME NEW f \in noted'
                 PROVE  \E j \in Ids :
                          \/ entry'[f] = Io(j) /\ j \notin closed' /\ f \in {client'[j], up'[j]}
                          \/ entry'[f] = Connect(j) /\ f = conn'[j]
      BY DEF WatchedByOwner
    <3>1. CASE f = c
      BY <2>1, <2>2, <2>4, <3>1 DEF c
    <3>2. CASE f # c
      BY <2>1, <2>4, <2>5, <3>2 DEF Wiring, WatchedByOwner
    <3> QED
      BY <3>1, <3>2
  <2>8. IoIsNoted'
    BY <2>1, <2>4 DEF Wiring, IoIsNoted
  <2>9. NoneDeaf'
    BY <2>1 DEF Wiring, NoneDeaf
  <2>10. Known'
    <3>1. \A f \in Fds : \A j \in Ids :
             entry'[f] = Io(j) \/ entry'[f] = Connect(j) => j <= started'
      BY <2>1, <2>2, <2>4, EntryKinds DEF Wiring, Known
    <3> QED
      BY <2>1, <3>1 DEF Wiring, Known
  <2> QED
    BY <2>6, <2>7, <2>8, <2>9, <2>10 DEF Wiring
<1> QED
  BY <1>1, <1>2, <1>3, <1>4, <1>5, <1>6, <1>7, <1>8, <1>9 DEF SessionStep

(* Events reach the owners of their descriptors, however often the kernel    *)
(* hands a number out again and whatever a session does within one decode(): *)
(* what is watched is open and calls its owner, no registration points to a  *)
(* connection without its descriptor, and no open session is deaf.           *)
THEOREM EventsDelivered == Spec => []EventsReachOwners
<1> USE ServerAssumption
<1>1. Init /\ TypeOK => Wiring
  <2> SUFFICES ASSUME Init, TypeOK PROVE Wiring
    OBVIOUS
  <2>1. Distinct /\ WatchedByOwner
    BY DEF Init, Distinct, WatchedByOwner
  <2>2. IoIsNoted
    BY EntryKinds DEF Init, IoIsNoted
  <2>3. NoneDeaf
    BY DEF Init, NoneDeaf, Ids
  <2>4. Known
    BY EntryKinds DEF Init, Known
  <2> QED
    BY <2>1, <2>2, <2>3, <2>4 DEF Wiring
<1>2. TypeOK /\ Wiring /\ TypeOK' /\ [Next]_vars => Wiring'
  <2> SUFFICES ASSUME TypeOK, Wiring, TypeOK', [Next]_vars PROVE Wiring'
    OBVIOUS
  <2>1. CASE Cleanup
    <3> DEFINE fds == UNION {Owned(i) : i \in Ids \ closed}
    <3>1. /\ \A i \in Ids : client'[i] = 0 /\ up'[i] = 0
          /\ \A i \in Ids : conn'[i] = IF i \in closed THEN conn[i] ELSE 0
          /\ closed' = closed \cup 1..started
          /\ entry' = Removed(fds) /\ noted' = noted \ fds
          /\ UNCHANGED <<cur, started>>
      BY <2>1 DEF Cleanup
    <3>2. \A f \in Fds : /\ f \in fds => entry'[f] = NoEntry
                         /\ f \notin fds => entry'[f] = entry[f]
      BY <3>1 DEF Removed
    <3>3. noted \subseteq Fds /\ 0 \notin Fds
      BY DEF TypeOK, Fds
    <3>4. \A i \in Ids : i \notin closed =>
             /\ client[i] \in Fds => client[i] \in fds
             /\ conn[i] \in Fds => conn[i] \in fds
             /\ up[i] \in Fds => up[i] \in fds
      BY <3>3 DEF Owned
    <3> HIDE DEF fds
    <3>5. Distinct'
      <4>1. ASSUME NEW i \in Ids, NEW j \in Ids, conn'[i] # 0, conn'[i] = conn'[j]
            PROVE  i = j
        BY <3>1, <4>1 DEF Wiring, Distinct
      <4>2. \A i \in Ids : client'[i] = 0 /\ up'[i] = 0
        BY <3>1
      <4> QED
        BY <4>1, <4>2 DEF Distinct
    <3>6. ASSUME NEW f \in noted'
          PROVE  \E j \in Ids : j \in closed /\ entry'[f] = Connect(j) /\ f = conn'[j]
      <4>1. f \in noted /\ f \in Fds /\ f \notin fds /\ entry'[f] = entry[f]
        BY <3>1, <3>2, <3>3
      <4>2. PICK j \in Ids : \/ entry[f] = Io(j) /\ j \notin closed /\ f \in {client[j], up[j]}
                             \/ entry[f] = Connect(j) /\ f = conn[j]
        BY <4>1 DEF Wiring, WatchedByOwner
      <4>3. j \in closed
        BY <3>4, <4>1, <4>2
      <4> QED
        BY <3>1, <4>1, <4>2, <4>3
    <3>7. WatchedByOwner'
      BY <3>6 DEF WatchedByOwner
    <3>8. IoIsNoted'
      <4> SUFFICES ASSUME NEW f \in Fds, NEW i \in Ids, entry'[f] = Io(i) PROVE f \in noted'
        BY DEF IoIsNoted
      <4>1. f \notin fds /\ entry[f] = Io(i)
        BY <3>2, EntryKinds
      <4> QED
        BY <3>1, <4>1 DEF Wiring, IoIsNoted
    <3>9. NoneDeaf'
      BY <3>1 DEF NoneDeaf, Ids, TypeOK
    <3>10. Known'
      <4>1. \A f \in Fds : \A j \in Ids :
               entry'[f] = Io(j) \/ entry'[f] = Connect(j) => j <= started'
        BY <3>1, <3>2, EntryKinds DEF Wiring, Known
      <4>2. \A j \in closed' : j <= started'
        BY <3>1 DEF Wiring, Known, TypeOK
      <4> QED
        BY <3>1, <4>1, <4>2 DEF Wiring, Known
    <3> QED
      BY <3>5, <3>7, <3>8, <3>9, <3>10 DEF Wiring
  <2>2. CASE Accept
    <3> DEFINE n == started + 1
               u == Lowest
    <3>1. u \in Free
      BY <2>2, LowestIsFree DEF Accept, AcceptResult
    <3>2. /\ u \in Fds /\ u # 0 /\ u \notin noted
          /\ \A i \in Ids : u # client[i] /\ u # conn[i] /\ u # up[i]
      BY <3>1, FreeIsNobodys DEF Wiring
    <3>3. n \in Ids /\ n \in Nat /\ started \in Nat /\ n > started
      BY <2>2 DEF Accept, Ids, TypeOK
    <3>4. n \notin closed /\ client[n] = 0
      BY <3>3 DEF Wiring, Known
    <3>5. /\ started' = n /\ client' = [client EXCEPT ![n] = u]
          /\ entry' = [entry EXCEPT ![u] = Io(n)] /\ noted' = noted \cup {u}
          /\ UNCHANGED <<conn, up, closed, cur>>
      BY <2>2 DEF Accept
    <3>6. \A i \in Ids \cup {cur} : i <= started => i <= n
      BY <3>3 DEF Ids, TypeOK
    <3>7. \A i \in Ids : i <= n /\ i # n => i <= started
      BY <3>3 DEF Ids
    <3> HIDE DEF n, u
    <3>8. client'[n] = u /\ \A i \in Ids : i # n => client'[i] = client[i]
      BY <3>3, <3>5 DEF TypeOK
    <3>9. entry'[u] = Io(n) /\ \A f \in Fds : f # u => entry'[f] = entry[f]
      BY <3>2, <3>5 DEF TypeOK
    <3>10. noted \subseteq Fds /\ 0 \notin Fds
      BY DEF TypeOK, Fds
    <3>11. Distinct'
      BY <3>2, <3>5, <3>8 DEF Wiring, Distinct
    <3>12. WatchedByOwner'
      <4> SUFFICES ASSUME NEW f \in noted'
                   PROVE  \E j \in Ids :
                            \/ entry'[f] = Io(j) /\ j \notin closed' /\ f \in {client'[j], up'[j]}
                            \/ entry'[f] = Connect(j) /\ f = conn'[j]
        BY DEF WatchedByOwner
      <4>1. CASE f = u
        BY <3>3, <3>4, <3>5, <3>8, <3>9, <4>1
      <4>2. CASE f # u
        <5>1. f \in noted /\ f \in Fds /\ f # 0 /\ entry'[f] = entry[f]
          BY <3>5, <3>9, <3>10, <4>2
        <5>2. PICK j \in Ids :
                \/ entry[f] = Io(j) /\ j \notin closed /\ f \in {client[j], up[j]}
                \/ entry[f] = Connect(j) /\ f = conn[j]
          BY <5>1 DEF Wiring, WatchedByOwner
        <5>3. f = client[j] => j # n
          BY <3>4, <5>1
        <5> QED
          BY <3>5, <3>8, <5>1, <5>2, <5>3
      <4> QED
        BY <4>1, <4>2
    <3>13. IoIsNoted'
      BY <3>5, <3>9 DEF Wiring, IoIsNoted
    <3>14. NoneDeaf'
      <4> SUFFICES ASSUME NEW j \in Ids, j <= started', j \notin closed'
                   PROVE  client'[j] \in noted' \/ up'[j] \in noted'
        BY DEF NoneDeaf
      <4>1. CASE j = n
        BY <3>5, <3>8, <4>1
      <4>2. CASE j # n
        <5>1. j <= started /\ j \notin closed
          BY <3>5, <3>7, <4>2
        <5> QED
          BY <3>5, <3>8, <4>2, <5>1 DEF Wiring, NoneDeaf
      <4> QED
        BY <4>1, <4>2
    <3>15. Known'
      <4>1. \A f \in Fds : \A j \in Ids :
               entry'[f] = Io(j) \/ entry'[f] = Connect(j) => j <= started'
        <5> SUFFICES ASSUME NEW f \in Fds, NEW j \in Ids,
                            entry'[f] = Io(j) \/ entry'[f] = Connect(j)
                     PROVE  j <= n
          BY <3>5
        <5>1. CASE f = u
          <6>1. j = n
            BY <3>9, <5>1, EntryKinds
          <6> QED
            BY <3>3, <6>1
        <5>2. CASE f # u
          BY <3>6, <3>9, <5>2 DEF Wiring, Known
        <5> QED
          BY <5>1, <5>2
      <4>2. \A j \in closed' : j <= started'
        BY <3>5, <3>6 DEF Wiring, Known, TypeOK
      <4>3. cur' <= started'
        BY <3>5, <3>6 DEF Wiring, Known
      <4>4. \A j \in Ids : j > started' => client'[j] = 0
        <5> SUFFICES ASSUME NEW j \in Ids, j > n PROVE client'[j] = 0
          BY <3>5
        <5>1. j # n /\ j > started
          BY <3>3 DEF n, Ids
        <5> QED
          BY <3>8, <5>1 DEF Wiring, Known
      <4> QED
        BY <4>1, <4>2, <4>3, <4>4 DEF Known
    <3> QED
      BY <3>11, <3>12, <3>13, <3>14, <3>15 DEF Wiring
  <2>3. ASSUME NEW i \in Ids, SessionStep(i) PROVE Wiring'
    BY <2>3, SessionKeeps
  <2>4. CASE DecodeDone
    <3>1. cur' = 0 /\ UNCHANGED <<sessVars, regVars>>
      BY <2>4 DEF DecodeDone
    <3>2. cur' <= started'
      BY <3>1 DEF sessVars, TypeOK
    <3> QED
      BY <3>1, <3>2 DEF Wiring, Distinct, WatchedByOwner, IoIsNoted, NoneDeaf, Known, sessVars,
                        regVars
  <2>5. CASE Run \/ Stop \/ Harvest \/ BatchDone \/ OnReadable \/ AcceptFails
             \/ AcceptWouldBlock \/ PauseAccepting \/ ResumeAccepting \/ Ignored \/ Arrive
             \/ Expire \/ UNCHANGED vars
    <3>1. UNCHANGED <<cur, sessVars, regVars>>
      BY <2>5 DEF Run, Stop, Harvest, BatchDone, OnReadable, AcceptFails, AcceptWouldBlock,
                  PauseAccepting, ResumeAccepting, Ignored, Arrive, Expire, vars
    <3> QED
      BY <3>1 DEF Wiring, Distinct, WatchedByOwner, IoIsNoted, NoneDeaf, Known, sessVars,
                  regVars
  <2> QED
    BY <2>1, <2>2, <2>3, <2>4, <2>5 DEF Next, Loop
<1> QED
  BY <1>1, <1>2, WiringDelivers, TypeCorrect, PTL DEF Spec
=============================================================================
