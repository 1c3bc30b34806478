----------------------------- MODULE CertCache ------------------------------
(***************************************************************************)
(* The LRU cache of forged certificates (CertCache) and the reference      *)
(* counts of the SSL_CTX objects it shares with the sessions that make     *)
(* them.  Every method holds mu_ throughout, so each is one step; between  *)
(* the steps the callers, on any thread, make, use and free contexts.      *)
(***************************************************************************)
EXTENDS Integers, Sequences, FiniteSets

CONSTANTS
    Hosts,        \* hostnames
    Ctxs,         \* SSL_CTX objects, each made once
    MaxEntries,   \* maxEntries_
    UseGet        \* whether callers look contexts up (the proxy never does)

(* put() into a cache of no entries would take back() of an empty list. *)
ASSUME CertCacheAssumption == MaxEntries \in Nat \ {0} /\ UseGet \in BOOLEAN

VARIABLES
    order,      \* order_: entries [host, ctx], most recently used first
    map,        \* map_: the hostnames it has an iterator for
    alive,      \* the cache has not been destroyed
    refs,       \* OpenSSL's reference count, -1: not made yet
    held,       \* references held by sessions and their connections
    found,      \* contexts get() has returned to a caller that is about to use them
    recency     \* hostnames by their last put() or successful get()

vars == <<order, map, alive, refs, held, found, recency>>

HostsOf(s) == [i \in 1..Len(s) |-> s[i].host]

(* The place in the list of the entry that map_ has an iterator for. *)
Pos(h) == CHOOSE i \in 1..Len(order) : order[i].host = h
EntryOf(h) == order[Pos(h)]

(* splice(begin(), list, it): the i-th element goes to the front. *)
ToFront(s, i) ==
    [j \in 1..Len(s) |-> IF j = 1 THEN s[i] ELSE IF j <= i THEN s[j - 1] ELSE s[j]]

(* h is now the hostname used last. *)
Touch(h) ==
    IF \E i \in 1..Len(recency) : recency[i] = h
    THEN ToFront(recency, CHOOSE i \in 1..Len(recency) : recency[i] = h)
    ELSE <<h>> \o recency

Init ==
    /\ order = <<>> /\ map = {} /\ alive = TRUE
    /\ refs = [c \in Ctxs |-> -1] /\ held = [c \in Ctxs |-> 0]
    /\ found = {} /\ recency = <<>>

-----------------------------------------------------------------------------
(* Mutant of Get: a hit does not move the entry to the front. *)
GetInPlace(h) ==
    /\ alive /\ UseGet /\ h \in map
    /\ found' = found \cup {EntryOf(h).ctx}
    /\ recency' = Touch(h)
    /\ UNCHANGED <<order, map, alive, refs, held>>

(* get(): a hit moves the entry to the front and returns the bare pointer; a *)
(* miss changes nothing.                                                     *)
Get(h) ==
    /\ alive /\ UseGet /\ h \in map
    /\ order' = ToFront(order, Pos(h))
    /\ found' = found \cup {EntryOf(h).ctx}
    /\ recency' = Touch(h)
    /\ UNCHANGED <<map, alive, refs, held>>

(* Mutant of PutExisting: the old context is not freed. *)
PutExistingLeak(h, c) ==
    /\ h \in map
    /\ refs' = [refs EXCEPT ![c] = @ + 1]
    /\ order' = ToFront([order EXCEPT ![Pos(h)].ctx = c], Pos(h))
    /\ UNCHANGED map

(* put() of a hostname that is cached: the entry's context is replaced. *)
PutExisting(h, c) ==
    /\ h \in map
    /\ LET freed == [refs EXCEPT ![EntryOf(h).ctx] = @ - 1]
       IN  refs' = [freed EXCEPT ![c] = @ + 1]
    /\ order' = ToFront([order EXCEPT ![Pos(h)].ctx = c], Pos(h))
    /\ UNCHANGED map

(* put() of a new hostname: evict the last entry if full, insert at the front. *)
PutNew(h, c) ==
    /\ h \notin map
    /\ LET full == Len(order) >= MaxEntries
           back == order[Len(order)]
           kept == IF full THEN SubSeq(order, 1, Len(order) - 1) ELSE order
           freed == IF full THEN [refs EXCEPT ![back.ctx] = @ - 1] ELSE refs
       IN  /\ map' = (IF full THEN map \ {back.host} ELSE map) \cup {h}
           /\ order' = <<[host |-> h, ctx |-> c]>> \o kept
           /\ refs' = [freed EXCEPT ![c] = @ + 1]

(* put(), by a caller that holds a reference to c. *)
Put(h, c) ==
    /\ alive /\ held[c] > 0
    /\ PutExisting(h, c) \/ PutNew(h, c)
    /\ recency' = Touch(h)
    /\ UNCHANGED <<alive, held, found>>

(* The destructor: a reference per entry is given up, and nobody calls the   *)
(* cache afterwards.                                                         *)
Destroy ==
    /\ alive
    /\ alive' = FALSE
    /\ refs' = [c \in Ctxs |-> refs[c] - Cardinality({i \in 1..Len(order) : order[i].ctx = c})]
    /\ order' = <<>> /\ map' = {}
    /\ UNCHANGED <<held, found, recency>>

-----------------------------------------------------------------------------
(* The callers. *)

(* SSL_CTX_new(), in startTlsMitm(). *)
New(c) ==
    /\ refs[c] = -1
    /\ refs' = [refs EXCEPT ![c] = 1] /\ held' = [held EXCEPT ![c] = 1]
    /\ UNCHANGED <<order, map, alive, found, recency>>

(* SSL_new(), by the maker of c or by who has got it from the cache; on a    *)
(* context already freed it is undefined (see FoundIsAlive).                 *)
Use(c) ==
    /\ refs[c] > 0
    /\ held[c] \in {0, 1} /\ (held[c] = 1 \/ c \in found)
    /\ refs' = [refs EXCEPT ![c] = @ + 1] /\ held' = [held EXCEPT ![c] = @ + 1]
    /\ found' = found \ {c}
    /\ UNCHANGED <<order, map, alive, recency>>

(* SSL_CTX_free() after the handshakes, SSL_free() of a connection. *)
Free(c) ==
    /\ held[c] > 0
    /\ refs' = [refs EXCEPT ![c] = @ - 1] /\ held' = [held EXCEPT ![c] = @ - 1]
    /\ UNCHANGED <<order, map, alive, found, recency>>

Next ==
    \/ \E h \in Hosts : Get(h)
    \/ \E h \in Hosts, c \in Ctxs : Put(h, c)
    \/ \E c \in Ctxs : New(c) \/ Use(c) \/ Free(c)
    \/ Destroy

Spec == Init /\ [][Next]_vars

-----------------------------------------------------------------------------
Entries == [host : Hosts, ctx : Ctxs]

(* Domains of the variables of the cache, which never exceeds maxEntries_. *)
TypeOK ==
    /\ order \in Seq(Entries) /\ Len(order) <= MaxEntries
    /\ map \in SUBSET Hosts /\ alive \in BOOLEAN
    /\ refs \in [Ctxs -> Nat \cup {-1}] /\ held \in [Ctxs -> Nat]
    /\ found \in SUBSET Ctxs
    /\ recency \in Seq(Hosts)

(* The list and the map describe the same cache: one entry per hostname and  *)
(* one hostname per entry, so no iterator of the map dangles.                *)
MapMatchesOrder ==
    /\ map = {order[i].host : i \in 1..Len(order)}
    /\ \A i, j \in 1..Len(order) : order[i].host = order[j].host => i = j

(* The cache holds the most recently used hostnames, at most maxEntries_ of  *)
(* them, in the order of their last use: what put() evicts is the least      *)
(* recently used entry; and the map never refers to an evicted one.          *)
LeastRecentlyUsed ==
    /\ MapMatchesOrder
    /\ alive => HostsOf(order) = SubSeq(recency, 1,
                    IF Len(recency) < MaxEntries THEN Len(recency) ELSE MaxEntries)

(* Every reference is owned: one per entry and one per session or connection *)
(* that holds the context.  So no cached context and none in use is freed,   *)
(* and none is kept once it is neither.                                      *)
RefsBalanced ==
    \A c \in Ctxs : refs[c] # -1 =>
        refs[c] = held[c] + Cardinality({i \in 1..Len(order) : order[i].ctx = c})

(* CertCache.hpp: "All public methods are protected by a mutex. Safe to call *)
(* from any thread."  A context returned by get() is still there when its    *)
(* caller uses it.                                                           *)
FoundIsAlive == alive => \A c \in found : refs[c] > 0
=============================================================================
