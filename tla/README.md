# A verification project for DeepSeer

DeepSeer is an intercepting HTTP/HTTPS proxy in C++23: one event-loop thread
serves all sessions, and an inference engine with a worker thread of its own
classifies the response bodies the proxy captures. This directory holds TLA+
models of its components, the TLC configurations that check them on small
instances, and proofs that the TLA+ proof system (TLAPS) checks for every value
of the constants. `PROJECT.json` lists components, runs, mutants, the map from
definitions to source lines, findings, hazards and theorems.

To repeat a run: `tlc -config X.cfg MCX`; to repeat the proofs:
`tlapm XProofs.tla`.

## The system and its parts

| Part (source) | State | Operations | Interacts with | What is hard | What makes it correct |
|---|---|---|---|---|---|
| Event loop (`Event/KqueueLoop`) | `running_`, wake pipe, `postedCallbacks_`, `fdEntries_`, `timers_` | `run`, `stop`, `post`, `watch`, `remove`, `addTimer` | calls everybody's callbacks; `post`/`stop` from any thread or signal handler | lost wakeups, full pipe, events of a batch that are stale when dispatched, reused descriptors | every post runs once, in order; stop ends run; an event reaches only its own descriptor's owner |
| Buffer (`Core/Buffer`) | `slices_`, `frontSlice_`, `totalLength_` | `add`, `reserve`/`commit`, `drain`, `move`, `linearize` | every reader and writer | long call sequences, drained slices kept or erased | a byte queue |
| Connection (`Net/Connection`) | `closed_`, `reading_`, `writeBuf_`, registration | `startRead`, `stopRead`, `write`, `shutdownWrite`, `close`, `handleRead`, `handleWrite` | loop, socket, its owner's callbacks | partial sends, EOF racing data, re-entrant callbacks | an ordered byte stream; watched for exactly what it needs; one end, last |
| TLS connection (`Tls/TlsConnection`) | the same, and the handshake | `startHandshake`, `startRead`, `write`, `close`, `handleIo`, `doRead`, `doWrite` | loop, OpenSSL, its owner | WANT_READ/WANT_WRITE of three operations share one watch; repeated SSL_write | the same byte stream; wants are watched and repeated intact |
| Proxy session (`Proxy/ProxySession`) | client, upstream, two TLS connections, connecting socket, mode flags, pending body, captured body | codec callbacks, connect, tunnel, interception, `close` | everything above, certificate cache, inspector | events in any order in three modes; nested handshakes with manual reference counts | ends as a whole; requests arrive as sent; inspections match responses; no SSL_CTX leaked or freed twice |
| Certificate cache (`Tls/CertCache`) | LRU list, map, SSL_CTX references | `get`, `put` | sessions | list, map and counts in step | LRU; references balanced |
| Listener and Server (`Net/Listener`, `Server/Server`) | listening socket, resume timer, sessions | `start`, `stop`, `onReadable`, pause, resume, `onNewConnection`, `run` | loop, sessions | descriptor exhaustion, timer handles | never stops accepting for good |
| Engine (`SeerLib/Engine`) | `queue_`, `running_`, `worker_`, mutex, condition variable | `submit`, `shutdown`, destructor, `workerLoop` | inspector callback (loop thread) → worker thread | notifications, restarts, join under a mutex | each item served once, in order; no call blocks for ever; shutdown drains |
| HTTP/1.1 codec (`Http/Http1/Codec`, `HeaderMap`, `Message`) | parser, message under construction, fragments of a header | `decode`, llhttp callbacks, `encode*` | session | reads cut anything anywhere, state kept between messages, framing of decoded bodies | messages come out as sent and can be read again |
| Logging (`Log/Logger`, `FileSink`, `ConsoleSink`) | `gMinLevel`, `gSinks`, `gSinksMu`; `file_`, `currentSize_`, files on disk | `init`, `shutdown`, `setLevel`, `log`; `write`, `flush`, `rotate` | every thread | replacing sinks under other threads, crash between renames, limits | no gap in the log; shutdown leaves nothing behind |
| Magika model (`SeerLib/Magika`) | weights, labels | `loadFromFile`, `predict` | engine's worker thread | unchecked reads, index arithmetic, short payloads | a loaded model is the written one; tokens as in training; indices in bounds |
| Sockets, addresses, certificate generator, `main` | – | – | – | – | not modelled as components, see below |

## Modules

Each component has a module; `MC<module>.tla` instantiates it for TLC, the
`.cfg` of the same run gives the constants.

* **KqueuePost** – `post()`, `stop()` and `wake()` from a set of threads (the
  loop's own, from inside callbacks, included) against `run()`. One step per
  atomic section: the push and the swap under `postMu_`, the loads and stores
  of `running_`, the system calls on the pipe. `pc` is the loop thread's place
  in `run()`; a harvested batch has the wake event at any place among others.
* **Engine** – `submit()` and `shutdown()` by clients, the destructor, and the
  worker's loop; `mutex_` is kept across steps only by the thread that replaces
  `worker_` (move-assigning a `std::jthread` joins the old one). Worker threads
  are numbered by generation. `Exclusive` says whether clients keep
  `shutdown()` apart from other calls, as `main()` does. The owner destroys the
  engine at any time, after a `shutdown()` or, like `main()`, without one: then
  the worker may call `classify()` of a destroyed object (`ClassifyDestroyed`),
  which aborts the process or yields any result.
* **Connection** – all methods and handlers, the registration in the loop
  (`reg`), the harvested batch (`batch`, so that events are stale when
  dispatched), the kernel's buffers and the peer. Bytes are numbers. `onError_`
  is called before `close()`: between the two (`reporting`) its owner may call
  any method of the connection that is still open, `CloseAfterError` comes last.
* **ByteStream** – what Connection and TlsConnection promise for written data.
* **TlsConnection** – the handshake as alternating flights for both roles,
  `doRead()` and `doWrite()` step by step with the owner acting inside
  callbacks (`pc`, `ret`), the want of each OpenSSL call, a peer that may start
  a later handshake. OpenSSL, the socket and the peer are external.
* **ProxySession** – the three modes (plain, tunnel, interception). A message
  is a head and body parts; the codecs are the callbacks they make. Connect
  outcomes, handshake outcomes, ends and errors come at any point. `toClient`
  and `toUpstream` are what is buffered, `clientGot` and `upGot` what has left.
  A write of a codec's callback may fail, which closes the session at once while
  the codec goes on with the bytes it was given (`decoding`): the callbacks of
  the same `decode()` then meet a closed session, and `connectUpstream()` does
  not ask. `refused` says that the last request was answered by a 502.
* **CertCache** – list, map and OpenSSL reference counts, with sessions that
  use and release contexts.
* **Server** – listener, timer, session list and the loop's dispatch of batches
  with several descriptors; descriptors are numbers, allocated lowest first and
  reused. A session is reduced to its client's descriptor, a connecting one and
  an upstream's, and to what it does with their registrations: `entry` is
  `fdEntries_`, `noted` the kernel's filters, which go with the descriptor while
  the entry does not. The requests of one read are steps of one `decode()`
  (`pc = "decode"`), so that a connect replaces another, fails and leaves its
  socket, or comes after a failed write has closed the session; interception
  unregisters the client until the upstream's handshake is done.
* **Buffer**, **ByteQueues** – all methods of Buffer and Slice for several
  buffers, and the queues they promise. `add()`'s loop is unrolled (a second
  slice is always large enough), the loop of `drain()` is written as sums over
  the slices it visits. The specification is `BufferSpec`.
* **Http1Codec** – a peer's stream as symbols, cut into `decode()` calls at any
  of them; one action per llhttp callback, each on the longest span of its kind
  in the data given so far. `head` is the message under construction with the
  header fragments; `phase` and `left` are llhttp's (external): it frames bodies
  by the headers it saw. The session's part is what it makes of a head (target,
  origin form, method, dropped headers) and when it closes; `out` is what it
  encodes. In an interception a fresh codec replaces the one that saw CONNECT.
* **FileSink**, **Logger** – FileSink has the files, the stdio buffer and the
  steps of `rotate()`; Logger extends it with the threads: `log()`'s test of the
  level, the shared lock, the writes sink by sink (the thread that rotates keeps
  `mu_`), the exclusive lock of `init()` and `shutdown()`, and processes that
  end, orderly or by a crash at any step, and start again on the same files.
* **MagikaModel** – `loadFromFile()` with one action per read, on all prefixes
  of the file that `tools/extract_magika_weights.py` writes (the last item
  possibly in part) and on files of another kind; `predict()` as the tokens it
  extracts and the set of array cells its layers touch. `stage` is the next read,
  `togo` the tensors or labels left; the specification is `ModelSpec`.
* **Pieces** – the sum over a sequence that FileSink (sizes of lines) and Buffer
  (lengths of slices) share.
* **KqueuePostProofs**, **EngineProofs**, **ConnectionProofs**,
  **ServerProofs**, **ProxySessionProofs**, **TlsConnectionProofs**,
  **CertCacheProofs** – theorems about the module named.
* **PiecesProofs** – theorems about Logger (with FileSink), Buffer and
  MagikaModel, whose proofs share facts about sums, products and flattened
  sequences.

No module composes others through INSTANCE except for refinement, and Logger
extends FileSink: the other components meet at callbacks, and each module
contains the part of its neighbours that it can observe (ProxySession contains
the connections' ends and buffers, Server the sessions' descriptors, TlsConnection the slices of its buffer).

## Runs

| Run | Bounds | What it shows |
|---|---|---|
| KqueuePost | 3 threads, pipe of 2 bytes, 1 post each, 1 stop, 2 runs, 1 other event per batch | No wakeup or stop is lost though bytes may be dropped (`NoLostWakeup`); callbacks run once and in order (`PostOrder`); a posted callback runs (`PostedIsRun`) and `run()` ends after `stop()` (`StopEndsRun`). Three writers for two bytes fill the pipe. |
| Engine | 2 clients, 2 submits each, 4 worker generations | Order and exactly-once (`QueueOrder`), the relation of `running_`, `worker_` and the thread (`Lifecycle`), no lost notification, `shutdown()` drains, everything submitted is served unless the engine is destroyed before (`EverySubmitServed`: nothing but the destructor leaves a payload behind), and every call returns. |
| Connection | 4 bytes in writes of up to 3, send buffer 2, 2 bytes received | Watched for exactly what it needs (`WatchMatchesInterest`); `onClose_` once, without errors and after all data, `onError_` always followed by `close()` and repeated only for writes made inside it (`EndIsFinal`); a closed connection is quiet whatever is still in the batch; nothing stalls; it implements ByteStream, so no byte is lost, repeated or reordered. |
| TlsConnection | 3 bytes in writes of up to 2, room for 1 record, 1 record received, renegotiation | Whatever OpenSSL wants is watched (`NeedsWatched`), ends and outcomes are told once (`ToldOnce`: at most one more call follows when a callback closed the connection it was called from), SSL_write is repeated with the same bytes (`RetryIntact`), nothing stalls, it implements ByteStream. |
| ProxySession | 3 requests, bodies of 2, 0, 1 parts and responses of 1, 2, 1, parts of up to 2 at once, a cap of 1 | Sessions end as a whole (`AllOrNothing`: no connection stays or becomes open, whatever the codecs still parse), sockets are handed to TLS only when drained (`SocketHandover`), SSL_CTX references are released once (`CtxAccounting`), upstreams get requests as sent, also after requests that were refused (`RequestIntact`), inspections are whole up to the cap, overrun it by less than a part and come under their own URL (`InspectionIntact`), plain requests are forwarded or answered (`RequestForwarded`). Three requests are a CONNECT and two inside it, pipelining, or requests after a 502. |
| CertCache | 3 hosts, 3 contexts, 2 entries | List and map agree and the least recently used host is evicted (`LeastRecentlyUsed`), references are balanced (`RefsBalanced`). |
| Server | 3 descriptors, 3 clients, 2 connects | The listener is watched or has the one pending timer (`AcceptingOrResuming`), what is watched is open and calls its owner, no entry points to a connection without its descriptor and no open session is deaf, across reuse (`EventsReachOwners`), waiting clients are taken (`AcceptGoesOn`). Two connects replace one another in a session, or reuse the descriptor of another's. |
| Buffer | 2 buffers, slices of 2, 5 bytes, adds and drains of up to 3 | The layout all methods rely on (`Layout`: front slice has data, drained slices are fewer than half) and refinement of byte queues, with `length()` (`QueueSpec`). An add of 3 spans two slices; three moved slices keep a drained one. |
| Http1Codec | 626 streams: every one or two of 11 requests, plain or after one of 3 CONNECTs; every one or two of 7 responses, plain or intercepted; all ways to cut them | Every message is forwarded with its own line, headers and body, in order and to its end (`Reassembled`); the receiver finds the same body (`FramingKept`); the session connects to the host and port meant (`TargetRecovered`). The messages differ in URL form, place and form of host and port (IPv6 literals and a port beyond 65535 included), empty, repeated and differently spelled headers, framing, trailers and errors, so that every branch is taken, and each follows each. |
| Logger | 2 threads, 4 lines (two of 1 or 2 bytes, then two of 2), files of 2 bytes, 0, 2 or 3 rotated files, 1 restart, 1 `init()` or `setLevel()` | The files hold the latest lines without a gap, lines are only given up when all rotated files are in use, and files stay near the limit (`LogContiguous`); no thread sees the sinks change while it writes, and `shutdown()` leaves no line in a buffer (`ShutdownFlushes`). Four lines overflow three rotated files; a crash comes at every step of a rotation. |
| MagikaModel | regions of 2 bytes, payloads of up to 5 of 3 bytes, layers of 2 to 4 | Tokens are those of the training's definition (`TokensAsTrained`); whatever prefix of the file was read, a model that loads with classes is the written one, and predicting touches no cell outside and every cell inside its arrays (`LoadedIsUsable`). |
| ProxyTruncated | as ProxySession | **violated**: the end of a plain response drops what a slow client has not taken yet. |

Deadlock checking is off where the system may stop: all calls made, or the
session or connection closed. Type invariants are not among the properties of
the runs: those of KqueuePost, Engine, Connection, Server, ProxySession,
TlsConnection and CertCache are theorems, and those of FileSink and Buffer are
conjuncts of proved invariants. The mutants in `PROJECT.json` show for every
property of a passing run a plausible mistake that it catches.

### Fairness

* KqueuePost: a thread inside `post()`/`stop()` finishes it; the loop thread
  moves unless it sleeps in `kevent()` with nothing ready. No other event is
  obliged to arrive, so no property holds thanks to an unrelated event.
* Engine: threads that are not blocked run and `classify()` terminates; nobody
  has to call anything, spurious wakeups need not come.
* Connection, TlsConnection: the level-triggered loop reports what is ready,
  handlers and callbacks (`onError_`) return, the peer keeps reading and answers handshakes unless it has
  ended. Applications and peers' data are not obliged.
* ProxySession: a connect gets an outcome (TCP times out) and buffers are
  flushed to peers that read.
* Server: the loop's thread goes on, timers expire.
* Http1Codec, Logger, MagikaModel: safety only; deadlock checking is on, so
  that every symbol, call and read has an outcome.

### Recorded divergences

The violation run is in "findings". The modules also state, after the
properties, sentences of the repository that the code does not meet; each fails
when it takes the place of the properties of the configuration named here.

| Definition | Configuration | The code | The repository says |
|---|---|---|---|
| `RunEndsAfterStop` | KqueuePost | `run()` stores `true` in `running_`, so an earlier `stop()` is overwritten | EventLoop.hpp: "Blocks the calling thread until stop() is called." |
| `SubmitReturns` | Engine, `Exclusive = FALSE` | `startWorker()` assigns `worker_` under `mutex_`; when a concurrent `shutdown()` has not joined yet, the assignment joins the old worker, which needs `mutex_`: both wait for ever | Engine.hpp: "Safe to call from any thread. Does not block." |
| `ShutdownDrains` | Engine, `Exclusive = FALSE` | a second, concurrent `shutdown()` returns at once | Engine.hpp: "Blocks until pending work drains." |
| `ClassifyAlive` | Engine | the base destructor joins a worker that may be in `classify()` of a destroyed derived object; `main()` never calls `shutdown()`, so work pending at exit meets this | SeerLib/README.md: "A new model only needs to implement the synchronous `classify()` method." |
| `StoppedMeansStopped` | Connection | a read event harvested before `stopRead()` is delivered when a write keeps the registration | Connection.hpp: "Stop reading from the socket." |
| `InspectCapped` | ProxySession | the cap is tested before a part is added | ProxySession.cpp: "up to cap" |
| `CapturedIsInspected` | ProxySession | a response ended by its connection is never inspected | Server.hpp: "fires this with captured response bodies" |
| `OwnRequestOnly` | ProxySession | a pipelined request sends the earlier one's pending body to its own upstream | README.md: "forwards them transparently" |
| `RefusedBodyDropped` | ProxySession | a 502 leaves the request's body in `pendingBody_`, and it is sent with the next request | README.md: "forwards them transparently" |
| `ClosedHolds` | ProxySession | `connectUpstream()` does not test `closed_`: a request left in the `decode()` in which a write failed makes a socket that nobody closes | ProxySession.cpp: "Clean up connecting socket if mid-connect" |
| `NoHalfOpen` | ProxySession | no `onError` is set on TLS connections; a failed one leaves the session open | TlsConnection.hpp: "set onData/onClose/onError" |
| `WrapsConnected` | ProxySession | the callback of a connecting socket takes any event for success and never reads SO_ERROR: a refused connect is wrapped and, for CONNECT, answered by 200 | ProxySession.cpp: "Now wrap the connected socket in a Connection" |
| `WantIsRetried` | TlsConnection | `SSL_read()` that wants to write ends the connection | TlsConnection.hpp: "register the appropriate event [...] and retry" |
| `FoundIsAlive` | CertCache | `get()` takes no reference | CertCache.hpp: "Safe to call from any thread." |
| `SessionsCleaned` | Server | closed sessions are looked for as null pointers | Server.cpp: "Clean up closed sessions" |
| `ConnectOnOwnEvent` | Server | events are looked up by descriptor only: one harvested for a connection that an earlier callback of the batch closed reaches the connecting socket that got its number, and one of a replaced connecting socket completes its successor | ProxySession.cpp: "watch for writable to know when connect completes" |
| `ClosedOwnsNothing` | Server | as `ClosedHolds`, with the descriptor: it is lost to the process as long as the session is listed | ProxySession.cpp: "Clean up connecting socket if mid-connect" |
| `NoStaleEntry` | Server | a second connect closes the first one's socket by assignment, without `remove()`: the entry stays in `fdEntries_` and is called if an event of that socket was harvested before | EventLoop.hpp: "Remove all watches for a given fd" |
| `ChunkedKept` | Http1Codec | chunked requests are forwarded decoded but still headed Transfer-Encoding; chunked intercepted responses without any framing | ProxySession.cpp: "we'll use Content-Length for framing instead" |
| `HeadAnswered` | Http1Codec | `onHeadersComplete()` always returns 0: after a response to HEAD llhttp takes the next response for its body | Http/Codec.hpp: "Fired after the entire message (headers + body)." |
| `RepeatedKept` | Http1Codec | `HeaderMap::set()` overwrites, so one of several Set-Cookie lines is left | README.md: "forwards them transparently" |
| `PathKept` | Http1Codec | a path with "://" in its query is cut down to what follows the next slash | ProxySession.cpp: "Convert proxy-style absolute URL to origin-form path" |
| `MethodKept` | Http1Codec | a method outside `HttpMethod` is sent as UNKNOWN | README.md: "forwards them transparently" |
| `InterimPassed` | Http1Codec | an interim (100) response ends a plain session | ProxySession.cpp: "signal end-of-response by closing the connection" |
| `HostAccepted` | Http1Codec | a host with nothing, or no number, after its first colon (an IPv6 literal) throws out of the callback and nobody catches it | Http1/Codec.hpp: "so the proxy knows where to connect upstream" |
| `PortKept` | Http1Codec | a port number is cut to 16 bits, and the request goes to the port that is left | Http1/Codec.hpp: "so the proxy knows where to connect upstream" |
| `RotatedBounded` | Logger | with `maxFiles` 0 one rotated file is kept | FileSink.hpp: "Max rotated files to keep" |
| `ReplacedIsFlushed` | Logger | `init()` drops sinks without flushing them; their lines wait for the destructor | Logger.hpp: "Flush all sinks and release them." (of `shutdown()`) |
| `TruncationRejected` | MagikaModel | the number of labels is read unchecked: a file cut there loads with no classes, and `softmax()` takes the maximum of nothing | MagikaModel.cpp: "Failed reading label" |

## Proofs

The theorems hold for every set of threads and clients, every capacity and
every bound, from the assumptions named in the modules (`PostAssumption`,
`EngineAssumption`, `ConnectionAssumption`, `ServerAssumption`,
`ProxySessionAssumption`, `TlsConnectionAssumption`, `CertCacheAssumption`:
bounds are natural numbers, capacities positive, the bodies of requests and
responses within their bound; `BufferAssumption`; `SinkAssumption`: there is a
longest line and `maxFileSize` is not 0, with which every write would rotate;
`ShapeAssumption`: the layers fit each other, as the network's constants do).
TLC evaluates these assumptions in every run.

* **KqueuePostProofs**: `TypeCorrect`; `WakeupSafety` (`NoLostWakeup` is
  inductive given the types: posters and stoppers add themselves to `waking`
  in the step that makes a wakeup necessary, a wake leaves a byte even when the
  pipe is full, only the step to "swap" empties the pipe, and the swap empties
  the queue); `PostOrderCorrect`, which needs `LocalCbs` as strengthening: the
  swap only preserves the order because the local vector is empty then.
* **EngineProofs**: `TypeCorrect` without a condition on clients. The others
  assume `Exclusive`. `LifecycleCorrect` proves `OneWorker /\ Lifecycle`
  inductive; neither is alone, because a restart is harmless only if the old
  worker has been joined, which `Lifecycle` knows from `running_` and
  `worker_`. `Lifecycle` is stated in parts (`ShutdownAlone`, `ReplacesJoined`,
  `RefersToNewest`, `ExitsDrained`) and each action is proved part by part. On
  them rest `QueueOrderCorrect`, `ShutdownDrainsCorrect` and
  `NoLostNotifyCorrect`. All hold with a destructor at any time.
* **ConnectionProofs**: `ConnectionCorrect` (types, byte accounting and
  registration together are inductive: `handleWrite()` is characterised once,
  in `HandleWriteEffect`, as moving a prefix of the buffer), `EndCorrect`
  (errors before `close()` are counted against the calls of `onError_` that have
  not returned), `QuietCorrect` (an action property: a closed connection sends
  nothing, makes no callback and does not open again) and `ImplementsStream`,
  the refinement of ByteStream.
* **ServerProofs**: `TypeCorrect`; `ListenerKept`, strengthened by `NoTimerYet`
  (a timer of an earlier life would resume a listener that is being watched);
  `EventsDelivered`, from `Wiring`: `Distinct` is `SoleOwner` without sets, and
  `Known` adds that whatever is closed, called back or being decoded is a session
  made before, without which a new session could be closed, or called, from its
  start. One lemma each says that closing a session (`CloseKeeps`), a new
  connecting socket (`ConnectKeeps`), a new upstream (`TakeKeeps`) and a dropped
  registration (`DropKeeps`) disturb nobody else. `LeastNatural`, the
  existence of a lowest free descriptor, is proved from the well-foundedness of
  the natural numbers.
* **ProxySessionProofs**: `EndsAsAWhole` needs to know that a closed session
  parses on only after a failed write. `Modes` says
  which connections exist in which mode; with `Ongoing` (nothing has ended
  before `close()`) it makes the reference counts of `ContextsReleased`
  inductive. `TypeCorrect` needs to know that every head an upstream gets was
  made (`HeadsMade`) and that responses answer requests that were made
  (`Parsing`). The three properties about data are stated for clients that wait
  for each response or 502, and add to the types where such a client's request stands:
  `Turns` (at most one request is open, nothing is buffered for the client while
  a connect is under way, and the 200 has left before an interception; with `Modes`
  it gives `HandoverInTheClear`), `AskedBefore` (what was asked while no
  upstream was there yet, unless a refused request had a body (`LeftOver`), for
  `RequestsIntact`), and `Collecting` with
  `InspectedBefore` (the response under way is the current request's and its
  body is collected from its start; what was inspected is answered; for
  `InspectionsIntact`).
* **TlsConnectionProofs**: `ToldAsPromised` rests on `Stages` (what each place
  in a handler says of handshake and connection) and `Tellings`. For
  `RetriesIntact` the lengths of slices must add up to the buffer; `Bytes` says
  so without a sum, by ends that cut the buffer (`Cuts`), and `InOrder` says
  that what was sent and what is held are what was accepted.
  `NeedsAreWatched` needs `Stages` again and `Watched`, which extends the
  property to the owner's turn inside the handshake's callback, where it may
  write. `ImplementsStream` follows step by step
  from `Bytes` and `InOrder`.
* **CertCacheProofs**: `Lru` says that the list is, entry by entry, the front of
  the hostnames by recency, each named once; the lemmas `ToFrontType` and
  `ToFrontMoves` say what `splice()` does to a list, and `Hit` and `Miss` are
  the two ways through `put()`. `ReferencesOwned` counts the entries of a
  context: `CountToFront`, `CountPushFront`, `CountPopBack` and `CountReplace`
  give the count after each operation on the list, by bijections of places;
  `Owned` adds that a context not made yet has no owner, without which a count
  could pass through -1. `TypeCorrect` follows from both.
* **PiecesProofs** proves what the log, the buffers and the classifier keep. What a recursive
  function computes is found without an induction rule: `SetInduction` turns a
  set that 0 is in, and i whenever i - 1 is, into all of 0..n, from a least
  counterexample (the natural numbers are well founded). With it `SumSeq`,
  `FlattenSeq` and `Product` are characterised by the values of their beginnings
  (`Sums`, `Glues`, `Products`), and a sequence in pieces by the places where
  they start (`Starts`, `Cut`).
  - *Logger*: `ShutdownKeepsLines`. Each thread under the shared lock has left a
    rest of the installed sinks (`Iterating`); since there are none after
    `shutdown()` (`Emptied`), no thread can write again, so the flush is the last
    thing that happens to the file (`Flushed`). `RestOf` is the suffix of the
    property place by place.
  - *FileSink*: `LogInOrder`. `LogContiguous` is not inductive: it says nothing
    of the files in the middle of a rotation. `SinkInv` has the places at which
    the log is cut into files (`InOrder`), where a rotation or a crash may have
    left an empty one (`Holes`), and that `currentSize_` is the size of the first
    file and the buffer together, below the limit when a line is written
    (`Sized`). A write, a spill, a deletion and a rename each move one cut.
  - *Buffer*: `BuffersLaidOut` and `BuffersAreQueues`. `BufInv` is the layout
    (`Shaped`) with `totalLength_` counting the bytes (`Joined`). `drain()` is
    characterised by the places its sums are (`PlacesOf`, `EndsAt`, `Drained`):
    the bytes left are the old ones after the n-th. Each call then does to the
    bytes what `ByteQueues` says (`Called`).
  - *MagikaModel*: `PayloadsTokenized`: `begStart` and `endPos` are each other's
    mirror image (`TrailingLeads`), so that the end region is a beginning of the
    reversed payload (`Tokens`). `ModelsUsable`: every file is a beginning of one
    laid out for the loader (`FilesLaid`); `LoadInv` says where in it each read
    stands as long as the stream is good (`Here`), that every tensor kept has the
    floats of its shape (`TensorsRead`), and that a stream that failed reaches
    the last check without classes only. A complete model's accesses are then
    counted layer by layer (`AccessesFit`): an index by row and cell covers
    exactly the numbers below the product (`CellBelow`, `BelowCell`).

Only model-checked, and why:

* all liveness (`PostedIsRun`, `StopEndsRun`, `EverySubmitServed`,
  `CallsReturn`, `DataMoves`, `RequestForwarded`, `AcceptGoesOn`): fairness is
  outside what TLAPS 1.4.5 proves;
* `Reassembled`, `FramingKept` and `TargetRecovered` (Http1Codec): a message of
  the constant `Streams` has its text (line, headers, body) beside what its
  sender means (host, port, path, where the body ends). That the two agree is
  true of the messages in MCHttp1Codec; a theorem for every stream would have to
  assume it, in terms of the same splitting of URLs and hosts and the same
  framing that the codec is to be checked for. The run covers every pair of the
  messages enumerated there, cut in all ways.

## Abstractions and what is left out

* *KqueuePost, Server*: `kevent()` failing for other reasons than EINTR ends
  `run()` in KqueuePost; in Server the loop ends by `stop()` only, and data of an
  upstream changes no registration (the ends it leads to are `SessionEnds`). One event per
  descriptor and batch in Server; ENFILE counts as no free descriptor. An
  `accept()` error other than exhaustion costs the client it is about.
* *ProxySession*: a failed certificate generation is part of `UpstreamHandshakeFails`;
  the 200 leaves at once when nothing is pending before it; a CONNECT inside an
  interception and the bytes a client sends between CONNECT and 200 are left
  out. A failing write of the 200 is `StartTunnel` or `StartTlsMitm` followed by
  the end of the client or a failed handshake. An upstream sends one response to
  a request: an interim and a final response in one read, and the callbacks after
  a completed response, are left out (`InterimPassed` is about the former).
  `pipelined` marks sessions whose client did not wait for a response or for its
  502: the per-request properties are stated for the others. A failed name
  resolution is dereferenced unchecked in the code; the model has its
  non-crashing outcome, a failed connect.
* *TlsConnection*: one `SSL_write()` is one record; the owner writes only after
  `startRead()`, as ProxySession does. That a writable watch may keep firing
  while nobody reads costs time only and is no property.
* *Buffer*: a reserved buffer is committed with at least one byte or dropped, as
  `Connection::handleRead()` does; other uses could leave an empty slice in
  front of data.
* *Http1Codec*: fragments are the smallest pieces that are cut (a numeral, "://",
  half a header name). llhttp makes its
  callbacks as documented; messages that ask for an upgrade other than CONNECT,
  or for the connection to be closed, are left out, as is `Type::Both`, which
  only encoders have. `llhttp_finish()` is never called: a response that ends
  with its connection never completes, in the code and in the model. When a
  forwarded part is written is in ProxySession, as is what pipelining breaks.
* *FileSink*: stdio writes whole lines; renames of existing files succeed and
  disks are not full. A failed `fopen()` (the directory is not created) drops
  all later lines silently, and does so in the model. Two sinks on one path are
  left out.
* *MagikaModel*: the values of floats, so GELU, normalisation and softmax
  themselves; the proportions of the layers are kept by `ShapeAssumption`.
  Shapes other than the extraction script's are not checked by the loader and
  not modelled.
* Not modelled: address resolution and socket wrappers (no state; their
  outcomes are the nondeterminism above), CertGenerator (one OpenSSL
  computation), `main()` (wiring; its use of Logger is in Logger).

## Plan

1. *Done*: all components model-checked; every safety invariant, action property
   and refinement of a passing run proved, but for the codec's three.
2. *Open*: a grammar inside Http1Codec that builds a message's text from what it
   means, so that its three invariants can be stated for all messages; the
   divergences above, once the code changes.
