------------------------------- MODULE Engine -------------------------------
(***************************************************************************)
(* SeerLib's inference engine: submit() enqueues work under mutex_ and     *)
(* starts the worker thread on demand, workerLoop() takes items under      *)
(* mutex_ (waiting on cv_) and classifies them outside it, shutdown()      *)
(* clears running_, wakes the worker and joins it, and the destructor      *)
(* calls shutdown().                                                       *)
(*                                                                         *)
(* A critical section is one step, except submit() while it replaces       *)
(* worker_: the move assignment of the std::jthread joins the old thread   *)
(* with mutex_ held.  Workers are numbered by the order of their creation. *)
(***************************************************************************)
EXTENDS Naturals, Sequences

CONSTANTS
    Clients,         \* threads that use the engine
    MaxSubmits,      \* bound: calls of submit() per client
    MaxWorkers,      \* bound: worker threads ever started
    Exclusive        \* TRUE: the clients never run shutdown() concurrently with another call

ASSUME EngineAssumption ==
    /\ MaxSubmits \in Nat /\ MaxWorkers \in Nat
    /\ Exclusive \in BOOLEAN
    /\ "free" \notin Clients

VARIABLES
    mutex,       \* the client that keeps mutex_ across steps, or "free"
    queue,       \* queue_
    running,     \* running_
    worker,      \* the thread worker_ refers to, 0 when it is not joinable
    gen,         \* worker threads started so far
    wpc,         \* where each worker is in workerLoop()
    item,        \* the item each worker has taken
    cpc,         \* where each client is in submit() or shutdown()
    target,      \* the thread a client is joining in shutdown()
    owed,        \* items submitted before a client's shutdown() took mutex_
    alive,       \* FALSE once the derived part of the object is destroyed
    submits,     \* calls of submit() per client
    submitted,   \* history: items in the order of push_back
    delivered    \* history: items in the order their results were delivered

vars == <<mutex, queue, running, worker, gen, wpc, item, cpc, target, owed,
          alive, submits, submitted, delivered>>

Items == Clients \X (Nat \ {0})
Workers == 1..MaxWorkers

Init ==
    /\ mutex = "free" /\ queue = <<>> /\ running = FALSE
    /\ worker = 0 /\ gen = 0
    /\ wpc = [w \in Workers |-> "none"]
    /\ item = [w \in Workers |-> <<>>]
    /\ cpc = [c \in Clients |-> "idle"]
    /\ target = [c \in Clients |-> 0]
    /\ owed = [c \in Clients |-> 0]
    /\ alive = TRUE
    /\ submits = [c \in Clients |-> 0]
    /\ submitted = <<>> /\ delivered = <<>>

InSubmit(c) == cpc[c] \in {"submit", "assign", "notify"}
InShutdown(c) == cpc[c] \in {"shutdown", "notifyAll", "join", "joining", "return"}

Goto(c, l) == cpc' = [cpc EXCEPT ![c] = l]
WorkerGoto(w, l) == wpc' = [wpc EXCEPT ![w] = l]

-----------------------------------------------------------------------------
(* submit() *)

SubmitCall(c) ==
    /\ cpc[c] = "idle" /\ alive
    /\ submits[c] < MaxSubmits
    /\ Exclusive => \A d \in Clients : ~InShutdown(d)
    /\ submits' = [submits EXCEPT ![c] = @ + 1]
    /\ Goto(c, "submit")
    /\ UNCHANGED <<mutex, queue, running, worker, gen, wpc, item, target, owed,
                   alive, submitted, delivered>>

(* Mutant of Enqueue: push_front. *)
EnqueueFront(c) ==
    LET i == <<c, submits[c]>>
    IN  queue' = <<i>> \o queue /\ submitted' = Append(submitted, i)

(* queue_.push_back *)
Enqueue(c) ==
    LET i == <<c, submits[c]>>
    IN  queue' = Append(queue, i) /\ submitted' = Append(submitted, i)

(* ensureWorker() finds the worker running. *)
SubmitPush(c) ==
    /\ cpc[c] = "submit" /\ mutex = "free" /\ running
    /\ Enqueue(c)
    /\ Goto(c, "notify")
    /\ UNCHANGED <<mutex, running, worker, gen, wpc, item, target, owed, alive,
                   submits, delivered>>

(* startWorker(): the new thread exists before worker_ is assigned. *)
SubmitStart(c) ==
    /\ cpc[c] = "submit" /\ mutex = "free" /\ ~running
    /\ gen < MaxWorkers
    /\ running' = TRUE
    /\ gen' = gen + 1
    /\ WorkerGoto(gen + 1, "lock")
    /\ mutex' = c
    /\ Goto(c, "assign")
    /\ UNCHANGED <<queue, worker, item, target, owed, alive, submits, submitted,
                   delivered>>

(* The move assignment joins the thread worker_ refers to, if any; then the  *)
(* item is pushed and mutex_ released.                                       *)
SubmitAssign(c) ==
    /\ cpc[c] = "assign"
    /\ worker # 0 => wpc[worker] = "done"
    /\ worker' = gen
    /\ Enqueue(c)
    /\ mutex' = "free"
    /\ Goto(c, "notify")
    /\ UNCHANGED <<running, gen, wpc, item, target, owed, alive, submits, delivered>>

(* Mutant of NotifyOne: the notification is forgotten. *)
NotifyNobody(c) ==
    /\ cpc[c] = "notify"
    /\ Goto(c, "idle")
    /\ UNCHANGED <<mutex, queue, running, worker, gen, wpc, item, target, owed, alive,
                   submits, submitted, delivered>>

(* cv_.notify_one() wakes one waiting worker, if there is one. *)
NotifyOne(c) ==
    /\ cpc[c] = "notify"
    /\ \/ \E w \in Workers : wpc[w] = "waiting" /\ WorkerGoto(w, "lock")
       \/ (\A w \in Workers : wpc[w] # "waiting") /\ UNCHANGED wpc
    /\ Goto(c, "idle")
    /\ UNCHANGED <<mutex, queue, running, worker, gen, item, target, owed, alive,
                   submits, submitted, delivered>>

-----------------------------------------------------------------------------
(* shutdown() and ~Engine() *)

ShutdownCall(c) ==
    /\ cpc[c] = "idle" /\ alive
    /\ Exclusive => \A d \in Clients : cpc[d] = "idle"
    /\ Goto(c, "shutdown")
    /\ UNCHANGED <<mutex, queue, running, worker, gen, wpc, item, target, owed,
                   alive, submits, submitted, delivered>>

(* Destruction: the derived part (its vtable and its model) goes first, then *)
(* ~Engine() calls shutdown().  Nobody else is using the object; whether the *)
(* owner has called shutdown() before is its choice (main() never does).     *)
Destroy(c) ==
    /\ alive
    /\ \A d \in Clients : cpc[d] = "idle"
    /\ alive' = FALSE
    /\ Goto(c, "shutdown")
    /\ UNCHANGED <<mutex, queue, running, worker, gen, wpc, item, target, owed,
                   submits, submitted, delivered>>

ShutdownLock(c) ==
    /\ cpc[c] = "shutdown" /\ mutex = "free"
    /\ owed' = [owed EXCEPT ![c] = Len(submitted)]
    /\ running' = FALSE
    /\ Goto(c, IF running THEN "notifyAll" ELSE "return")
    /\ UNCHANGED <<mutex, queue, worker, gen, wpc, item, target, alive, submits,
                   submitted, delivered>>

NotifyAll(c) ==
    /\ cpc[c] = "notifyAll"
    /\ wpc' = [w \in Workers |-> IF wpc[w] = "waiting" THEN "lock" ELSE wpc[w]]
    /\ Goto(c, "join")
    /\ UNCHANGED <<mutex, queue, running, worker, gen, item, target, owed, alive,
                   submits, submitted, delivered>>

(* worker_.joinable(), read without mutex_. *)
ShutdownJoin(c) ==
    /\ cpc[c] = "join"
    /\ target' = [target EXCEPT ![c] = worker]
    /\ Goto(c, IF worker = 0 THEN "return" ELSE "joining")
    /\ UNCHANGED <<mutex, queue, running, worker, gen, wpc, item, owed, alive,
                   submits, submitted, delivered>>

(* Mutant of ShutdownJoined: detach() instead of join(). *)
ShutdownDetached(c) ==
    /\ cpc[c] = "joining"
    /\ worker' = 0
    /\ Goto(c, "return")
    /\ UNCHANGED <<mutex, queue, running, gen, wpc, item, target, owed, alive,
                   submits, submitted, delivered>>

(* worker_.join() returns, and worker_ refers to no thread. *)
ShutdownJoined(c) ==
    /\ cpc[c] = "joining" /\ wpc[target[c]] = "done"
    /\ worker' = 0
    /\ Goto(c, "return")
    /\ UNCHANGED <<mutex, queue, running, gen, wpc, item, target, owed, alive,
                   submits, submitted, delivered>>

ShutdownReturn(c) ==
    /\ cpc[c] = "return"
    /\ Goto(c, "idle")
    /\ UNCHANGED <<mutex, queue, running, worker, gen, wpc, item, target, owed,
                   alive, submits, submitted, delivered>>

-----------------------------------------------------------------------------
(* workerLoop() of worker w *)

WorkerTake(w) ==
    /\ wpc[w] = "lock" /\ mutex = "free" /\ queue # <<>>
    /\ item' = [item EXCEPT ![w] = Head(queue)]
    /\ queue' = Tail(queue)
    /\ WorkerGoto(w, "classify")
    /\ UNCHANGED <<mutex, running, worker, gen, cpc, target, owed, alive, submits,
                   submitted, delivered>>

(* Mutant of WorkerExit: the loop ends on !running_ alone. *)
WorkerExitEarly(w) ==
    /\ wpc[w] = "lock" /\ mutex = "free" /\ ~running
    /\ WorkerGoto(w, "done")
    /\ UNCHANGED <<mutex, queue, running, worker, gen, item, cpc, target, owed,
                   alive, submits, submitted, delivered>>

WorkerExit(w) ==
    /\ wpc[w] = "lock" /\ mutex = "free" /\ queue = <<>> /\ ~running
    /\ WorkerGoto(w, "done")
    /\ UNCHANGED <<mutex, queue, running, worker, gen, item, cpc, target, owed,
                   alive, submits, submitted, delivered>>

(* Mutant of WorkerWait: the predicate ignores running_. *)
WorkerWaitAlways(w) ==
    /\ wpc[w] = "lock" /\ mutex = "free" /\ queue = <<>>
    /\ WorkerGoto(w, "waiting")
    /\ UNCHANGED <<mutex, queue, running, worker, gen, item, cpc, target, owed,
                   alive, submits, submitted, delivered>>

(* The predicate of cv_.wait() is false: sleep, releasing mutex_. *)
WorkerWait(w) ==
    /\ wpc[w] = "lock" /\ mutex = "free" /\ queue = <<>> /\ running
    /\ WorkerGoto(w, "waiting")
    /\ UNCHANGED <<mutex, queue, running, worker, gen, item, cpc, target, owed,
                   alive, submits, submitted, delivered>>

(* A condition variable may wake without a notification. *)
SpuriousWakeup(w) ==
    /\ wpc[w] = "waiting"
    /\ WorkerGoto(w, "lock")
    /\ UNCHANGED <<mutex, queue, running, worker, gen, item, cpc, target, owed,
                   alive, submits, submitted, delivered>>

(* classify() and onResult, without mutex_. *)
Deliver(w) ==
    /\ wpc[w] = "classify" /\ alive
    /\ delivered' = Append(delivered, item[w])
    /\ WorkerGoto(w, "lock")
    /\ UNCHANGED <<mutex, queue, running, worker, gen, item, cpc, target, owed,
                   alive, submits, submitted>>

(* The same call while or after the derived part is destroyed, which is      *)
(* undefined: the process ends in the pure virtual function (the worker      *)
(* never comes back), or a result made of freed weights reaches onResult.    *)
ClassifyDestroyed(w) ==
    /\ wpc[w] = "classify" /\ ~alive
    /\ \/ WorkerGoto(w, "aborted") /\ UNCHANGED delivered
       \/ WorkerGoto(w, "lock") /\ delivered' = Append(delivered, item[w])
    /\ UNCHANGED <<mutex, queue, running, worker, gen, item, cpc, target, owed,
                   alive, submits, submitted>>

-----------------------------------------------------------------------------
Submit(c) == SubmitPush(c) \/ SubmitStart(c) \/ SubmitAssign(c) \/ NotifyOne(c)

Shutdown(c) == \/ ShutdownLock(c) \/ NotifyAll(c) \/ ShutdownJoin(c)
               \/ ShutdownJoined(c) \/ ShutdownReturn(c)

WorkerLoop(w) == \/ WorkerTake(w) \/ WorkerExit(w) \/ WorkerWait(w)
                 \/ Deliver(w) \/ ClassifyDestroyed(w)

Next ==
    \/ \E c \in Clients :
          SubmitCall(c) \/ Submit(c) \/ ShutdownCall(c) \/ Destroy(c) \/ Shutdown(c)
    \/ \E w \in Workers : WorkerLoop(w) \/ SpuriousWakeup(w)

Spec == Init /\ [][Next]_vars

(* Every thread inside the engine keeps running when it is not blocked, and  *)
(* classify() terminates; no client is obliged to call anything.             *)
FairSpec ==
    /\ Spec
    /\ \A c \in Clients : WF_vars(Submit(c)) /\ WF_vars(Shutdown(c))
    /\ \A w \in Workers : WF_vars(WorkerLoop(w))

-----------------------------------------------------------------------------
(* Domains of the variables; mutex_ is kept across steps only by the client  *)
(* that is replacing worker_.                                                *)
TypeOK ==
    /\ mutex \in Clients \union {"free"}
    /\ \A c \in Clients : cpc[c] = "assign" <=> mutex = c
    /\ queue \in Seq(Items) /\ submitted \in Seq(Items) /\ delivered \in Seq(Items)
    /\ running \in BOOLEAN /\ alive \in BOOLEAN
    /\ gen \in 0..MaxWorkers /\ worker \in 0..gen
    /\ wpc \in [Workers -> {"none", "lock", "waiting", "classify", "aborted", "done"}]
    /\ item \in [Workers -> Items \union {<<>>}]
    /\ \A w \in Workers : wpc[w] \in {"classify", "aborted"} => item[w] \in Items
    /\ cpc \in [Clients -> {"idle", "submit", "assign", "notify", "shutdown",
                            "notifyAll", "join", "joining", "return"}]
    /\ target \in [Clients -> 0..gen]
    /\ \A c \in Clients : cpc[c] = "joining" => target[c] # 0
    /\ owed \in [Clients -> Nat]
    /\ submits \in [Clients -> Nat]
    /\ \A c \in Clients : cpc[c] \in {"submit", "assign"} => submits[c] > 0

(* The item in the worker's hands. *)
Hand == IF gen > 0 /\ wpc[gen] \in {"classify", "aborted"} THEN <<item[gen]>> ELSE <<>>

(* The steps of shutdown() that wake and join the worker. *)
Joins(c) == cpc[c] \in {"notifyAll", "join", "joining"}

(* While a client is in shutdown() no other is in the engine, and when it    *)
(* is about to return no worker is running.                                  *)
ShutdownAlone ==
    /\ \A c, d \in Clients : InShutdown(c) /\ d # c => cpc[d] = "idle"
    /\ \A c \in Clients : cpc[c] = "return" => ~running

(* worker_ is never replaced before it was joined: the jthread assignment    *)
(* finds it empty, and the new thread has not started to work.               *)
ReplacesJoined ==
    \A c \in Clients : cpc[c] = "assign" =>
        running /\ worker = 0 /\ gen > 0 /\ wpc[gen] = "lock" /\ queue = <<>>

(* worker_ refers to the newest thread exactly while that may still be       *)
(* alive.                                                                    *)
RefersToNewest ==
    /\ mutex = "free" /\ running => gen > 0 /\ worker = gen
    /\ \A c \in Clients : Joins(c) => ~running /\ gen > 0 /\ worker = gen
    /\ \A c \in Clients : cpc[c] = "joining" => target[c] = gen
    /\ ~running /\ (\A c \in Clients : ~Joins(c)) =>
          worker = 0 /\ (gen > 0 => wpc[gen] = "done")

(* A worker that has exited leaves no work behind. *)
ExitsDrained ==
    /\ gen = 0 => queue = <<>>
    /\ gen > 0 => /\ wpc[gen] # "none"
                  /\ wpc[gen] = "done" => ~running /\ queue = <<>>

(* The life cycle of the worker thread when shutdown() runs alone. *)
Lifecycle ==
    /\ ShutdownAlone
    /\ ReplacesJoined
    /\ RefersToNewest
    /\ ExitsDrained
    /\ \A c \in Clients : owed[c] <= Len(submitted)

(* Every submitted payload is classified once, in the order of submission:   *)
(* delivered, in hand and queued are together, in order, what was submitted, *)
(* across any number of shutdowns and restarts.                              *)
QueueOrder == delivered \o Hand \o queue = submitted

(* Only the newest worker thread is alive: shutdown() and the jthread        *)
(* assignment leave no older one behind to race it for the queue.            *)
OneWorker ==
    \A w \in Workers : /\ w < gen => wpc[w] = "done"
                       /\ w > gen => wpc[w] = "none"

(* No lost notification: a worker asleep on cv_ while there is work, or      *)
(* after running_ was cleared, has a notification on its way.                *)
NoLostNotify ==
    \A w \in Workers : wpc[w] = "waiting" =>
        /\ queue # <<>> => \E c \in Clients : cpc[c] \in {"notify", "notifyAll"}
        /\ ~running => \E c \in Clients : cpc[c] = "notifyAll"

(* Engine.hpp, shutdown(): "Blocks until pending work drains."  When it      *)
(* returns, every item submitted before it is delivered.                     *)
ShutdownDrains ==
    \A c \in Clients : cpc[c] = "return" => Len(delivered) >= owed[c]

(* classify() only runs while the object that implements it exists (the      *)
(* base class owns the thread's life cycle, SeerLib/README.md).              *)
ClassifyAlive == \A w \in Workers : wpc[w] = "classify" => alive

(* Every submitted payload is eventually classified and its result given to  *)
(* the callback, unless the owner destroys the engine first: nothing but the *)
(* destructor can leave a payload behind.  (main() destroys its engine with  *)
(* whatever is still queued; ClassifyAlive is about those payloads.)         *)
EverySubmitServed ==
    \A c \in Clients : \A n \in 1..MaxSubmits :
        (\E i \in DOMAIN submitted : submitted[i] = <<c, n>>)
            ~> \/ \E i \in DOMAIN delivered : delivered[i] = <<c, n>>
               \/ ~alive

(* Engine.hpp, submit(): "Safe to call from any thread. Does not block."     *)
(* Every call returns.                                                       *)
SubmitReturns == \A c \in Clients : InSubmit(c) ~> cpc[c] = "idle"

(* Nobody waits for ever: every submit() returns, and every shutdown() and   *)
(* destructor does, since the worker is woken, drains and exits; only a      *)
(* destructor whose worker called into the destroyed object may not.         *)
CallsReturn ==
    /\ SubmitReturns
    /\ \A c \in Clients : InShutdown(c) ~>
          cpc[c] = "idle" \/ (~alive /\ \E w \in Workers : wpc[w] = "aborted")
=============================================================================
