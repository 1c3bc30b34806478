----------------------------- MODULE KqueuePost -----------------------------
(***************************************************************************)
(* The cross-thread face of DeepSeer's event loop (KqueueLoop): post(),    *)
(* stop() and wake() called from any thread, against the loop thread that  *)
(* runs run() and processPosted().                                         *)
(*                                                                         *)
(* The steps are the code's atomic sections: the push and the swap under   *)
(* postMu_, the loads and stores of the atomic running_, the system calls  *)
(* on the non-blocking wake pipe.  A harvested batch of kevents is a       *)
(* sequence of "wake" (the wake pipe) and "io" (any other event).          *)
(***************************************************************************)
EXTENDS Naturals, Sequences

CONSTANTS
    Threads,      \* the threads that call post() and stop(), signal handler included
    LoopThread,   \* the one of them that calls run()
    PipeCap,      \* capacity of the wake pipe in bytes
    MaxPosts,     \* bound: calls of post() per thread
    MaxStops,     \* bound: calls of stop()
    MaxRuns,      \* bound: calls of run()
    MaxIo         \* bound: other events harvested by one kevent()

ASSUME PostAssumption ==
    /\ LoopThread \in Threads
    /\ PipeCap \in Nat \ {0}
    /\ MaxPosts \in Nat /\ MaxStops \in Nat /\ MaxRuns \in Nat /\ MaxIo \in Nat

VARIABLES
    running,      \* running_
    pipe,         \* bytes in the wake pipe
    posted,       \* postedCallbacks_
    cbs,          \* the local vector of processPosted()
    batch,        \* the events of the last kevent() still to dispatch
    pc,           \* where the loop thread is in run(); "idle" outside it
    waking,       \* the threads between the first half of post()/stop() and its wake()
    posts, stops, runs,   \* calls so far
    pushed,       \* history: callbacks in the order postMu_ admitted them
    executed      \* history: callbacks in the order they were run

vars == <<running, pipe, posted, cbs, batch, pc, waking, posts, stops, runs,
          pushed, executed>>

calls == <<posts, stops, runs>>

Callbacks == Threads \X (Nat \ {0})   \* <<th, n>>: the n-th callback th posts

Kevents == {"wake", "io"}

Pcs == {"idle", "check", "kevent", "dispatch", "ioCallback", "swap",
        "processPosted", "postedCallback"}

Init ==
    /\ running = FALSE
    /\ pipe = 0
    /\ posted = <<>> /\ cbs = <<>> /\ batch = <<>>
    /\ pc = "idle"
    /\ waking = {}
    /\ posts = [th \in Threads |-> 0] /\ stops = 0 /\ runs = 0
    /\ pushed = <<>> /\ executed = <<>>

-----------------------------------------------------------------------------
(* A thread can start a call when it is not inside one; the loop thread only *)
(* from a callback, or outside run().                                        *)
MayCall(th) ==
    /\ th \notin waking
    /\ th = LoopThread => pc \in {"idle", "ioCallback", "postedCallback"}

LoopMoves == LoopThread \notin waking

(* Mutant of Post: the wake() is forgotten. *)
PostWithoutWake(th) ==
    /\ MayCall(th)
    /\ posts[th] < MaxPosts
    /\ posts' = [posts EXCEPT ![th] = @ + 1]
    /\ LET cb == <<th, posts[th] + 1>>
       IN  posted' = Append(posted, cb) /\ pushed' = Append(pushed, cb)
    /\ UNCHANGED <<running, pipe, cbs, batch, pc, waking, stops, runs, executed>>

(* post(): the push under postMu_; wake() follows. *)
Post(th) ==
    /\ MayCall(th)
    /\ posts[th] < MaxPosts
    /\ posts' = [posts EXCEPT ![th] = @ + 1]
    /\ LET cb == <<th, posts[th] + 1>>
       IN  posted' = Append(posted, cb) /\ pushed' = Append(pushed, cb)
    /\ waking' = waking \union {th}
    /\ UNCHANGED <<running, pipe, cbs, batch, pc, stops, runs, executed>>

(* Mutant of Stop: the wake() is forgotten. *)
StopWithoutWake(th) ==
    /\ MayCall(th)
    /\ stops < MaxStops
    /\ stops' = stops + 1
    /\ running' = FALSE
    /\ UNCHANGED <<pipe, posted, cbs, batch, pc, waking, posts, runs, pushed, executed>>

(* stop(): running_.store(false); wake() follows. *)
Stop(th) ==
    /\ MayCall(th)
    /\ stops < MaxStops
    /\ stops' = stops + 1
    /\ running' = FALSE
    /\ waking' = waking \union {th}
    /\ UNCHANGED <<pipe, posted, cbs, batch, pc, posts, runs, pushed, executed>>

(* wake(): one byte into the pipe; a full pipe makes the write fail with     *)
(* EAGAIN, which is ignored.                                                 *)
Wake(th) ==
    /\ th \in waking
    /\ waking' = waking \ {th}
    /\ pipe' = IF pipe < PipeCap THEN pipe + 1 ELSE pipe
    /\ UNCHANGED <<running, posted, cbs, batch, pc, calls, pushed, executed>>

-----------------------------------------------------------------------------
(* run() is called. *)
Run ==
    /\ pc = "idle" /\ LoopMoves
    /\ runs < MaxRuns
    /\ runs' = runs + 1
    /\ running' = TRUE
    /\ pc' = "check"
    /\ UNCHANGED <<pipe, posted, cbs, batch, waking, posts, stops, pushed, executed>>

(* The while condition; run() returns when running_ is false. *)
Check ==
    /\ pc = "check"
    /\ pc' = IF running THEN "kevent" ELSE "idle"
    /\ UNCHANGED <<running, pipe, posted, cbs, batch, waking, calls, pushed, executed>>

(* kevent() returns a batch.  The wake pipe is level-triggered: its event is *)
(* among them, at any place, exactly when the pipe holds a byte.             *)
Harvest(b) ==
    /\ pc = "kevent"
    /\ batch' = b
    /\ pc' = "dispatch"
    /\ UNCHANGED <<running, pipe, posted, cbs, waking, calls, pushed, executed>>

IoEvents(n) == [i \in 1..n |-> "io"]

KeventWake ==
    /\ pipe > 0
    /\ \E before, after \in 0..MaxIo :
          /\ before + after <= MaxIo
          /\ Harvest(IoEvents(before) \o <<"wake">> \o IoEvents(after))

KeventIo == pipe = 0 /\ \E n \in 1..MaxIo : Harvest(IoEvents(n))

(* kevent() sleeping with nothing ready is interrupted: EINTR, continue. *)
KeventInterrupted ==
    /\ pc = "kevent" /\ pipe = 0
    /\ pc' = "check"
    /\ UNCHANGED <<running, pipe, posted, cbs, batch, waking, calls, pushed, executed>>

(* Any other failure of kevent() breaks out of the loop. *)
KeventFailed ==
    /\ pc = "kevent"
    /\ pc' = "idle"
    /\ UNCHANGED <<running, pipe, posted, cbs, batch, waking, calls, pushed, executed>>

(* The wake event: the pipe is read until empty, before processPosted(). *)
DispatchWake ==
    /\ pc = "dispatch" /\ batch # <<>> /\ Head(batch) = "wake"
    /\ batch' = Tail(batch)
    /\ pipe' = 0
    /\ pc' = "swap"
    /\ UNCHANGED <<running, posted, cbs, waking, calls, pushed, executed>>

(* Any other event: its callback runs, and may post() and stop(). *)
DispatchIo ==
    /\ pc = "dispatch" /\ batch # <<>> /\ Head(batch) = "io"
    /\ batch' = Tail(batch)
    /\ pc' = "ioCallback"
    /\ UNCHANGED <<running, pipe, posted, cbs, waking, calls, pushed, executed>>

(* Mutant of Swap: one callback per wakeup. *)
SwapOne ==
    /\ pc = "swap"
    /\ cbs' = IF posted = <<>> THEN <<>> ELSE <<Head(posted)>>
    /\ posted' = IF posted = <<>> THEN <<>> ELSE Tail(posted)
    /\ pc' = "processPosted"
    /\ UNCHANGED <<running, pipe, batch, waking, calls, pushed, executed>>

(* Mutant of Swap: the queue is copied, not swapped out. *)
SwapCopy ==
    /\ pc = "swap"
    /\ cbs' = posted
    /\ pc' = "processPosted"
    /\ UNCHANGED <<running, pipe, posted, batch, waking, calls, pushed, executed>>

(* processPosted(): the swap under postMu_ ... *)
Swap ==
    /\ pc = "swap"
    /\ cbs' = posted
    /\ posted' = <<>>
    /\ pc' = "processPosted"
    /\ UNCHANGED <<running, pipe, batch, waking, calls, pushed, executed>>

(* ... and the calls, outside the lock. *)
CallPosted ==
    /\ pc = "processPosted" /\ cbs # <<>>
    /\ cbs' = Tail(cbs)
    /\ executed' = Append(executed, Head(cbs))
    /\ pc' = "postedCallback"
    /\ UNCHANGED <<running, pipe, posted, batch, waking, calls, pushed>>

(* A callback returns, processPosted() returns, or the batch is finished. *)
Return ==
    /\ LoopMoves
    /\ \/ pc = "postedCallback" /\ pc' = "processPosted"
       \/ pc = "ioCallback" /\ pc' = "dispatch"
       \/ pc = "processPosted" /\ cbs = <<>> /\ pc' = "dispatch"
       \/ pc = "dispatch" /\ batch = <<>> /\ pc' = "check"
    /\ UNCHANGED <<running, pipe, posted, cbs, batch, waking, calls, pushed, executed>>

-----------------------------------------------------------------------------
Next ==
    \/ \E th \in Threads : Post(th) \/ Stop(th) \/ Wake(th)
    \/ Run \/ Check
    \/ KeventWake \/ KeventIo \/ KeventInterrupted \/ KeventFailed
    \/ DispatchWake \/ DispatchIo \/ Swap \/ CallPosted \/ Return

Spec == Init /\ [][Next]_vars

(* A thread inside post() or stop() finishes it, and the loop thread runs    *)
(* whenever it is not blocked in kevent() with nothing ready.  Nothing       *)
(* obliges other events to arrive, run() to be called, or kevent() to fail.  *)
LoopFairness ==
    /\ \A th \in Threads : WF_vars(Wake(th))
    /\ WF_vars(Check \/ KeventWake \/ DispatchWake \/ DispatchIo \/ Swap
               \/ CallPosted \/ Return)

FairSpec == Spec /\ LoopFairness

-----------------------------------------------------------------------------
(* Every variable of the loop stays in its domain; the pipe never holds more *)
(* than its capacity.                                                        *)
TypeOK ==
    /\ running \in BOOLEAN
    /\ pipe \in 0..PipeCap
    /\ posted \in Seq(Callbacks) /\ cbs \in Seq(Callbacks)
    /\ batch \in Seq(Kevents)
    /\ pc \in Pcs
    /\ waking \in SUBSET Threads
    /\ posts \in [Threads -> Nat] /\ stops \in Nat /\ runs \in Nat
    /\ pushed \in Seq(Callbacks) /\ executed \in Seq(Callbacks)

(* No lost wakeup: while a callback waits in postedCallbacks_, the pipe      *)
(* holds a byte, or a poster is about to write one, or the loop has drained  *)
(* the pipe and not yet swapped the queue.  This is what makes the order     *)
(* "drain, then swap" of run() correct, and a dropped byte harmless.  And a  *)
(* loop blocked in kevent() after stop() has cleared running_ is about to be *)
(* woken: stop() between the while test and kevent() is not missed.          *)
NoLostWakeup ==
    /\ posted # <<>> => pipe > 0 \/ waking # {} \/ pc = "swap"
    /\ pc = "kevent" /\ ~running => pipe > 0 \/ waking # {}

(* Only processPosted() holds swapped-out callbacks: none is left behind in  *)
(* its local vector when it returns.                                         *)
LocalCbs == pc \notin {"processPosted", "postedCallback"} => cbs = <<>>

(* Every posted callback is run at most once, none is dropped, and they run  *)
(* in the order in which postMu_ admitted them, over every interleaving of   *)
(* posters, nested posts and loop restarts.                                  *)
PostOrder == executed \o cbs \o posted = pushed

(* A posted callback is eventually run, unless run() is left (or was never   *)
(* entered).                                                                 *)
PostedIsRun ==
    \A th \in Threads : \A n \in 1..MaxPosts :
        (posts[th] >= n) ~> (pc = "idle" \/ \E i \in DOMAIN executed : executed[i] = <<th, n>>)

(* Once running_ is false inside run(), run() returns. *)
StopEndsRun == (pc # "idle" /\ ~running) ~> pc = "idle"

(* EventLoop.hpp: run() "Blocks the calling thread until stop() is called."  *)
(* Once stop() has been called, a run() in progress does not go on for ever. *)
RunEndsAfterStop == (stops > 0) ~> pc = "idle"
=============================================================================
