---------------------------- MODULE EngineProofs ----------------------------
(***************************************************************************)
(* Proofs about the inference engine, for any number of clients, items and *)
(* restarts.  The type invariant needs no assumption about the clients;    *)
(* the others are about clients that do not run shutdown() concurrently    *)
(* with other calls (Exclusive), as main() does.                           *)
(***************************************************************************)
EXTENDS Engine, SequenceTheorems, TLAPS

(* Every variable of the engine stays in its domain, and mutex_ is held      *)
(* across steps by exactly the client that is replacing worker_.             *)
THEOREM TypeCorrect == Spec => []TypeOK
<1> USE EngineAssumption
<1>1. Init => TypeOK
  <2> SUFFICES ASSUME Init PROVE TypeOK
    OBVIOUS
  <2>1. running \in BOOLEAN /\ alive \in BOOLEAN
    BY Zenon DEF Init
  <2>2. \A c \in Clients : cpc[c] = "idle" /\ mutex # c
    BY DEF Init
  <2> QED
    BY <2>1, <2>2 DEF Init, TypeOK, Workers
<1>2. TypeOK /\ [Next]_vars => TypeOK'
  <2> SUFFICES ASSUME TypeOK, [Next]_vars PROVE TypeOK'
    OBVIOUS
  <2> USE DEF TypeOK, Goto, WorkerGoto
  <2>1. ASSUME NEW c \in Clients, SubmitCall(c) PROVE TypeOK'
    <3>1. \A d \in Clients : cpc'[d] = "assign" <=> mutex' = d
      BY <2>1 DEF SubmitCall
    <3>2. \A d \in Clients : cpc'[d] \in {"submit", "assign"} => submits'[d] > 0
      BY <2>1 DEF SubmitCall
    <3>3. submits' \in [Clients -> Nat]
      BY <2>1 DEF SubmitCall
    <3>4. cpc' = [cpc EXCEPT ![c] = "submit"]
          /\ UNCHANGED <<mutex, queue, running, worker, gen, wpc, item, target, owed,
                         alive, submitted, delivered>>
      BY <2>1 DEF SubmitCall
    <3> QED
      BY <3>1, <3>2, <3>3, <3>4
  <2>2. ASSUME NEW c \in Clients, SubmitPush(c) PROVE TypeOK'
    <3>1. submits[c] \in Nat \ {0}
      BY <2>2 DEF SubmitPush
    <3>2. <<c, submits[c]>> \in Items
      BY <3>1 DEF Items
    <3> QED
      BY <2>2, <3>2, AppendProperties DEF SubmitPush, Enqueue
  <2>3. ASSUME NEW c \in Clients, SubmitStart(c) PROVE TypeOK'
    <3>1. running' \in BOOLEAN
      BY <2>3, Zenon DEF SubmitStart
    <3>2. gen + 1 \in Workers
      BY <2>3 DEF SubmitStart, Workers
    <3>3. \A d \in Clients : cpc'[d] = "assign" <=> mutex' = d
      BY <2>3 DEF SubmitStart
    <3>4. gen' \in 0..MaxWorkers /\ worker' \in 0..gen' /\ target' \in [Clients -> 0..gen']
      BY <2>3 DEF SubmitStart
    <3>5. wpc' = [wpc EXCEPT ![gen + 1] = "lock"] /\ UNCHANGED item
      BY <2>3 DEF SubmitStart
    <3>6. \A w \in Workers : wpc'[w] \in {"classify", "aborted"} => item'[w] \in Items
      BY <3>2, <3>5
    <3> QED
      BY <2>3, <3>1, <3>2, <3>3, <3>4, <3>5, <3>6 DEF SubmitStart
  <2>4. ASSUME NEW c \in Clients, SubmitAssign(c) PROVE TypeOK'
    <3>1. <<c, submits[c]>> \in Items
      BY <2>4 DEF SubmitAssign, Items
    <3>2. queue' \in Seq(Items) /\ submitted' \in Seq(Items)
      BY <2>4, <3>1, AppendProperties DEF SubmitAssign, Enqueue
    <3>3. \A d \in Clients : cpc'[d] = "assign" <=> mutex' = d
      BY <2>4 DEF SubmitAssign
    <3> QED
      BY <2>4, <3>2, <3>3 DEF SubmitAssign
  <2>5. ASSUME NEW c \in Clients, NotifyOne(c) PROVE TypeOK'
    BY <2>5 DEF NotifyOne
  <2>6. ASSUME NEW c \in Clients, ShutdownCall(c) PROVE TypeOK'
    BY <2>6 DEF ShutdownCall
  <2>7. ASSUME NEW c \in Clients, Destroy(c) PROVE TypeOK'
    <3>1. alive' \in BOOLEAN
      BY <2>7, Zenon DEF Destroy
    <3> QED
      BY <2>7, <3>1 DEF Destroy
  <2>8. ASSUME NEW c \in Clients, ShutdownLock(c) PROVE TypeOK'
    <3>1. running' \in BOOLEAN
      BY <2>8, Zenon DEF ShutdownLock
    <3>2. Len(submitted) \in Nat
      BY LenProperties
    <3> QED
      BY <2>8, <3>1, <3>2 DEF ShutdownLock
  <2>9. ASSUME NEW c \in Clients, NotifyAll(c) PROVE TypeOK'
    BY <2>9 DEF NotifyAll
  <2>10. ASSUME NEW c \in Clients, ShutdownJoin(c) PROVE TypeOK'
    BY <2>10 DEF ShutdownJoin
  <2>11. ASSUME NEW c \in Clients, ShutdownJoined(c) PROVE TypeOK'
    BY <2>11 DEF ShutdownJoined
  <2>12. ASSUME NEW c \in Clients, ShutdownReturn(c) PROVE TypeOK'
    BY <2>12 DEF ShutdownReturn
  <2>13. ASSUME NEW w \in Workers, WorkerTake(w) PROVE TypeOK'
    <3>1. Head(queue) \in Items /\ Tail(queue) \in Seq(Items)
      BY <2>13, HeadTailProperties DEF WorkerTake
    <3> QED
      BY <2>13, <3>1 DEF WorkerTake
  <2>14. ASSUME NEW w \in Workers, WorkerExit(w) \/ WorkerWait(w) \/ SpuriousWakeup(w)
         PROVE  TypeOK'
    BY <2>14 DEF WorkerExit, WorkerWait, SpuriousWakeup
  <2>15. ASSUME NEW w \in Workers, Deliver(w) PROVE TypeOK'
    BY <2>15, AppendProperties DEF Deliver
  <2>17. ASSUME NEW w \in Workers, ClassifyDestroyed(w) PROVE TypeOK'
    <3>1. item[w] \in Items
      BY <2>17 DEF ClassifyDestroyed
    <3>3. delivered' = delivered \/ delivered' = Append(delivered, item[w])
      BY <2>17 DEF ClassifyDestroyed
    <3>4. Append(delivered, item[w]) \in Seq(Items)
      BY <3>1, AppendProperties
    <3>2. delivered' \in Seq(Items)
      BY <3>3, <3>4
    <3> QED
      BY <2>17, <3>2 DEF ClassifyDestroyed
  <2>16. CASE UNCHANGED vars
    BY <2>16 DEF vars
  <2> QED
    BY <2>1, <2>2, <2>3, <2>4, <2>5, <2>6, <2>7, <2>8, <2>9, <2>10, <2>11, <2>12,
       <2>13, <2>14, <2>15, <2>16, <2>17
    DEF Next, Submit, Shutdown, WorkerLoop
<1> QED
  BY <1>1, <1>2, PTL DEF Spec

(* At most one worker thread is alive, worker_ refers to it until it is      *)
(* joined, and it exits only with an empty queue: the inductive invariant.   *)
THEOREM LifecycleCorrect ==
    ASSUME Exclusive
    PROVE  Spec => [](OneWorker /\ Lifecycle)
<1> USE EngineAssumption
<1>1. Init => OneWorker /\ Lifecycle
  BY DEF Init, OneWorker, Lifecycle, ShutdownAlone, ReplacesJoined, RefersToNewest, ExitsDrained, InShutdown, Joins, Workers
<1>2. TypeOK /\ OneWorker /\ Lifecycle /\ TypeOK' /\ [Next]_vars
        => OneWorker' /\ Lifecycle'
  <2> SUFFICES ASSUME TypeOK, OneWorker, Lifecycle, TypeOK', [Next]_vars
               PROVE  OneWorker' /\ Lifecycle'
    OBVIOUS
  <2>0. /\ gen \in 0..MaxWorkers /\ worker \in 0..gen /\ mutex \in Clients \union {"free"}
        /\ wpc \in [Workers -> {"none", "lock", "waiting", "classify", "aborted", "done"}]
        /\ cpc \in [Clients -> {"idle", "submit", "assign", "notify", "shutdown",
                                "notifyAll", "join", "joining", "return"}]
        /\ target \in [Clients -> 0..gen] /\ owed \in [Clients -> Nat]
        /\ \A c \in Clients : cpc[c] = "assign" <=> mutex = c
        /\ \A c \in Clients : cpc[c] = "joining" => target[c] # 0
    BY DEF TypeOK
  <2> USE <2>0, Exclusive DEF Lifecycle, InShutdown, Joins, Goto, WorkerGoto, Workers
  <2>1. ASSUME NEW c \in Clients, SubmitCall(c) PROVE OneWorker' /\ Lifecycle'
    <3>1. \A d \in Clients : ~InShutdown(d)
      BY <2>1, Zenon DEF SubmitCall
    <3>2. cpc' = [cpc EXCEPT ![c] = "submit"]
      BY <2>1 DEF SubmitCall
    <3>3. UNCHANGED <<mutex, queue, running, worker, gen, wpc, item, target, owed, submitted>>
      BY <2>1 DEF SubmitCall
    <3>4. \A d \in Clients : ~InShutdown(d)' /\ (cpc'[d] = "assign" => cpc[d] = "assign")
      BY <3>1, <3>2
    <3>5. OneWorker'
      BY <3>3 DEF OneWorker
    <3>6. ShutdownAlone'
      BY <3>4 DEF ShutdownAlone
    <3>7. ReplacesJoined'
      BY <3>3, <3>4 DEF ReplacesJoined
    <3>8. RefersToNewest'
      BY <3>1, <3>3, <3>4 DEF RefersToNewest
    <3>9. ExitsDrained'
      BY <3>3 DEF ExitsDrained
    <3>10. (\A d \in Clients : owed[d] <= Len(submitted))'
      BY <3>3
    <3> QED
      BY <3>5, <3>6, <3>7, <3>8, <3>9, <3>10
  <2>2. ASSUME NEW c \in Clients, SubmitPush(c) PROVE OneWorker' /\ Lifecycle'
    <3>1. OneWorker'
      BY <2>2 DEF SubmitPush, Enqueue, OneWorker
    <3>2. ShutdownAlone'
      BY <2>2 DEF SubmitPush, Enqueue, ShutdownAlone
    <3>3. ReplacesJoined'
      BY <2>2 DEF SubmitPush, Enqueue, ReplacesJoined
    <3>4. RefersToNewest'
      BY <2>2 DEF SubmitPush, Enqueue, RefersToNewest
    <3>5. ExitsDrained'
      BY <2>2 DEF SubmitPush, Enqueue, RefersToNewest, ExitsDrained
    <3>6. (\A d \in Clients : owed[d] <= Len(submitted))'
      BY <2>2 DEF SubmitPush, Enqueue
    <3> QED
      BY <3>1, <3>2, <3>3, <3>4, <3>5, <3>6
  <2>3. ASSUME NEW c \in Clients, SubmitStart(c) PROVE OneWorker' /\ Lifecycle'
    <3>1. \A d \in Clients : ~InShutdown(d)
      BY <2>3 DEF SubmitStart, ShutdownAlone
    <3>2. worker = 0 /\ (gen > 0 => wpc[gen] = "done") /\ queue = <<>>
      BY <2>3, <3>1 DEF SubmitStart, RefersToNewest, ExitsDrained
    <3>3. \A d \in Clients : cpc[d] # "assign"
      BY <2>3 DEF SubmitStart
    <3>4. gen + 1 \in Workers /\ gen' = gen + 1 /\ wpc' = [wpc EXCEPT ![gen + 1] = "lock"]
          /\ cpc' = [cpc EXCEPT ![c] = "assign"]
      BY <2>3 DEF SubmitStart
    <3>5. wpc'[gen + 1] = "lock" /\ \A w \in Workers : w # gen + 1 => wpc'[w] = wpc[w]
      BY <3>4
    <3>6. OneWorker'
      <4>1. gen \in Nat
        OBVIOUS
      <4> QED
        BY <3>2, <3>4, <3>5, <4>1 DEF OneWorker
    <3>7. ShutdownAlone'
      <4>1. \A d \in Clients : ~InShutdown(d)'
        BY <3>1, <3>4
      <4> QED
        BY <4>1 DEF ShutdownAlone
    <3>8. ReplacesJoined'
      BY <2>3, <3>2, <3>3, <3>4, <3>5 DEF SubmitStart, ReplacesJoined
    <3>9. RefersToNewest'
      BY <2>3, <3>1, <3>4 DEF SubmitStart, RefersToNewest
    <3>10. ExitsDrained'
      BY <3>4, <3>5 DEF ExitsDrained
    <3>11. (\A d \in Clients : owed[d] <= Len(submitted))'
      BY <2>3 DEF SubmitStart
    <3> QED
      BY <3>6, <3>7, <3>8, <3>9, <3>10, <3>11
  <2>4. ASSUME NEW c \in Clients, SubmitAssign(c) PROVE OneWorker' /\ Lifecycle'
    <3>1. OneWorker'
      BY <2>4 DEF SubmitAssign, Enqueue, OneWorker
    <3>2. ShutdownAlone'
      BY <2>4 DEF SubmitAssign, Enqueue, ShutdownAlone
    <3>3. ReplacesJoined'
      BY <2>4 DEF SubmitAssign, Enqueue, ReplacesJoined
    <3>4. RefersToNewest'
      BY <2>4 DEF SubmitAssign, Enqueue, RefersToNewest, ShutdownAlone, ReplacesJoined
    <3>5. ExitsDrained'
      BY <2>4 DEF SubmitAssign, Enqueue, ReplacesJoined, ExitsDrained
    <3>6. (\A d \in Clients : owed[d] <= Len(submitted))'
      BY <2>4 DEF SubmitAssign, Enqueue
    <3> QED
      BY <3>1, <3>2, <3>3, <3>4, <3>5, <3>6
  <2>5. ASSUME NEW c \in Clients, NotifyOne(c) PROVE OneWorker' /\ Lifecycle'
    <3>1. OneWorker'
      BY <2>5 DEF NotifyOne, OneWorker
    <3>2. ShutdownAlone'
      BY <2>5 DEF NotifyOne, ShutdownAlone
    <3>3. ReplacesJoined'
      BY <2>5 DEF NotifyOne, ReplacesJoined
    <3>4. RefersToNewest'
      BY <2>5 DEF NotifyOne, RefersToNewest, ShutdownAlone, ReplacesJoined
    <3>5. ExitsDrained'
      BY <2>5 DEF NotifyOne, ExitsDrained
    <3>6. (\A d \in Clients : owed[d] <= Len(submitted))'
      BY <2>5 DEF NotifyOne
    <3> QED
      BY <3>1, <3>2, <3>3, <3>4, <3>5, <3>6
  <2>6. ASSUME NEW c \in Clients, ShutdownCall(c) PROVE OneWorker' /\ Lifecycle'
    <3>1. OneWorker'
      BY <2>6 DEF ShutdownCall, OneWorker
    <3>2. ShutdownAlone'
      BY <2>6 DEF ShutdownCall, ShutdownAlone
    <3>3. ReplacesJoined'
      BY <2>6 DEF ShutdownCall, ReplacesJoined
    <3>4. RefersToNewest'
      BY <2>6 DEF ShutdownCall, RefersToNewest
    <3>5. ExitsDrained'
      BY <2>6 DEF ShutdownCall, ExitsDrained
    <3>6. (\A d \in Clients : owed[d] <= Len(submitted))'
      BY <2>6 DEF ShutdownCall
    <3> QED
      BY <3>1, <3>2, <3>3, <3>4, <3>5, <3>6
  <2>7. ASSUME NEW c \in Clients, Destroy(c) PROVE OneWorker' /\ Lifecycle'
    <3>1. OneWorker'
      BY <2>7 DEF Destroy, OneWorker
    <3>2. ShutdownAlone'
      BY <2>7 DEF Destroy, ShutdownAlone
    <3>3. ReplacesJoined'
      BY <2>7 DEF Destroy, ReplacesJoined
    <3>4. RefersToNewest'
      BY <2>7 DEF Destroy, RefersToNewest
    <3>5. ExitsDrained'
      BY <2>7 DEF Destroy, ExitsDrained
    <3>6. (\A d \in Clients : owed[d] <= Len(submitted))'
      BY <2>7 DEF Destroy
    <3> QED
      BY <3>1, <3>2, <3>3, <3>4, <3>5, <3>6
  <2>8. ASSUME NEW c \in Clients, ShutdownLock(c) PROVE OneWorker' /\ Lifecycle'
    <3>1. \A d \in Clients : d # c => cpc[d] = "idle"
      BY <2>8 DEF ShutdownLock, ShutdownAlone
    <3>2. ~running' /\ cpc' = [cpc EXCEPT ![c] = IF running THEN "notifyAll" ELSE "return"]
          /\ mutex = "free" /\ Len(submitted) \in Nat
          /\ owed' = [owed EXCEPT ![c] = Len(submitted)]
          /\ UNCHANGED <<mutex, queue, worker, gen, wpc, target, submitted>>
      BY <2>8, LenProperties DEF ShutdownLock, TypeOK
    <3>3. OneWorker'
      BY <3>2 DEF OneWorker
    <3>4. ShutdownAlone'
      BY <3>1, <3>2 DEF ShutdownAlone
    <3>5. ReplacesJoined'
      BY <3>1, <3>2 DEF ReplacesJoined
    <3>6. RefersToNewest'
      <4>1. \A d \in Clients : ~Joins(d)
        BY <2>8, <3>1 DEF ShutdownLock
      <4>2. CASE running
        BY <3>1, <3>2, <4>2 DEF RefersToNewest
      <4>3. CASE ~running
        BY <3>1, <3>2, <4>1, <4>3 DEF RefersToNewest
      <4> QED
        BY <4>2, <4>3
    <3>7. ExitsDrained'
      BY <3>2 DEF ExitsDrained
    <3>8. (\A d \in Clients : owed[d] <= Len(submitted))'
      BY <3>2
    <3> QED
      BY <3>3, <3>4, <3>5, <3>6, <3>7, <3>8
  <2>9. ASSUME NEW c \in Clients, NotifyAll(c) PROVE OneWorker' /\ Lifecycle'
    <3>1. OneWorker'
      BY <2>9 DEF NotifyAll, OneWorker
    <3>2. ShutdownAlone'
      BY <2>9 DEF NotifyAll, ShutdownAlone
    <3>3. ReplacesJoined'
      BY <2>9 DEF NotifyAll, ReplacesJoined
    <3>4. RefersToNewest'
      BY <2>9 DEF NotifyAll, RefersToNewest, ShutdownAlone, ReplacesJoined
    <3>5. ExitsDrained'
      BY <2>9 DEF NotifyAll, ExitsDrained
    <3>6. (\A d \in Clients : owed[d] <= Len(submitted))'
      BY <2>9 DEF NotifyAll
    <3> QED
      BY <3>1, <3>2, <3>3, <3>4, <3>5, <3>6
  <2>10. ASSUME NEW c \in Clients, ShutdownJoin(c) PROVE OneWorker' /\ Lifecycle'
    <3>1. OneWorker'
      BY <2>10 DEF ShutdownJoin, OneWorker
    <3>2. ShutdownAlone'
      BY <2>10 DEF ShutdownJoin, RefersToNewest, ShutdownAlone
    <3>3. ReplacesJoined'
      BY <2>10 DEF ShutdownJoin, ReplacesJoined
    <3>4. RefersToNewest'
      BY <2>10 DEF ShutdownJoin, RefersToNewest, ShutdownAlone, ReplacesJoined
    <3>5. ExitsDrained'
      BY <2>10 DEF ShutdownJoin, ExitsDrained
    <3>6. (\A d \in Clients : owed[d] <= Len(submitted))'
      BY <2>10 DEF ShutdownJoin
    <3> QED
      BY <3>1, <3>2, <3>3, <3>4, <3>5, <3>6
  <2>11. ASSUME NEW c \in Clients, ShutdownJoined(c) PROVE OneWorker' /\ Lifecycle'
    <3>1. ~running /\ gen > 0 /\ wpc[gen] = "done" /\ queue = <<>>
      BY <2>11 DEF ShutdownJoined, RefersToNewest, ExitsDrained
    <3>2. \A d \in Clients : d # c => cpc[d] = "idle"
      BY <2>11 DEF ShutdownJoined, ShutdownAlone
    <3>3. worker' = 0 /\ cpc' = [cpc EXCEPT ![c] = "return"]
          /\ UNCHANGED <<mutex, queue, running, gen, wpc, target, owed, submitted>>
      BY <2>11 DEF ShutdownJoined
    <3>4. OneWorker'
      BY <3>3 DEF OneWorker
    <3>5. ShutdownAlone'
      BY <3>1, <3>2, <3>3 DEF ShutdownAlone
    <3>6. ReplacesJoined'
      BY <3>2, <3>3 DEF ReplacesJoined
    <3>7. RefersToNewest'
      BY <3>1, <3>2, <3>3 DEF RefersToNewest
    <3>8. ExitsDrained'
      BY <3>3 DEF ExitsDrained
    <3>9. (\A d \in Clients : owed[d] <= Len(submitted))'
      BY <3>3
    <3> QED
      BY <3>4, <3>5, <3>6, <3>7, <3>8, <3>9
  <2>12. ASSUME NEW c \in Clients, ShutdownReturn(c) PROVE OneWorker' /\ Lifecycle'
    <3>1. OneWorker'
      BY <2>12 DEF ShutdownReturn, OneWorker
    <3>2. ShutdownAlone'
      BY <2>12 DEF ShutdownReturn, ShutdownAlone
    <3>3. ReplacesJoined'
      BY <2>12 DEF ShutdownReturn, ReplacesJoined
    <3>4. RefersToNewest'
      BY <2>12 DEF ShutdownReturn, RefersToNewest
    <3>5. ExitsDrained'
      BY <2>12 DEF ShutdownReturn, ExitsDrained
    <3>6. (\A d \in Clients : owed[d] <= Len(submitted))'
      BY <2>12 DEF ShutdownReturn
    <3> QED
      BY <3>1, <3>2, <3>3, <3>4, <3>5, <3>6
  <2>13. ASSUME NEW w \in Workers, WorkerTake(w) PROVE OneWorker' /\ Lifecycle'
    <3>1. OneWorker'
      BY <2>13 DEF WorkerTake, OneWorker
    <3>2. ShutdownAlone'
      BY <2>13 DEF WorkerTake, ShutdownAlone
    <3>3. ReplacesJoined'
      BY <2>13 DEF WorkerTake, ReplacesJoined
    <3>4. RefersToNewest'
      BY <2>13 DEF WorkerTake, RefersToNewest
    <3>5. ExitsDrained'
      BY <2>13 DEF WorkerTake, ExitsDrained
    <3>6. (\A d \in Clients : owed[d] <= Len(submitted))'
      BY <2>13 DEF WorkerTake
    <3> QED
      BY <3>1, <3>2, <3>3, <3>4, <3>5, <3>6
  <2>14. ASSUME NEW w \in Workers, WorkerExit(w) PROVE OneWorker' /\ Lifecycle'
    <3>1. OneWorker'
      BY <2>14 DEF WorkerExit, OneWorker
    <3>2. ShutdownAlone'
      BY <2>14 DEF WorkerExit, ShutdownAlone
    <3>3. ReplacesJoined'
      BY <2>14 DEF WorkerExit, ReplacesJoined
    <3>4. RefersToNewest'
      BY <2>14 DEF WorkerExit, RefersToNewest
    <3>5. ExitsDrained'
      BY <2>14 DEF WorkerExit, ExitsDrained
    <3>6. (\A d \in Clients : owed[d] <= Len(submitted))'
      BY <2>14 DEF WorkerExit
    <3> QED
      BY <3>1, <3>2, <3>3, <3>4, <3>5, <3>6
  <2>15. ASSUME NEW w \in Workers, WorkerWait(w) PROVE OneWorker' /\ Lifecycle'
    <3>1. OneWorker'
      BY <2>15 DEF WorkerWait, OneWorker
    <3>2. ShutdownAlone'
      BY <2>15 DEF WorkerWait, ShutdownAlone
    <3>3. ReplacesJoined'
      BY <2>15 DEF WorkerWait, ReplacesJoined
    <3>4. RefersToNewest'
      BY <2>15 DEF WorkerWait, RefersToNewest
    <3>5. ExitsDrained'
      BY <2>15 DEF WorkerWait, ExitsDrained
    <3>6. (\A d \in Clients : owed[d] <= Len(submitted))'
      BY <2>15 DEF WorkerWait
    <3> QED
      BY <3>1, <3>2, <3>3, <3>4, <3>5, <3>6
  <2>16. ASSUME NEW w \in Workers, SpuriousWakeup(w) PROVE OneWorker' /\ Lifecycle'
    <3>1. OneWorker'
      BY <2>16 DEF SpuriousWakeup, OneWorker
    <3>2. ShutdownAlone'
      BY <2>16 DEF SpuriousWakeup, ShutdownAlone
    <3>3. ReplacesJoined'
      BY <2>16 DEF SpuriousWakeup, ReplacesJoined
    <3>4. RefersToNewest'
      BY <2>16 DEF SpuriousWakeup, RefersToNewest
    <3>5. ExitsDrained'
      BY <2>16 DEF SpuriousWakeup, ExitsDrained
    <3>6. (\A d \in Clients : owed[d] <= Len(submitted))'
      BY <2>16 DEF SpuriousWakeup
    <3> QED
      BY <3>1, <3>2, <3>3, <3>4, <3>5, <3>6
  <2>17. ASSUME NEW w \in Workers, Deliver(w) PROVE OneWorker' /\ Lifecycle'
    <3>1. OneWorker'
      BY <2>17 DEF Deliver, OneWorker
    <3>2. ShutdownAlone'
      BY <2>17 DEF Deliver, ShutdownAlone
    <3>3. ReplacesJoined'
      BY <2>17 DEF Deliver, ReplacesJoined
    <3>4. RefersToNewest'
      BY <2>17 DEF Deliver, RefersToNewest
    <3>5. ExitsDrained'
      BY <2>17 DEF Deliver, ExitsDrained
    <3>6. (\A d \in Clients : owed[d] <= Len(submitted))'
      BY <2>17 DEF Deliver
    <3> QED
      BY <3>1, <3>2, <3>3, <3>4, <3>5, <3>6
  <2>19. ASSUME NEW w \in Workers, ClassifyDestroyed(w) PROVE OneWorker' /\ Lifecycle'
    <3>1. OneWorker'
      BY <2>19 DEF ClassifyDestroyed, OneWorker
    <3>2. ShutdownAlone'
      BY <2>19 DEF ClassifyDestroyed, ShutdownAlone
    <3>3. ReplacesJoined'
      BY <2>19 DEF ClassifyDestroyed, ReplacesJoined
    <3>4. RefersToNewest'
      BY <2>19 DEF ClassifyDestroyed, RefersToNewest
    <3>5. ExitsDrained'
      BY <2>19 DEF ClassifyDestroyed, ExitsDrained
    <3>6. (\A d \in Clients : owed[d] <= Len(submitted))'
      BY <2>19 DEF ClassifyDestroyed
    <3> QED
      BY <3>1, <3>2, <3>3, <3>4, <3>5, <3>6
  <2>18. CASE UNCHANGED vars
    <3>1. OneWorker'
      BY <2>18 DEF vars, OneWorker
    <3>2. ShutdownAlone'
      BY <2>18 DEF vars, ShutdownAlone
    <3>3. ReplacesJoined'
      BY <2>18 DEF vars, ReplacesJoined
    <3>4. RefersToNewest'
      BY <2>18 DEF vars, RefersToNewest
    <3>5. ExitsDrained'
      BY <2>18 DEF vars, ExitsDrained
    <3>6. (\A d \in Clients : owed[d] <= Len(submitted))'
      BY <2>18 DEF vars
    <3> QED
      BY <3>1, <3>2, <3>3, <3>4, <3>5, <3>6
  <2> QED
    BY <2>1, <2>2, <2>3, <2>4, <2>5, <2>6, <2>7, <2>8, <2>9, <2>10, <2>11, <2>12, <2>13, <2>14, <2>15, <2>16, <2>17, <2>18, <2>19
    DEF Next, Submit, Shutdown, WorkerLoop
<1> QED
  BY <1>1, <1>2, TypeCorrect, PTL DEF Spec

(* Appending to the last part of a concatenation appends to the whole. *)
LEMMA AppendLast ==
    ASSUME NEW S, NEW a \in Seq(S), NEW b \in Seq(S), NEW c \in Seq(S), NEW e \in S
    PROVE  a \o b \o Append(c, e) = Append(a \o b \o c, e)
<1>1. a \o b \in Seq(S)
  BY ConcatProperties
<1> QED
  BY <1>1

(* Taking the head of the last part into an empty middle part. *)
LEMMA TakeHead ==
    ASSUME NEW S, NEW a \in Seq(S), NEW b \in Seq(S), b # <<>>
    PROVE  a \o <<Head(b)>> \o Tail(b) = a \o <<>> \o b
<1>1. Head(b) \in S /\ Tail(b) \in Seq(S) /\ <<Head(b)>> \in Seq(S)
  BY HeadTailProperties
<1>2. (a \o <<Head(b)>>) \o Tail(b) = a \o (<<Head(b)>> \o Tail(b))
  BY <1>1, ConcatAssociative, SMTT(30)
<1>3. <<Head(b)>> \o Tail(b) = b
  BY <1>1
<1>4. a \o <<>> = a
  BY ConcatEmptySeq
<1> QED
  BY <1>2, <1>3, <1>4

(* Moving a one-element middle part to the end of the first part. *)
LEMMA MoveHand ==
    ASSUME NEW S, NEW a \in Seq(S), NEW e \in S, NEW b \in Seq(S)
    PROVE  Append(a, e) \o <<>> \o b = a \o <<e>> \o b
<1>1. Append(a, e) = a \o <<e>>
  BY AppendIsConcat
<1>2. Append(a, e) \in Seq(S)
  BY AppendProperties
<1>3. Append(a, e) \o <<>> = Append(a, e)
  BY <1>2, ConcatEmptySeq
<1> QED
  BY <1>1, <1>3

(* Results are delivered once each and in the order of submission, over any  *)
(* number of restarts of the worker.                                         *)
THEOREM QueueOrderCorrect ==
    ASSUME Exclusive
    PROVE  Spec => []QueueOrder
<1> USE EngineAssumption
<1>1. Init => QueueOrder
  BY DEF Init, QueueOrder, Hand
<1>2. TypeOK /\ OneWorker /\ Lifecycle /\ QueueOrder /\ [Next]_vars => QueueOrder'
  <2> SUFFICES ASSUME TypeOK, OneWorker, Lifecycle, QueueOrder, [Next]_vars
               PROVE  QueueOrder'
    OBVIOUS
  <2>1. Hand \in Seq(Items) /\ queue \in Seq(Items) /\ delivered \in Seq(Items)
    BY DEF Hand, TypeOK, Workers
  <2>2. ASSUME NEW c \in Clients, SubmitPush(c) \/ SubmitAssign(c) PROVE QueueOrder'
    <3> DEFINE i == <<c, submits[c]>>
    <3>1. submits[c] \in Nat \ {0}
      BY <2>2 DEF SubmitPush, SubmitAssign, TypeOK
    <3>2. i \in Items
      BY <3>1 DEF Items
    <3>3. queue' = Append(queue, i) /\ submitted' = Append(submitted, i)
      BY <2>2 DEF SubmitPush, SubmitAssign, Enqueue
    <3>4. delivered' = delivered /\ Hand' = Hand
      BY <2>2 DEF SubmitPush, SubmitAssign, Hand
    <3> HIDE DEF i
    <3>5. delivered \o Hand \o Append(queue, i) = Append(delivered \o Hand \o queue, i)
      BY <2>1, <3>2, AppendLast
    <3> QED
      BY <3>3, <3>4, <3>5 DEF QueueOrder
  <2>3. ASSUME NEW c \in Clients, SubmitStart(c) PROVE QueueOrder'
    <3>1. \A d \in Clients : ~Joins(d)
      BY <2>3 DEF SubmitStart, Lifecycle, ShutdownAlone, ReplacesJoined, RefersToNewest, ExitsDrained, InShutdown, Joins, TypeOK
    <3>2. gen > 0 => wpc[gen] = "done"
      BY <2>3, <3>1 DEF SubmitStart, Lifecycle, ShutdownAlone, ReplacesJoined, RefersToNewest, ExitsDrained
    <3>3. Hand = <<>>
      BY <3>2 DEF Hand
    <3>4. gen' = gen + 1 /\ wpc'[gen + 1] = "lock"
      BY <2>3 DEF SubmitStart, WorkerGoto, TypeOK, Workers
    <3>5. Hand' = <<>>
      BY <3>4 DEF Hand
    <3> QED
      BY <2>3, <3>3, <3>5 DEF SubmitStart, QueueOrder
  <2>4. ASSUME NEW w \in Workers, wpc[w] \in {"lock", "waiting", "classify", "aborted"} PROVE w = gen
    <3>1. w \in Nat /\ gen \in Nat /\ wpc[w] # "done" /\ wpc[w] # "none"
      BY <2>4, EngineAssumption DEF TypeOK, Workers
    <3> QED
      BY <3>1 DEF OneWorker
  <2>5. ASSUME NEW w \in Workers, WorkerTake(w) PROVE QueueOrder'
    <3>1. w = gen /\ gen > 0
      BY <2>4, <2>5 DEF WorkerTake, Workers
    <3>2. Hand = <<>>
      BY <2>5, <3>1 DEF WorkerTake, Hand
    <3>3. Hand' = <<Head(queue)>> /\ queue' = Tail(queue) /\ queue # <<>>
          /\ UNCHANGED <<delivered, submitted>>
      BY <2>5, <3>1 DEF WorkerTake, WorkerGoto, Hand, TypeOK
    <3>4. delivered \o <<Head(queue)>> \o Tail(queue) = delivered \o <<>> \o queue
      BY <2>1, <3>3, TakeHead
    <3> QED
      BY <3>2, <3>3, <3>4 DEF QueueOrder
  <2>6. ASSUME NEW w \in Workers, Deliver(w) PROVE QueueOrder'
    <3>1. w = gen /\ gen > 0
      BY <2>4, <2>6 DEF Deliver, Workers
    <3>2. Hand = <<item[w]>> /\ item[w] \in Items
      BY <2>6, <3>1 DEF Deliver, Hand, TypeOK
    <3>3. Hand' = <<>> /\ delivered' = Append(delivered, item[w])
          /\ UNCHANGED <<queue, submitted>>
      BY <2>6, <3>1 DEF Deliver, WorkerGoto, Hand, TypeOK
    <3>4. Append(delivered, item[w]) \o <<>> \o queue = delivered \o <<item[w]>> \o queue
      BY <2>1, <3>2, MoveHand
    <3> QED
      BY <3>2, <3>3, <3>4 DEF QueueOrder
  <2>10. ASSUME NEW w \in Workers, ClassifyDestroyed(w) PROVE QueueOrder'
    <3>1. w = gen /\ gen > 0
      BY <2>4, <2>10 DEF ClassifyDestroyed, Workers
    <3>2. Hand = <<item[w]>> /\ item[w] \in Items
      BY <2>10, <3>1 DEF ClassifyDestroyed, Hand, TypeOK
    <3>3. CASE WorkerGoto(w, "aborted") /\ UNCHANGED delivered
      <4>1. Hand' = Hand /\ UNCHANGED <<queue, submitted>>
        BY <2>10, <3>1, <3>3 DEF ClassifyDestroyed, WorkerGoto, Hand, TypeOK
      <4> QED
        BY <3>3, <4>1 DEF QueueOrder
    <3>4. CASE WorkerGoto(w, "lock") /\ delivered' = Append(delivered, item[w])
      <4>1. Hand' = <<>> /\ UNCHANGED <<queue, submitted>>
        BY <2>10, <3>1, <3>4 DEF ClassifyDestroyed, WorkerGoto, Hand, TypeOK
      <4>2. Append(delivered, item[w]) \o <<>> \o queue = delivered \o <<item[w]>> \o queue
        BY <2>1, <3>2, MoveHand
      <4> QED
        BY <3>2, <3>4, <4>1, <4>2 DEF QueueOrder
    <3> QED
      BY <2>10, <3>3, <3>4 DEF ClassifyDestroyed
  <2>7. ASSUME NEW w \in Workers, WorkerExit(w) \/ WorkerWait(w) \/ SpuriousWakeup(w)
        PROVE  QueueOrder'
    <3>1. Hand' = Hand
      BY <2>4, <2>7 DEF WorkerExit, WorkerWait, SpuriousWakeup, WorkerGoto, Hand, TypeOK
    <3> QED
      BY <2>7, <3>1 DEF WorkerExit, WorkerWait, SpuriousWakeup, QueueOrder
  <2>8. ASSUME NEW c \in Clients, NotifyOne(c) \/ NotifyAll(c) PROVE QueueOrder'
    <3>1. Hand' = Hand
      BY <2>4, <2>8 DEF NotifyOne, NotifyAll, WorkerGoto, Hand, TypeOK, Workers
    <3> QED
      BY <2>8, <3>1 DEF NotifyOne, NotifyAll, QueueOrder
  <2>9. CASE UNCHANGED <<queue, gen, wpc, item, submitted, delivered>>
    BY <2>9 DEF QueueOrder, Hand
  <2> QED
    BY <2>2, <2>3, <2>5, <2>6, <2>7, <2>8, <2>9, <2>10
    DEF Next, vars, Submit, Shutdown, WorkerLoop, SubmitCall, ShutdownCall, Destroy,
        ShutdownLock, ShutdownJoin, ShutdownJoined, ShutdownReturn
<1> QED
  BY <1>1, <1>2, TypeCorrect, LifecycleCorrect, PTL DEF Spec

(* shutdown() returns only after everything submitted before it has been     *)
(* classified and delivered: it follows from the life cycle of the worker    *)
(* and the order of the queue.                                               *)
THEOREM ShutdownDrainsCorrect ==
    ASSUME Exclusive
    PROVE  Spec => []ShutdownDrains
<1>1. TypeOK /\ Lifecycle /\ QueueOrder => ShutdownDrains
  <2> SUFFICES ASSUME TypeOK, Lifecycle, QueueOrder, NEW c \in Clients, cpc[c] = "return"
               PROVE  Len(delivered) >= owed[c]
    BY DEF ShutdownDrains
  <2>1. ~running /\ \A d \in Clients : ~Joins(d)
    BY DEF Lifecycle, ShutdownAlone, ReplacesJoined, RefersToNewest, ExitsDrained, InShutdown, Joins, TypeOK
  <2>2. (gen > 0 => wpc[gen] = "done") /\ queue = <<>>
    BY <2>1 DEF Lifecycle, ShutdownAlone, ReplacesJoined, RefersToNewest, ExitsDrained, TypeOK
  <2>3. Hand = <<>>
    BY <2>2 DEF Hand
  <2>4. delivered \in Seq(Items)
    BY DEF TypeOK
  <2>5. submitted = delivered
    BY <2>2, <2>3, <2>4, ConcatEmptySeq DEF QueueOrder
  <2> QED
    BY <2>5, LenProperties DEF Lifecycle, ShutdownAlone, ReplacesJoined, RefersToNewest, ExitsDrained, TypeOK
<1> QED
  BY <1>1, TypeCorrect, LifecycleCorrect, QueueOrderCorrect, PTL

(* A sleeping worker with work to do, or told to stop, has a notification on *)
(* its way.                                                                  *)
THEOREM NoLostNotifyCorrect ==
    ASSUME Exclusive
    PROVE  Spec => []NoLostNotify
<1> USE EngineAssumption
<1>1. Init => NoLostNotify
  BY DEF Init, NoLostNotify
<1>2. TypeOK /\ OneWorker /\ Lifecycle /\ NoLostNotify /\ [Next]_vars => NoLostNotify'
  <2> SUFFICES ASSUME TypeOK, OneWorker, Lifecycle, NoLostNotify, [Next]_vars
               PROVE  NoLostNotify'
    OBVIOUS
  <2>0. ASSUME NEW w \in Workers, wpc[w] = "waiting" PROVE w = gen
    BY <2>0 DEF OneWorker, TypeOK, Workers
  <2> USE DEF TypeOK, NoLostNotify, Goto, WorkerGoto
  <2>1. ASSUME NEW c \in Clients, SubmitCall(c) PROVE NoLostNotify'
    BY <2>1 DEF SubmitCall
  <2>2. ASSUME NEW c \in Clients, SubmitPush(c) PROVE NoLostNotify'
    BY <2>2 DEF SubmitPush, Enqueue
  <2>3. ASSUME NEW c \in Clients, SubmitStart(c) PROVE NoLostNotify'
    BY <2>3 DEF SubmitStart
  <2>4. ASSUME NEW c \in Clients, SubmitAssign(c) PROVE NoLostNotify'
    BY <2>4 DEF SubmitAssign, Enqueue
  <2>5. ASSUME NEW c \in Clients, NotifyOne(c) PROVE NoLostNotify'
    <3>1. \A v \in Workers : wpc'[v] # "waiting"
      <4>1. CASE \A w \in Workers : wpc[w] # "waiting"
        BY <2>5, <4>1 DEF NotifyOne
      <4>2. ASSUME NEW w \in Workers, wpc' = [wpc EXCEPT ![w] = "lock"], wpc[w] = "waiting"
            PROVE  \A v \in Workers : wpc'[v] # "waiting"
        BY <2>0, <4>2
      <4> QED
        BY <2>5, <4>1, <4>2 DEF NotifyOne
    <3> QED
      BY <3>1
  <2>6. ASSUME NEW c \in Clients, ShutdownCall(c) PROVE NoLostNotify'
    BY <2>6 DEF ShutdownCall
  <2>7. ASSUME NEW c \in Clients, Destroy(c) PROVE NoLostNotify'
    BY <2>7 DEF Destroy
  <2>8. ASSUME NEW c \in Clients, ShutdownLock(c) PROVE NoLostNotify'
    <3>1. CASE running
      BY <2>8, <3>1 DEF ShutdownLock
    <3>2. CASE ~running
      BY <2>8, <3>2 DEF ShutdownLock
    <3> QED
      BY <3>1, <3>2
  <2>9. ASSUME NEW c \in Clients, NotifyAll(c) PROVE NoLostNotify'
    BY <2>9 DEF NotifyAll
  <2>10. ASSUME NEW c \in Clients, ShutdownJoin(c) PROVE NoLostNotify'
    BY <2>10 DEF ShutdownJoin
  <2>11. ASSUME NEW c \in Clients, ShutdownJoined(c) PROVE NoLostNotify'
    BY <2>11 DEF ShutdownJoined
  <2>12. ASSUME NEW c \in Clients, ShutdownReturn(c) PROVE NoLostNotify'
    BY <2>12 DEF ShutdownReturn
  <2>13. ASSUME NEW w \in Workers, WorkerTake(w) PROVE NoLostNotify'
    BY <2>13 DEF WorkerTake
  <2>14. ASSUME NEW w \in Workers, WorkerExit(w) PROVE NoLostNotify'
    BY <2>14 DEF WorkerExit
  <2>15. ASSUME NEW w \in Workers, WorkerWait(w) PROVE NoLostNotify'
    BY <2>15 DEF WorkerWait
  <2>16. ASSUME NEW w \in Workers, SpuriousWakeup(w) PROVE NoLostNotify'
    BY <2>16 DEF SpuriousWakeup
  <2>17. ASSUME NEW w \in Workers, Deliver(w) PROVE NoLostNotify'
    BY <2>17 DEF Deliver
  <2>19. ASSUME NEW w \in Workers, ClassifyDestroyed(w) PROVE NoLostNotify'
    BY <2>19 DEF ClassifyDestroyed
  <2>18. CASE UNCHANGED vars
    BY <2>18 DEF vars
  <2> QED
    BY <2>1, <2>2, <2>3, <2>4, <2>5, <2>6, <2>7, <2>8, <2>9, <2>10, <2>11, <2>12, <2>13, <2>14, <2>15, <2>16, <2>17, <2>18, <2>19
    DEF Next, Submit, Shutdown, WorkerLoop
<1> QED
  BY <1>1, <1>2, TypeCorrect, LifecycleCorrect, PTL DEF Spec
=============================================================================
