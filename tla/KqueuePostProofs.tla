-------------------------- MODULE KqueuePostProofs --------------------------
(***************************************************************************)
(* Proofs about the event loop's post() and stop(), for any set of         *)
(* threads, any pipe capacity and any number of calls.                     *)
(***************************************************************************)
EXTENDS KqueuePost, SequenceTheorems, TLAPS

(* Moving the head of the middle part to the end of the first part leaves    *)
(* a concatenation unchanged: what running one posted callback does.         *)
LEMMA MoveHead ==
    ASSUME NEW S, NEW a \in Seq(S), NEW b \in Seq(S), NEW c \in Seq(S), b # <<>>
    PROVE  Append(a, Head(b)) \o Tail(b) \o c = a \o b \o c
<1>1. Head(b) \in S /\ Tail(b) \in Seq(S)
  BY HeadTailProperties
<1>2. Append(a, Head(b)) = a \o <<Head(b)>>
  BY <1>1, AppendIsConcat
<1>3. <<Head(b)>> \in Seq(S)
  BY <1>1
<1>4. (a \o <<Head(b)>>) \o Tail(b) = a \o (<<Head(b)>> \o Tail(b))
  BY <1>1, <1>3, ConcatAssociative, SMTT(30)
<1>5. <<Head(b)>> \o Tail(b) = b
  BY <1>1
<1> QED
  BY <1>1, <1>2, <1>4, <1>5

(* Appending to the last part of a concatenation appends to the whole: what  *)
(* post() does to the queue.                                                 *)
LEMMA AppendLast ==
    ASSUME NEW S, NEW a \in Seq(S), NEW b \in Seq(S), NEW c \in Seq(S), NEW e \in S
    PROVE  a \o b \o Append(c, e) = Append(a \o b \o c, e)
<1>1. a \o b \in Seq(S)
  BY ConcatProperties
<1>2. (a \o b) \o Append(c, e) = Append((a \o b) \o c, e)
  BY <1>1
<1> QED
  BY <1>2

(* Every harvested batch is a sequence of events. *)
LEMMA BatchType ==
    ASSUME NEW before \in Nat, NEW after \in Nat
    PROVE  /\ IoEvents(before) \in Seq(Kevents)
           /\ IoEvents(before) \o <<"wake">> \o IoEvents(after) \in Seq(Kevents)
<1>1. \A n \in Nat : IoEvents(n) \in Seq(Kevents)
  BY DEF IoEvents, Kevents
<1>2. <<"wake">> \in Seq(Kevents)
  BY DEF Kevents
<1> HIDE DEF IoEvents, Kevents
<1>3. IoEvents(before) \o <<"wake">> \in Seq(Kevents)
  BY <1>1, <1>2, ConcatProperties
<1> QED
  BY <1>1, <1>3, ConcatProperties

(* The type invariant holds in every reachable state: the wake pipe never    *)
(* exceeds its capacity and the queues hold callbacks only.                  *)
THEOREM TypeCorrect == Spec => []TypeOK
<1>1. Init => TypeOK
  <2> SUFFICES ASSUME Init PROVE TypeOK
    OBVIOUS
  <2>1. running \in BOOLEAN
    BY Zenon DEF Init
  <2> QED
    BY <2>1, PostAssumption DEF Init, TypeOK, Pcs
<1>2. TypeOK /\ [Next]_vars => TypeOK'
  <2> SUFFICES ASSUME TypeOK, [Next]_vars PROVE TypeOK'
    OBVIOUS
  <2> USE PostAssumption
  <2>1. ASSUME NEW th \in Threads, Post(th) PROVE TypeOK'
    <3>1. <<th, posts[th] + 1>> \in Callbacks
      BY DEF TypeOK, Callbacks
    <3> QED
      BY <2>1, <3>1, AppendProperties DEF TypeOK, Post, Pcs
  <2>2. ASSUME NEW th \in Threads, Stop(th) PROVE TypeOK'
    <3>1. running' \in BOOLEAN
      BY <2>2, Zenon DEF Stop
    <3> QED
      BY <2>2, <3>1 DEF TypeOK, Stop
  <2>3. ASSUME NEW th \in Threads, Wake(th) PROVE TypeOK'
    BY <2>3 DEF TypeOK, Wake, calls
  <2>4. CASE Run
    BY <2>4 DEF TypeOK, Run, Pcs
  <2>5. CASE Check
    BY <2>5 DEF TypeOK, Check, Pcs, calls
  <2>6. CASE KeventWake
    <3>1. PICK before \in 0..MaxIo, after \in 0..MaxIo :
             Harvest(IoEvents(before) \o <<"wake">> \o IoEvents(after))
      BY <2>6 DEF KeventWake
    <3>2. batch' \in Seq(Kevents)
      BY <3>1, BatchType DEF Harvest
    <3> QED
      BY <3>1, <3>2 DEF TypeOK, Harvest, Pcs, calls
  <2>7. CASE KeventIo
    <3>1. PICK n \in 1..MaxIo : Harvest(IoEvents(n))
      BY <2>7 DEF KeventIo
    <3>2. batch' \in Seq(Kevents)
      BY <3>1, BatchType DEF Harvest
    <3> QED
      BY <3>1, <3>2 DEF TypeOK, Harvest, Pcs, calls
  <2>8. CASE KeventInterrupted \/ KeventFailed
    BY <2>8 DEF TypeOK, KeventInterrupted, KeventFailed, Pcs, calls
  <2>9. CASE DispatchWake \/ DispatchIo
    <3>1. Tail(batch) \in Seq(Kevents)
      BY <2>9, HeadTailProperties DEF TypeOK, DispatchWake, DispatchIo
    <3>2. CASE DispatchWake
      BY <3>1, <3>2 DEF TypeOK, DispatchWake, Pcs, calls
    <3>3. CASE DispatchIo
      BY <3>1, <3>3 DEF TypeOK, DispatchIo, Pcs, calls
    <3> QED
      BY <2>9, <3>2, <3>3
  <2>10. CASE Swap
    BY <2>10 DEF TypeOK, Swap, Pcs, calls
  <2>11. CASE CallPosted
    <3>1. Head(cbs) \in Callbacks /\ Tail(cbs) \in Seq(Callbacks)
      BY <2>11, HeadTailProperties DEF TypeOK, CallPosted
    <3>2. Append(executed, Head(cbs)) \in Seq(Callbacks)
      BY <3>1, AppendProperties DEF TypeOK
    <3> QED
      BY <2>11, <3>1, <3>2 DEF TypeOK, CallPosted, Pcs, calls
  <2>12. CASE Return
    BY <2>12 DEF TypeOK, Return, Pcs, calls
  <2>13. CASE UNCHANGED vars
    BY <2>13 DEF TypeOK, vars
  <2> QED
    BY <2>1, <2>2, <2>3, <2>4, <2>5, <2>6, <2>7, <2>8, <2>9, <2>10, <2>11, <2>12, <2>13
    DEF Next
<1> QED
  BY <1>1, <1>2, PTL DEF Spec

(* No lost wakeup: a queued callback always has a byte in the pipe, a writer *)
(* of one, or a loop about to swap the queue; and a loop blocked in kevent() *)
(* with running_ cleared is about to be woken.  The invariant is inductive *)
(* relative to the type invariant.                                           *)
THEOREM WakeupSafety == Spec => []NoLostWakeup
<1> DEFINE Inv == NoLostWakeup
<1>1. Init => Inv
  BY DEF Init, NoLostWakeup
<1>2. TypeOK /\ Inv /\ [Next]_vars => Inv'
  <2> SUFFICES ASSUME TypeOK, Inv, [Next]_vars PROVE Inv'
    OBVIOUS
  <2> USE PostAssumption DEF NoLostWakeup
  <2>1. ASSUME NEW th \in Threads, Post(th) \/ Stop(th) PROVE Inv'
    BY <2>1 DEF Post, Stop
  <2>2. ASSUME NEW th \in Threads, Wake(th) PROVE Inv'
    <3>1. pipe' > 0
      BY <2>2 DEF TypeOK, Wake
    <3> QED
      BY <3>1
  <2>3. CASE Run \/ Check
    BY <2>3 DEF Run, Check
  <2>4. CASE KeventWake \/ KeventIo
    BY <2>4 DEF KeventWake, KeventIo, Harvest
  <2>5. CASE KeventInterrupted \/ KeventFailed
    BY <2>5 DEF KeventInterrupted, KeventFailed
  <2>6. CASE DispatchWake \/ DispatchIo
    BY <2>6 DEF DispatchWake, DispatchIo
  <2>7. CASE Swap \/ CallPosted \/ Return
    BY <2>7 DEF Swap, CallPosted, Return
  <2>8. CASE UNCHANGED vars
    BY <2>8 DEF vars
  <2> QED
    BY <2>1, <2>2, <2>3, <2>4, <2>5, <2>6, <2>7, <2>8 DEF Next
<1> QED
  BY <1>1, <1>2, TypeCorrect, PTL DEF Spec

(* Callbacks run exactly in the order in which post() admitted them: what    *)
(* has run, what processPosted() holds and what is queued are together, in   *)
(* this order, what was posted.                                              *)
THEOREM PostOrderCorrect == Spec => []PostOrder
<1>1. Init => PostOrder /\ LocalCbs
  BY DEF Init, PostOrder, LocalCbs
<1>2. TypeOK /\ LocalCbs /\ [Next]_vars => LocalCbs'
  BY DEF LocalCbs, Next, vars, Post, Stop, Wake, Run, Check, KeventWake,
     KeventIo, Harvest, KeventInterrupted, KeventFailed, DispatchWake, DispatchIo,
     Swap, CallPosted, Return
<1>3. TypeOK /\ LocalCbs /\ PostOrder /\ [Next]_vars => PostOrder'
  <2> SUFFICES ASSUME TypeOK, LocalCbs, PostOrder, [Next]_vars PROVE PostOrder'
    OBVIOUS
  <2>1. ASSUME NEW th \in Threads, Post(th) PROVE PostOrder'
    <3> DEFINE cb == <<th, posts[th] + 1>>
    <3>1. cb \in Callbacks
      BY DEF TypeOK, Callbacks
    <3>2. posted' = Append(posted, cb) /\ pushed' = Append(pushed, cb)
          /\ UNCHANGED <<executed, cbs>>
      BY <2>1 DEF Post
    <3> HIDE DEF cb
    <3>3. executed \o cbs \o Append(posted, cb) = Append(executed \o cbs \o posted, cb)
      <4>1. executed \in Seq(Callbacks) /\ cbs \in Seq(Callbacks) /\ posted \in Seq(Callbacks)
        BY DEF TypeOK
      <4> QED
        BY ONLY <3>1, <4>1, AppendLast
    <3> QED
      BY <3>2, <3>3 DEF PostOrder
  <2>2. CASE Swap
    <3>1. cbs = <<>> /\ cbs' = posted /\ posted' = <<>> /\ UNCHANGED <<executed, pushed>>
      BY <2>2 DEF Swap, LocalCbs
    <3>2. executed \o <<>> = executed /\ executed \o posted \in Seq(Callbacks)
      BY ConcatEmptySeq, ConcatProperties DEF TypeOK
    <3>3. (executed \o posted) \o <<>> = executed \o posted
      BY <3>2, ConcatEmptySeq
    <3> QED
      BY <3>1, <3>2, <3>3 DEF PostOrder
  <2>3. CASE CallPosted
    <3>1. executed \in Seq(Callbacks) /\ cbs \in Seq(Callbacks)
          /\ posted \in Seq(Callbacks) /\ cbs # <<>>
      BY <2>3 DEF TypeOK, CallPosted
    <3>2. Append(executed, Head(cbs)) \o Tail(cbs) \o posted = executed \o cbs \o posted
      BY ONLY <3>1, MoveHead
    <3> QED
      BY <2>3, <3>2 DEF PostOrder, CallPosted
  <2>4. CASE UNCHANGED <<executed, cbs, posted, pushed>>
    BY <2>4 DEF PostOrder
  <2> QED
    BY <2>1, <2>2, <2>3, <2>4 DEF Next, vars, Stop, Wake, Run, Check, KeventWake,
       KeventIo, Harvest, KeventInterrupted, KeventFailed, DispatchWake, DispatchIo, Return
<1> QED
  BY <1>1, <1>2, <1>3, TypeCorrect, PTL DEF Spec
=============================================================================
