-------------------------- MODULE AsyncWriterProofs --------------------------
(***************************************************************************)
(* Proofs about the telemetry writer, for any sets of tasks and stoppers    *)
(* and any sizes.                                                           *)
(***************************************************************************)
EXTENDS AsyncWriterProps, FiniteSetTheorems, TLAPS

USE DEF tally, buffers

(* Finite sets of events: what the actions do to them. *)
LEMMA EventsFacts ==
    /\ {} \in Events
    /\ \A S \in Events, n \in Nat : S \cup {n + 1} \in Events
    /\ \A S, T \in Events : S \cup T \in Events
    /\ \A S \in Events : Cardinality(S) \in Nat /\ IsFiniteSet(S)
<1>1. {} \in Events
  BY FS_EmptySet DEF Events
<1>2. ASSUME NEW S \in Events, NEW n \in Nat
      PROVE  S \cup {n + 1} \in Events
  BY FS_AddElement DEF Events
<1>3. ASSUME NEW S \in Events, NEW T \in Events
      PROVE  S \cup T \in Events
  BY FS_Union DEF Events
<1>4. ASSUME NEW S \in Events
      PROVE  Cardinality(S) \in Nat /\ IsFiniteSet(S)
  BY FS_CardinalityType DEF Events
<1> QED
  BY <1>1, <1>2, <1>3, <1>4

(* The critical section of a free lock and of a flush that begins. *)
LEMMA FlushTyped ==
    ASSUME NEW holder \in Stoppers \cup {"write", "timer"},
           NEW batch \in Batch \cup {Sentinel},
           NEW task \in Tasks \cup {Nobody}
    PROVE  /\ Free \in LockType
           /\ FlushOf(holder, batch, task) \in LockType
           /\ FlushOf(holder, batch, task).by = holder
           /\ FlushOf(holder, batch, task).at = "put"
           /\ FlushOf(holder, batch, task).batch = batch
           /\ FlushOf(holder, batch, task).append = task
           /\ FlushOf(holder, batch, task).lost = {}
  BY EventsFacts DEF Free, FlushOf, LockType, Sentinel

LEMMA BatchFacts ==
    /\ \A b \in Batch \cup {Sentinel} : b.events \in Events
    /\ \A b \in Batch \cup {Sentinel} : b.events # {} => b \in Batch
    /\ \A b \in Batch : Detached(b) \in Batch /\ Detached(b).events = {}
    /\ \A task \in Tasks : NewBatch(task) \in Batch
    /\ Sentinel \notin Batch
    /\ Sentinel.events = {}
  BY EventsFacts, WriterAssumption DEF Batch, Sentinel, Detached, NewBatch

(* The outcome of an append by write(), for a well-typed base batch. *)
LEMMA AppendTyped ==
    ASSUME TypeOK, NEW task \in Tasks, NEW base \in Batch,
           AppendEvent(task, base)
    PROVE  /\ accepted' \in Seq(Tasks)
           /\ current' \in Batch
           /\ cs' \in LockType
           /\ cs'.by = Nobody <=> cs'.at = "free"
<1> DEFINE grown == [base EXCEPT !.events = @ \cup {Len(accepted) + 1}]
<1>1. accepted \in Seq(Tasks) /\ Len(accepted) \in Nat
  BY DEF TypeOK
<1>2. grown \in Batch
  BY <1>1, EventsFacts DEF Batch
<1>3. Free \in LockType /\ Free.by = Nobody /\ Free.at = "free"
  BY FlushTyped DEF Free, LockType
<1>4. FlushOf("write", grown, Nobody) \in LockType
      /\ FlushOf("write", grown, Nobody).by = "write"
      /\ FlushOf("write", grown, Nobody).at = "put"
  BY <1>2, FlushTyped
<1>5. Detached(grown) \in Batch
  BY <1>2, BatchFacts
<1> HIDE DEF grown
<1>6. \/ current' = Detached(grown) /\ cs' = FlushOf("write", grown, Nobody)
      \/ current' = grown /\ cs' = Free
  BY DEF AppendEvent, grown
<1>7. accepted' = Append(accepted, task)
  BY DEF AppendEvent
<1> QED
  BY <1>1, <1>2, <1>3, <1>4, <1>5, <1>6, <1>7, WriterAssumption

(* EndFlush keeps the types of what it assigns. *)
LEMMA EndFlushTyped ==
    ASSUME TypeOK, EndFlush
    PROVE  /\ accepted' \in Seq(Tasks)
           /\ current' \in Batch \cup {Sentinel}
           /\ cs' \in LockType
           /\ cs'.by = Nobody <=> cs'.at = "free"
           /\ timer' \in TimerType
           /\ stop' \in [Stoppers -> StopType]
<1>1. timer' \in TimerType
  BY DEF EndFlush, TypeOK, TimerType
<1>2. stop' \in [Stoppers -> StopType]
  <2>1. CASE cs.by \in Stoppers
    <3>1. stop' = [stop EXCEPT ![cs.by] = [stop[cs.by] EXCEPT !.at = "sentinel"]]
      BY <2>1 DEF EndFlush
    <3>2. [stop[cs.by] EXCEPT !.at = "sentinel"] \in StopType
      BY <2>1 DEF TypeOK, StopType
    <3> QED
      BY <3>1, <3>2 DEF TypeOK
  <2>2. CASE cs.by \notin Stoppers
    BY <2>2 DEF EndFlush, TypeOK
  <2> QED
    BY <2>1, <2>2
<1>3. CASE cs.append # Nobody
  <2>1. cs.append \in Tasks
    BY <1>3 DEF TypeOK, LockType
  <2>2. NewBatch(cs.append) \in Batch
    BY <2>1, BatchFacts
  <2>3. AppendEvent(cs.append, NewBatch(cs.append))
    BY <1>3 DEF EndFlush
  <2> QED
    BY <1>1, <1>2, <2>1, <2>2, <2>3, AppendTyped
<1>4. CASE cs.append = Nobody
  <2>1. cs' = Free /\ accepted' = accepted /\ current' = current
    BY <1>4 DEF EndFlush
  <2>2. Free \in LockType /\ Free.by = Nobody /\ Free.at = "free"
    BY FlushTyped DEF Free, LockType
  <2> QED
    BY <1>1, <1>2, <2>1, <2>2 DEF TypeOK
<1> QED
  BY <1>3, <1>4
-----------------------------------------------------------------------------
LEMMA RecordsTyped ==
    /\ Free \in LockType /\ Free.by = Nobody /\ Free.at = "free"
    /\ Idle \in WorkerType
    /\ StopNotCalled \in StopType
<1>1. Free \in LockType /\ Free.by = Nobody /\ Free.at = "free"
  BY EventsFacts DEF Free, LockType
<1>2. Idle \in WorkerType
  BY WriterAssumption DEF Idle, WorkerType
<1>3. StopNotCalled \in StopType
  BY DEF StopNotCalled, StopType
<1> QED
  BY <1>1, <1>2, <1>3

LEMMA TypeInit == Init => TypeOK
<1> SUFFICES ASSUME Init
             PROVE  TypeOK
  OBVIOUS
<1>1. stop \in [Stoppers -> StopType]
  BY RecordsTyped DEF Init
<1>2. Len(queue) <= MaxQueueSize /\ queue \in Seq(Batch \cup {Sentinel})
      /\ accepted \in Seq(Tasks)
  BY WriterAssumption DEF Init
<1> QED
  BY <1>1, <1>2, EventsFacts, RecordsTyped DEF Init, TypeOK, TimerType

(* Changes of the critical section that leave its holder alone. *)
LEMMA LockUpdateTyped ==
    ASSUME TypeOK, cs.by # Nobody,
           NEW at \in {"evict", "reput", "load", "store"}
    PROVE  /\ [cs EXCEPT !.at = at] \in LockType
           /\ [cs EXCEPT !.at = at].by = cs.by
           /\ [cs EXCEPT !.at = at].at = at
           /\ \A S \in Events :
                 /\ [cs EXCEPT !.at = at, !.lost = S] \in LockType
                 /\ [cs EXCEPT !.at = at, !.lost = S].by = cs.by
                 /\ [cs EXCEPT !.at = at, !.lost = S].at = at
  BY DEF TypeOK, LockType

LEMMA DropFlushedTyped ==
    ASSUME TypeOK, cs.by # Nobody, DropFlushed
    PROVE  /\ cs' \in LockType
           /\ cs'.by = Nobody <=> cs'.at = "free"
           /\ dropped' \in Events
<1>1. cs.batch.events \in Events
  BY BatchFacts DEF TypeOK, LockType
<1>2. cs' \in LockType /\ cs'.by = cs.by /\ cs'.at = "load"
  BY <1>1 DEF DropFlushed, TypeOK, LockType
<1> QED
  BY <1>1, <1>2, EventsFacts DEF DropFlushed, TypeOK

(* The two puts of a flush keep the bound on the queue. *)
LEMMA PutTyped ==
    ASSUME TypeOK, NEW b \in Batch \cup {Sentinel}, ~Full(queue)
    PROVE  /\ Append(queue, b) \in Seq(Batch \cup {Sentinel})
           /\ Len(Append(queue, b)) <= MaxQueueSize
  BY WriterAssumption DEF TypeOK, Full

LEMMA TailTyped ==
    ASSUME TypeOK, queue # <<>>
    PROVE  /\ Tail(queue) \in Seq(Batch \cup {Sentinel})
           /\ Len(Tail(queue)) <= MaxQueueSize
           /\ Head(queue) \in Batch \cup {Sentinel}
  BY WriterAssumption DEF TypeOK

(* Every step keeps the type invariant. *)
LEMMA TypeStep == TypeOK /\ [Next]_vars => TypeOK'
<1> SUFFICES ASSUME TypeOK, [Next]_vars
             PROVE  TypeOK'
  OBVIOUS
<1>1. ASSUME NEW task \in Tasks, Write(task)
      PROVE  TypeOK'
  <2>1. CASE current.events # {} /\ cs' = FlushOf("write", current, task)
             /\ current' = Detached(current) /\ UNCHANGED accepted
    <3>1. current \in Batch
      BY <2>1, BatchFacts DEF TypeOK
    <3>2. cs' \in LockType /\ cs'.by = "write" /\ cs'.at = "put"
      BY <2>1, <3>1, FlushTyped
    <3>3. current' \in Batch
      BY <2>1, <3>1, BatchFacts
    <3> QED
      BY <1>1, <2>1, <3>2, <3>3, WriterAssumption DEF Write, TypeOK
  <2>2. CASE AppendEvent(task, NewBatch(task))
    BY <1>1, <2>2, AppendTyped, BatchFacts DEF Write, TypeOK
  <2>3. CASE current \in Batch /\ AppendEvent(task, current)
    BY <1>1, <2>3, AppendTyped DEF Write, TypeOK
  <2> QED
    BY <1>1, <2>1, <2>2, <2>3 DEF Write, TypeOK
<1>2. ASSUME FlushPut
      PROVE  TypeOK'
  <2>1. cs.batch \in Batch \cup {Sentinel} /\ cs.batch.events \in Events
    BY BatchFacts DEF TypeOK, LockType
  <2>2. CASE ~Full(queue)
    BY <1>2, <2>1, <2>2, PutTyped, EndFlushTyped DEF FlushPut, TypeOK
  <2>3. CASE Full(queue)
    <3>1. cs.by # Nobody
      BY <1>2 DEF FlushPut, TypeOK
    <3>2. CASE DropOldest
      <4>1. cs' = [cs EXCEPT !.at = "evict"] /\ UNCHANGED dropped
        BY <1>2, <2>3, <3>2 DEF FlushPut
      <4>2. cs' \in LockType /\ cs'.by = cs.by /\ cs'.at = "evict"
        BY <3>1, <4>1, LockUpdateTyped
      <4> QED
        BY <1>2, <2>3, <3>1, <4>1, <4>2 DEF FlushPut, TypeOK
    <3>3. CASE ~DropOldest
      BY <1>2, <2>3, <3>1, <3>3, DropFlushedTyped DEF FlushPut, TypeOK
    <3> QED
      BY <3>2, <3>3
  <2> QED
    BY <2>2, <2>3
<1>3. ASSUME FlushEvict
      PROVE  TypeOK'
  <2>1. cs.by # Nobody
    BY <1>3 DEF FlushEvict, TypeOK
  <2>2. CASE queue = <<>>
    BY <1>3, <2>1, <2>2, DropFlushedTyped DEF FlushEvict, TypeOK
  <2>3. CASE queue # <<>>
    <3>1. Head(queue).events \in Events
      BY <2>3, TailTyped, BatchFacts
    <3>2. \/ cs' = [cs EXCEPT !.at = "reput"] /\ dropped' = dropped
          \/ /\ cs' = [cs EXCEPT !.at = "load", !.lost = Head(queue).events]
             /\ dropped' = dropped \cup Head(queue).events
      BY <1>3, <2>3 DEF FlushEvict
    <3>3. cs' \in LockType /\ cs'.by = cs.by /\ cs'.at \in {"reput", "load"}
      <4>1. CASE cs' = [cs EXCEPT !.at = "reput"]
        BY <2>1, <4>1, LockUpdateTyped
      <4>2. CASE cs' = [cs EXCEPT !.at = "load", !.lost = Head(queue).events]
        BY <3>1, <4>2 DEF TypeOK, LockType
      <4> QED
        BY <3>2, <4>1, <4>2
    <3>4. dropped' \in Events
      <4>1. dropped \in Events
        BY DEF TypeOK
      <4>2. dropped' = dropped \/ dropped' = dropped \cup Head(queue).events
        BY <3>2
      <4>3. dropped \cup Head(queue).events \in Events
        BY <3>1, <4>1, EventsFacts
      <4> QED
        BY <4>1, <4>2, <4>3
    <3> QED
      BY <1>3, <2>1, <2>3, <3>3, <3>4, TailTyped DEF FlushEvict, TypeOK
  <2> QED
    BY <2>2, <2>3
<1>4. ASSUME FlushReput
      PROVE  TypeOK'
  <2>1. cs.batch \in Batch \cup {Sentinel} /\ cs.batch.events \in Events
    BY BatchFacts DEF TypeOK, LockType
  <2>2. CASE ~Full(queue)
    BY <1>4, <2>1, <2>2, PutTyped, EndFlushTyped DEF FlushReput, TypeOK
  <2>3. CASE Full(queue)
    BY <1>4, <2>3, DropFlushedTyped DEF FlushReput, TypeOK
  <2> QED
    BY <2>2, <2>3
<1>5. ASSUME FlushCountLoad
      PROVE  TypeOK'
  BY <1>5 DEF FlushCountLoad, TypeOK, LockType
<1>6. ASSUME FlushCountStore
      PROVE  TypeOK'
  <2>1. droppedCount' \in Nat
    BY <1>6, EventsFacts DEF FlushCountStore, TypeOK, LockType
  <2>2. CASE cs.batch = Sentinel
    BY <1>6, <2>1, <2>2, EndFlushTyped DEF FlushCountStore, TypeOK
  <2>3. CASE cs.batch # Sentinel
    <3>1. cs' \in LockType /\ cs'.by = cs.by /\ cs'.at = "reput"
      <4>1. cs \in LockType /\ {} \in Events
        BY EventsFacts DEF TypeOK
      <4>2. cs' = [cs EXCEPT !.at = "reput", !.count = 0, !.lost = {}]
        BY <1>6, <2>3 DEF FlushCountStore
      <4> QED
        BY <4>1, <4>2 DEF LockType
    <3> QED
      BY <1>6, <2>1, <2>3, <3>1 DEF FlushCountStore, TypeOK
  <2> QED
    BY <2>2, <2>3
<1>7. ASSUME WorkerStep
      PROVE  TypeOK'
  <2>1. CASE WorkerGet
    <3>1. queue # <<>>
      BY <2>1 DEF WorkerGet
    <3>2. worker' \in WorkerType
      <4>1. [Idle EXCEPT !.at = "sentinel"] \in WorkerType
        BY RecordsTyped DEF WorkerType
      <4>2. [Idle EXCEPT !.at = "write", !.batch = Head(queue)] \in WorkerType
        BY <3>1, TailTyped, RecordsTyped DEF WorkerType
      <4> QED
        BY <2>1, <4>1, <4>2 DEF WorkerGet
    <3> QED
      BY <2>1, <3>1, <3>2, TailTyped DEF WorkerGet, TypeOK
  <2>2. CASE WorkerGetTimeout
    BY <2>2 DEF WorkerGetTimeout, TypeOK, WorkerType
  <2>3. CASE WorkerOnEmpty
    BY <2>3 DEF WorkerOnEmpty, TypeOK, WorkerType
  <2>4. worker.batch.events \in Events
    BY BatchFacts DEF TypeOK, WorkerType
  <2>5. Idle \in WorkerType
    BY WriterAssumption DEF Idle, WorkerType
  <2>6. CASE WorkerWriteOk
    BY <2>4, <2>5, <2>6, EventsFacts DEF WorkerWriteOk, TypeOK
  <2>7. CASE WorkerWriteFails
    <3>1. worker' \in WorkerType
      <4>1. worker.attempt < MaxRetries => worker.attempt + 1 \in 0 .. MaxRetries
        BY WriterAssumption DEF TypeOK, WorkerType
      <4> QED
        BY <2>7, <4>1 DEF WorkerWriteFails, TypeOK, WorkerType
    <3> QED
      BY <2>4, <2>7, <3>1, EventsFacts DEF WorkerWriteFails, TypeOK
  <2>8. CASE WorkerCountLoad
    BY <2>8 DEF WorkerCountLoad, TypeOK, WorkerType
  <2>9. CASE WorkerCountStore
    <3>1. droppedCount' \in Nat
      BY <2>4, <2>9, EventsFacts DEF WorkerCountStore, TypeOK, WorkerType
    <3> QED
      BY <2>5, <2>9, <3>1 DEF WorkerCountStore, TypeOK
  <2> QED
    BY <1>7, <2>1, <2>2, <2>3, <2>6, <2>7, <2>8, <2>9 DEF WorkerStep
<1>8. ASSUME TimerStep
      PROVE  TypeOK'
  <2>1. CASE TimerFlush /\ current.events # {}
    <3>1. current \in Batch
      BY <2>1, BatchFacts DEF TypeOK
    <3>2. cs' = FlushOf("timer", current, Nobody) /\ current' = Detached(current)
      BY <2>1 DEF TimerFlush
    <3>3. cs' \in LockType /\ cs'.by = "timer" /\ cs'.at = "put"
      BY <3>1, <3>2, FlushTyped
    <3>4. current' \in Batch
      BY <3>1, <3>2, BatchFacts
    <3> QED
      BY <2>1, <3>3, <3>4, WriterAssumption DEF TimerFlush, TypeOK
  <2>2. CASE ~(TimerFlush /\ current.events # {})
    BY <1>8, <2>2
       DEF TimerStep, TimerFires, TimerFlush, TimerCheck, TimerCreate, TypeOK,
           TimerType
  <2> QED
    BY <2>1, <2>2
<1>9. ASSUME NEW s \in Stoppers, StopStep(s)
      PROVE  TypeOK'
  <2>1. stop[s] \in StopType /\ Len(accepted) \in Nat
    BY DEF TypeOK
  <2>2. CASE StopFlush(s)
    <3>1. stop' \in [Stoppers -> StopType]
      <4>1. [stop[s] EXCEPT !.queued = Len(accepted)] \in StopType
        BY <2>1 DEF StopType
      <4>2. [stop[s] EXCEPT !.at = "sentinel", !.queued = Len(accepted)] \in StopType
        BY <2>1 DEF StopType
      <4>3. \/ stop' = [stop EXCEPT ![s] = [stop[s] EXCEPT !.queued = Len(accepted)]]
            \/ stop' = [stop EXCEPT ![s] = [stop[s] EXCEPT !.at = "sentinel",
                                                  !.queued = Len(accepted)]]
        BY <2>2 DEF StopFlush
      <4> QED
        BY <4>1, <4>2, <4>3 DEF TypeOK
    <3>2. CASE current.events # {}
      <4>1. current \in Batch
        BY <3>2, BatchFacts DEF TypeOK
      <4>2. cs' = FlushOf(s, current, Nobody) /\ current' = Detached(current)
        BY <2>2, <3>2 DEF StopFlush
      <4>3. cs' \in LockType /\ cs'.by = s /\ cs'.at = "put"
        BY <4>1, <4>2, FlushTyped
      <4>4. current' \in Batch
        BY <4>1, <4>2, BatchFacts
      <4> QED
        BY <2>2, <3>1, <4>3, <4>4, WriterAssumption DEF StopFlush, TypeOK
    <3>3. CASE current.events = {}
      BY <2>2, <3>1, <3>3 DEF StopFlush, TypeOK
    <3> QED
      BY <3>2, <3>3
  <2>3. CASE StopSentinel(s)
    <3>1. stop' \in [Stoppers -> StopType]
      BY <2>1, <2>3 DEF StopSentinel, TypeOK, StopType
    <3> QED
      BY <2>3, <3>1, PutTyped DEF StopSentinel, TypeOK
  <2>4. CASE StopCheck(s)
    BY <2>1, <2>4 DEF StopCheck, TypeOK, StopType
  <2>5. CASE StopSet(s)
    BY <2>1, <2>5 DEF StopSet, TypeOK, StopType
  <2>6. CASE StopCancelTimer(s)
    BY <2>1, <2>6 DEF StopCancelTimer, TypeOK, StopType, TimerType
  <2>7. CASE StopJoin(s)
    BY <2>1, <2>7 DEF StopJoin, TypeOK, StopType
  <2>8. CASE Deadline(s)
    BY <2>1, <2>8 DEF Deadline, TypeOK, StopType
  <2> QED
    BY <1>9, <2>2, <2>3, <2>4, <2>5, <2>6, <2>7, <2>8 DEF StopStep
<1>10. CASE UNCHANGED vars
  BY <1>10 DEF vars, TypeOK
<1> QED
  BY <1>1, <1>2, <1>3, <1>4, <1>5, <1>6, <1>7, <1>8, <1>9, <1>10
     DEF Next, FlushStep

(* The type invariant holds in every reachable state, for every choice of   *)
(* the writer's sizes and policy.                                           *)
THEOREM TypeCorrect == Spec => []TypeOK
<1>1. Init => TypeOK
  BY TypeInit
<1>2. TypeOK /\ [Next]_vars => TypeOK'
  BY TypeStep
<1> QED
  BY <1>1, <1>2, PTL DEF Spec
-----------------------------------------------------------------------------
(***************************************************************************)
(* Conservation and order.  The stages of the pipeline are sets of events:  *)
(* F the worker's, Q the queue's, H the batch in a flush's hand, C the      *)
(* current batch's; W and D are what was written and dropped, n the number  *)
(* of accepted events.                                                      *)
(***************************************************************************)
Older(S, T) == \A e \in S, f \in T : e < f

Stages(F, Q, H, C, W, D, n) ==
    /\ W \cup D \cup F \cup Q \cup H \cup C = 1 .. n
    /\ W \cap D = {}
    /\ (W \cup D) \cap (F \cup Q \cup H \cup C) = {}
    /\ Older(F, Q \cup H \cup C)
    /\ Older(Q, H \cup C)
    /\ Older(H, C)
    /\ Older(W, F \cup Q \cup H \cup C)

QueueInOrder ==
    \A i, j \in DOMAIN queue : i < j => Older(queue[i].events, queue[j].events)

(* While a flush runs the current batch is the empty one it left behind;    *)
(* while none runs, none has a batch in its hand.                           *)
OneHand ==
    /\ cs.by # Nobody => current.events = {}
    /\ cs.by = Nobody => cs.batch.events = {}

(* The inductive invariant: that the written events are older than all that *)
(* are still under way is what makes the next delivery come in order.       *)
Conserved ==
    /\ Stages(InFlight, QueuedEvents, HandEvents, current.events,
              written, dropped, Len(accepted))
    /\ QueueInOrder
    /\ OneHand

IInv == TypeOK /\ Conserved

(* The moves of events between stages. *)
LEMMA MoveAccept ==
    ASSUME NEW F, NEW Q, NEW C, NEW W, NEW D, NEW n \in Nat,
           Stages(F, Q, {}, C, W, D, n)
    PROVE  /\ Stages(F, Q, {}, C \cup {n + 1}, W, D, n + 1)
           /\ Stages(F, Q, C \cup {n + 1}, {}, W, D, n + 1)
<1>1. 1 .. (n + 1) = (1 .. n) \cup {n + 1}
  OBVIOUS
<1>2. \A e \in 1 .. n : e \in Nat /\ e < n + 1
  OBVIOUS
<1>3. n + 1 \notin 1 .. n
  OBVIOUS
<1> QED
  BY <1>1, <1>2, <1>3 DEF Stages, Older

LEMMA MoveDetach ==
    ASSUME NEW F, NEW Q, NEW C, NEW W, NEW D, NEW n,
           Stages(F, Q, {}, C, W, D, n)
    PROVE  Stages(F, Q, C, {}, W, D, n)
  BY DEF Stages, Older

LEMMA MovePut ==
    ASSUME NEW F, NEW Q, NEW H, NEW W, NEW D, NEW n,
           Stages(F, Q, H, {}, W, D, n)
    PROVE  Stages(F, Q \cup H, {}, {}, W, D, n)
  BY DEF Stages, Older

LEMMA MoveDropHand ==
    ASSUME NEW F, NEW Q, NEW H, NEW C, NEW W, NEW D, NEW n,
           Stages(F, Q, H, C, W, D, n)
    PROVE  Stages(F, Q, {}, C, W, D \cup H, n)
<1>1. W \cap H = {} /\ H \cap (F \cup Q \cup C) = {}
  <2>1. \A e \in H : e \in 1 .. n
    BY DEF Stages
  <2>2. \A e \in 1 .. n : ~(e < e)
    OBVIOUS
  <2> QED
    BY <2>1, <2>2 DEF Stages, Older
<1> QED
  BY <1>1 DEF Stages, Older

LEMMA MoveEvict ==
    ASSUME NEW F, NEW X, NEW Q, NEW H, NEW C, NEW W, NEW D, NEW n,
           Older(X, Q), Stages(F, X \cup Q, H, C, W, D, n)
    PROVE  Stages(F, Q, H, C, W, D \cup X, n)
<1>1. W \cap X = {} /\ X \cap (F \cup Q \cup H \cup C) = {}
  <2>1. \A e \in X : e \in 1 .. n
    BY DEF Stages
  <2>2. \A e \in 1 .. n : ~(e < e)
    OBVIOUS
  <2> QED
    BY <2>1, <2>2 DEF Stages, Older
<1> QED
  BY <1>1 DEF Stages, Older

LEMMA MoveGet ==
    ASSUME NEW X, NEW Q, NEW H, NEW C, NEW W, NEW D, NEW n,
           Older(X, Q), Stages({}, X \cup Q, H, C, W, D, n)
    PROVE  Stages(X, Q, H, C, W, D, n)
  BY DEF Stages, Older

LEMMA MoveWrite ==
    ASSUME NEW F, NEW Q, NEW H, NEW C, NEW W, NEW D, NEW n,
           Stages(F, Q, H, C, W, D, n)
    PROVE  /\ Stages({}, Q, H, C, W \cup F, D, n)
           /\ Stages({}, Q, H, C, W, D \cup F, n)
<1>1. (W \cup D) \cap F = {} /\ F \cap (Q \cup H \cup C) = {}
  <2>1. \A e \in F : e \in 1 .. n
    BY DEF Stages
  <2>2. \A e \in 1 .. n : ~(e < e)
    OBVIOUS
  <2> QED
    BY <2>1, <2>2 DEF Stages, Older
<1> QED
  BY <1>1 DEF Stages, Older

(* The queue's events after a put and after a get. *)
LEMMA QueuePut ==
    ASSUME TypeOK, QueueInOrder, NEW b \in Batch \cup {Sentinel},
           queue' = Append(queue, b), Older(QueuedEvents, b.events)
    PROVE  QueuedEvents' = QueuedEvents \cup b.events /\ QueueInOrder'
<1>1. /\ Len(queue) \in Nat /\ DOMAIN queue = 1 .. Len(queue)
      /\ DOMAIN queue' = 1 .. (Len(queue) + 1)
      /\ \A i \in DOMAIN queue : queue'[i] = queue[i]
      /\ queue'[Len(queue) + 1] = b
  BY DEF TypeOK
<1>2. QueuedEvents' = QueuedEvents \cup b.events
  BY <1>1 DEF QueuedEvents
<1>3. ASSUME NEW i \in DOMAIN queue', NEW j \in DOMAIN queue', i < j
      PROVE  Older(queue'[i].events, queue'[j].events)
  <2>1. i \in DOMAIN queue
    BY <1>1, <1>3
  <2>2. CASE j \in DOMAIN queue
    BY <1>1, <1>3, <2>1, <2>2 DEF QueueInOrder
  <2>3. CASE j = Len(queue) + 1
    BY <1>1, <2>1, <2>3 DEF QueuedEvents, Older
  <2> QED
    BY <1>1, <2>2, <2>3
<1> QED
  BY <1>2, <1>3 DEF QueueInOrder

LEMMA QueueGet ==
    ASSUME TypeOK, QueueInOrder, queue # <<>>, queue' = Tail(queue)
    PROVE  /\ QueuedEvents = Head(queue).events \cup QueuedEvents'
           /\ Older(Head(queue).events, QueuedEvents')
           /\ QueueInOrder'
<1>1. /\ Len(queue) \in Nat \ {0} /\ DOMAIN queue = 1 .. Len(queue)
      /\ DOMAIN queue' = 1 .. (Len(queue) - 1)
      /\ \A i \in DOMAIN queue' : queue'[i] = queue[i + 1]
      /\ Head(queue) = queue[1]
  BY DEF TypeOK
<1>2. QueuedEvents' = UNION {queue[i + 1].events : i \in DOMAIN queue'}
  BY <1>1 DEF QueuedEvents
<1>3. \A i \in DOMAIN queue : i = 1 \/ (i - 1 \in DOMAIN queue' /\ queue'[i - 1] = queue[i])
  BY <1>1
<1>4. QueuedEvents = Head(queue).events \cup QueuedEvents'
  <2>1. ASSUME NEW e \in QueuedEvents
        PROVE  e \in Head(queue).events \cup QueuedEvents'
    <3>1. PICK i \in DOMAIN queue : e \in queue[i].events
      BY DEF QueuedEvents
    <3>2. CASE i = 1
      BY <1>1, <3>1, <3>2
    <3>3. CASE i - 1 \in DOMAIN queue' /\ queue'[i - 1] = queue[i]
      BY <3>1, <3>3 DEF QueuedEvents
    <3> QED
      BY <1>3, <3>2, <3>3
  <2>2. ASSUME NEW e \in Head(queue).events \cup QueuedEvents'
        PROVE  e \in QueuedEvents
    <3>1. CASE e \in Head(queue).events
      BY <1>1, <3>1 DEF QueuedEvents
    <3>2. CASE e \in QueuedEvents'
      <4>1. PICK i \in DOMAIN queue' : e \in queue[i + 1].events
        BY <1>2, <3>2
      <4>2. i + 1 \in DOMAIN queue
        BY <1>1
      <4> QED
        BY <4>1, <4>2 DEF QueuedEvents
    <3> QED
      BY <3>1, <3>2
  <2> QED
    BY <2>1, <2>2
<1>5. Older(Head(queue).events, QueuedEvents')
  BY <1>1, <1>2 DEF QueueInOrder, Older
<1>6. QueueInOrder'
  BY <1>1 DEF QueueInOrder
<1> QED
  BY <1>4, <1>5, <1>6

(* write()'s append, when no flush has a batch in its hand. *)
LEMMA AppendAccounted ==
    ASSUME TypeOK, NEW task \in Tasks, NEW base \in Batch,
           NEW Q, NEW F,
           Stages(F, Q, {}, base.events, written, dropped, Len(accepted)),
           AppendEvent(task, base)
    PROVE  /\ Stages(F, Q, HandEvents', current'.events, written, dropped,
                     Len(accepted'))
           /\ OneHand'
<1> DEFINE grown == [base EXCEPT !.events = @ \cup {Len(accepted) + 1}]
<1>1. Len(accepted) \in Nat /\ Len(accepted') = Len(accepted) + 1
  BY DEF TypeOK, AppendEvent
<1>2. grown \in Batch
  BY <1>1, EventsFacts DEF Batch
<1>0. grown.events = base.events \cup {Len(accepted) + 1}
  BY DEF Batch
<1> HIDE DEF grown
<1>3. CASE current' = Detached(grown) /\ cs' = FlushOf("write", grown, Nobody)
  <2>1. current'.events = {}
    BY <1>2, <1>3, BatchFacts
  <2>2. FlushOf("write", grown, Nobody).batch = grown
        /\ FlushOf("write", grown, Nobody).by = "write"
    BY DEF FlushOf, Free
  <2>3. HandEvents' = base.events \cup {Len(accepted) + 1} /\ cs'.by # Nobody
    BY <1>0, <1>3, <2>2, WriterAssumption DEF HandEvents
  <2>4. Stages(F, Q, base.events \cup {Len(accepted) + 1}, {}, written, dropped,
               Len(accepted) + 1)
    <3> HIDE DEF Stages
    <3> QED
      BY <1>1, MoveAccept, Zenon
  <2> QED
    BY <1>1, <2>1, <2>3, <2>4 DEF OneHand
<1>4. CASE current' = grown /\ cs' = Free
  <2>1. HandEvents' = {} /\ cs'.by = Nobody /\ cs'.batch.events = {}
    BY <1>4 DEF HandEvents, Free, Sentinel
  <2> QED
    BY <1>0, <1>1, <1>4, <2>1, MoveAccept DEF OneHand
<1> QED
  BY <1>3, <1>4 DEF AppendEvent, grown

(* The end of a flush whose batch is in the queue or dropped. *)
LEMMA EndFlushAccounted ==
    ASSUME TypeOK, NEW Q, NEW F,
           Stages(F, Q, {}, {}, written, dropped, Len(accepted)),
           current.events = {},
           EndFlush
    PROVE  /\ Stages(F, Q, HandEvents', current'.events, written, dropped,
                     Len(accepted'))
           /\ OneHand'
<1>1. CASE cs.append # Nobody
  <2>1. cs.append \in Tasks
    BY <1>1 DEF TypeOK, LockType
  <2>2. NewBatch(cs.append) \in Batch /\ NewBatch(cs.append).events = {}
    BY <2>1, BatchFacts DEF NewBatch
  <2>3. AppendEvent(cs.append, NewBatch(cs.append))
    BY <1>1 DEF EndFlush
  <2> QED
    BY <2>1, <2>2, <2>3, AppendAccounted
<1>2. CASE cs.append = Nobody
  <2>1. cs' = Free /\ accepted' = accepted /\ current' = current
    BY <1>2 DEF EndFlush
  <2>2. HandEvents' = {} /\ cs'.by = Nobody /\ cs'.batch.events = {}
    BY <2>1 DEF HandEvents, Free, Sentinel
  <2> QED
    BY <2>1, <2>2 DEF OneHand
<1> QED
  BY <1>1, <1>2

(* Steps that move no event. *)
LEMMA StagesKept ==
    ASSUME IInv, UNCHANGED <<accepted, written, dropped, current, queue>>,
           InFlight' = InFlight, HandEvents' = HandEvents, OneHand'
    PROVE  Conserved'
<1>1. QueuedEvents' = QueuedEvents
  BY DEF QueuedEvents
<1> QED
  BY <1>1 DEF IInv, Conserved, QueueInOrder

LEMMA IInit == Init => IInv
<1> SUFFICES ASSUME Init
             PROVE  IInv
  OBVIOUS
<1>1. /\ InFlight = {} /\ QueuedEvents = {} /\ HandEvents = {}
      /\ current.events = {} /\ Len(accepted) = 0
  BY DEF Init, InFlight, QueuedEvents, HandEvents, Idle, Free, Sentinel
<1>2. Stages({}, {}, {}, {}, {}, {}, 0)
  BY DEF Stages, Older
<1>3. QueueInOrder /\ OneHand
  BY <1>1 DEF Init, QueueInOrder, OneHand, HandEvents
<1> QED
  BY <1>1, <1>2, <1>3, TypeInit DEF IInv, Conserved, Init

LEMMA WriteAccounted ==
    ASSUME IInv, NEW task \in Tasks, Write(task)
    PROVE  Conserved'
<1>1. InFlight' = InFlight /\ QueuedEvents' = QueuedEvents /\ QueueInOrder'
      /\ UNCHANGED <<written, dropped>>
  BY DEF Write, InFlight, QueuedEvents, IInv, Conserved, QueueInOrder
<1>2. HandEvents = {}
  BY DEF Write, IInv, Conserved, OneHand, HandEvents
<1>3. CASE /\ current.events # {}
           /\ cs' = FlushOf("write", current, task)
           /\ current' = Detached(current)
           /\ UNCHANGED accepted
  <2>1. current \in Batch
    BY <1>3, BatchFacts DEF IInv, Conserved, TypeOK
  <2>2. HandEvents' = current.events /\ current'.events = {} /\ cs'.by = "write"
    BY <1>3, <2>1, FlushTyped, BatchFacts DEF HandEvents
  <2> QED
    BY <1>1, <1>2, <1>3, <2>2, MoveDetach, WriterAssumption DEF IInv, Conserved, OneHand
<1>4. CASE current.events = {} /\ AppendEvent(task, NewBatch(task))
  <2>1. NewBatch(task) \in Batch /\ NewBatch(task).events = {}
    BY BatchFacts DEF NewBatch
  <2> QED
    BY <1>1, <1>2, <1>4, <2>1, AppendAccounted DEF IInv, Conserved
<1>5. CASE current \in Batch /\ AppendEvent(task, current)
  BY <1>1, <1>2, <1>5, AppendAccounted DEF IInv, Conserved
<1> QED
  BY <1>3, <1>4, <1>5 DEF Write, IInv, Conserved, TypeOK

(* The flush's put, from either of the two put_nowait calls. *)
LEMMA PutAccounted ==
    ASSUME IInv, cs.by # Nobody, queue' = Append(queue, cs.batch), EndFlush,
           UNCHANGED <<worker, written, dropped>>
    PROVE  Conserved'
<1>1. InFlight' = InFlight
  BY DEF InFlight
<1>2. cs.batch \in Batch \cup {Sentinel} /\ current.events = {}
  BY DEF IInv, Conserved, TypeOK, LockType, OneHand
<1>3. Older(QueuedEvents, cs.batch.events)
  BY DEF IInv, Conserved, Stages, HandEvents, Older
<1>4. QueuedEvents' = QueuedEvents \cup HandEvents /\ QueueInOrder'
  BY <1>2, <1>3, QueuePut DEF IInv, Conserved, HandEvents
<1>5. Stages(InFlight, QueuedEvents', {}, {}, written, dropped, Len(accepted))
  BY <1>2, <1>4, MovePut DEF IInv, Conserved
<1> QED
  BY <1>1, <1>2, <1>4, <1>5, EndFlushAccounted DEF IInv, Conserved

(* The flushed batch is dropped. *)
LEMMA DropFlushedAccounted ==
    ASSUME IInv, cs.by # Nobody, DropFlushed,
           UNCHANGED <<worker, written, accepted, current, queue>>
    PROVE  Conserved'
<1>1. InFlight' = InFlight /\ QueuedEvents' = QueuedEvents /\ QueueInOrder'
  BY DEF InFlight, QueuedEvents, IInv, Conserved, QueueInOrder
<1>2. cs'.batch = Sentinel /\ cs'.by = cs.by
  BY DEF DropFlushed, IInv, Conserved, TypeOK, LockType
<1>3. HandEvents' = {} /\ dropped' = dropped \cup HandEvents
  BY <1>2, BatchFacts DEF DropFlushed, HandEvents
<1>4. OneHand'
  BY <1>2 DEF IInv, Conserved, OneHand
<1> QED
  BY <1>1, <1>3, <1>4, MoveDropHand DEF IInv, Conserved

(* Every step keeps the inductive invariant. *)
LEMMA IStep == IInv /\ [Next]_vars => IInv'
<1> SUFFICES ASSUME IInv, [Next]_vars
             PROVE  IInv'
  OBVIOUS
<1>1. TypeOK'
  BY TypeStep DEF IInv, Conserved
<1>2. ASSUME NEW task \in Tasks, Write(task)
      PROVE  Conserved'
  BY <1>2, WriteAccounted
<1>3. ASSUME FlushPut
      PROVE  Conserved'
  <2>1. cs.by # Nobody
    BY <1>3 DEF FlushPut, IInv, Conserved, TypeOK
  <2>2. CASE ~Full(queue)
    BY <1>3, <2>1, <2>2, PutAccounted DEF FlushPut
  <2>3. CASE Full(queue) /\ DropOldest
    <3>1. HandEvents' = HandEvents /\ InFlight' = InFlight /\ OneHand'
      BY <1>3, <2>3 DEF FlushPut, IInv, Conserved, TypeOK, LockType, HandEvents, InFlight, OneHand
    <3> QED
      BY <1>3, <2>3, <3>1, StagesKept DEF FlushPut
  <2>4. CASE Full(queue) /\ ~DropOldest
    BY <1>3, <2>1, <2>4, DropFlushedAccounted DEF FlushPut
  <2> QED
    BY <2>2, <2>3, <2>4
<1>4. ASSUME FlushEvict
      PROVE  Conserved'
  <2>1. cs.by # Nobody
    BY <1>4 DEF FlushEvict, IInv, Conserved, TypeOK
  <2>2. CASE queue = <<>>
    BY <1>4, <2>1, <2>2, DropFlushedAccounted DEF FlushEvict
  <2>3. CASE queue # <<>>
    <3>1. /\ QueuedEvents = Head(queue).events \cup QueuedEvents'
          /\ Older(Head(queue).events, QueuedEvents')
          /\ QueueInOrder'
      BY <1>4, <2>3, QueueGet DEF FlushEvict, IInv, Conserved
    <3>2. Head(queue) = Sentinel => Head(queue).events = {}
      BY BatchFacts
    <3>3. dropped' = dropped \cup Head(queue).events
      BY <1>4, <2>3, <3>2 DEF FlushEvict
    <3>4. \/ cs' = [cs EXCEPT !.at = "reput"]
          \/ cs' = [cs EXCEPT !.at = "load", !.lost = Head(queue).events]
      BY <1>4, <2>3 DEF FlushEvict
    <3>5. cs'.batch = cs.batch /\ cs'.by = cs.by
      BY <3>4 DEF IInv, Conserved, TypeOK, LockType
    <3>6. /\ HandEvents' = HandEvents /\ InFlight' = InFlight /\ OneHand'
          /\ UNCHANGED <<accepted, written, current>>
      BY <1>4, <3>5 DEF FlushEvict, IInv, Conserved, HandEvents, InFlight, OneHand
    <3>7. Stages(InFlight, QueuedEvents', HandEvents, current.events, written,
                 dropped', Len(accepted))
      BY <3>1, <3>3, MoveEvict DEF IInv, Conserved
    <3> QED
      BY <3>1, <3>6, <3>7 DEF Conserved
  <2> QED
    BY <2>2, <2>3
<1>5. ASSUME FlushReput
      PROVE  Conserved'
  <2>1. cs.by # Nobody
    BY <1>5 DEF FlushReput, IInv, Conserved, TypeOK
  <2>2. CASE ~Full(queue)
    BY <1>5, <2>1, <2>2, PutAccounted DEF FlushReput
  <2>3. CASE Full(queue)
    BY <1>5, <2>1, <2>3, DropFlushedAccounted DEF FlushReput
  <2> QED
    BY <2>2, <2>3
<1>6. ASSUME FlushCountLoad
      PROVE  Conserved'
  <2>1. HandEvents' = HandEvents /\ InFlight' = InFlight /\ OneHand'
    BY <1>6 DEF FlushCountLoad, IInv, Conserved, TypeOK, LockType, HandEvents, InFlight, OneHand
  <2> QED
    BY <1>6, <2>1, StagesKept DEF FlushCountLoad
<1>7. ASSUME FlushCountStore
      PROVE  Conserved'
  <2>1. CASE cs.batch = Sentinel
    <3>1. HandEvents = {} /\ current.events = {} /\ EndFlush
      BY <1>7, <2>1, BatchFacts
         DEF FlushCountStore, HandEvents, IInv, Conserved, TypeOK, OneHand
    <3>2. InFlight' = InFlight /\ QueuedEvents' = QueuedEvents /\ QueueInOrder'
          /\ UNCHANGED <<written, dropped>>
      BY <1>7 DEF FlushCountStore, InFlight, QueuedEvents, IInv, Conserved, QueueInOrder
    <3> QED
      BY <3>1, <3>2, EndFlushAccounted DEF IInv, Conserved
  <2>2. CASE cs.batch # Sentinel
    <3>1. cs'.batch = cs.batch /\ cs'.by = cs.by
      BY <1>7, <2>2 DEF FlushCountStore, IInv, Conserved, TypeOK, LockType
    <3>2. HandEvents' = HandEvents /\ InFlight' = InFlight /\ OneHand'
      BY <1>7, <2>2, <3>1
         DEF FlushCountStore, HandEvents, InFlight, IInv, Conserved, OneHand
    <3> QED
      BY <1>7, <2>2, <3>2, StagesKept DEF FlushCountStore
  <2> QED
    BY <2>1, <2>2
<1>8. ASSUME WorkerStep
      PROVE  Conserved'
  <2>1. HandEvents' = HandEvents /\ OneHand' /\ UNCHANGED <<accepted, current>>
    BY <1>8
       DEF WorkerStep, WorkerGet, WorkerGetTimeout, WorkerOnEmpty, WorkerWriteOk,
           WorkerWriteFails, WorkerCountLoad, WorkerCountStore, HandEvents,
           IInv, Conserved, OneHand
  <2>2. CASE WorkerGet
    <3>1. /\ QueuedEvents = Head(queue).events \cup QueuedEvents'
          /\ Older(Head(queue).events, QueuedEvents')
          /\ QueueInOrder'
      BY <2>2, QueueGet DEF WorkerGet, IInv, Conserved
    <3>2. InFlight = {} /\ UNCHANGED <<written, dropped>>
      BY <2>2 DEF WorkerGet, InFlight
    <3>3. InFlight' = Head(queue).events
      BY <2>2, BatchFacts DEF WorkerGet, InFlight, Idle
    <3> QED
      BY <2>1, <3>1, <3>2, <3>3, MoveGet DEF IInv, Conserved
  <2>3. CASE WorkerGetTimeout \/ WorkerOnEmpty \/ WorkerCountLoad \/ WorkerCountStore
    <3>1. worker.at # "write" /\ worker'.at # "write"
      <4>1. worker \in WorkerType
        BY DEF IInv, TypeOK
      <4>2. CASE WorkerGetTimeout \/ WorkerOnEmpty
        BY <4>1, <4>2 DEF WorkerGetTimeout, WorkerOnEmpty, WorkerType
      <4>3. CASE WorkerCountLoad
        BY <4>1, <4>3 DEF WorkerCountLoad, WorkerType
      <4>4. CASE WorkerCountStore
        BY <4>4 DEF WorkerCountStore, Idle
      <4> QED
        BY <2>3, <4>2, <4>3, <4>4
    <3>2. InFlight' = InFlight /\ UNCHANGED <<written, dropped, queue>>
      BY <2>3, <3>1
         DEF WorkerGetTimeout, WorkerOnEmpty, WorkerCountLoad, WorkerCountStore,
             InFlight
    <3> QED
      BY <2>1, <3>2, StagesKept
  <2>4. CASE WorkerWriteOk
    <3>1. InFlight = worker.batch.events /\ InFlight' = {}
      BY <2>4 DEF WorkerWriteOk, InFlight, Idle
    <3>2. QueuedEvents' = QueuedEvents /\ QueueInOrder'
          /\ written' = written \cup InFlight /\ dropped' = dropped
      BY <2>4, <3>1 DEF WorkerWriteOk, QueuedEvents, IInv, Conserved, QueueInOrder
    <3> QED
      BY <2>1, <3>1, <3>2, MoveWrite DEF IInv, Conserved
  <2>5. CASE WorkerWriteFails /\ worker.attempt < MaxRetries
    <3>1. InFlight' = InFlight /\ UNCHANGED <<written, dropped, queue>>
      BY <2>5 DEF WorkerWriteFails, InFlight, IInv, Conserved, TypeOK, WorkerType
    <3> QED
      BY <2>1, <3>1, StagesKept
  <2>6. CASE WorkerWriteFails /\ ~(worker.attempt < MaxRetries)
    <3>1. InFlight = worker.batch.events /\ InFlight' = {}
      BY <2>6 DEF WorkerWriteFails, InFlight, IInv, Conserved, TypeOK, WorkerType
    <3>2. QueuedEvents' = QueuedEvents /\ QueueInOrder'
          /\ dropped' = dropped \cup InFlight /\ written' = written
      BY <2>6, <3>1 DEF WorkerWriteFails, QueuedEvents, IInv, Conserved, QueueInOrder
    <3> QED
      BY <2>1, <3>1, <3>2, MoveWrite DEF IInv, Conserved
  <2> QED
    BY <1>8, <2>2, <2>3, <2>4, <2>5, <2>6 DEF WorkerStep
<1>9. ASSUME TimerFlush \/ (\E s \in Stoppers : StopFlush(s)),
             current.events # {}
      PROVE  Conserved'
  <2>1. PICK h \in Stoppers \cup {"timer"} : cs' = FlushOf(h, current, Nobody)
    BY <1>9 DEF TimerFlush, StopFlush
  <2>2. /\ cs.by = Nobody /\ current' = Detached(current)
        /\ UNCHANGED <<accepted, written, dropped, queue, worker>>
    BY <1>9 DEF TimerFlush, StopFlush
  <2>3. current \in Batch
    BY <1>9, BatchFacts DEF IInv, Conserved, TypeOK
  <2>4. cs'.by # Nobody /\ HandEvents' = current.events /\ current'.events = {}
    BY <2>1, <2>2, <2>3, FlushTyped, BatchFacts, WriterAssumption DEF HandEvents
  <2>5. HandEvents = {} /\ InFlight' = InFlight /\ QueuedEvents' = QueuedEvents
        /\ QueueInOrder'
    BY <2>2 DEF IInv, Conserved, OneHand, HandEvents, InFlight, QueuedEvents, QueueInOrder
  <2> QED
    BY <2>2, <2>4, <2>5, MoveDetach DEF IInv, Conserved, OneHand
<1>10. ASSUME UNCHANGED <<accepted, written, dropped, current, queue, cs, worker>>
       PROVE  Conserved'
  <2>1. InFlight' = InFlight /\ HandEvents' = HandEvents /\ OneHand'
    BY <1>10 DEF InFlight, HandEvents, IInv, Conserved, OneHand
  <2> QED
    BY <1>10, <2>1, StagesKept
<1>11. ASSUME TimerStep
       PROVE  Conserved'
  BY <1>9, <1>10, <1>11
     DEF TimerStep, TimerFires, TimerFlush, TimerCheck, TimerCreate
<1>12. ASSUME NEW s \in Stoppers, StopStep(s)
       PROVE  Conserved'
  <2>1. CASE StopSentinel(s) /\ queue' = Append(queue, Sentinel)
    <3>1. QueuedEvents' = QueuedEvents /\ QueueInOrder'
      BY <2>1, QueuePut, BatchFacts DEF IInv, Conserved, Older
    <3>2. InFlight' = InFlight /\ HandEvents' = HandEvents /\ OneHand'
          /\ UNCHANGED <<accepted, written, dropped, current>>
      BY <2>1 DEF StopSentinel, InFlight, HandEvents, IInv, Conserved, OneHand
    <3> QED
      BY <3>1, <3>2 DEF IInv, Conserved
  <2>2. CASE ~(StopSentinel(s) /\ queue' = Append(queue, Sentinel))
    BY <1>9, <1>10, <1>12, <2>2
       DEF StopStep, StopCheck, StopSet, StopCancelTimer, StopFlush,
           StopSentinel, StopJoin, Deadline
  <2> QED
    BY <2>1, <2>2
<1>13. ASSUME UNCHANGED vars
       PROVE  Conserved'
  <2>1. UNCHANGED <<accepted, written, dropped, current, queue, cs, worker>>
    BY <1>13 DEF vars
  <2> QED
    BY <1>10, <2>1
<1>14. Conserved'
  BY <1>2, <1>3, <1>4, <1>5, <1>6, <1>7, <1>8, <1>11, <1>12, <1>13
     DEF Next, FlushStep
<1> QED
  BY <1>1, <1>14 DEF IInv, Conserved

LEMMA IInvariant == Spec => []IInv
<1>1. Init => IInv
  BY IInit
<1>2. IInv /\ [Next]_vars => IInv'
  BY IStep
<1> QED
  BY <1>1, <1>2, PTL DEF Spec

(* No accepted event is lost or doubled by any race between write(), the    *)
(* timer, stop() and the worker: it is written, dropped, or in one stage.   *)
THEOREM Conservation == Spec => []EveryEventAccounted
<1>1. IInv => EveryEventAccounted
  BY DEF IInv, Conserved, Stages, EveryEventAccounted, Settled, Live
<1> QED
  BY <1>1, IInvariant, PTL

(* The stages of the pipeline are in the order of acceptance. *)
THEOREM OrderInPipeline == Spec => []PipelineInOrder
<1>1. IInv => PipelineInOrder
  BY DEF IInv, Conserved, Stages, QueueInOrder, Older, PipelineInOrder
<1> QED
  BY <1>1, IInvariant, PTL
-----------------------------------------------------------------------------
(* Refinement of the ledger. *)
LEMMA EndFlushAccepts ==
    ASSUME TypeOK, EndFlush
    PROVE  Len(accepted') = Len(accepted) \/ Len(accepted') = Len(accepted) + 1
<1>1. accepted \in Seq(Tasks)
  BY DEF TypeOK
<1>2. accepted' = accepted \/ accepted' = Append(accepted, cs.append)
  BY DEF EndFlush, AppendEvent
<1>3. cs.append \in Tasks \/ accepted' = accepted
  BY DEF TypeOK, LockType, EndFlush
<1> QED
  BY <1>1, <1>2, <1>3

(* A batch of outstanding events is dropped. *)
LEMMA DropIsLedgerStep ==
    ASSUME IInv, NEW X, X \subseteq Live, dropped' = dropped \cup X,
           UNCHANGED <<accepted, written>>
    PROVE  Ledger!Drop
<1>1. X \subseteq Ledger!Outstanding
  BY DEF IInv, Conserved, Stages, Live, Ledger!Outstanding
<1> QED
  BY <1>1 DEF Ledger!Drop

LEMMA LedgerStep == IInv /\ [Next]_vars => [Ledger!LedgerNext]_(Ledger!ledger)
<1> SUFFICES ASSUME IInv, [Next]_vars
             PROVE  [Ledger!LedgerNext]_(Ledger!ledger)
  OBVIOUS
<1>1. TypeOK /\ accepted \in Seq(Tasks)
  BY DEF IInv, TypeOK
<1>2. ASSUME UNCHANGED <<written, dropped>>,
             Len(accepted') = Len(accepted) \/ Len(accepted') = Len(accepted) + 1
      PROVE  [Ledger!LedgerNext]_(Ledger!ledger)
  BY <1>2 DEF Ledger!LedgerNext, Ledger!Accept, Ledger!ledger
<1>3. ASSUME NEW X, X \subseteq Live, dropped' = dropped \cup X,
             UNCHANGED <<accepted, written>>
      PROVE  [Ledger!LedgerNext]_(Ledger!ledger)
  BY <1>3, DropIsLedgerStep DEF Ledger!LedgerNext
<1>4. ASSUME DropFlushed, UNCHANGED <<accepted, written>>
      PROVE  [Ledger!LedgerNext]_(Ledger!ledger)
  BY <1>3, <1>4 DEF DropFlushed, Live, HandEvents
<1>5. ASSUME NEW task \in Tasks, Write(task)
      PROVE  [Ledger!LedgerNext]_(Ledger!ledger)
  <2>1. Len(accepted') = Len(accepted) \/ Len(accepted') = Len(accepted) + 1
    BY <1>1, <1>5 DEF Write, AppendEvent
  <2> QED
    BY <1>2, <1>5, <2>1 DEF Write
<1>6. ASSUME FlushStep
      PROVE  [Ledger!LedgerNext]_(Ledger!ledger)
  <2>1. CASE DropFlushed /\ UNCHANGED <<accepted, written>>
    BY <1>4, <2>1
  <2>2. CASE EndFlush /\ UNCHANGED <<written, dropped>>
    BY <1>1, <1>2, <2>2, EndFlushAccepts
  <2>3. CASE UNCHANGED <<accepted, written, dropped>>
    BY <1>2, <2>3
  <2>4. CASE FlushEvict /\ queue # <<>> /\ dropped' = dropped \cup Head(queue).events
    <3>1. Head(queue).events \subseteq Live
      BY <1>1, <2>4 DEF Live, QueuedEvents
    <3> QED
      BY <1>3, <2>4, <3>1 DEF FlushEvict
  <2> QED
    BY <1>6, <2>1, <2>2, <2>3, <2>4
       DEF FlushStep, FlushPut, FlushEvict, FlushReput, FlushCountLoad, FlushCountStore
<1>7. ASSUME WorkerStep
      PROVE  [Ledger!LedgerNext]_(Ledger!ledger)
  <2>1. CASE WorkerWriteOk
    <3>1. InFlight = worker.batch.events
      BY <2>1 DEF WorkerWriteOk, InFlight
    <3>2. InFlight \subseteq Ledger!Outstanding
      BY DEF IInv, Conserved, Stages, Ledger!Outstanding
    <3>3. \A e \in InFlight, w \in written : w < e
      BY DEF IInv, Conserved, Stages, Older
    <3>4. Ledger!Deliver
      BY <2>1, <3>1, <3>2, <3>3 DEF WorkerWriteOk, Ledger!Deliver
    <3> QED
      BY <3>4 DEF Ledger!LedgerNext
  <2>2. CASE WorkerWriteFails /\ ~(worker.attempt < MaxRetries)
    <3>1. worker.batch.events \subseteq Live
      BY <2>2 DEF WorkerWriteFails, Live, InFlight
    <3> QED
      BY <1>3, <2>2, <3>1 DEF WorkerWriteFails
  <2>3. CASE UNCHANGED <<accepted, written, dropped>>
    BY <1>2, <2>3
  <2> QED
    BY <1>7, <2>1, <2>2, <2>3
       DEF WorkerStep, WorkerGet, WorkerGetTimeout, WorkerOnEmpty,
           WorkerWriteFails, WorkerCountLoad, WorkerCountStore
<1>8. ASSUME UNCHANGED <<accepted, written, dropped>>
      PROVE  [Ledger!LedgerNext]_(Ledger!ledger)
  BY <1>2, <1>8
<1>9. ASSUME TimerStep \/ (\E s \in Stoppers : StopStep(s)) \/ UNCHANGED vars
      PROVE  UNCHANGED <<accepted, written, dropped>>
  BY <1>9
     DEF TimerStep, TimerFires, TimerFlush, TimerCheck, TimerCreate, StopStep,
         StopCheck, StopSet, StopCancelTimer, StopFlush, StopSentinel, StopJoin,
         Deadline, vars
<1> QED
  BY <1>5, <1>6, <1>7, <1>8, <1>9 DEF Next

(* The writer implements the ledger: every event is settled at most once    *)
(* and deliveries are in the order of acceptance.                           *)
THEOREM Refinement == Spec => ImplementsLedger
<1>1. Init => Ledger!LedgerInit
  BY DEF Init, Ledger!LedgerInit
<1>2. IInv /\ [Next]_vars => [Ledger!LedgerNext]_(Ledger!ledger)
  BY LedgerStep
<1> QED
  BY <1>1, <1>2, IInvariant, PTL DEF Spec, ImplementsLedger, Ledger!LedgerSpec

(* The client is given the events in the order write() accepted them. *)
THEOREM OrderOfDelivery == Spec => DeliveredInOrder
<1>1. IInv /\ [Next]_vars
        => [\A e \in written' \ written, w \in written : w < e]_written
  <2> SUFFICES ASSUME [Ledger!LedgerNext]_(Ledger!ledger)
               PROVE  \/ \A e \in written' \ written, w \in written : w < e
                      \/ written' = written
    BY LedgerStep
  <2> QED
    BY DEF Ledger!LedgerNext, Ledger!Accept, Ledger!Deliver, Ledger!Drop, Ledger!ledger
<1> QED
  BY <1>1, IInvariant, PTL DEF Spec, DeliveredInOrder
-----------------------------------------------------------------------------
(***************************************************************************)
(* The end of the worker.  Behind a sentinel in the queue there are only    *)
(* events accepted after the final flush of the stop() it stands for: the   *)
(* events not yet queued are newer than every final flush that is over, and *)
(* nothing but a batch is put by a flush.                                  *)
(***************************************************************************)
Entering == HandEvents \cup current.events

Gone == {"join", "closed"}

PastFlush(s) == stop[s].at \in {"sentinel", "join", "closed"}

HolderFlushes == cs.by \in Stoppers => stop[cs.by].at = "flush" /\ cs.append = Nobody

HandIsBatch == cs.at \in {"put", "evict", "reput"} => cs.batch \in Batch

QueuedCounted == \A s \in Stoppers : stop[s].queued <= Len(accepted)

EnteringLater ==
    \A s \in Stoppers : PastFlush(s) => \A e \in Entering : stop[s].queued < e

LaterBehind(i, m) ==
    \A j \in DOMAIN queue : i < j => \A e \in queue[j].events : m < e

SentinelLast ==
    \A i \in DOMAIN queue : queue[i] = Sentinel =>
        \E s \in Stoppers : stop[s].at \in Gone /\ LaterBehind(i, stop[s].queued)

FlushInv == HolderFlushes /\ HandIsBatch /\ QueuedCounted /\ EnteringLater

ExitInv == IInv /\ FlushInv /\ SentinelLast /\ SentinelMeansSettled

\* No stop() that waits for the worker leaves that, or its history.
GoneStay ==
    \A s \in Stoppers : stop[s].at \in Gone =>
        stop'[s].at \in Gone /\ stop'[s].queued = stop[s].queued

(* The queue after a put of a batch, of a sentinel, and after a get.         *)
LEMMA PutKeepsLast ==
    ASSUME ExitInv, GoneStay, NEW b \in Batch \cup {Sentinel}, queue' = Append(queue, b),
           \A s \in Stoppers : stop[s].at \in Gone => \A e \in b.events : stop[s].queued < e,
           b = Sentinel => \E s \in Stoppers : stop'[s].at \in Gone
    PROVE  SentinelLast'
<1>1. /\ Len(queue) \in Nat /\ DOMAIN queue = 1 .. Len(queue)
      /\ DOMAIN queue' = 1 .. (Len(queue) + 1)
      /\ \A i \in DOMAIN queue : queue'[i] = queue[i]
      /\ queue'[Len(queue) + 1] = b
  BY DEF ExitInv, IInv, TypeOK
<1>2. ASSUME NEW i \in DOMAIN queue', queue'[i] = Sentinel
      PROVE  \E s \in Stoppers : stop'[s].at \in Gone /\ LaterBehind(i, stop[s].queued)'
  <2>1. CASE i \in DOMAIN queue
    <3>1. PICK s \in Stoppers : stop[s].at \in Gone /\ LaterBehind(i, stop[s].queued)
      BY <1>1, <1>2, <2>1 DEF ExitInv, SentinelLast
    <3>2. stop'[s].at \in Gone /\ stop'[s].queued = stop[s].queued
      BY <3>1 DEF GoneStay
    <3>3. ASSUME NEW j \in DOMAIN queue', i < j, NEW e \in queue'[j].events
          PROVE  stop[s].queued < e
      <4>1. CASE j \in DOMAIN queue
        BY <1>1, <3>1, <3>3, <4>1 DEF LaterBehind
      <4>2. CASE j = Len(queue) + 1
        BY <1>1, <3>1, <3>3, <4>2
      <4> QED
        BY <1>1, <4>1, <4>2
    <3> QED
      BY <3>2, <3>3 DEF LaterBehind
  <2>2. CASE i = Len(queue) + 1
    <3>1. PICK s \in Stoppers : stop'[s].at \in Gone
      BY <1>1, <1>2, <2>2
    <3>2. ~ \E j \in DOMAIN queue' : i < j
      BY <1>1, <2>2
    <3> QED
      BY <3>1, <3>2 DEF LaterBehind
  <2> QED
    BY <1>1, <2>1, <2>2
<1> QED
  BY <1>2 DEF SentinelLast

LEMMA GetKeepsLast ==
    ASSUME ExitInv, GoneStay, queue # <<>>, queue' = Tail(queue)
    PROVE  SentinelLast'
<1>1. /\ Len(queue) \in Nat \ {0} /\ DOMAIN queue = 1 .. Len(queue)
      /\ DOMAIN queue' = 1 .. (Len(queue) - 1)
      /\ \A i \in DOMAIN queue' : queue'[i] = queue[i + 1]
  BY DEF ExitInv, IInv, TypeOK
<1>2. ASSUME NEW i \in DOMAIN queue', queue'[i] = Sentinel
      PROVE  \E s \in Stoppers : stop'[s].at \in Gone /\ LaterBehind(i, stop[s].queued)'
  <2>1. i + 1 \in DOMAIN queue /\ queue[i + 1] = Sentinel
    BY <1>1, <1>2
  <2>2. PICK s \in Stoppers : stop[s].at \in Gone /\ LaterBehind(i + 1, stop[s].queued)
    BY <2>1 DEF ExitInv, SentinelLast
  <2>3. stop'[s].at \in Gone /\ stop'[s].queued = stop[s].queued
    BY <2>2 DEF GoneStay
  <2>4. ASSUME NEW j \in DOMAIN queue', i < j, NEW e \in queue'[j].events
        PROVE  stop[s].queued < e
    <3>1. j + 1 \in DOMAIN queue /\ i + 1 < j + 1 /\ e \in queue[j + 1].events
      BY <1>1, <2>4
    <3> QED
      BY <2>2, <3>1 DEF LaterBehind
  <2> QED
    BY <2>3, <2>4 DEF LaterBehind
<1> QED
  BY <1>2 DEF SentinelLast

LEMMA SameQueueKeepsLast ==
    ASSUME ExitInv, GoneStay, queue' = queue
    PROVE  SentinelLast'
<1>1. ASSUME NEW i \in DOMAIN queue, queue[i] = Sentinel
      PROVE  \E s \in Stoppers : stop'[s].at \in Gone /\ LaterBehind(i, stop[s].queued)'
  <2>1. PICK s \in Stoppers : stop[s].at \in Gone /\ LaterBehind(i, stop[s].queued)
    BY <1>1 DEF ExitInv, SentinelLast
  <2>2. stop'[s].at \in Gone /\ stop'[s].queued = stop[s].queued
    BY <2>1 DEF GoneStay
  <2> QED
    BY <2>1, <2>2 DEF LaterBehind
<1> QED
  BY <1>1 DEF SentinelLast

(* What was settled when the worker left stays settled.                      *)
LEMMA ExitKept ==
    ASSUME ExitInv, GoneStay, written \subseteq written', dropped \subseteq dropped',
           worker'.at = "sentinel" => worker.at = "sentinel"
    PROVE  SentinelMeansSettled'
<1> SUFFICES ASSUME worker.at = "sentinel"
             PROVE  SentinelMeansSettled'
  BY DEF SentinelMeansSettled
<1>1. PICK s \in Stoppers : stop[s].at \in Gone /\ 1 .. stop[s].queued \subseteq Settled
  BY DEF ExitInv, SentinelMeansSettled, Gone
<1>2. stop'[s].at \in Gone /\ stop'[s].queued = stop[s].queued
  BY <1>1 DEF GoneStay
<1>3. Settled \subseteq Settled'
  BY DEF Settled
<1> QED
  BY <1>1, <1>2, <1>3 DEF SentinelMeansSettled, Gone

(* The sentinel reaches the worker: what is not settled is queued behind it   *)
(* or on its way to the queue, and newer than the final flush.              *)
LEMMA SentinelSettles ==
    ASSUME ExitInv, WorkerGet, Head(queue) = Sentinel
    PROVE  SentinelMeansSettled'
<1>1. /\ queue # <<>> /\ worker.at = "get"
      /\ UNCHANGED <<accepted, written, dropped, stop>>
  BY DEF WorkerGet
<1>2. /\ Len(queue) \in Nat \ {0} /\ DOMAIN queue = 1 .. Len(queue) /\ queue[1] = Sentinel
  BY <1>1 DEF ExitInv, IInv, TypeOK
<1>3. PICK s \in Stoppers : stop[s].at \in Gone /\ LaterBehind(1, stop[s].queued)
  BY <1>2 DEF ExitInv, SentinelLast
<1>4. stop[s].queued \in Nat /\ Len(accepted) \in Nat /\ stop[s].queued <= Len(accepted)
  BY DEF ExitInv, IInv, TypeOK, StopType, FlushInv, QueuedCounted
<1>5. \A e \in QueuedEvents : stop[s].queued < e
  <2>1. ASSUME NEW e \in QueuedEvents
        PROVE  stop[s].queued < e
    <3>1. PICK j \in DOMAIN queue : e \in queue[j].events
      BY DEF QueuedEvents
    <3>2. j # 1
      BY <1>2, <3>1, BatchFacts
    <3>3. 1 < j
      BY <1>2, <3>2
    <3> QED
      BY <1>3, <3>1, <3>3 DEF LaterBehind
  <2> QED
    BY <2>1
<1>6. \A e \in HandEvents \cup current.events : stop[s].queued < e
  BY <1>3 DEF ExitInv, FlushInv, EnteringLater, PastFlush, Entering, Gone
<1>7. InFlight = {}
  BY <1>1 DEF InFlight
<1>8. 1 .. Len(accepted) = written \cup dropped \cup QueuedEvents \cup HandEvents \cup current.events
  BY <1>7 DEF ExitInv, IInv, Conserved, Stages
<1>9. 1 .. stop[s].queued \subseteq Settled
  <2>1. ASSUME NEW e \in 1 .. stop[s].queued
        PROVE  e \in written \cup dropped
    <3>1. e \in 1 .. Len(accepted) /\ ~(stop[s].queued < e)
      BY <1>4
    <3> QED
      BY <1>5, <1>6, <1>8, <3>1
  <2> QED
    BY <2>1 DEF Settled
<1>10. Settled' = Settled /\ stop' = stop
  BY <1>1 DEF Settled
<1> QED
  BY <1>3, <1>9, <1>10 DEF SentinelMeansSettled, Gone
-----------------------------------------------------------------------------
LEMMA AppendEnters ==
    ASSUME TypeOK, NEW task \in Tasks, NEW base \in Batch, AppendEvent(task, base)
    PROVE  /\ Len(accepted) \in Nat /\ Len(accepted') = Len(accepted) + 1
           /\ cs'.by \notin Stoppers
           /\ HandIsBatch'
           /\ Entering' \subseteq base.events \cup {Len(accepted) + 1}
<1> DEFINE grown == [base EXCEPT !.events = @ \cup {Len(accepted) + 1}]
<1>1. Len(accepted) \in Nat /\ Len(accepted') = Len(accepted) + 1
  BY DEF TypeOK, AppendEvent
<1>2. grown \in Batch /\ grown.events = base.events \cup {Len(accepted) + 1}
  BY <1>1, EventsFacts DEF Batch
<1> HIDE DEF grown
<1>3. CASE current' = Detached(grown) /\ cs' = FlushOf("write", grown, Nobody)
  <2>1. cs'.by = "write" /\ cs'.batch = grown
    BY <1>2, <1>3, FlushTyped
  <2>2. current'.events = {}
    BY <1>2, <1>3, BatchFacts
  <2>3. Entering' = grown.events
    BY <2>1, <2>2 DEF Entering, HandEvents
  <2> QED
    BY <1>1, <1>2, <2>1, <2>3, WriterAssumption DEF HandIsBatch
<1>4. CASE current' = grown /\ cs' = Free
  <2>1. cs'.by = Nobody /\ cs'.at = "free" /\ cs'.batch.events = {}
    BY <1>4 DEF Free, Sentinel
  <2>2. Entering' = grown.events
    BY <1>4, <2>1 DEF Entering, HandEvents
  <2> QED
    BY <1>1, <1>2, <2>1, <2>2, WriterAssumption DEF HandIsBatch
<1> QED
  BY <1>3, <1>4 DEF AppendEvent, grown

(* What a step that makes no final flush end has to show: the events that     *)
(* enter are those that were on their way, or the one just accepted.        *)
LEMMA FlushInvKept ==
    ASSUME ExitInv,
           HolderFlushes', HandIsBatch',
           Len(accepted') \in {Len(accepted), Len(accepted) + 1},
           \A s \in Stoppers :
               /\ stop'[s].queued = stop[s].queued
               /\ PastFlush(s)' => PastFlush(s) \/ Entering' = {},
           Entering' \subseteq Entering \cup {Len(accepted) + 1}
    PROVE  FlushInv'
<1>1. Len(accepted) \in Nat /\ \A s \in Stoppers : stop[s].queued \in Nat /\ stop[s].queued <= Len(accepted)
  BY DEF ExitInv, IInv, TypeOK, StopType, FlushInv, QueuedCounted
<1>2. QueuedCounted'
  BY <1>1 DEF QueuedCounted
<1>3. ASSUME NEW s \in Stoppers, PastFlush(s)', NEW e \in Entering'
      PROVE  stop'[s].queued < e
  <2>1. PastFlush(s) /\ stop'[s].queued = stop[s].queued
    BY <1>3
  <2>2. CASE e \in Entering
    BY <2>1, <2>2 DEF ExitInv, FlushInv, EnteringLater
  <2>3. CASE e = Len(accepted) + 1
    BY <1>1, <2>1, <2>3
  <2> QED
    BY <2>2, <2>3
<1>4. EnteringLater'
  BY <1>3 DEF EnteringLater
<1> QED
  BY <1>2, <1>4 DEF FlushInv

(* The end of a flush: the batch has left the hand, and a stop() goes on      *)
(* with nothing on its way to the queue.                                    *)
LEMMA EndFlushDrains ==
    ASSUME ExitInv, cs.by # Nobody, EndFlush
    PROVE  FlushInv' /\ GoneStay
<1>1. TypeOK /\ current.events = {} /\ cs \in LockType
  BY DEF ExitInv, IInv, Conserved, OneHand, TypeOK
<1>2. \A s \in Stoppers :
        /\ stop'[s].queued = stop[s].queued
        /\ s # cs.by => stop'[s] = stop[s]
        /\ s = cs.by => stop'[s].at = "sentinel"
  BY <1>1 DEF EndFlush, TypeOK, StopType
<1>3. GoneStay
  BY <1>2 DEF GoneStay, ExitInv, FlushInv, HolderFlushes, Gone
<1>4. CASE cs.append # Nobody
  <2>1. cs.append \in Tasks /\ cs.by \notin Stoppers
    BY <1>1, <1>4 DEF LockType, ExitInv, FlushInv, HolderFlushes
  <2>2. /\ NewBatch(cs.append) \in Batch /\ NewBatch(cs.append).events = {}
        /\ AppendEvent(cs.append, NewBatch(cs.append))
    BY <1>4, <2>1, BatchFacts DEF NewBatch, EndFlush
  <2>3. /\ Len(accepted') = Len(accepted) + 1
        /\ cs'.by \notin Stoppers /\ HandIsBatch'
        /\ Entering' \subseteq {Len(accepted) + 1}
    BY <1>1, <2>1, <2>2, AppendEnters
  <2>4. HolderFlushes' /\ \A s \in Stoppers : PastFlush(s)' => PastFlush(s)
    BY <1>2, <2>1, <2>3 DEF HolderFlushes, PastFlush
  <2> QED
    BY <1>2, <1>3, <2>3, <2>4, FlushInvKept
<1>5. CASE cs.append = Nobody
  <2>1. cs' = Free /\ accepted' = accepted /\ current' = current
    BY <1>5 DEF EndFlush
  <2>2. cs'.by = Nobody /\ cs'.at = "free" /\ cs'.batch.events = {}
    BY <2>1 DEF Free, Sentinel
  <2>3. Entering' = {} /\ HolderFlushes' /\ HandIsBatch'
    BY <1>1, <2>1, <2>2, WriterAssumption DEF Entering, HandEvents, HolderFlushes, HandIsBatch
  <2> QED
    BY <1>2, <1>3, <2>1, <2>3, FlushInvKept
<1> QED
  BY <1>4, <1>5

(* A step within a flush, which keeps the lock and at most empties the hand.  *)
LEMMA WithinFlush ==
    ASSUME ExitInv, UNCHANGED <<accepted, current, stop>>,
           cs'.by = cs.by, cs'.append = cs.append, HandIsBatch',
           HandEvents' \subseteq HandEvents
    PROVE  FlushInv' /\ GoneStay
<1>1. HolderFlushes'
  BY DEF ExitInv, FlushInv, HolderFlushes
<1>2. Entering' \subseteq Entering
  BY DEF Entering
<1>3. GoneStay /\ \A s \in Stoppers : PastFlush(s)' => PastFlush(s)
  BY DEF GoneStay, PastFlush
<1> QED
  BY <1>1, <1>2, <1>3, FlushInvKept

LEMMA DropWithinFlush ==
    ASSUME ExitInv, DropFlushed, UNCHANGED <<accepted, current, stop>>
    PROVE  FlushInv' /\ GoneStay
<1>1. cs \in LockType
  BY DEF ExitInv, IInv, TypeOK
<1>2. cs'.by = cs.by /\ cs'.append = cs.append /\ cs'.at = "load" /\ cs'.batch = Sentinel
  BY <1>1 DEF DropFlushed, LockType
<1>3. HandIsBatch' /\ HandEvents' = {}
  BY <1>2, BatchFacts DEF HandIsBatch, HandEvents
<1> QED
  BY <1>2, <1>3, WithinFlush

(* A put of a flush is of a batch newer than every final flush that is over.  *)
LEMMA PutIsLater ==
    ASSUME ExitInv, cs.at \in {"put", "reput"}, cs.by # Nobody,
           queue' = Append(queue, cs.batch), EndFlush,
           UNCHANGED <<worker, written, dropped>>
    PROVE  FlushInv' /\ SentinelLast' /\ SentinelMeansSettled'
<1>1. FlushInv' /\ GoneStay
  BY EndFlushDrains
<1>2. cs.batch \in Batch /\ cs.batch # Sentinel
  BY BatchFacts DEF ExitInv, FlushInv, HandIsBatch
<1>3. \A s \in Stoppers : stop[s].at \in Gone => \A e \in cs.batch.events : stop[s].queued < e
  BY DEF ExitInv, FlushInv, EnteringLater, PastFlush, Gone, Entering, HandEvents
<1>4. SentinelLast'
  BY <1>1, <1>2, <1>3, PutKeepsLast
<1> QED
  BY <1>1, <1>4, ExitKept

(* Every step keeps it. *)
LEMMA ExitStep == ExitInv /\ [Next]_vars => ExitInv'
<1> SUFFICES ASSUME ExitInv, [Next]_vars
             PROVE  FlushInv' /\ SentinelLast' /\ SentinelMeansSettled'
  BY IStep DEF ExitInv
<1>0. TypeOK /\ IInv /\ cs \in LockType /\ cs.batch \in Batch \cup {Sentinel}
  BY DEF ExitInv, IInv, TypeOK, LockType
<1>1. ASSUME FlushInv', GoneStay, queue' = queue,
             UNCHANGED <<worker, written>>, dropped \subseteq dropped'
      PROVE  FlushInv' /\ SentinelLast' /\ SentinelMeansSettled'
  BY <1>1, SameQueueKeepsLast, ExitKept
<1>2. ASSUME NEW task \in Tasks, Write(task)
      PROVE  FlushInv' /\ SentinelLast' /\ SentinelMeansSettled'
  <2>1. /\ cs.by = Nobody /\ HandEvents = {} /\ GoneStay
        /\ UNCHANGED <<written, dropped, queue, worker, stop>>
        /\ \A s \in Stoppers : PastFlush(s)' => PastFlush(s)
    BY <1>0, <1>2 DEF Write, IInv, Conserved, OneHand, HandEvents, GoneStay, PastFlush
  <2>2. CASE /\ current.events # {}
             /\ cs' = FlushOf("write", current, task)
             /\ current' = Detached(current)
             /\ UNCHANGED accepted
    <3>1. current \in Batch
      BY <1>0, <2>2, BatchFacts DEF TypeOK
    <3>2. cs'.by = "write" /\ cs'.batch = current /\ current'.events = {}
      BY <2>2, <3>1, FlushTyped, BatchFacts
    <3>3. Entering' = current.events /\ HolderFlushes' /\ HandIsBatch'
      BY <3>1, <3>2, WriterAssumption DEF Entering, HandEvents, HolderFlushes, HandIsBatch
    <3>4. FlushInv'
      BY <2>1, <2>2, <3>3, FlushInvKept DEF Entering
    <3> QED
      BY <1>1, <2>1, <3>4
  <2>3. ASSUME NEW base \in Batch, AppendEvent(task, base), base.events \subseteq current.events
        PROVE  FlushInv' /\ SentinelLast' /\ SentinelMeansSettled'
    <3>1. /\ Len(accepted') = Len(accepted) + 1 /\ cs'.by \notin Stoppers /\ HandIsBatch'
          /\ Entering' \subseteq base.events \cup {Len(accepted) + 1}
      BY <1>0, <2>3, AppendEnters
    <3>2. HolderFlushes' /\ Entering' \subseteq Entering \cup {Len(accepted) + 1}
      BY <2>3, <3>1 DEF HolderFlushes, Entering
    <3>3. FlushInv'
      BY <2>1, <3>1, <3>2, FlushInvKept
    <3> QED
      BY <1>1, <2>1, <3>3
  <2>4. CASE AppendEvent(task, NewBatch(task))
    <3>1. NewBatch(task) \in Batch /\ NewBatch(task).events = {}
      BY BatchFacts DEF NewBatch
    <3> QED
      BY <2>3, <2>4, <3>1
  <2>5. CASE current \in Batch /\ AppendEvent(task, current)
    BY <2>3, <2>5
  <2> QED
    BY <1>0, <1>2, <2>2, <2>4, <2>5 DEF Write, TypeOK
<1>3. ASSUME FlushStep
      PROVE  FlushInv' /\ SentinelLast' /\ SentinelMeansSettled'
  <2>1. cs.by # Nobody
    BY <1>0, <1>3 DEF TypeOK, FlushStep, FlushPut, FlushEvict, FlushReput, FlushCountLoad, FlushCountStore
  <2>2. CASE (FlushPut \/ FlushReput) /\ ~Full(queue)
    BY <2>1, <2>2, PutIsLater DEF FlushPut, FlushReput
  <2>3. CASE DropFlushed /\ UNCHANGED <<accepted, current, queue, stop, worker, written>>
    <3>1. FlushInv' /\ GoneStay
      BY <2>3, DropWithinFlush
    <3>2. dropped \subseteq dropped'
      BY <2>3 DEF DropFlushed
    <3> QED
      BY <1>1, <2>3, <3>1, <3>2
  <2>4. CASE FlushPut /\ Full(queue) /\ DropOldest
    <3>1. /\ cs' = [cs EXCEPT !.at = "evict"] /\ cs.at = "put"
          /\ UNCHANGED <<accepted, current, queue, stop, worker, written, dropped>>
      BY <2>4 DEF FlushPut
    <3>2. cs'.by = cs.by /\ cs'.append = cs.append /\ cs'.batch = cs.batch
      BY <1>0, <3>1 DEF LockType
    <3>3. HandIsBatch' /\ HandEvents' = HandEvents
      BY <3>1, <3>2 DEF ExitInv, FlushInv, HandIsBatch, HandEvents
    <3>4. FlushInv' /\ GoneStay
      BY <3>1, <3>2, <3>3, WithinFlush
    <3> QED
      BY <1>1, <3>1, <3>4
  <2>5. CASE FlushEvict /\ queue # <<>>
    <3>1. /\ queue' = Tail(queue) /\ cs.at = "evict"
          /\ \/ cs' = [cs EXCEPT !.at = "reput"]
             \/ cs' = [cs EXCEPT !.at = "load", !.lost = Head(queue).events]
          /\ UNCHANGED <<accepted, written, current, worker, stop>>
      BY <2>5 DEF FlushEvict
    <3>2. dropped \subseteq dropped'
      BY <2>5 DEF FlushEvict
    <3>3. cs'.by = cs.by /\ cs'.append = cs.append /\ cs'.batch = cs.batch
      BY <1>0, <3>1 DEF LockType
    <3>4. HandIsBatch' /\ HandEvents' = HandEvents
      BY <3>1, <3>3 DEF ExitInv, FlushInv, HandIsBatch, HandEvents
    <3>5. FlushInv' /\ GoneStay
      BY <3>1, <3>3, <3>4, WithinFlush
    <3> QED
      BY <2>5, <3>1, <3>2, <3>5, GetKeepsLast, ExitKept
  <2>6. CASE FlushCountLoad
    <3>1. /\ cs' = [cs EXCEPT !.at = "store", !.count = droppedCount]
          /\ UNCHANGED <<accepted, current, queue, stop, worker, written, dropped>>
      BY <2>6 DEF FlushCountLoad
    <3>2. cs'.by = cs.by /\ cs'.append = cs.append /\ cs'.batch = cs.batch /\ cs'.at = "store"
      BY <1>0, <3>1 DEF LockType
    <3>3. HandIsBatch' /\ HandEvents' = HandEvents
      BY <3>2 DEF HandIsBatch, HandEvents
    <3>4. FlushInv' /\ GoneStay
      BY <3>1, <3>2, <3>3, WithinFlush
    <3> QED
      BY <1>1, <3>1, <3>4
  <2>7. CASE FlushCountStore /\ cs.batch = Sentinel
    <3>1. EndFlush /\ UNCHANGED <<queue, worker, written, dropped>>
      BY <2>7 DEF FlushCountStore
    <3>2. FlushInv' /\ GoneStay
      BY <2>1, <3>1, EndFlushDrains
    <3> QED
      BY <1>1, <3>1, <3>2
  <2>8. CASE FlushCountStore /\ cs.batch # Sentinel
    <3>1. /\ cs' = [cs EXCEPT !.at = "reput", !.count = 0, !.lost = {}]
          /\ UNCHANGED <<accepted, current, queue, stop, worker, written, dropped>>
      BY <2>8 DEF FlushCountStore
    <3>2. cs'.by = cs.by /\ cs'.append = cs.append /\ cs'.batch = cs.batch
      BY <1>0, <3>1 DEF LockType
    <3>3. HandIsBatch' /\ HandEvents' = HandEvents
      BY <1>0, <2>8, <3>2 DEF HandIsBatch, HandEvents
    <3>4. FlushInv' /\ GoneStay
      BY <3>1, <3>2, <3>3, WithinFlush
    <3> QED
      BY <1>1, <3>1, <3>4
  <2> QED
    BY <1>3, <2>2, <2>3, <2>4, <2>5, <2>6, <2>7, <2>8
       DEF FlushStep, FlushPut, FlushEvict, FlushReput
<1>4. ASSUME UNCHANGED <<accepted, current, cs, stop>>
      PROVE  FlushInv' /\ GoneStay
  <2>1. HandIsBatch' /\ HandEvents' = HandEvents /\ cs'.by = cs.by /\ cs'.append = cs.append
    BY <1>4 DEF ExitInv, FlushInv, HandIsBatch, HandEvents
  <2> QED
    BY <1>4, <2>1, WithinFlush
<1>5. ASSUME WorkerStep
      PROVE  FlushInv' /\ SentinelLast' /\ SentinelMeansSettled'
  <2>1. FlushInv' /\ GoneStay
    BY <1>4, <1>5
       DEF WorkerStep, WorkerGet, WorkerGetTimeout, WorkerOnEmpty, WorkerWriteOk,
           WorkerWriteFails, WorkerCountLoad, WorkerCountStore
  <2>2. CASE WorkerGet
    <3>1. SentinelLast'
      BY <2>1, <2>2, GetKeepsLast DEF WorkerGet
    <3>2. CASE Head(queue) = Sentinel
      BY <2>1, <2>2, <3>1, <3>2, SentinelSettles
    <3>3. CASE Head(queue) # Sentinel
      <4>1. worker'.at # "sentinel" /\ UNCHANGED <<written, dropped>>
        BY <2>2, <3>3 DEF WorkerGet, Idle
      <4> QED
        BY <2>1, <3>1, <4>1, ExitKept
    <3> QED
      BY <3>2, <3>3
  <2>3. CASE ~WorkerGet
    <3>1. queue' = queue /\ written \subseteq written' /\ dropped \subseteq dropped'
      BY <1>5, <2>3
         DEF WorkerStep, WorkerGetTimeout, WorkerOnEmpty, WorkerWriteOk,
             WorkerWriteFails, WorkerCountLoad, WorkerCountStore
    <3>2. worker'.at # "sentinel"
      <4>1. worker \in WorkerType
        BY <1>0 DEF TypeOK
      <4>2. CASE WorkerGetTimeout \/ WorkerOnEmpty
        BY <4>1, <4>2 DEF WorkerGetTimeout, WorkerOnEmpty, WorkerType
      <4>3. CASE WorkerWriteOk \/ WorkerCountStore
        BY <4>3 DEF WorkerWriteOk, WorkerCountStore, Idle
      <4>4. CASE WorkerCountLoad
        BY <4>1, <4>4 DEF WorkerCountLoad, WorkerType
      <4>5. CASE WorkerWriteFails
        BY <4>1, <4>5 DEF WorkerWriteFails, WorkerType
      <4> QED
        BY <1>5, <2>3, <4>2, <4>3, <4>4, <4>5 DEF WorkerStep
    <3> QED
      BY <2>1, <3>1, <3>2, SameQueueKeepsLast, ExitKept
  <2> QED
    BY <2>2, <2>3
<1>6. ASSUME TimerStep
      PROVE  FlushInv' /\ SentinelLast' /\ SentinelMeansSettled'
  <2>1. UNCHANGED <<accepted, written, dropped, queue, worker, stop>>
    BY <1>6 DEF TimerStep, TimerFires, TimerFlush, TimerCheck, TimerCreate
  <2>2. CASE TimerFlush /\ current.events # {}
    <3>1. /\ cs' = FlushOf("timer", current, Nobody) /\ current' = Detached(current)
          /\ current \in Batch
      BY <1>0, <2>2, BatchFacts DEF TimerFlush, TypeOK
    <3>2. cs'.by = "timer" /\ cs'.batch = current /\ current'.events = {}
      BY <3>1, FlushTyped, BatchFacts
    <3>3. Entering' = current.events /\ HolderFlushes' /\ HandIsBatch'
      BY <3>1, <3>2, WriterAssumption DEF Entering, HandEvents, HolderFlushes, HandIsBatch
    <3>4. GoneStay /\ \A s \in Stoppers : PastFlush(s)' => PastFlush(s)
      BY <2>1 DEF GoneStay, PastFlush
    <3>5. FlushInv'
      BY <2>1, <3>3, <3>4, FlushInvKept DEF Entering
    <3> QED
      BY <1>1, <2>1, <3>4, <3>5
  <2>3. CASE UNCHANGED <<current, cs>>
    BY <1>1, <1>4, <2>1, <2>3
  <2> QED
    BY <1>6, <2>2, <2>3 DEF TimerStep, TimerFires, TimerFlush, TimerCheck, TimerCreate
<1>7. ASSUME NEW s \in Stoppers, StopStep(s)
      PROVE  FlushInv' /\ SentinelLast' /\ SentinelMeansSettled'
  <2>0. stop \in [Stoppers -> StopType] /\ Len(accepted) \in Nat
    BY <1>0 DEF TypeOK
  <2>1. CASE StopFlush(s)
    <3>1. /\ cs.by = Nobody /\ stop[s].at = "flush" /\ HandEvents = {}
          /\ UNCHANGED <<accepted, written, dropped, queue, worker>>
      BY <1>0, <2>1 DEF StopFlush, IInv, Conserved, OneHand, HandEvents
    <3>2. /\ stop'[s].queued = Len(accepted) /\ \A q \in Stoppers \ {s} : stop'[q] = stop[q]
          /\ current.events # {} => stop'[s].at = "flush"
      BY <2>0, <2>1, <3>1 DEF StopFlush, StopType
    <3>3. GoneStay
      BY <3>1, <3>2 DEF GoneStay, Gone
    <3>4. QueuedCounted'
      BY <2>0, <3>1, <3>2 DEF ExitInv, FlushInv, QueuedCounted
    <3>5. CASE current.events # {}
      <4>1. /\ cs' = FlushOf(s, current, Nobody) /\ current' = Detached(current)
            /\ current \in Batch
        BY <1>0, <2>1, <3>5, BatchFacts DEF StopFlush, TypeOK
      <4>2. cs'.by = s /\ cs'.append = Nobody /\ cs'.batch = current /\ current'.events = {}
        BY <4>1, FlushTyped, BatchFacts
      <4>3. HolderFlushes' /\ HandIsBatch' /\ Entering' = current.events
        BY <3>2, <3>5, <4>1, <4>2 DEF HolderFlushes, HandIsBatch, Entering, HandEvents
      <4>4. ASSUME NEW q \in Stoppers, PastFlush(q)'
            PROVE  \A e \in Entering' : stop'[q].queued < e
        <5>1. q # s
          BY <3>2, <3>5, <4>4 DEF PastFlush
        <5>2. stop'[q] = stop[q] /\ PastFlush(q)
          BY <3>2, <4>4, <5>1 DEF PastFlush
        <5> QED
          BY <4>3, <5>2 DEF ExitInv, FlushInv, EnteringLater, Entering
      <4>5. FlushInv'
        BY <3>4, <4>3, <4>4 DEF FlushInv, EnteringLater
      <4> QED
        BY <1>1, <3>1, <3>3, <4>5
    <3>6. CASE current.events = {}
      <4>1. UNCHANGED <<current, cs>>
        BY <2>1, <3>6 DEF StopFlush
      <4>2. Entering' = {}
        BY <3>1, <3>6, <4>1 DEF Entering, HandEvents
      <4>3. HolderFlushes' /\ HandIsBatch'
        BY <3>1, <4>1, WriterAssumption DEF HolderFlushes, HandIsBatch, ExitInv, FlushInv
      <4>4. FlushInv'
        BY <3>4, <4>2, <4>3 DEF FlushInv, EnteringLater
      <4> QED
        BY <1>1, <3>1, <3>3, <4>4
    <3> QED
      BY <3>5, <3>6
  <2>2. ASSUME UNCHANGED <<accepted, current, cs, written, dropped, worker>>,
               \A q \in Stoppers \ {s} : stop'[q] = stop[q],
               stop'[s].queued = stop[s].queued,
               PastFlush(s)' => PastFlush(s),
               stop[s].at \in Gone => stop'[s].at \in Gone,
               stop[s].at = "flush" => stop'[s].at = "flush"
        PROVE  FlushInv' /\ GoneStay
    <3>1. HandIsBatch' /\ Entering' = Entering
      BY <2>2 DEF ExitInv, FlushInv, HandIsBatch, Entering, HandEvents
    <3>2. HolderFlushes'
      BY <2>2 DEF ExitInv, FlushInv, HolderFlushes
    <3>3. GoneStay
      BY <2>2 DEF GoneStay
    <3>4. \A q \in Stoppers : stop'[q].queued = stop[q].queued /\ (PastFlush(q)' => PastFlush(q))
      BY <2>2 DEF PastFlush
    <3> QED
      BY <2>2, <3>1, <3>2, <3>3, <3>4, FlushInvKept
  <2>3. CASE StopSentinel(s)
    <3>1. /\ stop[s].at = "sentinel" /\ stop' = [stop EXCEPT ![s].at = "join"]
          /\ UNCHANGED <<accepted, current, cs, written, dropped, worker>>
          /\ queue' = queue \/ queue' = Append(queue, Sentinel)
      BY <2>3 DEF StopSentinel
    <3>2. /\ stop'[s].at = "join" /\ stop'[s].queued = stop[s].queued
          /\ \A q \in Stoppers \ {s} : stop'[q] = stop[q]
      BY <2>0, <3>1 DEF StopType
    <3>3. FlushInv' /\ GoneStay
      BY <2>2, <3>1, <3>2 DEF PastFlush, Gone
    <3>4. SentinelLast'
      <4>1. CASE queue' = queue
        BY <3>3, <4>1, SameQueueKeepsLast
      <4>2. CASE queue' = Append(queue, Sentinel)
        <5>1. Sentinel.events = {} /\ stop'[s].at \in Gone
          BY <3>2, BatchFacts DEF Gone
        <5> QED
          BY <3>3, <4>2, <5>1, PutKeepsLast
      <4> QED
        BY <3>1, <4>1, <4>2
    <3> QED
      BY <3>1, <3>3, <3>4, ExitKept
  <2>4. CASE StopCheck(s) \/ StopSet(s) \/ StopCancelTimer(s) \/ StopJoin(s) \/ Deadline(s)
    <3>1. UNCHANGED <<accepted, current, cs, written, dropped, worker, queue>>
      BY <2>4 DEF StopCheck, StopSet, StopCancelTimer, StopJoin, Deadline
    <3>2. /\ \A q \in Stoppers \ {s} : stop'[q] = stop[q]
          /\ stop'[s].queued = stop[s].queued
          /\ \/ stop[s].at = "idle" /\ stop'[s].at \in {"skipped", "set"}
             \/ stop[s].at = "set" /\ stop'[s].at = "cancel"
             \/ stop[s].at = "cancel" /\ stop'[s].at = "flush"
             \/ stop[s].at = "join" /\ stop'[s].at = "closed"
             \/ stop'[s].at = stop[s].at
      <4>1. CASE StopCheck(s)
        BY <2>0, <4>1 DEF StopCheck, StopType
      <4>2. CASE StopSet(s) \/ StopCancelTimer(s)
        BY <2>0, <4>2 DEF StopSet, StopCancelTimer, StopType
      <4>3. CASE StopJoin(s) \/ Deadline(s)
        BY <2>0, <4>3 DEF StopJoin, Deadline, StopType
      <4> QED
        BY <2>4, <4>1, <4>2, <4>3
    <3>3. FlushInv' /\ GoneStay
      BY <2>2, <3>1, <3>2 DEF PastFlush, Gone
    <3> QED
      BY <1>1, <3>1, <3>3
  <2> QED
    BY <1>7, <2>1, <2>3, <2>4 DEF StopStep
<1>8. CASE UNCHANGED vars
  BY <1>1, <1>4, <1>8 DEF vars
<1> QED
  BY <1>2, <1>3, <1>5, <1>6, <1>7, <1>8 DEF Next

(* A worker that leaves by the sentinel has written or dropped all that was  *)
(* accepted before the final flush of a stop(), whatever write(), the timer, *)
(* a second stop() and a full queue did in between (stop, _worker_loop).    *)
THEOREM SentinelComesLast == Spec => []SentinelMeansSettled
<1>1. Init => ExitInv
  <2> SUFFICES ASSUME Init
               PROVE  ExitInv
    OBVIOUS
  <2>1. cs.by = Nobody /\ cs.at = "free" /\ worker.at = "get" /\ queue = <<>> /\ accepted = <<>>
    BY DEF Init, Free, Idle
  <2>2. \A s \in Stoppers : stop[s].at = "idle" /\ stop[s].queued = 0
    BY DEF Init, StopNotCalled
  <2>3. FlushInv
    BY <2>1, <2>2, WriterAssumption
       DEF FlushInv, HolderFlushes, HandIsBatch, QueuedCounted, EnteringLater, PastFlush
  <2>4. SentinelLast /\ SentinelMeansSettled
    BY <2>1 DEF SentinelLast, SentinelMeansSettled
  <2> QED
    BY <2>3, <2>4, IInit DEF ExitInv
<1>2. ExitInv => SentinelMeansSettled
  BY DEF ExitInv
<1> QED
  BY <1>1, <1>2, ExitStep, PTL DEF Spec
=============================================================================
