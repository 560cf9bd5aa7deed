----------------------------- MODULE AsyncWriter -----------------------------
(***************************************************************************)
(* The background telemetry writer (rfsn_v10/async_writer.py).              *)
(*                                                                         *)
(* Any number of threads call write(), which appends to the current batch   *)
(* under the writer's lock; a full batch, a batch of another task and the   *)
(* periodic timer hand the current batch to a bounded queue; one worker     *)
(* thread takes batches off the queue and gives them to the client, with    *)
(* retries; stop() (flush() is the same call) sets the stop event, cancels  *)
(* the timer, flushes, queues a sentinel and waits for the worker until a   *)
(* deadline.  The queue has a lock of its own: the worker's get and stop's  *)
(* sentinel interleave with a flush that holds the writer's lock.           *)
(*                                                                         *)
(* Abstractions.  An event is the number of its acceptance: the n-th append *)
(* made by write() is event n.  A list of events only ever grows at its     *)
(* end, so the set of its numbers determines it.  The sentinel None is the  *)
(* batch of no task.  An expired timeout is a step that may happen at any   *)
(* time.                                                                    *)
(***************************************************************************)
EXTENDS Naturals, Sequences, FiniteSets

CONSTANTS
    Tasks,          \* task ids given to write()
    Stoppers,       \* threads that call stop() or flush(), once each
    Nobody,         \* not a task: the holder of a free lock, no pending append
    BatchSize,      \* batch_size
    MaxQueueSize,   \* max_queue_size
    MaxRetries,     \* max_retries
    DropOldest,     \* backpressure_policy is DROP_OLDEST_BATCH
    MaxEvents       \* bound: events accepted in one behaviour

ASSUME WriterAssumption ==
    /\ Nobody \notin Tasks \cup Stoppers \cup {"write", "timer"}
    /\ Stoppers \cap {"write", "timer"} = {}
    /\ IsFiniteSet(Stoppers)
    /\ BatchSize \in Nat \ {0}
    /\ MaxQueueSize \in Nat \ {0}
    /\ MaxRetries \in Nat
    /\ DropOldest \in BOOLEAN
    /\ MaxEvents \in Nat

VARIABLES
    accepted,       \* history: the task of every event write() appended
    written,        \* history: events the client took without an exception
    dropped,        \* history: events given up
    droppedCount,   \* _events_dropped
    current,        \* _current_batch
    queue,          \* _queue
    cs,             \* the critical section of _lock: holder and progress
    worker,         \* the worker thread: where it is, its batch, its attempt
    timer,          \* the flush timer's life
    stopEvent,      \* _stop_event
    stop            \* each stopper: where it is, deadline passed, history

tally   == <<accepted, written, dropped, droppedCount>>
buffers == <<current, queue, cs>>
vars    == <<tally, buffers, worker, timer, stopEvent, stop>>
-----------------------------------------------------------------------------
\* Finite sets of event numbers.
Events == {S \in SUBSET (Nat \ {0}) : IsFiniteSet(S)}

Batch == [task : Tasks, events : Events]

(* The sentinel in the queue; also "no batch" where a batch may be missing. *)
Sentinel == [task |-> Nobody, events |-> {}]

Full(q) == Len(q) >= MaxQueueSize

(* cs.at is the next line of _flush_current_batch the holder executes; *)
(* cs.append is the task of the event write() still has to append.     *)
Free == [by |-> Nobody, at |-> "free", batch |-> Sentinel, append |-> Nobody,
         count |-> 0, lost |-> {}]

(* _flush_current_batch up to put_nowait: the batch is detached and an  *)
(* empty one of the same task takes its place.                          *)
FlushOf(holder, batch, task) ==
    [Free EXCEPT !.by = holder, !.at = "put", !.batch = batch, !.append = task]

(* Mutant of Detached: the batch handed over is not emptied. *)
StillAttached(batch) == batch

Detached(batch) == [batch EXCEPT !.events = {}]

(* write() from the append on: base is the batch the event goes to.  A  *)
(* batch that became full is flushed at once.                           *)
AppendEvent(task, base) ==
    LET grown == [base EXCEPT !.events = @ \cup {Len(accepted) + 1}]
    IN  /\ accepted' = Append(accepted, task)
        /\ IF Cardinality(grown.events) >= BatchSize
           THEN /\ current' = Detached(grown)
                /\ cs' = FlushOf("write", grown, Nobody)
           ELSE /\ current' = grown
                /\ cs' = Free

NewBatch(task) == [task |-> task, events |-> {}]

(* The end of _flush_current_batch: write() goes on to its append, the  *)
(* timer and stop() release the lock and go on.                         *)
EndFlush ==
    /\ IF cs.append # Nobody
       THEN AppendEvent(cs.append, NewBatch(cs.append))
       ELSE /\ cs' = Free
            /\ UNCHANGED <<accepted, current>>
    /\ timer' = IF cs.by = "timer" THEN "check" ELSE timer
    /\ stop' = IF cs.by \in Stoppers
               THEN [stop EXCEPT ![cs.by].at = "sentinel"]
               ELSE stop
-----------------------------------------------------------------------------
(* write(task_id, event): opens a new batch when there is none, when the  *)
(* current one belongs to another task or when it is full.                *)
Write(task) ==
    /\ cs.by = Nobody
    /\ Len(accepted) < MaxEvents
    /\ IF \/ current = Sentinel
          \/ current.task # task
          \/ Cardinality(current.events) >= BatchSize
       THEN IF current.events # {}
            THEN /\ cs' = FlushOf("write", current, task)
                 /\ current' = Detached(current)
                 /\ UNCHANGED accepted
            ELSE AppendEvent(task, NewBatch(task))
       ELSE AppendEvent(task, current)
    /\ UNCHANGED <<written, dropped, droppedCount, queue, worker, timer,
                   stopEvent, stop>>

(* The batch being flushed is given up; its events still have to be       *)
(* counted.                                                               *)
DropFlushed ==
    /\ cs' = [cs EXCEPT !.at = "load", !.lost = cs.batch.events,
                        !.batch = Sentinel]
    /\ dropped' = dropped \cup cs.batch.events

(* put_nowait of the flushed batch; a full queue starts the backpressure  *)
(* policy.                                                                *)
FlushPut ==
    /\ cs.at = "put"
    /\ IF ~Full(queue)
       THEN /\ queue' = Append(queue, cs.batch)
            /\ EndFlush
            /\ UNCHANGED dropped
       ELSE /\ IF DropOldest
               THEN cs' = [cs EXCEPT !.at = "evict"] /\ UNCHANGED dropped
               ELSE DropFlushed
            /\ UNCHANGED <<accepted, current, queue, timer, stop>>
    /\ UNCHANGED <<written, droppedCount, worker, stopEvent>>

(* get_nowait of the oldest entry.  The sentinel is thrown away uncounted; *)
(* a queue the worker emptied meanwhile costs the batch being flushed.     *)
FlushEvict ==
    /\ cs.at = "evict"
    /\ IF queue = <<>>
       THEN DropFlushed /\ UNCHANGED queue
       ELSE /\ queue' = Tail(queue)
            /\ IF Head(queue) = Sentinel
               THEN cs' = [cs EXCEPT !.at = "reput"] /\ UNCHANGED dropped
               ELSE /\ cs' = [cs EXCEPT !.at = "load", !.lost = Head(queue).events]
                    /\ dropped' = dropped \cup Head(queue).events
    /\ UNCHANGED <<accepted, written, droppedCount, current, worker, timer,
                   stopEvent, stop>>

(* The second put_nowait: stop()'s sentinel may have taken the room. *)
FlushReput ==
    /\ cs.at = "reput"
    /\ IF ~Full(queue)
       THEN /\ queue' = Append(queue, cs.batch)
            /\ EndFlush
            /\ UNCHANGED dropped
       ELSE /\ DropFlushed
            /\ UNCHANGED <<accepted, current, queue, timer, stop>>
    /\ UNCHANGED <<written, droppedCount, worker, stopEvent>>

(* self._events_dropped += len(...): a load and a store, with the call of *)
(* len between them; the worker's own += takes no lock.                   *)
FlushCountLoad ==
    /\ cs.at = "load"
    /\ cs' = [cs EXCEPT !.at = "store", !.count = droppedCount]
    /\ UNCHANGED <<tally, current, queue, worker, timer, stopEvent, stop>>

FlushCountStore ==
    /\ cs.at = "store"
    /\ droppedCount' = cs.count + Cardinality(cs.lost)
    /\ IF cs.batch = Sentinel
       THEN EndFlush
       ELSE /\ cs' = [cs EXCEPT !.at = "reput", !.count = 0, !.lost = {}]
            /\ UNCHANGED <<accepted, current, timer, stop>>
    /\ UNCHANGED <<written, dropped, queue, worker, stopEvent>>
-----------------------------------------------------------------------------
Idle == [at |-> "get", batch |-> Sentinel, attempt |-> 0, count |-> 0]

(* Mutants of WorkerGet: the entry stays queued; the last entry is taken. *)
WorkerPeeks ==
    /\ worker.at = "get"
    /\ queue # <<>>
    /\ worker' = IF Head(queue) = Sentinel
                 THEN [Idle EXCEPT !.at = "sentinel"]
                 ELSE [Idle EXCEPT !.at = "write", !.batch = Head(queue)]
    /\ UNCHANGED <<tally, buffers, timer, stopEvent, stop>>

WorkerGetsLast ==
    /\ worker.at = "get"
    /\ queue # <<>>
    /\ queue' = SubSeq(queue, 1, Len(queue) - 1)
    /\ worker' = IF queue[Len(queue)] = Sentinel
                 THEN [Idle EXCEPT !.at = "sentinel"]
                 ELSE [Idle EXCEPT !.at = "write", !.batch = queue[Len(queue)]]
    /\ UNCHANGED <<tally, current, cs, timer, stopEvent, stop>>

(* _worker_loop: queue.get returned an entry. *)
WorkerGet ==
    /\ worker.at = "get"
    /\ queue # <<>>
    /\ queue' = Tail(queue)
    /\ worker' = IF Head(queue) = Sentinel
                 THEN [Idle EXCEPT !.at = "sentinel"]
                 ELSE [Idle EXCEPT !.at = "write", !.batch = Head(queue)]
    /\ UNCHANGED <<tally, current, cs, timer, stopEvent, stop>>

(* queue.get timed out on an empty queue ... *)
WorkerGetTimeout ==
    /\ worker.at = "get"
    /\ queue = <<>>
    /\ worker' = [worker EXCEPT !.at = "empty"]
    /\ UNCHANGED <<tally, buffers, timer, stopEvent, stop>>

(* Mutant of WorkerOnEmpty: only the sentinel ends the loop. *)
WorkerOnEmptyLoops ==
    /\ worker.at = "empty"
    /\ worker' = [worker EXCEPT !.at = "get"]
    /\ UNCHANGED <<tally, buffers, timer, stopEvent, stop>>

(* ... and the handler looks at the stop event, some time later. *)
WorkerOnEmpty ==
    /\ worker.at = "empty"
    /\ worker' = [worker EXCEPT !.at = IF stopEvent THEN "idle" ELSE "get"]
    /\ UNCHANGED <<tally, buffers, timer, stopEvent, stop>>

(* One attempt of _write_batch_with_retries succeeds. *)
WorkerWriteOk ==
    /\ worker.at = "write"
    /\ written' = written \cup worker.batch.events
    /\ worker' = Idle
    /\ UNCHANGED <<accepted, dropped, droppedCount, buffers, timer, stopEvent, stop>>

(* One attempt raises: retry after a sleep, or give the batch up. *)
WorkerWriteFails ==
    /\ worker.at = "write"
    /\ IF worker.attempt < MaxRetries
       THEN /\ worker' = [worker EXCEPT !.attempt = @ + 1]
            /\ UNCHANGED dropped
       ELSE /\ worker' = [worker EXCEPT !.at = "load"]
            /\ dropped' = dropped \cup worker.batch.events
    /\ UNCHANGED <<accepted, written, droppedCount, buffers, timer, stopEvent, stop>>

WorkerCountLoad ==
    /\ worker.at = "load"
    /\ worker' = [worker EXCEPT !.at = "store", !.count = droppedCount]
    /\ UNCHANGED <<tally, buffers, timer, stopEvent, stop>>

WorkerCountStore ==
    /\ worker.at = "store"
    /\ droppedCount' = worker.count + Cardinality(worker.batch.events)
    /\ worker' = Idle
    /\ UNCHANGED <<accepted, written, dropped, buffers, timer, stopEvent, stop>>

(* The thread has left its loop, by the sentinel or by the stop event. *)
WorkerExited == worker.at \in {"sentinel", "idle"}
-----------------------------------------------------------------------------
(* The interval expires: _flush_timeout starts. *)
TimerFires ==
    /\ timer = "armed"
    /\ timer' = "flush"
    /\ UNCHANGED <<tally, buffers, worker, stopEvent, stop>>

TimerFlush ==
    /\ timer = "flush"
    /\ cs.by = Nobody
    /\ IF current.events # {}
       THEN /\ cs' = FlushOf("timer", current, Nobody)
            /\ current' = Detached(current)
            /\ UNCHANGED timer
       ELSE /\ timer' = "check"
            /\ UNCHANGED <<current, cs>>
    /\ UNCHANGED <<tally, queue, worker, stopEvent, stop>>

(* Mutant of TimerCheck: the timer is not scheduled again. *)
TimerCheckOnce ==
    /\ timer = "check"
    /\ timer' = "dead"
    /\ UNCHANGED <<tally, buffers, worker, stopEvent, stop>>

(* _schedule_flush: the stop event is looked at before the next timer is  *)
(* made, so a stop() between the two cancels only the old timer.          *)
TimerCheck ==
    /\ timer = "check"
    /\ timer' = IF stopEvent THEN "dead" ELSE "create"
    /\ UNCHANGED <<tally, buffers, worker, stopEvent, stop>>

TimerCreate ==
    /\ timer = "create"
    /\ timer' = "armed"
    /\ UNCHANGED <<tally, buffers, worker, stopEvent, stop>>
-----------------------------------------------------------------------------
StopNotCalled == [at |-> "idle", late |-> FALSE, before |-> 0, queued |-> 0]

(* stop(): the test of the stop event and its set() are two steps. *)
StopCheck(s) ==
    /\ stop[s].at = "idle"
    /\ stop' = [stop EXCEPT
                  ![s].at = IF stopEvent THEN "skipped" ELSE "set",
                  ![s].before = Len(accepted)]
    /\ UNCHANGED <<tally, buffers, worker, timer, stopEvent>>

StopSet(s) ==
    /\ stop[s].at = "set"
    /\ stopEvent' = TRUE
    /\ stop' = [stop EXCEPT ![s].at = "cancel"]
    /\ UNCHANGED <<tally, buffers, worker, timer>>

(* cancel() stops a timer that waits; one that runs is not stopped. *)
StopCancelTimer(s) ==
    /\ stop[s].at = "cancel"
    /\ timer' = IF timer = "armed" THEN "dead" ELSE timer
    /\ stop' = [stop EXCEPT ![s].at = "flush"]
    /\ UNCHANGED <<tally, buffers, worker, stopEvent>>

(* Mutant of StopFlush: an open batch is left where it is. *)
StopFlushFullOnly(s) ==
    /\ stop[s].at = "flush"
    /\ cs.by = Nobody
    /\ Cardinality(current.events) < BatchSize
    /\ stop' = [stop EXCEPT ![s].at = "sentinel", ![s].queued = Len(accepted)]
    /\ UNCHANGED <<tally, buffers, worker, timer, stopEvent>>

(* The final flush; "queued" remembers how many events were accepted when *)
(* the lock was taken for it.                                             *)
StopFlush(s) ==
    /\ stop[s].at = "flush"
    /\ cs.by = Nobody
    /\ IF current.events # {}
       THEN /\ cs' = FlushOf(s, current, Nobody)
            /\ current' = Detached(current)
            /\ stop' = [stop EXCEPT ![s].queued = Len(accepted)]
       ELSE /\ stop' = [stop EXCEPT ![s].at = "sentinel",
                                    ![s].queued = Len(accepted)]
            /\ UNCHANGED <<current, cs>>
    /\ UNCHANGED <<tally, queue, worker, timer, stopEvent>>

(* Mutant of StopSentinel: a put that waits for room. *)
StopSentinelBlocks(s) ==
    /\ stop[s].at = "sentinel"
    /\ ~Full(queue)
    /\ queue' = Append(queue, Sentinel)
    /\ stop' = [stop EXCEPT ![s].at = "join"]
    /\ UNCHANGED <<tally, current, cs, worker, timer, stopEvent>>

(* put_nowait(None), tried until there is room or the deadline passed. *)
StopSentinel(s) ==
    /\ stop[s].at = "sentinel"
    /\ IF ~Full(queue)
       THEN queue' = Append(queue, Sentinel)
       ELSE stop[s].late /\ UNCHANGED queue
    /\ stop' = [stop EXCEPT ![s].at = "join"]
    /\ UNCHANGED <<tally, current, cs, worker, timer, stopEvent>>

(* join() returns when the worker is gone or the deadline passed; the     *)
(* client is closed in either case.                                       *)
StopJoin(s) ==
    /\ stop[s].at = "join"
    /\ WorkerExited \/ stop[s].late
    /\ stop' = [stop EXCEPT ![s].at = "closed"]
    /\ UNCHANGED <<tally, buffers, worker, timer, stopEvent>>

(* timeout_sec passes while stop() is under way. *)
Deadline(s) ==
    /\ stop[s].at \in {"set", "cancel", "flush", "sentinel", "join"}
    /\ ~stop[s].late
    /\ stop' = [stop EXCEPT ![s].late = TRUE]
    /\ UNCHANGED <<tally, buffers, worker, timer, stopEvent>>
-----------------------------------------------------------------------------
Init ==
    /\ accepted = <<>>
    /\ written = {}
    /\ dropped = {}
    /\ droppedCount = 0
    /\ current = Sentinel
    /\ queue = <<>>
    /\ cs = Free
    /\ worker = Idle
    /\ timer = "armed"
    /\ stopEvent = FALSE
    /\ stop = [s \in Stoppers |-> StopNotCalled]

FlushStep == \/ FlushPut \/ FlushEvict \/ FlushReput
             \/ FlushCountLoad \/ FlushCountStore

WorkerStep == \/ WorkerGet \/ WorkerGetTimeout \/ WorkerOnEmpty
              \/ WorkerWriteOk \/ WorkerWriteFails
              \/ WorkerCountLoad \/ WorkerCountStore

TimerStep == TimerFires \/ TimerFlush \/ TimerCheck \/ TimerCreate

StopStep(s) == \/ StopCheck(s) \/ StopSet(s) \/ StopCancelTimer(s)
               \/ StopFlush(s) \/ StopSentinel(s) \/ StopJoin(s)
               \/ Deadline(s)

Next ==
    \/ \E task \in Tasks : Write(task)
    \/ FlushStep
    \/ WorkerStep
    \/ TimerStep
    \/ \E s \in Stoppers : StopStep(s)

Spec == Init /\ [][Next]_vars

(* Threads that can run do run, and timeouts expire.  Nobody has to call  *)
(* write() or stop().                                                     *)
Fairness ==
    /\ WF_vars(FlushStep)
    /\ WF_vars(WorkerStep)
    /\ WF_vars(TimerStep)
    /\ \A s \in Stoppers :
          WF_vars(StopStep(s) /\ stop[s].at # "idle")

FairSpec == Spec /\ Fairness
=============================================================================
