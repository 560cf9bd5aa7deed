--------------------------- MODULE AsyncWriterProps ---------------------------
(***************************************************************************)
(* The correctness properties of the telemetry writer: the places an event  *)
(* can be in, what must hold of them in every interleaving, and what the    *)
(* writer promises to its callers.                                          *)
(***************************************************************************)
EXTENDS AsyncWriter

\* The events of the queue, of the batch a flush holds in its hand, and of
\* the batch the worker is writing.
QueuedEvents == UNION {queue[i].events : i \in DOMAIN queue}

HandEvents == cs.batch.events

InFlight == IF worker.at = "write" THEN worker.batch.events ELSE {}

Live == InFlight \cup QueuedEvents \cup HandEvents \cup current.events

Settled == written \cup dropped
-----------------------------------------------------------------------------
LockType ==
    [by : Stoppers \cup {"write", "timer", Nobody},
     at : {"free", "put", "evict", "reput", "load", "store"},
     batch : Batch \cup {Sentinel},
     append : Tasks \cup {Nobody},
     count : Nat,
     lost : Events]

WorkerType ==
    [at : {"get", "empty", "write", "load", "store", "sentinel", "idle"},
     batch : Batch \cup {Sentinel},
     attempt : 0 .. MaxRetries,
     count : Nat]

TimerType == {"armed", "flush", "check", "create", "dead"}

StopType ==
    [at : {"idle", "skipped", "set", "cancel", "flush", "sentinel", "join",
           "closed"},
     late : BOOLEAN,
     before : Nat,
     queued : Nat]

(* Every variable has its type: in particular the queue never exceeds       *)
(* max_queue_size, and somebody holds the lock exactly while a flush runs.  *)
TypeOK ==
    /\ accepted \in Seq(Tasks)
    /\ written \in Events
    /\ dropped \in Events
    /\ droppedCount \in Nat
    /\ current \in Batch \cup {Sentinel}
    /\ queue \in Seq(Batch \cup {Sentinel})
    /\ Len(queue) <= MaxQueueSize
    /\ cs \in LockType
    /\ cs.by = Nobody <=> cs.at = "free"
    /\ worker \in WorkerType
    /\ timer \in TimerType
    /\ stopEvent \in BOOLEAN
    /\ stop \in [Stoppers -> StopType]

(* Conservation: an event write() accepted is written, or dropped, or in    *)
(* exactly one stage of the pipeline, and the stages hold nothing else.     *)
(* It ranges over every race of write(), the timer, stop() and the worker   *)
(* on the queue, the backpressure policies included.                        *)
EveryEventAccounted ==
    /\ Settled \cup Live = 1 .. Len(accepted)
    /\ written \cap dropped = {}
    /\ Settled \cap Live = {}

(* The stages are in order of acceptance: the worker's batch is older than  *)
(* everything queued, a queued batch older than those behind it, the batch  *)
(* being flushed older than the current one ("Batches writes by task_id     *)
(* for ordering", async_writer.py:32).                                      *)
PipelineInOrder ==
    /\ \A i, j \in DOMAIN queue :
          i < j => \A e \in queue[i].events, f \in queue[j].events : e < f
    /\ \A e \in InFlight, f \in QueuedEvents \cup HandEvents \cup current.events : e < f
    /\ \A e \in QueuedEvents, f \in HandEvents \cup current.events : e < f
    /\ \A e \in HandEvents, f \in current.events : e < f

(* The client receives the events in the order write() accepted them, for   *)
(* one task and across tasks, whatever was dropped in between.              *)
DeliveredInOrder ==
    [][\A e \in written' \ written, w \in written : w < e]_written

(* The worker left by the sentinel only after it had settled everything     *)
(* that was accepted when that stop() took the lock for its final flush.    *)
SentinelMeansSettled ==
    worker.at = "sentinel" =>
        \E s \in Stoppers :
            /\ stop[s].at \in {"join", "closed"}
            /\ 1 .. stop[s].queued \subseteq Settled

(* The abstract promise: each event settled at most once, in order. *)
Ledger == INSTANCE TelemetryLedger WITH issued <- Len(accepted)

ImplementsLedger == Ledger!LedgerSpec
-----------------------------------------------------------------------------
(* Unless stop() is called, every accepted event is eventually written or   *)
(* dropped: the timer flushes what no full batch would.                     *)
EventuallySettled ==
    \A e \in 1 .. MaxEvents : e \in Live ~> e \in Settled \/ stopEvent

(* A stop() that was called returns, whatever the worker does. *)
StopReturns ==
    \A s \in Stoppers : stop[s].at = "set" ~> stop[s].at = "closed"

(* The worker ends after stop(), also when the queue has no room for the      *)
(* sentinel.                                                                 *)
WorkerEnds == stopEvent ~> WorkerExited

(* A stop() comes to its end, for its caller and for the worker.             *)
StopEnds == StopReturns /\ WorkerEnds
-----------------------------------------------------------------------------
(* "Flush all pending telemetry and stop the writer." (async_writer.py:226) *)
(* When stop() returned within its timeout, what had been accepted before   *)
(* it was called is written or counted as dropped.                          *)
StopFlushesAllPending ==
    \A s \in Stoppers :
        stop[s].at = "closed" /\ ~stop[s].late =>
            1 .. stop[s].before \subseteq Settled
=============================================================================
