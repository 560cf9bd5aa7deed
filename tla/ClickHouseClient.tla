--------------------------- MODULE ClickHouseClient ---------------------------
(***************************************************************************)
(* The telemetry client (rfsn_v10/clickhouse_client.py): an INSERT with     *)
(* retries, the queue of events that could not be sent, its flush to a      *)
(* local file on SIGTERM and at exit, and the replay of that file by the    *)
(* next process.                                                            *)
(*                                                                         *)
(* Two threads.  The caller (the worker of AsyncWriter) is in               *)
(* _write_events or _drain_pending_queue; the main thread constructs the    *)
(* client, and runs the SIGTERM handler between any two of its own steps    *)
(* and the exit handler at the end.  Nothing blocks a signal while a        *)
(* handler runs: SIGTERM also interrupts the flush of an earlier SIGTERM    *)
(* or of the exit handler, which goes on when the inner one has returned.   *)
(* The queue is a plain list that both threads use without a lock.          *)
(*                                                                         *)
(* Abstractions.  One write is one event (a batch shares its fate).  A      *)
(* request succeeds or raises, and _execute_query turns whatever it raises  *)
(* into the RuntimeError its callers catch; a request that was refused      *)
(* inserted nothing, one whose answer was lost or late inserted all.  An    *)
(* event that cannot be hashed or serialised raises before anything         *)
(* happened and is not a step.                                              *)
(* A line of the file is an event, or Torn when only a part of it reached   *)
(* the disk.                                                                *)
(***************************************************************************)
EXTENDS Naturals, Sequences, SequencesExt, FiniteSets

CONSTANTS
    Events,         \* the events of one behaviour, each written once
    TableOf,        \* the table an event is routed to
    MaxAttempts,    \* _max_retries
    MaxStarts,      \* bound: processes in one behaviour
    MaxSignals,     \* bound: SIGTERMs in one behaviour
    Torn,           \* not an event: a line cut short
    Faults          \* what may go wrong: subset of FaultKinds

FaultKinds == {"refused", "unanswered", "crash", "disk", "close"}

ASSUME ClientAssumption ==
    /\ Torn \notin Events
    /\ MaxAttempts \in Nat \ {0}
    /\ MaxStarts \in Nat \ {0}
    /\ MaxSignals \in Nat
    /\ Faults \subseteq FaultKinds

VARIABLES
    offered,    \* history: events given to _write_events
    received,   \* the server: how often it inserted each event
    pending,    \* _pending_queue
    caller,     \* the calling thread: where it is and with what
    flush,      \* _flush_queue_to_disk in the main thread
    outer,      \* the flushes it interrupted, the last one first
    main,       \* the main thread: where it is, next line of a replay
    registered, \* the exit handler is registered and SIGTERM reaches the client
    disk,       \* the lines of the flush file; no file is no lines
    starts,     \* history: processes started so far
    signals,    \* history: SIGTERMs so far
    mishaps     \* history: the things that went wrong so far

process == <<pending, caller, flush, outer, main, registered>>
bounds  == <<starts, signals>>
vars    == <<offered, received, process, disk, bounds, mishaps>>
-----------------------------------------------------------------------------
NotCalling == [at |-> "idle", event |-> Torn, attempt |-> 0,
               batch |-> <<>>, todo |-> {}, ok |-> TRUE]

NotFlushing == [at |-> "idle", next |-> 1, buffer |-> <<>>]

Alive == main.at \notin {"down"}

\* Rows the server gets from an INSERT of what is at these places of a list.
Inserted(list, places) ==
    [e \in Events |-> received[e] + Cardinality({i \in places : list[i] = e})]

Blame(what) == mishaps' = mishaps \cup what

(* What is appended now is not in the file that some flush clears the list   *)
(* for: the flush has closed it, or has gone past the new place.             *)
PastTheEnd ==
    \E f \in {flush} \cup Range(outer) : f.at = "clear" \/ f.next > Len(pending) + 1

(* A file opened for append: what follows a torn line is part of it. *)
Appended(lines, more) ==
    IF lines # <<>> /\ more # <<>> /\ Last(lines) = Torn
    THEN lines \o Tail(more)
    ELSE lines \o more

(* What the file can hold when its writer is cut short: some of the lines *)
(* of the buffer and perhaps a part of the next one.                      *)
PartlyWritten(lines, more) ==
    {Appended(lines, SubSeq(more, 1, k)) : k \in 0 .. Len(more)}
    \cup {Appended(lines, Append(SubSeq(more, 1, k), Torn)) : k \in 0 .. Len(more) - 1}
-----------------------------------------------------------------------------
(* _write_events(table, [event]). *)
Write(e) ==
    /\ main.at \in {"up", "leaving"}
    /\ caller.at = "idle"
    /\ e \notin offered
    /\ offered' = offered \cup {e}
    /\ caller' = [NotCalling EXCEPT !.at = "send", !.event = e]
    /\ UNCHANGED <<received, pending, flush, outer, main, registered, disk, bounds, mishaps>>

(* The INSERT succeeds; what is parked is then sent too. *)
SendOk ==
    /\ Alive
    /\ caller.at = "send"
    /\ received' = Inserted(<<caller.event>>, {1})
    /\ caller' = IF pending = <<>>
                 THEN NotCalling
                 ELSE [NotCalling EXCEPT
                         !.at = "drain", !.event = caller.event,
                         !.batch = pending,
                         !.todo = {TableOf[pending[i]] : i \in DOMAIN pending}]
    /\ Blame(IF pending # <<>> /\ flush.at # "idle" THEN {"overlap"} ELSE {})
    /\ UNCHANGED <<offered, pending, flush, outer, main, registered, disk, bounds>>

(* The request raises, inserted or not: back off and try again, and after *)
(* the last attempt park the event.                                       *)
SendFails ==
    /\ Alive
    /\ caller.at = "send"
    /\ \E how \in Faults \cap {"refused", "unanswered"} :
          /\ received' = IF how = "unanswered"
                         THEN Inserted(<<caller.event>>, {1})
                         ELSE received
          /\ Blame((IF how = "unanswered" THEN {"unanswered"} ELSE {})
                   \cup (IF caller.attempt + 1 = MaxAttempts /\ PastTheEnd
                         THEN {"overlap"} ELSE {}))
    /\ IF caller.attempt + 1 < MaxAttempts
       THEN /\ caller' = [caller EXCEPT !.attempt = @ + 1]
            /\ UNCHANGED pending
       ELSE /\ caller' = NotCalling
            /\ pending' = Append(pending, caller.event)
    /\ UNCHANGED <<offered, flush, outer, main, registered, disk, bounds>>

(* _drain_pending_queue: one INSERT per table of what was parked when it  *)
(* began; a failure leaves the whole queue as it is.                      *)
DrainTable(t) ==
    LET mine == {i \in DOMAIN caller.batch : TableOf[caller.batch[i]] = t}
    IN  /\ Alive
        /\ caller.at = "drain"
        /\ t \in caller.todo
        /\ \E how \in {"ok"} \cup (Faults \cap {"refused", "unanswered"}) :
              /\ received' = IF how = "refused" THEN received ELSE Inserted(caller.batch, mine)
              /\ caller' = [caller EXCEPT !.todo = @ \ {t},
                                          !.ok = @ /\ how = "ok"]
              /\ Blame((IF how = "unanswered" THEN {"unanswered"} ELSE {})
                       \cup (IF how = "refused" /\ mine # DOMAIN caller.batch
                             THEN {"partial"} ELSE {}))
        /\ UNCHANGED <<offered, pending, flush, outer, main, registered, disk, bounds>>

(* Mutant of DrainEnd: what was sent stays parked. *)
DrainEndKeeps ==
    /\ Alive
    /\ caller.at = "drain"
    /\ caller.todo = {}
    /\ caller' = NotCalling
    /\ UNCHANGED <<offered, received, pending, flush, outer, main, registered, disk,
                   bounds, mishaps>>

(* Mutant of DrainEnd: the queue is cleared after a failure too. *)
DrainEndForgets ==
    /\ Alive
    /\ caller.at = "drain"
    /\ caller.todo = {}
    /\ caller' = NotCalling
    /\ pending' = <<>>
    /\ UNCHANGED <<offered, received, flush, outer, main, registered, disk, bounds,
                   mishaps>>

DrainEnd ==
    /\ Alive
    /\ caller.at = "drain"
    /\ caller.todo = {}
    /\ caller' = NotCalling
    /\ pending' = IF caller.ok THEN <<>> ELSE pending
    /\ UNCHANGED <<offered, received, flush, outer, main, registered, disk, bounds,
                   mishaps>>
-----------------------------------------------------------------------------
(* _flush_queue_to_disk with something to write; opening the file may     *)
(* already fail, which is no step.                                        *)
StartFlush == flush' = [NotFlushing EXCEPT !.at = "lines"]

(* A flush that is interrupted has a part of its buffer in the file, and  *)
(* the last line of it may be cut: `there` lines, and a piece of the next. *)
Spilled(there, cut) ==
    SubSeq(flush.buffer, 1, there) \o (IF cut THEN <<Torn>> ELSE <<>>)

Unspilled(there, cut) ==
    IF cut
    THEN <<Torn>> \o SubSeq(flush.buffer, there + 2, Len(flush.buffer))
    ELSE SubSeq(flush.buffer, there + 1, Len(flush.buffer))

Interrupted(there, cut) ==
    /\ disk' = Appended(disk, Spilled(there, cut))
    /\ outer' = IF flush.at = "idle"
                THEN outer
                ELSE <<[flush EXCEPT !.buffer = Unspilled(there, cut)]>> \o outer

(* SIGTERM.  The handler replaces the default one: the process goes on.   *)
Sigterm ==
    /\ signals < MaxSignals
    /\ signals' = signals + 1
    /\ registered
    /\ main.at \in {"replay", "remove", "up", "leaving"}
    /\ pending # <<>>
    /\ StartFlush
    /\ \E there \in 0 .. Len(flush.buffer), cut \in BOOLEAN :
          /\ cut => there < Len(flush.buffer)
          /\ Interrupted(there, cut)
          /\ Blame((IF main.at \in {"replay", "remove"} THEN {"cut"} ELSE {})
                   \cup (IF caller.at = "drain" THEN {"overlap"} ELSE {})
                   \cup (IF flush.at = "clear" \/ flush.next > 1 THEN {"again"} ELSE {})
                   \cup (IF cut THEN {"spill"} ELSE {}))
    /\ UNCHANGED <<offered, received, pending, caller, main, registered, starts>>

(* A flush ends: what it interrupted goes on where it was. *)
Return ==
    /\ flush' = IF outer = <<>> THEN NotFlushing ELSE Head(outer)
    /\ outer' = IF outer = <<>> THEN <<>> ELSE Tail(outer)

(* The loop over the list takes in what the caller appends meanwhile; it  *)
(* ends at once when an inner flush has cleared the list.                 *)
FlushLine ==
    /\ flush.at = "lines"
    /\ flush.next <= Len(pending)
    /\ flush' = [flush EXCEPT !.buffer = Append(@, pending[flush.next]),
                              !.next = @ + 1]
    /\ UNCHANGED <<offered, received, pending, caller, outer, main, registered, disk,
                   bounds, mishaps>>

(* The loop ends and the file is closed ... *)
FlushClose ==
    /\ flush.at = "lines"
    /\ flush.next > Len(pending)
    /\ disk' = Appended(disk, flush.buffer)
    /\ flush' = [flush EXCEPT !.at = "clear", !.buffer = <<>>]
    /\ UNCHANGED <<offered, received, pending, caller, outer, main, registered, bounds,
                   mishaps>>

(* ... or the disk raises OSError, which is swallowed. *)
FlushFails ==
    /\ "disk" \in Faults
    /\ flush.at = "lines"
    /\ disk' \in PartlyWritten(disk, flush.buffer)
    /\ Return
    /\ Blame({"disk"})
    /\ UNCHANGED <<offered, received, pending, caller, main, registered, bounds>>

FlushClear ==
    /\ flush.at = "clear"
    /\ pending' = <<>>
    /\ Return
    /\ UNCHANGED <<offered, received, caller, main, registered, disk, bounds, mishaps>>
-----------------------------------------------------------------------------
(* The constructor registers the handlers and replays the file.  The main *)
(* thread's own steps wait for a handler that runs in it.                 *)
Start ==
    /\ main.at = "down"
    /\ starts < MaxStarts
    /\ starts' = starts + 1
    /\ registered' = TRUE
    /\ main' = [at |-> IF disk = <<>> THEN "up" ELSE "replay", line |-> 1]
    /\ UNCHANGED <<offered, received, pending, caller, flush, outer, disk, signals,
                   mishaps>>

(* The file cannot be read on, or not removed: what was parked stays both  *)
(* parked and in the file.                                                *)
ReplayStops ==
    /\ main' = [main EXCEPT !.at = "up"]
    /\ Blame({"kept"})
    /\ UNCHANGED <<pending, disk>>

(* A line that cannot be decoded ends the replay and keeps the file. *)
ReplayLine ==
    /\ main.at = "replay"
    /\ flush.at = "idle"
    /\ \/ /\ main.line > Len(disk)
          /\ main' = [main EXCEPT !.at = "remove"]
          /\ UNCHANGED <<pending, disk, mishaps>>
       \/ /\ main.line <= Len(disk)
          /\ disk[main.line] # Torn
          /\ main' = [main EXCEPT !.line = @ + 1]
          /\ pending' = Append(pending, disk[main.line])
          /\ UNCHANGED <<disk, mishaps>>
       \/ /\ main.line <= Len(disk)
          /\ disk[main.line] = Torn
          /\ ReplayStops
       \/ /\ "disk" \in Faults
          /\ ReplayStops
    /\ UNCHANGED <<offered, received, caller, flush, outer, registered, bounds>>

ReplayRemove ==
    /\ main.at = "remove"
    /\ flush.at = "idle"
    /\ \/ /\ disk' = <<>>
          /\ main' = [main EXCEPT !.at = "up"]
          /\ UNCHANGED <<pending, mishaps>>
       \/ /\ "disk" \in Faults
          /\ ReplayStops
    /\ UNCHANGED <<offered, received, caller, flush, outer, registered, bounds>>

(* close() unregisters the handlers and leaves the queue alone. *)
Close ==
    /\ "close" \in Faults
    /\ main.at = "up"
    /\ flush.at = "idle"
    /\ registered
    /\ registered' = FALSE
    /\ Blame({"close"})
    /\ UNCHANGED <<offered, received, pending, caller, flush, outer, main, disk, bounds>>

(* The interpreter exits: the exit handler runs while the caller, a daemon *)
(* thread, still does.                                                     *)
Exit ==
    /\ main.at = "up"
    /\ flush.at = "idle"
    /\ main' = [main EXCEPT !.at = "leaving"]
    /\ IF registered /\ pending # <<>> THEN StartFlush ELSE UNCHANGED flush
    /\ Blame(IF registered /\ caller.at = "drain" THEN {"overlap"} ELSE {})
    /\ UNCHANGED <<offered, received, pending, caller, outer, registered, disk, bounds>>

(* The process is gone, and its memory with it. *)
Gone ==
    /\ main' = [at |-> "down", line |-> 1]
    /\ pending' = <<>>
    /\ caller' = NotCalling
    /\ flush' = NotFlushing
    /\ outer' = <<>>
    /\ registered' = FALSE
    /\ UNCHANGED <<offered, received, bounds>>

Exited ==
    /\ main.at = "leaving"
    /\ flush.at = "idle"
    /\ Gone
    /\ Blame(IF caller.at # "idle" \/ pending # <<>> THEN {"left"} ELSE {})
    /\ UNCHANGED disk

(* SIGKILL, or the machine stops. *)
Crash ==
    /\ "crash" \in Faults
    /\ Alive
    /\ Gone
    /\ Blame({"crash"})
    /\ IF flush.at = "lines"
       THEN disk' \in PartlyWritten(disk, flush.buffer)
       ELSE UNCHANGED disk
-----------------------------------------------------------------------------
Init ==
    /\ offered = {}
    /\ received = [e \in Events |-> 0]
    /\ pending = <<>>
    /\ caller = NotCalling
    /\ flush = NotFlushing
    /\ outer = <<>>
    /\ main = [at |-> "down", line |-> 1]
    /\ registered = FALSE
    /\ disk = <<>>
    /\ starts = 0
    /\ signals = 0
    /\ mishaps = {}

CallerStep ==
    \/ SendOk \/ SendFails \/ DrainEnd
    \/ \E t \in {TableOf[e] : e \in Events} : DrainTable(t)

FlushStep == FlushLine \/ FlushClose \/ FlushFails \/ FlushClear

MainStep == Start \/ ReplayLine \/ ReplayRemove \/ Exited

Next ==
    \/ \E e \in Events : Write(e)
    \/ CallerStep
    \/ FlushStep
    \/ MainStep
    \/ Sigterm \/ Close \/ Exit \/ Crash

Spec == Init /\ [][Next]_vars
-----------------------------------------------------------------------------
(* Where a telemetry event can be, and which faults the retry queue and its  *)
(* file survive.                                                            *)
Lines(s) == {s[i] : i \in DOMAIN s}

\* The event is on the server, parked, on disk, or its write is under way.
Somewhere(e) ==
    \/ received[e] > 0
    \/ e \in Lines(pending) \cup Lines(disk)
    \/ caller.at = "send" /\ caller.event = e

(* No event is ever nowhere, unless the process crashed, the disk failed in *)
(* a flush, a flush and the writer met in the pending list, a replay was cut *)
(* by SIGTERM, a flush was interrupted in the middle of a line, or the       *)
(* process exited with a write or parked events in hand.  A server that is   *)
(* down or does not answer, a file that cannot be read or removed, a SIGTERM *)
(* between two writes or between two lines of a flush, and a restart lose    *)
(* nothing.                                                                  *)
LossNeedsMishap ==
    \/ mishaps \cap {"crash", "disk", "overlap", "cut", "spill", "left"} # {}
    \/ \A e \in offered : Somewhere(e)

(* The server gets an event once, unless an answer was lost or late, a      *)
(* drain failed for one table and not for another, a flush and the writer   *)
(* met, a SIGTERM came while a flush had lines in hand (the handler writes   *)
(* the same list again), the file was torn, or it was kept after it was      *)
(* replayed.                                                                *)
DuplicateNeedsMishap ==
    \/ mishaps \cap {"unanswered", "partial", "overlap", "again", "disk", "kept", "crash"} # {}
    \/ \A e \in Events : received[e] <= 1
=============================================================================
