--------------------------- MODULE DiskPersistence ---------------------------
(***************************************************************************)
(* The disk persistence of the KV cache (rfsn_v10/disk_persistence.py):      *)
(* per key a data file and a metadata file, one write-ahead log for all     *)
(* keys, and callers in any number of threads.  The lock of the manager is  *)
(* never taken; the lock of the log covers one append or one truncation.    *)
(*                                                                         *)
(* Abstractions.  The content of a file is the version some persist wrote   *)
(* and whether all of it is there.  Versions grow from call to call, so     *)
(* they also stand for checksums and for time stamps.  A whole data file    *)
(* counts 2 towards the quota, a torn one 1.  An open file knows who has it *)
(* open: writing reaches the file only while it was not unlinked and made   *)
(* anew.  The check of exists() before an unlink is one step with it.       *)
(***************************************************************************)
EXTENDS Integers, Sequences, SequencesExt, FiniteSets, FiniteSetsExt

CONSTANTS
    Keys,           \* cache paths, a name of model, layer and length each
    Procs,          \* threads that call the manager
    MaxCalls,       \* bound: calls made
    MaxCrashes,     \* bound: crashes of the process
    TornAppends,    \* a crash may leave half a line in the log
    MaxSize,        \* max_cache_size
    TargetSize,     \* 80% of it
    LogLimit        \* max_file_size of the log, in entries

ASSUME DiskAssumption ==
    /\ "none" \notin Keys
    /\ MaxCalls \in Nat
    /\ MaxCrashes \in Nat
    /\ TornAppends \in BOOLEAN
    /\ MaxSize \in Nat
    /\ TargetSize \in 0 .. MaxSize
    /\ LogLimit \in Nat \ {0}

NoFile == [ver |-> 0, whole |-> FALSE, open |-> {}]

VARIABLES
    data,       \* the .cache files
    meta,       \* the .meta files
    wal,        \* the lines of the log that parse
    tornTail,   \* the log ends in half a line
    call,       \* what each thread is doing
    calls,      \* calls made so far
    crashes,    \* crashes so far
    acked       \* history: version of a persist that returned True, when no
                \* other call for the key overlapped or changed it, else 0

files == <<data, meta>>
log   == <<wal, tornTail>>
vars  == <<files, log, call, calls, crashes, acked>>
-----------------------------------------------------------------------------
Idle == [at |-> "idle", key |-> "none", ver |-> 0, alone |-> TRUE, apart |-> TRUE, todo |-> <<>>,
         kept |-> {}]   \* history: the keys whose metadata it could not read or
                        \* whose data it could not unlink

Busy(p, at) == call[p].at = at

Goto(p, at) == call' = [call EXCEPT ![p].at = at]

Return(p) == call' = [call EXCEPT ![p] = Idle]

Exists(f) == f.ver # 0

Opened(p, ver) == [ver |-> ver, whole |-> FALSE, open |-> {p}]

(* open("w") truncates what is there and keeps the other writers' handles.  *)
Truncated(f, p, ver) ==
    IF Exists(f) THEN [Opened(p, ver) EXCEPT !.open = @ \cup f.open]
                 ELSE Opened(p, ver)

(* Write and close: when another opened or wrote the file in between, the   *)
(* lengths decide whether the whole of it is this version.                  *)
WrittenBy(f, p, ver) ==
    IF p \in f.open
    THEN [ver : {ver}, whole : IF f.ver = ver THEN {TRUE} ELSE BOOLEAN,
          open : {f.open \ {p}}]
    ELSE {f}

(* Mutant of LogAppend: a full log is dropped, the entry with it. *)
LogAppendDropsFull(e) ==
    /\ wal' = IF Len(wal) >= LogLimit THEN <<>> ELSE Append(wal, e)
    /\ tornTail' = FALSE

(* WriteAheadLog.append: a full log is renamed first, and read_entries      *)
(* never looks at the renamed one; half a line swallows the entry.          *)
LogAppend(e) ==
    /\ tornTail' = FALSE
    /\ wal' = CASE Len(wal) >= LogLimit              -> <<e>>
                [] Len(wal) < LogLimit /\ tornTail    -> wal
                [] Len(wal) < LogLimit /\ ~tornTail   -> Append(wal, e)

LogTruncate ==
    /\ wal' = <<>>
    /\ tornTail' = FALSE

LogEntry(act, k, ver) == [act |-> act, key |-> k, ver |-> ver]

Size == MapThenSumSet(LAMBDA k : IF ~Exists(data[k]) THEN 0 ELSE IF data[k].whole THEN 2 ELSE 1,
                      Keys)

(* History: a call is apart until another one overlaps it.                  *)
Entered(p, rec) ==
    LET others == {q \in Procs \ {p} : ~Busy(q, "idle")} IN
    [q \in Procs |-> CASE q = p         -> [rec EXCEPT !.apart = @ /\ others = {}]
                       [] q \in others  -> [call[q] EXCEPT !.apart = FALSE]
                       [] OTHER         -> call[q]]

(* History: a call that changes the files of k is alone with it until       *)
(* another one that does begins.                                            *)
Engaged(p, k, rec) ==
    LET others == {q \in Procs \ {p} : call[q].key = k} IN
    [q \in Procs |-> IF q \in others
                     THEN [Entered(p, rec)[q] EXCEPT !.alone = FALSE]
                     ELSE IF q = p
                     THEN [Entered(p, rec)[q] EXCEPT !.key = k, !.alone = others = {}]
                     ELSE Entered(p, rec)[q]]

Start(p) ==
    /\ Busy(p, "idle")
    /\ calls < MaxCalls
    /\ calls' = calls + 1
-----------------------------------------------------------------------------
(* persist: the log, the data, the metadata, the log again. *)
PersistLog(p, k) ==
    /\ Start(p)
    /\ LogAppend(LogEntry("write", k, calls + 1))
    /\ call' = Engaged(p, k, [Idle EXCEPT !.at = "open", !.ver = calls + 1, !.apart = ~tornTail])
    /\ UNCHANGED <<files, crashes, acked>>

PersistOpen(p) ==
    LET k == call[p].key IN
    /\ Busy(p, "open")
    /\ data' = [data EXCEPT ![k] = Truncated(@, p, call[p].ver)]
    /\ acked' = [acked EXCEPT ![k] = 0]
    /\ Goto(p, "write")
    /\ UNCHANGED <<meta, log, calls, crashes>>

PersistWrite(p) ==
    LET k == call[p].key IN
    /\ Busy(p, "write")
    /\ \E f \in WrittenBy(data[k], p, call[p].ver) : data' = [data EXCEPT ![k] = f]
    /\ Goto(p, "openMeta")
    /\ UNCHANGED <<meta, log, calls, crashes, acked>>

PersistOpenMeta(p) ==
    LET k == call[p].key IN
    /\ Busy(p, "openMeta")
    /\ meta' = [meta EXCEPT ![k] = Truncated(@, p, call[p].ver)]
    /\ acked' = [acked EXCEPT ![k] = 0]
    /\ Goto(p, "writeMeta")
    /\ UNCHANGED <<data, log, calls, crashes>>

PersistWriteMeta(p) ==
    LET k == call[p].key IN
    /\ Busy(p, "writeMeta")
    /\ \E f \in WrittenBy(meta[k], p, call[p].ver) : meta' = [meta EXCEPT ![k] = f]
    /\ Goto(p, "truncate")
    /\ UNCHANGED <<data, log, calls, crashes, acked>>

(* The whole log goes, with the entries of every other call. *)
PersistTruncate(p) ==
    /\ Busy(p, "truncate")
    /\ LogTruncate
    /\ acked' = IF call[p].alone THEN [acked EXCEPT ![call[p].key] = call[p].ver] ELSE acked
    /\ Return(p)
    /\ UNCHANGED <<files, calls, crashes>>

(* Mutant of PersistFails: the caller is told that all is well. *)
PersistFailsSilently(p) ==
    /\ call[p].at \in {"open", "write", "openMeta", "writeMeta", "truncate"}
    /\ acked' = [acked EXCEPT ![call[p].key] = call[p].ver]
    /\ Return(p)
    /\ UNCHANGED <<files, log, calls, crashes>>

\* The file is closed as it is.
Closed(f, p) == [f EXCEPT !.open = @ \ {p}]

(* An OSError after the first append: persist returns False. *)
PersistFails(p) ==
    LET k == call[p].key IN
    /\ call[p].at \in {"open", "write", "openMeta", "writeMeta", "truncate"}
    /\ data' = [data EXCEPT ![k] = Closed(@, p)]
    /\ meta' = [meta EXCEPT ![k] = Closed(@, p)]
    /\ Return(p)
    /\ UNCHANGED <<log, calls, crashes, acked>>
-----------------------------------------------------------------------------
(* evict. *)
EvictLog(p, k) ==
    /\ Start(p)
    /\ LogAppend(LogEntry("delete", k, 0))
    /\ call' = Engaged(p, k, [Idle EXCEPT !.at = "evictData"])
    /\ UNCHANGED <<files, crashes, acked>>

EvictData(p) ==
    /\ Busy(p, "evictData")
    /\ data' = [data EXCEPT ![call[p].key] = NoFile]
    /\ acked' = [acked EXCEPT ![call[p].key] = 0]
    /\ Goto(p, "evictMeta")
    /\ UNCHANGED <<meta, log, calls, crashes>>

EvictMeta(p) ==
    /\ Busy(p, "evictMeta")
    /\ meta' = [meta EXCEPT ![call[p].key] = NoFile]
    /\ acked' = [acked EXCEPT ![call[p].key] = 0]
    /\ Goto(p, "evictTruncate")
    /\ UNCHANGED <<data, log, calls, crashes>>

EvictTruncate(p) ==
    /\ Busy(p, "evictTruncate")
    /\ LogTruncate
    /\ Return(p)
    /\ UNCHANGED <<files, calls, crashes, acked>>

EvictFails(p) ==
    /\ call[p].at \in {"evictData", "evictMeta", "evictTruncate"}
    /\ Return(p)
    /\ UNCHANGED <<files, log, calls, crashes, acked>>
-----------------------------------------------------------------------------
(* The entries whose metadata can be read. *)
Readable == {k \in Keys : Exists(meta[k]) /\ meta[k].whole}

(* The entries that were read, by time stamp. *)
OldestFirst(todo, read) ==
    /\ Range(todo) = read
    /\ \A i, j \in DOMAIN todo : i < j => meta[todo[i]].ver < meta[todo[j]].ver

(* enforce_quota lists the entries; reading metadata that is whole may fail  *)
(* too, and loses the entry.                                                *)
QuotaStart(p) ==
    /\ Start(p)
    /\ Size > MaxSize
    /\ \E lost \in SUBSET Readable, todo \in UNION {[1 .. n -> Keys] : n \in 0 .. Cardinality(Keys)} :
            /\ OldestFirst(todo, Readable \ lost)
            /\ call' = Entered(p, [Idle EXCEPT !.at = "quota", !.todo = todo, !.kept = lost])
    /\ UNCHANGED <<files, log, crashes, acked>>

QuotaData(p) ==
    LET k == Head(call[p].todo) IN
    /\ Busy(p, "quota")
    /\ call[p].todo # <<>>
    /\ Size > TargetSize
    /\ data' = [data EXCEPT ![k] = NoFile]
    /\ acked' = [acked EXCEPT ![k] = 0]
    /\ call' = Engaged(p, k, [call[p] EXCEPT !.at = "quotaMeta", !.todo = Tail(@)])
    /\ UNCHANGED <<meta, log, calls, crashes>>

(* The next entry, with the metadata of this one gone or left behind: an   *)
(* unlink that raises, on metadata that is gone or with any other OSError,  *)
(* is swallowed.                                                            *)
QuotaMeta(p) ==
    LET k == call[p].key IN
    /\ Busy(p, "quotaMeta")
    /\ \/ meta' = [meta EXCEPT ![k] = NoFile] /\ acked' = [acked EXCEPT ![k] = 0]
       \/ UNCHANGED <<meta, acked>>
    /\ call' = [call EXCEPT ![p] = [@ EXCEPT !.at = "quota", !.key = "none"]]
    /\ UNCHANGED <<data, log, calls, crashes>>

\* The loop goes past an entry whose data is still there.
GonePast(c) == [c EXCEPT !.todo = Tail(@), !.kept = @ \cup {Head(c.todo)}]

(* Mutant of QuotaDataFails: the loop breaks off instead of going on. *)
QuotaDataFailsForGood(p) ==
    /\ Busy(p, "quota")
    /\ call[p].todo # <<>>
    /\ Size > TargetSize
    /\ Exists(data[Head(call[p].todo)])
    /\ call' = [call EXCEPT ![p] = [GonePast(@) EXCEPT !.todo = <<>>]]
    /\ UNCHANGED <<files, log, calls, crashes, acked>>

(* The unlink of the data raises: both files stay, and the loop goes on.    *)
QuotaDataFails(p) ==
    /\ Busy(p, "quota")
    /\ call[p].todo # <<>>
    /\ Size > TargetSize
    /\ Exists(data[Head(call[p].todo)])
    /\ call' = [call EXCEPT ![p] = GonePast(@)]
    /\ UNCHANGED <<files, log, calls, crashes, acked>>

(* get_cache_size raises, on a file unlinked since it was listed or with    *)
(* any other OSError, and the call with it.                                 *)
QuotaRaises(p) ==
    /\ Busy(p, "quota")
    /\ call[p].todo # <<>>
    /\ Return(p)
    /\ UNCHANGED <<files, log, calls, crashes, acked>>

QuotaDone(p) ==
    /\ Busy(p, "quota")
    /\ call[p].todo = <<>> \/ Size <= TargetSize
    /\ Goto(p, "quotaDone")
    /\ UNCHANGED <<files, log, calls, crashes, acked>>

QuotaReturn(p) ==
    /\ Busy(p, "quotaDone")
    /\ Return(p)
    /\ UNCHANGED <<files, log, calls, crashes, acked>>
-----------------------------------------------------------------------------
(* The process dies: the files stay as they are, closed.  A crash inside an *)
(* append may leave half a line.                                            *)
Crash ==
    /\ crashes < MaxCrashes
    /\ crashes' = crashes + 1
    /\ \E p \in Procs : ~Busy(p, "idle")
    /\ call' = [p \in Procs |-> Idle]
    /\ data' = [k \in Keys |-> [data[k] EXCEPT !.open = {}]]
    /\ meta' = [k \in Keys |-> [meta[k] EXCEPT !.open = {}]]
    /\ tornTail' \in IF TornAppends THEN {tornTail, TRUE} ELSE {tornTail}
    /\ UNCHANGED <<wal, calls, acked>>

Init ==
    /\ data = [k \in Keys |-> NoFile]
    /\ meta = [k \in Keys |-> NoFile]
    /\ wal = <<>>
    /\ tornTail = FALSE
    /\ call = [p \in Procs |-> Idle]
    /\ calls = 0
    /\ crashes = 0
    /\ acked = [k \in Keys |-> 0]

Persist(p) ==
    \/ \E k \in Keys : PersistLog(p, k)
    \/ PersistOpen(p) \/ PersistWrite(p) \/ PersistOpenMeta(p) \/ PersistWriteMeta(p)
    \/ PersistTruncate(p) \/ PersistFails(p)

Evict(p) ==
    \/ \E k \in Keys : EvictLog(p, k)
    \/ EvictData(p) \/ EvictMeta(p) \/ EvictTruncate(p) \/ EvictFails(p)

EnforceQuota(p) ==
    \/ QuotaStart(p) \/ QuotaData(p) \/ QuotaMeta(p) \/ QuotaDataFails(p) \/ QuotaRaises(p)
    \/ QuotaDone(p) \/ QuotaReturn(p)

Next == Crash \/ \E p \in Procs : Persist(p) \/ Evict(p) \/ EnforceQuota(p)

Spec == Init /\ [][Next]_vars
=============================================================================
