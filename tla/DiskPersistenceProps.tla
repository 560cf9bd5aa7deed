------------------------- MODULE DiskPersistenceProps -------------------------
(* What the files and the log must keep true of each other. *)
EXTENDS DiskPersistence

(* What persist returned True for is on disk, data and metadata both whole  *)
(* and of that version, until the next call for the key: no other key's     *)
(* call, crash or quota that spares it can spoil it.                        *)
AckedIsDurable ==
    \A k \in Keys : acked[k] # 0 =>
        /\ data[k].ver = acked[k] /\ data[k].whole
        /\ meta[k].ver = acked[k] /\ meta[k].whole

(* "Write to WAL first" (disk_persistence.py:112): while a persist is        *)
(* between its two uses of the log, its entry is there for recovery, at the  *)
(* size limit of the log too.  Not when another call overlapped it, which   *)
(* may truncate the log, nor when the log ended in half a line.             *)
InFlightLogged ==
    \A p \in Procs :
        call[p].at \in {"open", "write", "openMeta", "writeMeta", "truncate"} /\ call[p].apart =>
            Contains(wal, LogEntry("write", call[p].key, call[p].ver))

(* When an enforce_quota no call overlapped ends without an exception, what *)
(* is left fits, or is what the call could do nothing about: entries whose  *)
(* metadata is missing, torn or did not open, or whose data did not unlink. *)
(* One such entry does not spare the ones behind it.                        *)
QuotaLeavesUnreadable ==
    \A p \in Procs : Busy(p, "quotaDone") /\ call[p].apart =>
        \/ Size <= TargetSize
        \/ \A k \in Keys : Exists(data[k]) => k \notin Readable \/ k \in call[p].kept
-----------------------------------------------------------------------------
\* For the model checker: keys and threads are only compared for equality.
DiskSymmetry == Permutations(Keys) \cup Permutations(Procs)
=============================================================================
