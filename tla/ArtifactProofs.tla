---------------------------- MODULE ArtifactProofs ----------------------------
(***************************************************************************)
(* Proofs about files that one run leaves to the next: those of the disk      *)
(* persistence, for any keys, threads, calls, crashes and failing file        *)
(* operations, and those that decide about a release.                        *)
(***************************************************************************)
EXTENDS DiskPersistenceProps, ReleaseProps, SequenceTheorems, WellFoundedInduction, TLAPS

USE DEF files, log

Files == [ver : Nat, whole : BOOLEAN, open : SUBSET Procs]

Stages == {"idle", "open", "write", "openMeta", "writeMeta", "truncate",
           "evictData", "evictMeta", "evictTruncate", "quota", "quotaMeta", "quotaDone"}

Calls == [at : Stages, key : Keys \cup {"none"}, ver : Nat, alone : BOOLEAN,
          apart : BOOLEAN, todo : Seq(Keys), kept : SUBSET Keys]

Entries == [act : {"write", "delete"}, key : Keys, ver : Nat]

DiskTypes ==
    /\ data \in [Keys -> Files]
    /\ meta \in [Keys -> Files]
    /\ wal \in Seq(Entries)
    /\ tornTail \in BOOLEAN
    /\ call \in [Procs -> Calls]
    /\ calls \in Nat
    /\ acked \in [Keys -> Nat]
-----------------------------------------------------------------------------
(* What a call that begins leaves of the others: where they are and what     *)
(* they write; alone and apart are no longer what they were.                 *)
LEMMA EnteredOthers ==
    ASSUME NEW p \in Procs, NEW rec \in Calls, NEW q \in Procs \ {p}
    PROVE  /\ call[q].at = "idle" => Entered(p, rec)[q] = call[q]
           /\ call[q].at # "idle" => Entered(p, rec)[q] = [call[q] EXCEPT !.apart = FALSE]
  BY DEF Entered, Busy

LEMMA EnteredCalls ==
    ASSUME DiskTypes, NEW p \in Procs, NEW rec \in Calls
    PROVE  /\ Entered(p, rec) \in [Procs -> Calls]
           /\ Entered(p, rec)[p] = [rec EXCEPT !.apart = rec.apart /\ \A q \in Procs \ {p} : call[q].at = "idle"]
<1> DEFINE others == {q \in Procs \ {p} : ~Busy(q, "idle")}
<1>1. Entered(p, rec)[p] = [rec EXCEPT !.apart = @ /\ others = {}]
  BY DEF Entered
<1>2. ASSUME NEW q \in Procs \ {p}
      PROVE  /\ call[q].at = "idle" => Entered(p, rec)[q] = call[q]
             /\ call[q].at # "idle" => Entered(p, rec)[q] = [call[q] EXCEPT !.apart = FALSE]
  BY EnteredOthers
<1>3. (others = {}) <=> \A q \in Procs \ {p} : call[q].at = "idle"
  BY DEF Busy
<1>4. [rec EXCEPT !.apart = @ /\ others = {}] \in Calls
  <2>1. (rec.apart /\ others = {}) \in BOOLEAN
    OBVIOUS
  <2> QED
    BY <2>1 DEF Calls
<1>5. Entered(p, rec) \in [Procs -> Calls]
  <2>1. ASSUME NEW q \in Procs \ {p}
        PROVE  Entered(p, rec)[q] \in Calls
    BY <1>2 DEF DiskTypes, Calls
  <2>2. Entered(p, rec) = [q \in Procs |-> Entered(p, rec)[q]]
    BY DEF Entered
  <2>3. \A q \in Procs : Entered(p, rec)[q] \in Calls
    BY <1>1, <1>4, <2>1
  <2> QED
    BY <2>2, <2>3
<1> HIDE DEF others
<1> QED
  BY <1>1, <1>2, <1>3, <1>5

LEMMA EngagedOthers ==
    ASSUME DiskTypes, NEW p \in Procs, NEW k \in Keys, NEW rec \in Calls, NEW q \in Procs \ {p}
    PROVE  /\ Engaged(p, k, rec)[q] \in Calls
           /\ Engaged(p, k, rec)[q].at = call[q].at
           /\ Engaged(p, k, rec)[q].key = call[q].key
           /\ Engaged(p, k, rec)[q].ver = call[q].ver
           /\ Engaged(p, k, rec)[q].alone => call[q].alone /\ call[q].key # k
           /\ Engaged(p, k, rec)[q].apart => call[q].apart /\ call[q].at = "idle"
<1> DEFINE E == Entered(p, rec)
<1>1. /\ call[q].at = "idle" => E[q] = call[q]
      /\ call[q].at # "idle" => E[q] = [call[q] EXCEPT !.apart = FALSE]
  BY EnteredOthers
<1>2. Engaged(p, k, rec)[q] = IF call[q].key = k THEN [E[q] EXCEPT !.alone = FALSE] ELSE E[q]
  BY DEF Engaged
<1>3. E[q] \in Calls /\ call[q] \in Calls
  <2>1. E \in [Procs -> Calls]
    BY EnteredCalls
  <2>2. call[q] \in Calls
    BY DEF DiskTypes
  <2> HIDE DEF E
  <2> QED
    BY <2>1, <2>2
<1> HIDE DEF E
<1>4. /\ E[q].at = call[q].at /\ E[q].key = call[q].key /\ E[q].ver = call[q].ver
      /\ E[q].alone = call[q].alone
      /\ E[q].apart => call[q].apart /\ call[q].at = "idle"
  BY <1>1, <1>3 DEF Calls
<1>5. CASE call[q].key = k
  <2> DEFINE e == Engaged(p, k, rec)[q]
  <2>1. e = [E[q] EXCEPT !.alone = FALSE]
    BY <1>2, <1>5
  <2>2. e \in Calls /\ e.alone = FALSE /\ e.at = E[q].at /\ e.key = E[q].key /\ e.ver = E[q].ver
    BY <1>3, <2>1 DEF Calls
  <2>3. e.apart = E[q].apart
    BY <1>3, <2>1 DEF Calls
  <2> QED
    BY <1>4, <2>2, <2>3
<1>6. CASE call[q].key # k
  BY <1>2, <1>3, <1>4, <1>6
<1> QED
  BY <1>5, <1>6

LEMMA EngagedCalls ==
    ASSUME DiskTypes, NEW p \in Procs, NEW k \in Keys, NEW rec \in Calls
    PROVE  /\ Engaged(p, k, rec) \in [Procs -> Calls]
           /\ Engaged(p, k, rec)[p].at = rec.at
           /\ Engaged(p, k, rec)[p].key = k
           /\ Engaged(p, k, rec)[p].ver = rec.ver
           /\ Engaged(p, k, rec)[p].alone => \A q \in Procs \ {p} : call[q].key # k
           /\ Engaged(p, k, rec)[p].apart => rec.apart /\ \A q \in Procs \ {p} : call[q].at = "idle"
<1> DEFINE others == {q \in Procs \ {p} : call[q].key = k}
           E == Entered(p, rec)
<1>1. E \in [Procs -> Calls]
  BY EnteredCalls
<1>2. Engaged(p, k, rec)[p] = [E[p] EXCEPT !.key = k, !.alone = others = {}]
  BY DEF Engaged
<1>3. Engaged(p, k, rec)[p] \in Calls
  <2>1. (others = {}) \in BOOLEAN
    OBVIOUS
  <2> HIDE DEF others, E
  <2> QED
    BY <1>1, <1>2, <2>1 DEF Calls
<1>4. /\ Engaged(p, k, rec)[p].at = rec.at
      /\ Engaged(p, k, rec)[p].key = k
      /\ Engaged(p, k, rec)[p].ver = rec.ver
      /\ Engaged(p, k, rec)[p].apart => rec.apart /\ \A q \in Procs \ {p} : call[q].at = "idle"
  <2>1. E[p] = [rec EXCEPT !.apart = rec.apart /\ \A q \in Procs \ {p} : call[q].at = "idle"]
    BY EnteredCalls
  <2> HIDE DEF others, E
  <2> QED
    BY <1>2, <2>1 DEF Calls
<1>5. Engaged(p, k, rec)[p].alone => \A q \in Procs \ {p} : call[q].key # k
  <2>1. Engaged(p, k, rec)[p].alone = (others = {})
    <3> HIDE DEF others, E
    <3> QED
      BY <1>1, <1>2 DEF Calls
  <2> QED
    BY <2>1
<1>6. \A q \in Procs \ {p} : Engaged(p, k, rec)[q] \in Calls
  BY EngagedOthers
<1>7. Engaged(p, k, rec) \in [Procs -> Calls]
  <2>1. Engaged(p, k, rec) = [q \in Procs |-> Engaged(p, k, rec)[q]]
    BY DEF Engaged
  <2>2. \A q \in Procs : Engaged(p, k, rec)[q] \in Calls
    BY <1>3, <1>6
  <2> QED
    BY <2>1, <2>2
<1> QED
  BY <1>4, <1>5, <1>7
-----------------------------------------------------------------------------
LEMMA IdleTyped == Idle \in Calls
  BY DEF Idle, Calls, Stages

LEMMA NoFileTyped == NoFile \in Files
  BY DEF NoFile, Files

LEMMA FileTyped ==
    ASSUME NEW f \in Files, NEW p \in Procs, NEW ver \in Nat
    PROVE  /\ Truncated(f, p, ver) \in Files
           /\ WrittenBy(f, p, ver) \subseteq Files
           /\ Closed(f, p) \in Files
  BY DEF Files, Truncated, Opened, WrittenBy, Closed

LEMMA GotoTyped ==
    ASSUME DiskTypes, NEW p \in Procs, NEW at \in Stages, Goto(p, at)
    PROVE  call' \in [Procs -> Calls]
  BY DEF DiskTypes, Goto, Calls

LEMMA ReturnTyped ==
    ASSUME DiskTypes, NEW p \in Procs, Return(p)
    PROVE  call' \in [Procs -> Calls]
  BY IdleTyped DEF DiskTypes, Return

LEMMA LogTyped ==
    ASSUME DiskTypes,
           \/ LogTruncate
           \/ \E act \in {"write", "delete"}, k \in Keys, ver \in Nat : LogAppend(LogEntry(act, k, ver))
    PROVE  wal' \in Seq(Entries) /\ tornTail' \in BOOLEAN
<1>1. CASE LogTruncate
  <2>1. wal' = <<>> /\ tornTail' = FALSE
    BY <1>1 DEF LogTruncate
  <2> QED
    BY <2>1, EmptySeq
<1>2. ASSUME NEW act \in {"write", "delete"}, NEW k \in Keys, NEW ver \in Nat,
             LogAppend(LogEntry(act, k, ver))
      PROVE  wal' \in Seq(Entries) /\ tornTail' \in BOOLEAN
  <2> DEFINE e == LogEntry(act, k, ver)
  <2>1. e \in Entries
    BY DEF LogEntry, Entries
  <2> HIDE DEF e
  <2>2. wal' \in {<<e>>, wal, Append(wal, e)}
    <3>1. CASE Len(wal) >= LogLimit
      BY <1>2, <3>1 DEF LogAppend, e
    <3>2. CASE Len(wal) < LogLimit /\ tornTail
      BY <1>2, <3>2, DiskAssumption DEF LogAppend, e, DiskTypes
    <3>3. CASE Len(wal) < LogLimit /\ ~tornTail
      BY <1>2, <3>3, DiskAssumption DEF LogAppend, e, DiskTypes
    <3> QED
      BY <3>1, <3>2, <3>3, DiskAssumption DEF DiskTypes
  <2>3. tornTail' = FALSE
    BY <1>2 DEF LogAppend
  <2>4. <<e>> \in Seq(Entries) /\ Append(wal, e) \in Seq(Entries)
    BY <2>1, AppendProperties DEF DiskTypes
  <2>5. wal' \in Seq(Entries)
    BY <2>2, <2>4 DEF DiskTypes
  <2> QED
    BY <2>3, <2>5
<1> QED
  BY <1>1, <1>2

LEMMA TypesInitial == Init => DiskTypes
<1> SUFFICES ASSUME Init
             PROVE  DiskTypes
  OBVIOUS
<1>1. data \in [Keys -> Files] /\ meta \in [Keys -> Files] /\ call \in [Procs -> Calls]
  BY IdleTyped, NoFileTyped DEF Init
<1>2. wal \in Seq(Entries) /\ tornTail \in BOOLEAN /\ calls \in Nat /\ acked \in [Keys -> Nat]
  <2>1. wal = <<>> /\ tornTail = FALSE /\ calls = 0
    BY DEF Init
  <2>2. acked \in [Keys -> Nat]
    BY DEF Init
  <2>3. calls \in Nat
    BY <2>1
  <2> QED
    BY <2>1, <2>2, <2>3, EmptySeq
<1> QED
  BY <1>1, <1>2 DEF DiskTypes

LEMMA PersistTypes ==
    ASSUME DiskTypes, NEW p \in Procs, Persist(p)
    PROVE  DiskTypes'
<1>0. call[p] \in Calls /\ call[p].ver \in Nat
  BY DEF DiskTypes, Calls
<1>1. ASSUME NEW k \in Keys, PersistLog(p, k)
      PROVE  DiskTypes'
  <2>1. calls + 1 \in Nat
    BY DEF DiskTypes
  <2>2. [Idle EXCEPT !.at = "open", !.ver = calls + 1, !.apart = ~tornTail] \in Calls
    BY <2>1, IdleTyped DEF Calls, Stages, DiskTypes
  <2>3. call' \in [Procs -> Calls]
    BY <1>1, <2>2, EngagedCalls DEF PersistLog
  <2> QED
    BY <1>1, <2>1, <2>3, LogTyped DEF PersistLog, Start, DiskTypes
<1>2. CASE PersistOpen(p)
  BY <1>0, <1>2, FileTyped, GotoTyped DEF PersistOpen, DiskTypes, Stages
<1>3. CASE PersistWrite(p)
  <2> DEFINE k == call[p].key
  <2>1. PICK f \in WrittenBy(data[k], p, call[p].ver) : data' = [data EXCEPT ![k] = f]
    BY <1>3 DEF PersistWrite
  <2>2. k \in Keys => f \in Files
    BY <1>0, FileTyped DEF DiskTypes
  <2>3. data' \in [Keys -> Files]
    BY <2>1, <2>2 DEF DiskTypes
  <2> QED
    BY <1>3, <2>3, GotoTyped DEF PersistWrite, DiskTypes, Stages
<1>4. CASE PersistOpenMeta(p)
  BY <1>0, <1>4, FileTyped, GotoTyped DEF PersistOpenMeta, DiskTypes, Stages
<1>5. CASE PersistWriteMeta(p)
  <2> DEFINE k == call[p].key
  <2>1. PICK f \in WrittenBy(meta[k], p, call[p].ver) : meta' = [meta EXCEPT ![k] = f]
    BY <1>5 DEF PersistWriteMeta
  <2>2. k \in Keys => f \in Files
    BY <1>0, FileTyped DEF DiskTypes
  <2>3. meta' \in [Keys -> Files]
    BY <2>1, <2>2 DEF DiskTypes
  <2> QED
    BY <1>5, <2>3, GotoTyped DEF PersistWriteMeta, DiskTypes, Stages
<1>6. CASE PersistTruncate(p)
  <2>1. acked' \in [Keys -> Nat]
    BY <1>0, <1>6 DEF PersistTruncate, DiskTypes
  <2> QED
    BY <1>6, <2>1, LogTyped, ReturnTyped DEF PersistTruncate, DiskTypes
<1>7. CASE PersistFails(p)
  BY <1>7, FileTyped, ReturnTyped DEF PersistFails, DiskTypes
<1> QED
  BY <1>1, <1>2, <1>3, <1>4, <1>5, <1>6, <1>7 DEF Persist

LEMMA EvictTypes ==
    ASSUME DiskTypes, NEW p \in Procs, Evict(p)
    PROVE  DiskTypes'
<1>1. ASSUME NEW k \in Keys, EvictLog(p, k)
      PROVE  DiskTypes'
  <2>1. [Idle EXCEPT !.at = "evictData"] \in Calls
    BY IdleTyped DEF Calls, Stages
  <2>2. call' \in [Procs -> Calls]
    BY <1>1, <2>1, EngagedCalls DEF EvictLog
  <2> QED
    <3>1. LogAppend(LogEntry("delete", k, 0)) /\ 0 \in Nat
      BY <1>1 DEF EvictLog
    <3>2. wal' \in Seq(Entries) /\ tornTail' \in BOOLEAN
      BY <3>1, LogTyped
    <3>3. calls' \in Nat
      BY <1>1 DEF EvictLog, Start, DiskTypes
    <3> QED
      BY <1>1, <2>2, <3>2, <3>3 DEF EvictLog, DiskTypes
<1>2. CASE EvictData(p)
  BY <1>2, NoFileTyped, GotoTyped DEF EvictData, DiskTypes, Stages
<1>3. CASE EvictMeta(p)
  BY <1>3, NoFileTyped, GotoTyped DEF EvictMeta, DiskTypes, Stages
<1>4. CASE EvictTruncate(p)
  BY <1>4, LogTyped, ReturnTyped DEF EvictTruncate, DiskTypes
<1>5. CASE EvictFails(p)
  BY <1>5, ReturnTyped DEF EvictFails, DiskTypes
<1> QED
  BY <1>1, <1>2, <1>3, <1>4, <1>5 DEF Evict

LEMMA QuotaTypes ==
    ASSUME DiskTypes, NEW p \in Procs, EnforceQuota(p)
    PROVE  DiskTypes'
<1>0. call[p] \in Calls
  BY DEF DiskTypes
<1>1. CASE QuotaStart(p)
  <2>1. PICK lost \in SUBSET Readable, todo \in UNION {[1 .. n -> Keys] : n \in 0 .. Cardinality(Keys)} :
            call' = Entered(p, [Idle EXCEPT !.at = "quota", !.todo = todo, !.kept = lost])
    BY <1>1 DEF QuotaStart
  <2>2. PICK n \in 0 .. Cardinality(Keys) : todo \in [1 .. n -> Keys]
    OBVIOUS
  <2>3. n \in Nat
    OBVIOUS
  <2>4. todo \in Seq(Keys)
    BY <2>2, <2>3
  <2>5. [Idle EXCEPT !.at = "quota", !.todo = todo, !.kept = lost] \in Calls
    BY <2>4, IdleTyped DEF Calls, Stages, Readable
  <2>6. call' \in [Procs -> Calls]
    BY <2>1, <2>5, EnteredCalls
  <2> QED
    BY <1>1, <2>6 DEF QuotaStart, Start, DiskTypes
<1>2. CASE QuotaData(p)
  <2>1. Head(call[p].todo) \in Keys
    BY <1>0, <1>2 DEF QuotaData, Calls
  <2>2. [call[p] EXCEPT !.at = "quotaMeta", !.todo = Tail(@)] \in Calls
    <3>1. Tail(call[p].todo) \in Seq(Keys)
      BY <1>0, <1>2 DEF QuotaData, Calls
    <3> QED
      BY <1>0, <3>1 DEF Calls, Stages
  <2>3. call' = Engaged(p, Head(call[p].todo), [call[p] EXCEPT !.at = "quotaMeta", !.todo = Tail(@)])
    BY <1>2 DEF QuotaData
  <2>4. call' \in [Procs -> Calls]
    BY <2>1, <2>2, <2>3, EngagedCalls
  <2> QED
    BY <1>2, <2>4, NoFileTyped DEF QuotaData, DiskTypes
<1>3. CASE QuotaMeta(p)
  <2>1. [call[p] EXCEPT !.at = "quota", !.key = "none"] \in Calls
    BY <1>0 DEF Calls, Stages
  <2>2. call' \in [Procs -> Calls]
    BY <1>3, <2>1 DEF QuotaMeta, DiskTypes
  <2>3. meta' \in [Keys -> Files] /\ acked' \in [Keys -> Nat]
    <3>1. \/ \E k : meta' = [meta EXCEPT ![k] = NoFile] /\ acked' = [acked EXCEPT ![k] = 0]
          \/ meta' = meta /\ acked' = acked
      BY <1>3 DEF QuotaMeta
    <3>2. CASE meta' = meta /\ acked' = acked
      BY <3>2 DEF DiskTypes
    <3>3. ASSUME NEW k, meta' = [meta EXCEPT ![k] = NoFile], acked' = [acked EXCEPT ![k] = 0]
          PROVE  meta' \in [Keys -> Files] /\ acked' \in [Keys -> Nat]
      BY <3>3, NoFileTyped DEF DiskTypes
    <3> QED
      BY <3>1, <3>2, <3>3
  <2> QED
    BY <1>3, <2>2, <2>3 DEF QuotaMeta, DiskTypes
<1>6. CASE QuotaDataFails(p)
  <2>1. Head(call[p].todo) \in Keys /\ Tail(call[p].todo) \in Seq(Keys)
    BY <1>0, <1>6 DEF QuotaDataFails, Calls
  <2>2. GonePast(call[p]) \in Calls
    BY <1>0, <2>1 DEF Calls, GonePast
  <2>3. call' \in [Procs -> Calls]
    BY <1>6, <2>2 DEF QuotaDataFails, DiskTypes
  <2> QED
    BY <1>6, <2>3 DEF QuotaDataFails, DiskTypes
<1>7. CASE QuotaRaises(p)
  BY <1>7, ReturnTyped DEF QuotaRaises, DiskTypes
<1>4. CASE QuotaDone(p)
  BY <1>4, GotoTyped DEF QuotaDone, DiskTypes, Stages
<1>5. CASE QuotaReturn(p)
  BY <1>5, ReturnTyped DEF QuotaReturn, DiskTypes
<1> QED
  BY <1>1, <1>2, <1>3, <1>4, <1>5, <1>6, <1>7 DEF EnforceQuota

LEMMA CrashTypes ==
    ASSUME DiskTypes, Crash
    PROVE  DiskTypes'
<1>1. ASSUME NEW f \in Files
      PROVE  [f EXCEPT !.open = {}] \in Files
  BY DEF Files
<1>2. tornTail' \in BOOLEAN
  BY DEF Crash, DiskTypes
<1> QED
  BY <1>1, <1>2, IdleTyped DEF Crash, DiskTypes

LEMMA TypesStep == DiskTypes /\ [Next]_vars => DiskTypes'
  BY CrashTypes, PersistTypes, EvictTypes, QuotaTypes DEF Next, vars, DiskTypes
-----------------------------------------------------------------------------
(* A persist nobody disturbed has the file it is about to write open under    *)
(* its own version, and what it wrote before is whole; and while a version is  *)
(* acknowledged, a call for its key has not touched the files yet.           *)
IsWhole(f, ver) == f.ver = ver /\ f.whole

IsOpen(f, ver, p) == f.ver = ver /\ p \in f.open

Progress(p, k) ==
    /\ call[p].at \in {"openMeta", "writeMeta", "truncate"} => IsWhole(data[k], call[p].ver)
    /\ call[p].at = "write" => IsOpen(data[k], call[p].ver, p)
    /\ call[p].at = "writeMeta" => IsOpen(meta[k], call[p].ver, p)
    /\ call[p].at = "truncate" => IsWhole(meta[k], call[p].ver)

Keyless(c) == c.key = "none" /\ c.at \in {"idle", "quota", "quotaDone"}

Keyed(c) == c.key \in Keys /\ c.at \notin {"idle", "quota", "quotaDone"}

KeyIsKnown == \A p \in Procs : Keyed(call[p]) \/ Keyless(call[p])

AloneIsAlone ==
    \A p, q \in Procs : p # q /\ call[p].alone /\ call[p].key \in Keys => call[q].key # call[p].key

ProgressInv == \A p \in Procs, k \in Keys : call[p].alone /\ call[p].key = k => Progress(p, k)

Untouched(c) == c.at \in {"open", "evictData"}

AckedInv ==
    \A k \in Keys : acked[k] # 0 =>
        /\ IsWhole(data[k], acked[k])
        /\ IsWhole(meta[k], acked[k])
        /\ \A p \in Procs : call[p].key = k => Untouched(call[p])

DiskInv == DiskTypes /\ KeyIsKnown /\ AloneIsAlone /\ ProgressInv /\ AckedInv

(* A step of p within its call touches the files of its key and no other.     *)
Within(p, k) ==
    /\ k = call[p].key
    /\ \A q \in Procs \ {p} : call'[q] = call[q]
    /\ Keyless(call'[p]) \/ (Keyed(call'[p]) /\ call'[p].key = k /\ call'[p].alone = call[p].alone)
    /\ \A j \in Keys \ {k} : data'[j] = data[j] /\ meta'[j] = meta[j] /\ acked'[j] = acked[j]

LEMMA WithinKeeps ==
    ASSUME DiskInv, DiskTypes', NEW p \in Procs, NEW k \in Keys \cup {"none"}, Within(p, k),
           k \in Keys /\ call[p].alone /\ call'[p].key = k => Progress(p, k)',
           k \in Keys /\ acked'[k] # 0 =>
               /\ IsWhole(data[k], acked[k])' /\ IsWhole(meta[k], acked[k])'
               /\ call'[p].key = k => Untouched(call'[p])
               /\ \A q \in Procs \ {p} : call[q].key = k => Untouched(call[q])
    PROVE  DiskInv'
<1> USE DEF DiskInv, Within
<1>1. KeyIsKnown'
  BY DEF KeyIsKnown
<1>2. AloneIsAlone'
  BY DiskAssumption DEF AloneIsAlone, Keyless
<1>3. ProgressInv'
  <2> SUFFICES ASSUME NEW q \in Procs, NEW j \in Keys, call'[q].alone, call'[q].key = j
               PROVE  Progress(q, j)'
    BY DEF ProgressInv
  <2>1. CASE q = p
    BY <2>1, DiskAssumption DEF Keyless
  <2>2. CASE q # p
    <3>1. call'[q] = call[q] /\ j # k
      BY <2>2 DEF AloneIsAlone
    <3>2. data'[j] = data[j] /\ meta'[j] = meta[j]
      BY <3>1
    <3> QED
      BY <3>1, <3>2 DEF ProgressInv, Progress, IsWhole, IsOpen
  <2> QED
    BY <2>1, <2>2
<1>4. AckedInv'
  <2> SUFFICES ASSUME NEW j \in Keys, acked'[j] # 0
               PROVE  /\ IsWhole(data[j], acked[j])' /\ IsWhole(meta[j], acked[j])'
                      /\ \A q \in Procs : call'[q].key = j => Untouched(call'[q])
    BY DEF AckedInv
  <2>1. CASE j = k
    BY <2>1 DEF Untouched
  <2>2. CASE j # k
    <3>1. data'[j] = data[j] /\ meta'[j] = meta[j] /\ acked'[j] = acked[j]
      BY <2>2
    <3>2. ASSUME NEW q \in Procs, call'[q].key = j
          PROVE  Untouched(call'[q])
      <4>1. q # p
        BY <2>2, <3>2, DiskAssumption DEF Keyless
      <4> QED
        BY <3>1, <3>2, <4>1 DEF AckedInv
    <3> QED
      BY <3>1, <3>2 DEF AckedInv, IsWhole
  <2> QED
    BY <2>1, <2>2
<1> QED
  BY <1>1, <1>2, <1>3, <1>4

(* A call that takes up a key leaves its files alone, or withdraws what was   *)
(* acknowledged of it.                                                       *)
LEMMA EngagingKeeps ==
    ASSUME DiskInv, DiskTypes', NEW p \in Procs, NEW k \in Keys, NEW rec \in Calls,
           Keyless(call[p]), call' = Engaged(p, k, rec),
           rec.at \in {"open", "evictData", "quotaMeta"},
           \A j \in Keys \ {k} : data'[j] = data[j] /\ meta'[j] = meta[j] /\ acked'[j] = acked[j],
           \/ acked'[k] = 0
           \/ Untouched(rec) /\ data'[k] = data[k] /\ meta'[k] = meta[k] /\ acked'[k] = acked[k]
    PROVE  DiskInv'
<1>0. DiskTypes
  BY DEF DiskInv
<1>1. /\ call'[p].at = rec.at /\ call'[p].key = k
      /\ call'[p].alone => \A q \in Procs \ {p} : call[q].key # k
  <2>1. Engaged(p, k, rec)[p].at = rec.at /\ Engaged(p, k, rec)[p].key = k
    BY ONLY <1>0, EngagedCalls
  <2>2. Engaged(p, k, rec)[p].alone => \A q \in Procs \ {p} : call[q].key # k
    BY ONLY <1>0, EngagedCalls
  <2>3. call'[p] = Engaged(p, k, rec)[p]
    OBVIOUS
  <2> QED
    BY ONLY <2>1, <2>2, <2>3
<1>2. ASSUME NEW q \in Procs \ {p}
      PROVE  /\ call'[q].at = call[q].at
             /\ call'[q].key = call[q].key
             /\ call'[q].ver = call[q].ver
             /\ call'[q].alone => call[q].alone /\ call[q].key # k
  <2>1. /\ Engaged(p, k, rec)[q].at = call[q].at
        /\ Engaged(p, k, rec)[q].key = call[q].key
        /\ Engaged(p, k, rec)[q].ver = call[q].ver
    BY ONLY <1>0, EngagedOthers
  <2>2. Engaged(p, k, rec)[q].alone => call[q].alone /\ call[q].key # k
    BY ONLY <1>0, EngagedOthers
  <2>3. call'[q] = Engaged(p, k, rec)[q]
    OBVIOUS
  <2> QED
    BY ONLY <2>1, <2>2, <2>3
<1> USE DEF DiskInv
<1>3. KeyIsKnown'
  BY <1>1, <1>2 DEF KeyIsKnown, Keyless, Keyed
<1>4. AloneIsAlone'
  BY <1>1, <1>2 DEF AloneIsAlone
<1>5. ProgressInv'
  <2> SUFFICES ASSUME NEW q \in Procs, NEW j \in Keys, call'[q].alone, call'[q].key = j
               PROVE  Progress(q, j)'
    BY DEF ProgressInv
  <2>1. CASE q = p
    BY <1>1, <2>1 DEF Progress
  <2>2. CASE q # p
    <3>1. call[q].alone /\ call[q].key = j /\ j # k
      BY <1>2, <2>2
    <3>2. data'[j] = data[j] /\ meta'[j] = meta[j]
      BY <3>1
    <3>3. call'[q].at = call[q].at /\ call'[q].ver = call[q].ver
      BY <1>2, <2>2
    <3> QED
      BY <3>1, <3>2, <3>3 DEF ProgressInv, Progress, IsWhole, IsOpen
  <2> QED
    BY <2>1, <2>2
<1>6. AckedInv'
  <2> SUFFICES ASSUME NEW j \in Keys, acked'[j] # 0
               PROVE  /\ IsWhole(data[j], acked[j])' /\ IsWhole(meta[j], acked[j])'
                      /\ \A q \in Procs : call'[q].key = j => Untouched(call'[q])
    BY DEF AckedInv
  <2>1. data'[j] = data[j] /\ meta'[j] = meta[j] /\ acked'[j] = acked[j]
    OBVIOUS
  <2>2. ASSUME NEW q \in Procs, call'[q].key = j
        PROVE  Untouched(call'[q])
    <3>1. CASE q = p
      BY <1>1, <2>2, <3>1 DEF Untouched
    <3>2. CASE q # p
      BY <1>2, <2>1, <2>2, <3>2 DEF AckedInv, Untouched
    <3> QED
      BY <3>1, <3>2
  <2> QED
    BY <2>1, <2>2 DEF AckedInv, IsWhole
<1> QED
  BY <1>3, <1>4, <1>5, <1>6
-----------------------------------------------------------------------------
LEMMA DiskInitial == Init => DiskInv
<1> SUFFICES ASSUME Init
             PROVE  DiskInv
  OBVIOUS
<1>1. \A p \in Procs : call[p].at = "idle" /\ call[p].key = "none"
  BY DEF Init, Idle
<1>2. \A k \in Keys : acked[k] = 0
  BY DEF Init
<1> QED
  BY <1>1, <1>2, TypesInitial, DiskAssumption
     DEF DiskInv, KeyIsKnown, AloneIsAlone, ProgressInv, Progress, AckedInv, Keyless

(* Where Goto and Return take a call.                                        *)
LEMMA GoneTo ==
    ASSUME DiskTypes, NEW p \in Procs, NEW at, Goto(p, at)
    PROVE  /\ \A q \in Procs \ {p} : call'[q] = call[q]
           /\ call'[p].at = at /\ call'[p].key = call[p].key /\ call'[p].ver = call[p].ver
           /\ call'[p].alone = call[p].alone /\ call'[p].apart = call[p].apart
  BY DEF DiskTypes, Calls, Goto

LEMMA HasReturned ==
    ASSUME DiskTypes, NEW p \in Procs, Return(p)
    PROVE  (\A q \in Procs \ {p} : call'[q] = call[q]) /\ call'[p] = Idle /\ Keyless(Idle)
  BY DEF DiskTypes, Return, Idle, Keyless

(* While a version is acknowledged every call for its key is one that has not *)
(* touched the files.                                                        *)
LEMMA OthersUntouched ==
    ASSUME DiskInv, NEW k \in Keys, acked[k] # 0, NEW q \in Procs, call[q].key = k
    PROVE  Untouched(call[q])
  BY DEF DiskInv, AckedInv

(* A file a persist has open under its version is whole once written.        *)
LEMMA WrittenIsWhole ==
    ASSUME NEW p, NEW f, NEW ver, NEW g \in WrittenBy(f, p, ver), IsOpen(f, ver, p)
    PROVE  IsWhole(g, ver)
  BY DEF WrittenBy, IsOpen, IsWhole

LEMMA PersistKeeps ==
    ASSUME DiskInv, NEW p \in Procs, Persist(p)
    PROVE  DiskInv'
<1>12. PICK k : k = call[p].key
  OBVIOUS
<1>8. DiskTypes /\ DiskTypes'
  BY PersistTypes DEF DiskInv
<1>9. /\ k \in Keys \cup {"none"} /\ call[p] \in Calls
      /\ call[p].at \notin {"idle", "quota", "quotaDone"} => k \in Keys
  BY <1>8, <1>12 DEF DiskInv, KeyIsKnown, Keyed, Keyless, DiskTypes, Calls
<1>10. k \in Keys /\ acked[k] # 0 => \A q \in Procs : call[q].key = k => Untouched(call[q])
  BY OthersUntouched
<1>11. k \in Keys /\ call[p].alone => Progress(p, k)
  BY <1>12 DEF DiskInv, ProgressInv
<1>1. ASSUME NEW j \in Keys, PersistLog(p, j)
      PROVE  DiskInv'
  <2> DEFINE rec == [Idle EXCEPT !.at = "open", !.ver = calls + 1, !.apart = ~tornTail]
  <2>1. rec \in Calls /\ rec.at = "open"
    <3>1. calls + 1 \in Nat /\ tornTail \in BOOLEAN
      BY <1>8 DEF DiskTypes
    <3> QED
      BY <3>1, IdleTyped DEF Calls, Stages
  <2>2. Keyless(call[p])
    BY <1>1 DEF PersistLog, Start, Busy, DiskInv, KeyIsKnown, Keyed
  <2>3. call' = Engaged(p, j, rec) /\ UNCHANGED <<data, meta, acked>>
    BY <1>1 DEF PersistLog
  <2> HIDE DEF rec
  <2> QED
    BY <1>8, <2>1, <2>2, <2>3, EngagingKeeps DEF Untouched
<1>2. CASE PersistOpen(p)
  <2>1. call[p].at = "open" /\ k \in Keys /\ Goto(p, "write")
    BY <1>2, <1>9 DEF PersistOpen, Busy
  <2>2. /\ data' = [data EXCEPT ![k] = Truncated(@, p, call[p].ver)]
        /\ acked' = [acked EXCEPT ![k] = 0] /\ meta' = meta
    BY <1>2, <1>12 DEF PersistOpen
  <2>3. acked'[k] = 0 /\ IsOpen(data'[k], call[p].ver, p)
    BY <1>8, <2>1, <2>2 DEF DiskTypes, Files, Truncated, Opened, IsOpen
  <2>4. Within(p, k)
    BY <1>8, <2>1, <2>2, <1>12, GoneTo DEF Within, Keyed, DiskTypes
  <2>5. call'[p].at = "write" /\ call'[p].ver = call[p].ver
    BY <1>8, <2>1, GoneTo
  <2>6. Progress(p, k)'
    BY <2>3, <2>5 DEF Progress
  <2> QED
    BY <1>8, <2>1, <2>3, <2>4, <2>6, WithinKeeps
<1>3. CASE PersistWrite(p)
  <2>1. call[p].at = "write" /\ k \in Keys /\ Goto(p, "openMeta")
    BY <1>3, <1>9 DEF PersistWrite, Busy
  <2>2. PICK f \in WrittenBy(data[k], p, call[p].ver) : data' = [data EXCEPT ![k] = f]
    BY <1>3, <1>12 DEF PersistWrite
  <2>3. acked' = acked /\ meta' = meta /\ acked[k] = 0
    BY <1>3, <1>10, <1>12, <2>1 DEF PersistWrite, Untouched
  <2>4. call[p].alone => IsWhole(data'[k], call[p].ver)
    BY <1>8, <1>11, <2>1, <2>2, WrittenIsWhole DEF DiskTypes, Progress
  <2>5. Within(p, k)
    BY <1>8, <2>1, <2>2, <2>3, <1>12, GoneTo DEF Within, Keyed, DiskTypes
  <2>6. call'[p].at = "openMeta" /\ call'[p].ver = call[p].ver
    BY <1>8, <2>1, GoneTo
  <2>7. call[p].alone => Progress(p, k)'
    BY <2>4, <2>6 DEF Progress
  <2> QED
    BY <1>8, <2>1, <2>3, <2>5, <2>7, WithinKeeps
<1>4. CASE PersistOpenMeta(p)
  <2>1. call[p].at = "openMeta" /\ k \in Keys /\ Goto(p, "writeMeta")
    BY <1>4, <1>9 DEF PersistOpenMeta, Busy
  <2>2. /\ meta' = [meta EXCEPT ![k] = Truncated(@, p, call[p].ver)]
        /\ acked' = [acked EXCEPT ![k] = 0] /\ data' = data
    BY <1>4, <1>12 DEF PersistOpenMeta
  <2>3. acked'[k] = 0 /\ IsOpen(meta'[k], call[p].ver, p)
    BY <1>8, <2>1, <2>2 DEF DiskTypes, Files, Truncated, Opened, IsOpen
  <2>4. call[p].alone => IsWhole(data'[k], call[p].ver)
    BY <1>11, <2>1, <2>2 DEF Progress
  <2>5. Within(p, k)
    BY <1>8, <2>1, <2>2, <1>12, GoneTo DEF Within, Keyed, DiskTypes
  <2>6. call'[p].at = "writeMeta" /\ call'[p].ver = call[p].ver
    BY <1>8, <2>1, GoneTo
  <2>7. call[p].alone => Progress(p, k)'
    BY <2>3, <2>4, <2>6 DEF Progress
  <2> QED
    BY <1>8, <2>1, <2>3, <2>5, <2>7, WithinKeeps
<1>5. CASE PersistWriteMeta(p)
  <2>1. call[p].at = "writeMeta" /\ k \in Keys /\ Goto(p, "truncate")
    BY <1>5, <1>9 DEF PersistWriteMeta, Busy
  <2>2. PICK f \in WrittenBy(meta[k], p, call[p].ver) : meta' = [meta EXCEPT ![k] = f]
    BY <1>5, <1>12 DEF PersistWriteMeta
  <2>3. acked' = acked /\ data' = data /\ acked[k] = 0
    BY <1>5, <1>10, <1>12, <2>1 DEF PersistWriteMeta, Untouched
  <2>4. call[p].alone => IsWhole(meta'[k], call[p].ver) /\ IsWhole(data'[k], call[p].ver)
    BY <1>8, <1>11, <2>1, <2>2, <2>3, WrittenIsWhole DEF DiskTypes, Progress
  <2>5. Within(p, k)
    BY <1>8, <2>1, <2>2, <2>3, <1>12, GoneTo DEF Within, Keyed, DiskTypes
  <2>6. call'[p].at = "truncate" /\ call'[p].ver = call[p].ver
    BY <1>8, <2>1, GoneTo
  <2>7. call[p].alone => Progress(p, k)'
    BY <2>4, <2>6 DEF Progress
  <2> QED
    BY <1>8, <2>1, <2>3, <2>5, <2>7, WithinKeeps
<1>6. CASE PersistTruncate(p)
  <2>1. call[p].at = "truncate" /\ k \in Keys /\ Return(p)
    BY <1>6, <1>9 DEF PersistTruncate, Busy
  <2>2. /\ acked' = IF call[p].alone THEN [acked EXCEPT ![k] = call[p].ver] ELSE acked
        /\ data' = data /\ meta' = meta /\ acked[k] = 0
    BY <1>6, <1>10, <1>12, <2>1 DEF PersistTruncate, Untouched
  <2>3. call[p].alone => IsWhole(meta[k], call[p].ver) /\ IsWhole(data[k], call[p].ver)
    BY <1>11, <2>1 DEF Progress
  <2>4. call[p].alone => \A q \in Procs \ {p} : call[q].key # k
    BY <1>12, <2>1 DEF DiskInv, AloneIsAlone
  <2>5. acked'[k] # 0 => call[p].alone /\ acked'[k] = call[p].ver
    BY <1>8, <2>1, <2>2 DEF DiskTypes
  <2>6. Within(p, k)
    BY <1>8, <2>1, <2>2, <1>12, HasReturned DEF Within, DiskTypes
  <2>7. call'[p].key # k
    BY <1>8, <2>1, HasReturned, DiskAssumption DEF Keyless
  <2> QED
    BY <1>8, <2>1, <2>2, <2>3, <2>4, <2>5, <2>6, <2>7, WithinKeeps
<1>7. CASE PersistFails(p)
  <2>1. call[p].at \in {"open", "write", "openMeta", "writeMeta", "truncate"} /\ k \in Keys /\ Return(p)
    BY <1>7, <1>9 DEF PersistFails
  <2>2. /\ data' = [data EXCEPT ![k] = Closed(@, p)] /\ meta' = [meta EXCEPT ![k] = Closed(@, p)]
        /\ acked' = acked
    BY <1>7, <1>12 DEF PersistFails
  <2>3. acked[k] # 0 => IsWhole(data'[k], acked[k]) /\ IsWhole(meta'[k], acked[k])
    BY <1>8, <2>1, <2>2 DEF DiskInv, AckedInv, DiskTypes, Files, Closed, IsWhole
  <2>4. Within(p, k)
    BY <1>8, <2>1, <2>2, <1>12, HasReturned DEF Within, DiskTypes
  <2>5. call'[p].key # k
    BY <1>8, <2>1, HasReturned, DiskAssumption DEF Keyless
  <2> QED
    BY <1>8, <1>10, <2>1, <2>2, <2>3, <2>4, <2>5, WithinKeeps
<1> QED
  BY <1>1, <1>2, <1>3, <1>4, <1>5, <1>6, <1>7 DEF Persist

LEMMA EvictKeeps ==
    ASSUME DiskInv, NEW p \in Procs, Evict(p)
    PROVE  DiskInv'
<1>1. PICK k : k = call[p].key
  OBVIOUS
<1>2. DiskTypes /\ DiskTypes'
  BY EvictTypes DEF DiskInv
<1>3. call[p].at \notin {"idle", "quota", "quotaDone"} => k \in Keys
  BY <1>1 DEF DiskInv, KeyIsKnown, Keyed, Keyless
<1>4. k \in Keys /\ acked[k] # 0 =>
        /\ IsWhole(data[k], acked[k]) /\ IsWhole(meta[k], acked[k])
        /\ \A q \in Procs : call[q].key = k => Untouched(call[q])
  BY DEF DiskInv, AckedInv
<1>5. ASSUME NEW j \in Keys, EvictLog(p, j)
      PROVE  DiskInv'
  <2> DEFINE rec == [Idle EXCEPT !.at = "evictData"]
  <2>1. rec \in Calls /\ rec.at = "evictData"
    BY IdleTyped DEF Calls, Stages
  <2>2. Keyless(call[p])
    BY <1>5 DEF EvictLog, Start, Busy, DiskInv, KeyIsKnown, Keyed
  <2>3. call' = Engaged(p, j, rec) /\ UNCHANGED <<data, meta, acked>>
    BY <1>5 DEF EvictLog
  <2> HIDE DEF rec
  <2> QED
    BY <1>2, <2>1, <2>2, <2>3, EngagingKeeps DEF Untouched
<1>6. CASE EvictData(p)
  <2>1. k \in Keys /\ Goto(p, "evictMeta")
    BY <1>3, <1>6 DEF EvictData, Busy
  <2>2. data' = [data EXCEPT ![k] = NoFile] /\ acked' = [acked EXCEPT ![k] = 0] /\ meta' = meta
    BY <1>1, <1>6 DEF EvictData
  <2>3. Within(p, k) /\ acked'[k] = 0
    BY <1>1, <1>2, <2>1, <2>2, GoneTo DEF Within, Keyed, DiskTypes
  <2>4. Progress(p, k)'
    BY <1>2, <2>1, GoneTo DEF Progress
  <2> QED
    BY <1>2, <2>1, <2>3, <2>4, WithinKeeps
<1>7. CASE EvictMeta(p)
  <2>1. k \in Keys /\ Goto(p, "evictTruncate")
    BY <1>3, <1>7 DEF EvictMeta, Busy
  <2>2. meta' = [meta EXCEPT ![k] = NoFile] /\ acked' = [acked EXCEPT ![k] = 0] /\ data' = data
    BY <1>1, <1>7 DEF EvictMeta
  <2>3. Within(p, k) /\ acked'[k] = 0
    BY <1>1, <1>2, <2>1, <2>2, GoneTo DEF Within, Keyed, DiskTypes
  <2>4. Progress(p, k)'
    BY <1>2, <2>1, GoneTo DEF Progress
  <2> QED
    BY <1>2, <2>1, <2>3, <2>4, WithinKeeps
<1>8. CASE EvictTruncate(p) \/ EvictFails(p)
  <2>1. k \in Keys /\ Return(p) /\ UNCHANGED <<data, meta, acked>>
    BY <1>3, <1>8 DEF EvictTruncate, EvictFails, Busy
  <2>2. Within(p, k)
    BY <1>1, <1>2, <2>1, HasReturned DEF Within
  <2>3. call'[p].key # k
    BY <1>2, <2>1, HasReturned, DiskAssumption DEF Keyless
  <2> QED
    BY <1>2, <1>4, <2>1, <2>2, <2>3, WithinKeeps
<1> QED
  BY <1>5, <1>6, <1>7, <1>8 DEF Evict

(* A step that touches no file and at most frees calls of their key.         *)
LEMMA IdlingKeeps ==
    ASSUME DiskInv, DiskTypes', acked' = acked,
           \A k \in Keys : /\ data'[k].ver = data[k].ver /\ data'[k].whole = data[k].whole
                           /\ meta'[k].ver = meta[k].ver /\ meta'[k].whole = meta[k].whole,
           \A q \in Procs :
               \/ Keyless(call'[q])
               \/ /\ call'[q].at = call[q].at /\ call'[q].key = call[q].key
                  /\ call'[q].ver = call[q].ver /\ call'[q].alone = call[q].alone
                  /\ UNCHANGED <<data, meta>>
    PROVE  DiskInv'
<1> USE DEF DiskInv
<1>1. KeyIsKnown'
  BY DEF KeyIsKnown, Keyed, Keyless
<1>2. AloneIsAlone'
  BY DiskAssumption DEF AloneIsAlone, Keyless
<1>3. ProgressInv'
  <2> SUFFICES ASSUME NEW q \in Procs, NEW j \in Keys, call'[q].alone, call'[q].key = j
               PROVE  Progress(q, j)'
    BY DEF ProgressInv
  <2>1. /\ call'[q].at = call[q].at /\ call'[q].key = call[q].key
        /\ call'[q].ver = call[q].ver /\ call'[q].alone = call[q].alone
        /\ UNCHANGED <<data, meta>>
    BY DiskAssumption DEF Keyless
  <2>2. Progress(q, j)
    BY <2>1 DEF ProgressInv
  <2> QED
    BY <2>1, <2>2 DEF Progress, IsWhole, IsOpen
<1>4. AckedInv'
  <2> SUFFICES ASSUME NEW j \in Keys, acked[j] # 0
               PROVE  /\ IsWhole(data[j], acked[j])' /\ IsWhole(meta[j], acked[j])'
                      /\ \A q \in Procs : call'[q].key = j => Untouched(call'[q])
    BY DEF AckedInv
  <2>1. ASSUME NEW q \in Procs, call'[q].key = j
        PROVE  Untouched(call'[q])
    BY <2>1, DiskAssumption DEF AckedInv, Keyless, Untouched
  <2> QED
    BY <2>1 DEF AckedInv, IsWhole
<1> QED
  BY <1>1, <1>2, <1>3, <1>4

LEMMA QuotaKeeps ==
    ASSUME DiskInv, NEW p \in Procs, EnforceQuota(p)
    PROVE  DiskInv'
<1>1. PICK k : k = call[p].key
  OBVIOUS
<1>2. DiskTypes /\ DiskTypes'
  BY QuotaTypes DEF DiskInv
<1>3. /\ call[p].at \notin {"idle", "quota", "quotaDone"} => k \in Keys
      /\ call[p].at \in {"idle", "quota", "quotaDone"} => Keyless(call[p])
  BY <1>1 DEF DiskInv, KeyIsKnown, Keyed, Keyless
<1>4. CASE QuotaStart(p)
  <2>1. PICK lost \in SUBSET Readable, todo \in UNION {[1 .. n -> Keys] : n \in 0 .. Cardinality(Keys)} :
            call' = Entered(p, [Idle EXCEPT !.at = "quota", !.todo = todo, !.kept = lost])
    BY <1>4 DEF QuotaStart
  <2>2. PICK n \in 0 .. Cardinality(Keys) : todo \in [1 .. n -> Keys]
    OBVIOUS
  <2>3. todo \in Seq(Keys)
    BY <2>2, n \in Nat
  <2> DEFINE rec == [Idle EXCEPT !.at = "quota", !.todo = todo, !.kept = lost]
  <2>4. rec \in Calls /\ Keyless(rec)
    BY <2>3, IdleTyped DEF Calls, Stages, Keyless, Idle, Readable
  <2> HIDE DEF rec
  <2>5. call' = Entered(p, rec)
    BY <2>1 DEF rec
  <2>6. Keyless(call'[p])
    <3>1. call'[p] = [rec EXCEPT !.apart = rec.apart /\ \A q \in Procs \ {p} : call[q].at = "idle"]
      BY <1>2, <2>4, <2>5, EnteredCalls
    <3> QED
      BY <2>4, <3>1 DEF Calls, Keyless
  <2>7. ASSUME NEW q \in Procs \ {p}
        PROVE  /\ call'[q].at = call[q].at /\ call'[q].key = call[q].key
               /\ call'[q].ver = call[q].ver /\ call'[q].alone = call[q].alone
    <3>1. call[q] \in Calls
      BY <1>2 DEF DiskTypes
    <3>2. call'[q] = call[q] \/ call'[q] = [call[q] EXCEPT !.apart = FALSE]
      BY <2>4, <2>5, EnteredOthers
    <3> QED
      BY <3>1, <3>2 DEF Calls
  <2>8. UNCHANGED <<data, meta, acked>>
    BY <1>4 DEF QuotaStart
  <2> QED
    BY <1>2, <2>6, <2>7, <2>8, IdlingKeeps
<1>5. CASE QuotaData(p)
  <2> DEFINE j == Head(call[p].todo)
             rec == [call[p] EXCEPT !.at = "quotaMeta", !.todo = Tail(@)]
  <2>1. call[p] \in Calls /\ Keyless(call[p])
    BY <1>2, <1>3, <1>5 DEF QuotaData, Busy, DiskTypes
  <2>2. j \in Keys /\ Tail(call[p].todo) \in Seq(Keys)
    BY <1>5, <2>1 DEF QuotaData, Calls
  <2>3. rec \in Calls /\ rec.at = "quotaMeta"
    BY <2>1, <2>2 DEF Calls, Stages
  <2>4. /\ call' = Engaged(p, j, rec) /\ meta' = meta
        /\ data' = [data EXCEPT ![j] = NoFile] /\ acked' = [acked EXCEPT ![j] = 0]
    BY <1>5 DEF QuotaData
  <2>5. PICK i : i = j
    OBVIOUS
  <2> HIDE DEF j, rec
  <2>6. \A l \in Keys \ {i} : data'[l] = data[l] /\ meta'[l] = meta[l] /\ acked'[l] = acked[l]
    BY <1>2, <2>4, <2>5 DEF DiskTypes
  <2>7. acked'[i] = 0 /\ i \in Keys /\ call' = Engaged(p, i, rec)
    BY <1>2, <2>2, <2>4, <2>5 DEF DiskTypes
  <2> QED
    BY <1>2, <2>1, <2>3, <2>6, <2>7, EngagingKeeps
<1>6. CASE QuotaMeta(p)
  <2>1. k \in Keys /\ call[p] \in Calls
    BY <1>2, <1>3, <1>6 DEF QuotaMeta, Busy, DiskTypes
  <2>2. /\ call' = [call EXCEPT ![p] = [@ EXCEPT !.at = "quota", !.key = "none"]]
        /\ data' = data
        /\ \/ meta' = [meta EXCEPT ![k] = NoFile] /\ acked' = [acked EXCEPT ![k] = 0]
           \/ meta' = meta /\ acked' = acked
    BY <1>1, <1>6 DEF QuotaMeta
  <2>3. Keyless(call'[p]) /\ \A q \in Procs \ {p} : call'[q] = call[q]
    BY <1>2, <2>1, <2>2 DEF DiskTypes, Calls, Keyless
  <2>4. Within(p, k)
    BY <1>1, <1>2, <2>1, <2>2, <2>3 DEF Within, DiskTypes
  <2>6. acked'[k] = 0
    <3>1. acked[k] = 0
      BY <1>1, <1>6, <2>1, OthersUntouched DEF QuotaMeta, Busy, Untouched
    <3> QED
      BY <1>2, <2>1, <2>2, <3>1 DEF DiskTypes
  <2>5. call'[p].key # k
    BY <2>1, <2>3, DiskAssumption DEF Keyless
  <2> QED
    BY <1>2, <2>1, <2>4, <2>5, <2>6, WithinKeeps
<1>7. CASE QuotaDone(p)
  <2>1. Keyless(call[p]) /\ Goto(p, "quotaDone") /\ UNCHANGED <<data, meta, acked>>
    BY <1>3, <1>7 DEF QuotaDone, Busy
  <2>2. Keyless(call'[p]) /\ \A q \in Procs \ {p} : call'[q] = call[q]
    BY <1>2, <2>1, GoneTo DEF Keyless
  <2> QED
    BY <1>2, <2>1, <2>2, IdlingKeeps
<1>9. CASE QuotaDataFails(p)
  <2>1. /\ Keyless(call[p]) /\ UNCHANGED <<data, meta, acked>>
        /\ call' = [call EXCEPT ![p] = GonePast(call[p])]
    BY <1>3, <1>9 DEF QuotaDataFails, Busy
  <2>2. Keyless(call'[p]) /\ \A q \in Procs \ {p} : call'[q] = call[q]
    BY <1>2, <2>1 DEF Keyless, DiskTypes, Calls, GonePast
  <2> QED
    BY <1>2, <2>1, <2>2, IdlingKeeps
<1>8. CASE QuotaReturn(p) \/ QuotaRaises(p)
  <2>1. Return(p) /\ UNCHANGED <<data, meta, acked>>
    BY <1>8 DEF QuotaReturn, QuotaRaises
  <2>2. Keyless(call'[p]) /\ \A q \in Procs \ {p} : call'[q] = call[q]
    BY <1>2, <2>1, HasReturned
  <2> QED
    BY <1>2, <2>1, <2>2, IdlingKeeps
<1> QED
  BY <1>4, <1>5, <1>6, <1>7, <1>8, <1>9 DEF EnforceQuota

LEMMA CrashKeeps ==
    ASSUME DiskInv, Crash
    PROVE  DiskInv'
<1>1. DiskTypes /\ DiskTypes'
  BY CrashTypes DEF DiskInv
<1>2. acked' = acked /\ \A q \in Procs : Keyless(call'[q])
  BY DEF Crash, Idle, Keyless
<1>3. ASSUME NEW k \in Keys
      PROVE  /\ data'[k].ver = data[k].ver /\ data'[k].whole = data[k].whole
             /\ meta'[k].ver = meta[k].ver /\ meta'[k].whole = meta[k].whole
  BY <1>1 DEF Crash, DiskTypes, Files
<1> QED
  BY <1>1, <1>2, <1>3, IdlingKeeps

LEMMA DiskStep == DiskInv /\ [Next]_vars => DiskInv'
<1> SUFFICES ASSUME DiskInv, [Next]_vars
             PROVE  DiskInv'
  OBVIOUS
<1>1. CASE UNCHANGED vars
  <2>1. DiskTypes'
    BY <1>1, TypesStep DEF DiskInv
  <2> QED
    BY <1>1, <2>1, IdlingKeeps DEF vars
<1> QED
  BY <1>1, CrashKeeps, PersistKeeps, EvictKeeps, QuotaKeeps DEF Next

(* What persist returned True for stays on disk, whole and of its version,    *)
(* until the next call for its key begins to touch it, whatever the other     *)
(* threads, the quota, crashes and failing operations do (persist).          *)
THEOREM AckedStaysDurable == Spec => []AckedIsDurable
<1>1. DiskInv => AckedIsDurable
  BY DEF DiskInv, AckedInv, AckedIsDurable, IsWhole
<1> QED
  BY <1>1, DiskInitial, DiskStep, PTL DEF Spec
-----------------------------------------------------------------------------
(* A call nothing overlapped runs alone, so nobody truncates the log under it. *)
Persisting == {"open", "write", "openMeta", "writeMeta", "truncate"}

ApartIsApart ==
    \A p, q \in Procs : p # q /\ call[p].apart /\ call[p].at # "idle" => call[q].at = "idle"

LogInv == DiskTypes /\ ApartIsApart /\ InFlightLogged

LEMMA MovingOnKeepsLog ==
    ASSUME LogInv, NEW p \in Procs,
           \A q \in Procs \ {p} : call'[q] = call[q],
           \/ call'[p].at = "idle"
           \/ /\ call[p].at # "idle" /\ call'[p].apart = call[p].apart
              /\ call'[p].at \in Persisting =>
                    call[p].at \in Persisting /\ call'[p].key = call[p].key /\ call'[p].ver = call[p].ver,
           wal' = wal \/ (call[p].at # "idle" /\ call'[p].at \notin Persisting)
    PROVE  ApartIsApart' /\ InFlightLogged'
<1> USE DEF LogInv, Persisting
<1>1. ApartIsApart'
  BY DEF ApartIsApart
<1>2. ASSUME NEW q \in Procs, call'[q].at \in Persisting, call'[q].apart
      PROVE  Contains(wal', LogEntry("write", call'[q].key, call'[q].ver))
  <2>1. CASE q = p
    BY <1>2, <2>1 DEF InFlightLogged
  <2>2. CASE q # p
    <3>1. call'[q] = call[q] /\ wal' = wal
      BY <1>2, <2>2 DEF ApartIsApart
    <3> QED
      BY <1>2, <3>1 DEF InFlightLogged
  <2> QED
    BY <2>1, <2>2
<1> QED
  BY <1>1, <1>2 DEF InFlightLogged

LEMMA BeginningKeepsLog ==
    ASSUME NEW p \in Procs,
           call'[p].apart => \A q \in Procs \ {p} : call[q].at = "idle",
           \A q \in Procs \ {p} : call'[q].at = call[q].at /\ (call'[q].apart => call[q].at = "idle"),
           call'[p].at \in Persisting /\ call'[p].apart =>
               Contains(wal', LogEntry("write", call'[p].key, call'[p].ver))
    PROVE  ApartIsApart' /\ InFlightLogged'
<1>1. ApartIsApart'
  BY DEF ApartIsApart
<1>2. InFlightLogged'
  BY DEF InFlightLogged, Persisting
<1> QED
  BY <1>1, <1>2

LEMMA EngagingKeepsLog ==
    ASSUME LogInv, NEW p \in Procs, NEW k \in Keys, NEW rec \in Calls, call' = Engaged(p, k, rec),
           rec.at \in Persisting /\ rec.apart => Contains(wal', LogEntry("write", k, rec.ver))
    PROVE  ApartIsApart' /\ InFlightLogged'
<1>1. /\ call'[p].at = rec.at /\ call'[p].key = k /\ call'[p].ver = rec.ver
      /\ call'[p].apart => rec.apart /\ \A q \in Procs \ {p} : call[q].at = "idle"
  BY EngagedCalls DEF LogInv
<1>2. \A q \in Procs \ {p} : call'[q].at = call[q].at /\ (call'[q].apart => call[q].at = "idle")
  BY EngagedOthers DEF LogInv
<1> QED
  BY <1>1, <1>2, BeginningKeepsLog

(* An entry is in the log once it was appended to a log without half a line.  *)
LEMMA AppendedIsLogged ==
    ASSUME DiskTypes, NEW e \in Entries, LogAppend(e), ~tornTail
    PROVE  Contains(wal', e)
<1>1. wal' = <<e>> \/ wal' = Append(wal, e)
  BY DiskAssumption DEF LogAppend, DiskTypes
<1>2. CASE wal' = <<e>>
  BY <1>2 DEF Contains
<1>3. CASE wal' = Append(wal, e)
  <2>1. wal \in Seq(Entries) /\ Len(wal) \in Nat
    BY DEF DiskTypes
  <2>2. Len(wal') = Len(wal) + 1 /\ wal'[Len(wal) + 1] = e
    BY <1>3, <2>1, AppendProperties
  <2>3. Len(wal) + 1 \in 1 .. Len(wal')
    BY <2>1, <2>2
  <2> QED
    BY <2>2, <2>3 DEF Contains
<1> QED
  BY <1>1, <1>2, <1>3

LEMMA PersistKeepsLog ==
    ASSUME LogInv, NEW p \in Procs, Persist(p)
    PROVE  ApartIsApart' /\ InFlightLogged'
<1>1. DiskTypes
  BY DEF LogInv
<1>2. ASSUME NEW k \in Keys, PersistLog(p, k)
      PROVE  ApartIsApart' /\ InFlightLogged'
  <2> DEFINE rec == [Idle EXCEPT !.at = "open", !.ver = calls + 1, !.apart = ~tornTail]
             e == LogEntry("write", k, calls + 1)
  <2>1. calls + 1 \in Nat /\ tornTail \in BOOLEAN
    BY <1>1 DEF DiskTypes
  <2>2. rec \in Calls
    BY <2>1, IdleTyped DEF Calls, Stages
  <2>3. rec.ver = calls + 1
    BY DEF Idle
  <2>4. rec.apart = ~tornTail
    BY DEF Idle
  <2>5. e \in Entries
    BY <2>1 DEF LogEntry, Entries
  <2>6. call' = Engaged(p, k, rec) /\ LogAppend(e)
    BY <1>2 DEF PersistLog
  <2> HIDE DEF rec
  <2>7. rec.apart => Contains(wal', LogEntry("write", k, rec.ver))
    <3> HIDE DEF e
    <3>1. ~tornTail => Contains(wal', e)
      BY <1>1, <2>5, <2>6, AppendedIsLogged
    <3> QED
      BY <2>3, <2>4, <3>1 DEF e
  <2> QED
    BY <2>2, <2>6, <2>7, EngagingKeepsLog
<1>3. CASE PersistOpen(p) \/ PersistWrite(p) \/ PersistOpenMeta(p) \/ PersistWriteMeta(p)
  <2>1. PICK at \in Persisting : Goto(p, at)
    BY <1>3 DEF PersistOpen, PersistWrite, PersistOpenMeta, PersistWriteMeta, Persisting
  <2>2. call[p].at \in Persisting /\ wal' = wal
    BY <1>3 DEF PersistOpen, PersistWrite, PersistOpenMeta, PersistWriteMeta, Persisting, Busy
  <2>3. call[p].at # "idle"
    BY <2>2 DEF Persisting
  <2> QED
    BY <1>1, <2>1, <2>2, <2>3, GoneTo, MovingOnKeepsLog
<1>4. CASE PersistTruncate(p) \/ PersistFails(p)
  <2>1. Return(p) /\ call[p].at # "idle"
    BY <1>4 DEF PersistTruncate, PersistFails, Busy
  <2>2. call'[p].at = "idle" /\ \A q \in Procs \ {p} : call'[q] = call[q]
    BY <1>1, <2>1, HasReturned DEF Idle
  <2> QED
    BY <2>1, <2>2, MovingOnKeepsLog DEF Persisting
<1> QED
  BY <1>2, <1>3, <1>4 DEF Persist

LEMMA EvictKeepsLog ==
    ASSUME LogInv, NEW p \in Procs, Evict(p)
    PROVE  ApartIsApart' /\ InFlightLogged'
<1>1. DiskTypes
  BY DEF LogInv
<1>2. ASSUME NEW k \in Keys, EvictLog(p, k)
      PROVE  ApartIsApart' /\ InFlightLogged'
  <2> DEFINE rec == [Idle EXCEPT !.at = "evictData"]
  <2>1. rec \in Calls /\ rec.at \notin Persisting
    BY IdleTyped DEF Calls, Stages, Persisting
  <2>2. call' = Engaged(p, k, rec)
    BY <1>2 DEF EvictLog
  <2> HIDE DEF rec
  <2> QED
    BY <2>1, <2>2, EngagingKeepsLog
<1>3. CASE EvictData(p) \/ EvictMeta(p)
  <2>1. PICK at \in {"evictMeta", "evictTruncate"} : Goto(p, at)
    BY <1>3 DEF EvictData, EvictMeta
  <2>2. call[p].at # "idle" /\ wal' = wal
    BY <1>3 DEF EvictData, EvictMeta, Busy
  <2>3. at \notin Persisting
    BY DEF Persisting
  <2> QED
    BY <1>1, <2>1, <2>2, <2>3, GoneTo, MovingOnKeepsLog
<1>4. CASE EvictTruncate(p) \/ EvictFails(p)
  <2>1. Return(p) /\ call[p].at # "idle"
    BY <1>4 DEF EvictTruncate, EvictFails, Busy
  <2>2. call'[p].at = "idle" /\ \A q \in Procs \ {p} : call'[q] = call[q]
    BY <1>1, <2>1, HasReturned DEF Idle
  <2> QED
    BY <2>1, <2>2, MovingOnKeepsLog DEF Persisting
<1> QED
  BY <1>2, <1>3, <1>4 DEF Evict

LEMMA QuotaKeepsLog ==
    ASSUME LogInv, NEW p \in Procs, EnforceQuota(p)
    PROVE  ApartIsApart' /\ InFlightLogged'
<1>1. DiskTypes /\ call[p] \in Calls
  BY DEF LogInv, DiskTypes
<1>2. CASE QuotaStart(p)
  <2>1. PICK lost \in SUBSET Readable, todo \in UNION {[1 .. n -> Keys] : n \in 0 .. Cardinality(Keys)} :
            call' = Entered(p, [Idle EXCEPT !.at = "quota", !.todo = todo, !.kept = lost])
    BY <1>2 DEF QuotaStart
  <2>2. PICK n \in 0 .. Cardinality(Keys) : todo \in [1 .. n -> Keys]
    OBVIOUS
  <2>3. todo \in Seq(Keys)
    BY <2>2, n \in Nat
  <2> DEFINE rec == [Idle EXCEPT !.at = "quota", !.todo = todo, !.kept = lost]
  <2>4. rec \in Calls /\ rec.at = "quota"
    BY <2>3, IdleTyped DEF Calls, Stages, Readable
  <2> HIDE DEF rec
  <2>5. call' = Entered(p, rec)
    BY <2>1 DEF rec
  <2>6. /\ call'[p].at = "quota"
        /\ call'[p].apart => \A q \in Procs \ {p} : call[q].at = "idle"
    <3>1. call'[p] = [rec EXCEPT !.apart = rec.apart /\ \A q \in Procs \ {p} : call[q].at = "idle"]
      BY <1>1, <2>4, <2>5, EnteredCalls
    <3> QED
      BY <2>4, <3>1 DEF Calls
  <2>7. ASSUME NEW q \in Procs \ {p}
        PROVE  call'[q].at = call[q].at /\ (call'[q].apart => call[q].at = "idle")
    <3>1. call[q] \in Calls
      BY <1>1 DEF DiskTypes
    <3>2. /\ call[q].at = "idle" => call'[q] = call[q]
          /\ call[q].at # "idle" => call'[q] = [call[q] EXCEPT !.apart = FALSE]
      BY <2>4, <2>5, EnteredOthers
    <3> QED
      BY <3>1, <3>2 DEF Calls
  <2> QED
    BY <2>6, <2>7, BeginningKeepsLog DEF Persisting
<1>3. CASE QuotaData(p)
  <2> DEFINE j == Head(call[p].todo)
             rec == [call[p] EXCEPT !.at = "quotaMeta", !.todo = Tail(@)]
  <2>1. j \in Keys /\ Tail(call[p].todo) \in Seq(Keys)
    BY <1>1, <1>3 DEF QuotaData, Calls
  <2>2. rec \in Calls /\ rec.at \notin Persisting
    BY <1>1, <2>1 DEF Calls, Stages, Persisting
  <2>3. call' = Engaged(p, j, rec)
    BY <1>3 DEF QuotaData
  <2>4. PICK i : i = j
    OBVIOUS
  <2> HIDE DEF j, rec
  <2>5. i \in Keys /\ call' = Engaged(p, i, rec)
    BY <2>1, <2>3, <2>4
  <2> QED
    BY <2>2, <2>5, EngagingKeepsLog
<1>4. CASE QuotaMeta(p)
  <2>1. /\ call' = [call EXCEPT ![p] = [@ EXCEPT !.at = "quota", !.key = "none"]]
        /\ call[p].at # "idle" /\ wal' = wal
    BY <1>4 DEF QuotaMeta, Busy
  <2>2. call'[p] = [call[p] EXCEPT !.at = "quota", !.key = "none"]
    BY <1>1, <2>1 DEF DiskTypes
  <2>3. call'[p].at = "quota" /\ call'[p].apart = call[p].apart
    BY <1>1, <2>2 DEF Calls
  <2>4. \A q \in Procs \ {p} : call'[q] = call[q]
    BY <1>1, <2>1 DEF DiskTypes
  <2> QED
    BY <2>1, <2>3, <2>4, MovingOnKeepsLog DEF Persisting
<1>5. CASE QuotaDone(p)
  <2>1. Goto(p, "quotaDone") /\ call[p].at # "idle" /\ wal' = wal
    BY <1>5 DEF QuotaDone, Busy
  <2> QED
    BY <1>1, <2>1, GoneTo, MovingOnKeepsLog DEF Persisting
<1>7. CASE QuotaDataFails(p)
  <2>1. call' = [call EXCEPT ![p] = GonePast(call[p])] /\ call[p].at = "quota" /\ wal' = wal
    BY <1>7 DEF QuotaDataFails, Busy
  <2>2. /\ call'[p].at = "quota" /\ call'[p].apart = call[p].apart
        /\ \A q \in Procs \ {p} : call'[q] = call[q]
    BY <1>1, <2>1 DEF DiskTypes, Calls, GonePast
  <2> QED
    BY <2>1, <2>2, MovingOnKeepsLog DEF Persisting
<1>6. CASE QuotaReturn(p) \/ QuotaRaises(p)
  <2>1. Return(p) /\ wal' = wal
    BY <1>6 DEF QuotaReturn, QuotaRaises
  <2>2. call'[p].at = "idle" /\ \A q \in Procs \ {p} : call'[q] = call[q]
    BY <1>1, <2>1, HasReturned DEF Idle
  <2> QED
    BY <2>1, <2>2, MovingOnKeepsLog
<1> QED
  BY <1>2, <1>3, <1>4, <1>5, <1>6, <1>7 DEF EnforceQuota

LEMMA LogStep == LogInv /\ [Next]_vars => LogInv'
<1> SUFFICES ASSUME LogInv, [Next]_vars
             PROVE  LogInv'
  OBVIOUS
<1>1. DiskTypes'
  BY TypesStep DEF LogInv
<1>2. CASE Crash
  <2>1. \A p \in Procs : call'[p].at = "idle"
    BY <1>2 DEF Crash, Idle
  <2> QED
    BY <1>1, <2>1 DEF LogInv, ApartIsApart, InFlightLogged
<1>3. CASE UNCHANGED vars
  BY <1>1, <1>3 DEF vars, LogInv, ApartIsApart, InFlightLogged
<1> QED
  BY <1>1, <1>2, <1>3, PersistKeepsLog, EvictKeepsLog, QuotaKeepsLog DEF Next, LogInv

(* A persist nothing overlapped has its entry in the log from its first use   *)
(* of it to its last, at the size limit too (persist, WriteAheadLog.append).  *)
THEOREM PersistIsLogged == Spec => []InFlightLogged
<1>1. Init => LogInv
  BY TypesInitial DEF Init, LogInv, ApartIsApart, InFlightLogged, Idle
<1>2. LogInv => InFlightLogged
  BY DEF LogInv
<1> QED
  BY <1>1, <1>2, LogStep, PTL DEF Spec
-----------------------------------------------------------------------------
(* What an enforce_quota nothing overlapped has still to visit are all the   *)
(* entries that have their data and metadata that can be read: of the others *)
(* it visited the data is gone, or it could do nothing about them.           *)
Draining == {"quota", "quotaMeta"}

QuotaListed ==
    \A p \in Procs : call[p].at \in Draining /\ call[p].apart =>
        \A k \in Readable : Exists(data[k]) => k \in Range(call[p].todo) \cup call[p].kept

QuotaInv == LogInv /\ QuotaListed /\ QuotaLeavesUnreadable

LEMMA SizeKept == data' = data => Size' = Size
  BY DEF Size, MapThenSumSet, MapThenFoldSet, Exists

(* The call that steps is the only one the two conditions can be about: a     *)
(* call that is under way beside it was overlapped.                          *)
LEMMA OnlyTheStepping ==
    ASSUME LogInv, NEW p \in Procs,
           \/ call[p].at # "idle" /\ \A q \in Procs \ {p} : call'[q] = call[q]
           \/ \A q \in Procs \ {p} : call'[q].at = call[q].at /\ (call'[q].apart => call[q].at = "idle"),
           call'[p].at \in Draining /\ call'[p].apart =>
               \A k \in Readable' : Exists(data'[k]) => k \in Range(call'[p].todo) \cup call'[p].kept,
           call'[p].at = "quotaDone" /\ call'[p].apart =>
               \/ Size' <= TargetSize
               \/ \A k \in Keys : Exists(data'[k]) => k \notin Readable' \/ k \in call'[p].kept
    PROVE  QuotaListed' /\ QuotaLeavesUnreadable'
<1>1. ASSUME NEW q \in Procs \ {p}, call'[q].apart
      PROVE  call'[q].at = "idle"
  BY <1>1 DEF LogInv, ApartIsApart
<1>2. QuotaListed'
  BY <1>1 DEF QuotaListed, Draining
<1>3. QuotaLeavesUnreadable'
  BY <1>1 DEF QuotaLeavesUnreadable, Busy, Readable
<1> QED
  BY <1>2, <1>3

(* A persist or an evict ends the claim of every other call to be apart.     *)
LEMMA EngagingKeepsQuota ==
    ASSUME LogInv, NEW p \in Procs, NEW k \in Keys, NEW rec \in Calls,
           call' = Engaged(p, k, rec), rec.at \in {"open", "evictData"}
    PROVE  QuotaListed' /\ QuotaLeavesUnreadable'
<1>1. call'[p].at = rec.at
  BY EngagedCalls DEF LogInv
<1>2. \A q \in Procs \ {p} : call'[q].at = call[q].at /\ (call'[q].apart => call[q].at = "idle")
  BY EngagedOthers DEF LogInv
<1>3. call'[p].at \notin Draining /\ call'[p].at # "quotaDone"
  BY <1>1 DEF Draining
<1> QED
  BY <1>2, <1>3, OnlyTheStepping

LEMMA ReturnKeepsQuota ==
    ASSUME LogInv, NEW p \in Procs, Return(p), call[p].at # "idle"
    PROVE  QuotaListed' /\ QuotaLeavesUnreadable'
<1>1. call'[p].at = "idle" /\ \A q \in Procs \ {p} : call'[q] = call[q]
  BY HasReturned DEF LogInv, Idle
<1> QED
  BY <1>1, OnlyTheStepping DEF Draining

LEMMA EngagedTodo ==
    ASSUME DiskTypes, NEW p \in Procs, NEW k \in Keys, NEW rec \in Calls
    PROVE  Engaged(p, k, rec)[p].todo = rec.todo /\ Engaged(p, k, rec)[p].kept = rec.kept
<1> DEFINE others == {q \in Procs \ {p} : call[q].key = k}
           E == Entered(p, rec)
<1>1. Engaged(p, k, rec)[p] = [E[p] EXCEPT !.key = k, !.alone = others = {}]
  BY DEF Engaged
<1>2. E \in [Procs -> Calls]
      /\ E[p] = [rec EXCEPT !.apart = rec.apart /\ \A q \in Procs \ {p} : call[q].at = "idle"]
  BY EnteredCalls
<1> HIDE DEF others, E
<1> QED
  BY <1>1, <1>2 DEF Calls

(* What is in a sequence is its head or in its tail.                         *)
LEMMA HeadTailRange ==
    ASSUME NEW s \in Seq(Keys), s # <<>>
    PROVE  /\ Head(s) \in Keys /\ Tail(s) \in Seq(Keys)
           /\ Range(s) \subseteq {Head(s)} \cup Range(Tail(s))
<1>1. /\ Head(s) \in Keys /\ Tail(s) \in Seq(Keys) /\ Head(s) = s[1]
      /\ Len(s) \in Nat \ {0} /\ DOMAIN s = 1 .. Len(s)
      /\ DOMAIN Tail(s) = 1 .. Len(s) - 1
      /\ \A i \in 1 .. Len(s) - 1 : Tail(s)[i] = s[i + 1]
  <2>1. Len(s) \in Nat /\ Len(s) # 0 /\ DOMAIN s = 1 .. Len(s)
    BY EmptySeq
  <2>2. Head(s) \in Keys /\ Head(s) = s[1]
    BY <2>1
  <2>3. Tail(s) \in Seq(Keys) /\ Len(Tail(s)) = Len(s) - 1
    BY HeadTailProperties
  <2>4. DOMAIN Tail(s) = 1 .. Len(s) - 1
    BY <2>3
  <2>5. \A i \in 1 .. Len(s) - 1 : Tail(s)[i] = s[i + 1]
    BY <2>1
  <2> QED
    BY <2>1, <2>2, <2>3, <2>4, <2>5
<1>2. ASSUME NEW i \in DOMAIN s
      PROVE  s[i] = Head(s) \/ s[i] \in Range(Tail(s))
  <2>1. CASE i = 1
    BY <1>1, <2>1
  <2>2. CASE i # 1
    <3>1. i - 1 \in DOMAIN Tail(s) /\ Tail(s)[i - 1] = s[i]
      BY <1>1, <2>2
    <3> QED
      BY <3>1 DEF Range
  <2> QED
    BY <2>1, <2>2
<1> QED
  BY <1>1, <1>2 DEF Range

LEMMA FilesKeepQuota ==
    ASSUME LogInv, NEW p \in Procs, Persist(p) \/ Evict(p)
    PROVE  QuotaListed' /\ QuotaLeavesUnreadable'
<1>1. DiskTypes
  BY DEF LogInv
<1>2. ASSUME NEW k \in Keys, PersistLog(p, k)
      PROVE  QuotaListed' /\ QuotaLeavesUnreadable'
  <2> DEFINE rec == [Idle EXCEPT !.at = "open", !.ver = calls + 1, !.apart = ~tornTail]
  <2>1. calls + 1 \in Nat /\ tornTail \in BOOLEAN
    BY <1>1 DEF DiskTypes
  <2>2. rec \in Calls /\ rec.at = "open"
    BY <2>1, IdleTyped DEF Calls, Stages
  <2>3. call' = Engaged(p, k, rec)
    BY <1>2 DEF PersistLog
  <2> HIDE DEF rec
  <2> QED
    BY <2>2, <2>3, EngagingKeepsQuota
<1>3. ASSUME NEW k \in Keys, EvictLog(p, k)
      PROVE  QuotaListed' /\ QuotaLeavesUnreadable'
  <2> DEFINE rec == [Idle EXCEPT !.at = "evictData"]
  <2>1. rec \in Calls /\ rec.at = "evictData"
    BY IdleTyped DEF Calls, Stages
  <2>2. call' = Engaged(p, k, rec)
    BY <1>3 DEF EvictLog
  <2> HIDE DEF rec
  <2> QED
    BY <2>1, <2>2, EngagingKeepsQuota
<1>4. ASSUME NEW at \in Persisting \cup {"evictMeta", "evictTruncate"}, Goto(p, at), call[p].at # "idle"
      PROVE  QuotaListed' /\ QuotaLeavesUnreadable'
  <2>1. call'[p].at = at /\ \A q \in Procs \ {p} : call'[q] = call[q]
    BY <1>1, <1>4, GoneTo
  <2>2. at \notin Draining /\ at # "quotaDone"
    BY <1>4 DEF Draining, Persisting
  <2> QED
    BY <1>4, <2>1, <2>2, OnlyTheStepping
<1>5. CASE PersistOpen(p) \/ PersistWrite(p) \/ PersistOpenMeta(p) \/ PersistWriteMeta(p)
  <2>1. PICK at \in Persisting : Goto(p, at)
    BY <1>5 DEF PersistOpen, PersistWrite, PersistOpenMeta, PersistWriteMeta, Persisting
  <2>2. call[p].at # "idle"
    BY <1>5 DEF PersistOpen, PersistWrite, PersistOpenMeta, PersistWriteMeta, Busy
  <2> QED
    BY <1>4, <2>1, <2>2
<1>6. CASE EvictData(p) \/ EvictMeta(p)
  <2>1. PICK at \in {"evictMeta", "evictTruncate"} : Goto(p, at)
    BY <1>6 DEF EvictData, EvictMeta
  <2>2. call[p].at # "idle"
    BY <1>6 DEF EvictData, EvictMeta, Busy
  <2> QED
    BY <1>4, <2>1, <2>2
<1>7. CASE PersistTruncate(p) \/ PersistFails(p) \/ EvictTruncate(p) \/ EvictFails(p)
  <2>1. Return(p) /\ call[p].at # "idle"
    BY <1>7 DEF PersistTruncate, PersistFails, EvictTruncate, EvictFails, Busy
  <2> QED
    BY <1>1, <2>1, ReturnKeepsQuota
<1> QED
  BY <1>2, <1>3, <1>5, <1>6, <1>7 DEF Persist, Evict

LEMMA QuotaKeepsQuota ==
    ASSUME QuotaInv, NEW p \in Procs, EnforceQuota(p)
    PROVE  QuotaListed' /\ QuotaLeavesUnreadable'
<1>1. DiskTypes /\ LogInv /\ call[p] \in Calls
  BY DEF QuotaInv, LogInv, DiskTypes
<1>2. CASE QuotaStart(p)
  <2>1. PICK lost \in SUBSET Readable, todo \in UNION {[1 .. n -> Keys] : n \in 0 .. Cardinality(Keys)} :
            /\ OldestFirst(todo, Readable \ lost)
            /\ call' = Entered(p, [Idle EXCEPT !.at = "quota", !.todo = todo, !.kept = lost])
    BY <1>2 DEF QuotaStart
  <2>2. PICK n \in 0 .. Cardinality(Keys) : todo \in [1 .. n -> Keys]
    OBVIOUS
  <2>3. todo \in Seq(Keys) /\ Range(todo) = Readable \ lost
    BY <2>1, <2>2, n \in Nat DEF OldestFirst
  <2> DEFINE rec == [Idle EXCEPT !.at = "quota", !.todo = todo, !.kept = lost]
  <2>4. rec \in Calls /\ rec.at = "quota" /\ rec.todo = todo /\ rec.kept = lost
    BY <2>3, IdleTyped DEF Calls, Stages, Readable
  <2>5. call' = Entered(p, rec) /\ data' = data /\ Readable' = Readable
    BY <1>2, <2>1 DEF QuotaStart, Readable, Exists
  <2> HIDE DEF rec
  <2>6. call'[p].at = "quota" /\ call'[p].todo = todo /\ call'[p].kept = lost
    <3>1. call'[p] = [rec EXCEPT !.apart = rec.apart /\ \A q \in Procs \ {p} : call[q].at = "idle"]
      BY <1>1, <2>4, <2>5, EnteredCalls
    <3> QED
      BY <2>4, <3>1 DEF Calls
  <2>7. ASSUME NEW q \in Procs \ {p}
        PROVE  call'[q].at = call[q].at /\ (call'[q].apart => call[q].at = "idle")
    <3>1. call[q] \in Calls
      BY <1>1 DEF DiskTypes
    <3>2. /\ call[q].at = "idle" => call'[q] = call[q]
          /\ call[q].at # "idle" => call'[q] = [call[q] EXCEPT !.apart = FALSE]
      BY <2>4, <2>5, EnteredOthers
    <3> QED
      BY <3>1, <3>2 DEF Calls
  <2>8. \A k \in Readable' : Exists(data'[k]) => k \in Range(call'[p].todo) \cup call'[p].kept
    BY <2>3, <2>5, <2>6
  <2> QED
    BY <1>1, <2>6, <2>7, <2>8, OnlyTheStepping
<1>3. CASE QuotaData(p)
  <2> DEFINE head == Head(call[p].todo)
             rec  == [call[p] EXCEPT !.at = "quotaMeta", !.todo = Tail(@)]
  <2>1. /\ head \in Keys /\ Tail(call[p].todo) \in Seq(Keys)
        /\ Range(call[p].todo) \subseteq {head} \cup Range(Tail(call[p].todo))
    <3>1. call[p].todo \in Seq(Keys) /\ call[p].todo # <<>>
      BY <1>1, <1>3 DEF QuotaData, Calls
    <3> QED
      BY <3>1, HeadTailRange
  <2>2. rec \in Calls /\ rec.at = "quotaMeta" /\ rec.apart = call[p].apart
        /\ rec.todo = Tail(call[p].todo) /\ rec.kept = call[p].kept
    BY <1>1, <2>1 DEF Calls, Stages
  <2>3. /\ call' = Engaged(p, head, rec) /\ meta' = meta /\ data' = [data EXCEPT ![head] = NoFile]
        /\ call[p].at = "quota"
    BY <1>3 DEF QuotaData, Busy
  <2>4. PICK k : k = head
    OBVIOUS
  <2>5. PICK todo : todo = Tail(call[p].todo)
    OBVIOUS
  <2>6. /\ k \in Keys /\ call' = Engaged(p, k, rec) /\ data' = [data EXCEPT ![k] = NoFile]
        /\ rec.todo = todo /\ Range(call[p].todo) \subseteq {k} \cup Range(todo)
    BY <2>1, <2>2, <2>3, <2>4, <2>5
  <2> HIDE DEF head, rec
  <2>7. /\ call'[p].at = "quotaMeta" /\ (call'[p].apart => call[p].apart)
        /\ \A q \in Procs \ {p} : call'[q].at = call[q].at /\ (call'[q].apart => call[q].at = "idle")
    <3>1. /\ call'[p].at = rec.at
          /\ call'[p].apart => rec.apart
      BY <1>1, <2>2, <2>6, EngagedCalls
    <3>2. \A q \in Procs \ {p} : call'[q].at = call[q].at /\ (call'[q].apart => call[q].at = "idle")
      BY <1>1, <2>2, <2>6, EngagedOthers
    <3> QED
      BY <2>2, <3>1, <3>2
  <2>8. call'[p].todo = todo /\ call'[p].kept = call[p].kept
    BY <1>1, <2>2, <2>6, EngagedTodo
  <2>9. ASSUME call'[p].apart, NEW j \in Readable', Exists(data'[j])
        PROVE  j \in Range(call'[p].todo) \cup call'[p].kept
    <3>1. j \in Readable
      BY <2>3, <2>9 DEF Readable, Exists
    <3>2. j # k /\ data'[j] = data[j]
      BY <1>1, <2>6, <2>9, <3>1 DEF DiskTypes, Readable, Exists, NoFile
    <3>3. Exists(data[j])
      BY <2>9, <3>2 DEF Exists
    <3>4. j \in Range(call[p].todo) \cup call[p].kept
      BY <2>3, <2>7, <2>9, <3>1, <3>3 DEF QuotaInv, QuotaListed, Draining
    <3> QED
      BY <2>6, <2>8, <3>2, <3>4
  <2> QED
    BY <1>1, <2>7, <2>9, OnlyTheStepping
<1>4. CASE QuotaMeta(p)
  <2>1. /\ call' = [call EXCEPT ![p] = [@ EXCEPT !.at = "quota", !.key = "none"]]
        /\ call[p].at = "quotaMeta" /\ data' = data
        /\ meta' = [meta EXCEPT ![call[p].key] = NoFile] \/ meta' = meta
    BY <1>4 DEF QuotaMeta, Busy
  <2>2. call'[p] = [call[p] EXCEPT !.at = "quota", !.key = "none"]
    BY <1>1, <2>1 DEF DiskTypes
  <2>3. /\ call'[p].at = "quota" /\ call'[p].apart = call[p].apart
        /\ call'[p].todo = call[p].todo /\ call'[p].kept = call[p].kept
    BY <1>1, <2>2 DEF Calls
  <2>4. \A q \in Procs \ {p} : call'[q] = call[q]
    BY <1>1, <2>1 DEF DiskTypes
  <2>5. Readable' \subseteq Readable
    BY <1>1, <2>1 DEF DiskTypes, Readable, Exists, NoFile
  <2>6. call'[p].apart =>
            \A k \in Readable' : Exists(data'[k]) => k \in Range(call'[p].todo) \cup call'[p].kept
    BY <2>1, <2>3, <2>5 DEF QuotaInv, QuotaListed, Draining, Exists
  <2> QED
    BY <1>1, <2>1, <2>3, <2>4, <2>6, OnlyTheStepping
<1>5. CASE QuotaDone(p)
  <2>1. /\ Goto(p, "quotaDone") /\ call[p].at = "quota" /\ data' = data /\ meta' = meta
        /\ call[p].todo = <<>> \/ Size <= TargetSize
    BY <1>5 DEF QuotaDone, Busy
  <2>2. /\ call'[p].at = "quotaDone" /\ call'[p].apart = call[p].apart
        /\ \A q \in Procs \ {p} : call'[q] = call[q]
    BY <1>1, <2>1, GoneTo
  <2>6. call'[p].kept = call[p].kept
    BY <1>1, <2>1 DEF Goto, DiskTypes, Calls
  <2>3. call[p].todo = <<>> => Range(call[p].todo) = {}
    BY DEF Range
  <2>4. CASE call[p].todo = <<>>
    <3>1. call[p].apart => \A k \in Readable : Exists(data[k]) => k \in call[p].kept
      BY <2>1, <2>3, <2>4 DEF QuotaInv, QuotaListed, Draining
    <3>2. call'[p].apart =>
            \A k \in Keys : Exists(data'[k]) => k \notin Readable' \/ k \in call'[p].kept
      BY <2>1, <2>2, <2>6, <3>1 DEF Readable, Exists
    <3> QED
      BY <1>1, <2>1, <2>2, <3>2, OnlyTheStepping DEF Draining
  <2>5. CASE Size <= TargetSize
    <3>1. Size' <= TargetSize
      BY <2>1, <2>5, SizeKept
    <3> QED
      BY <1>1, <2>1, <2>2, <3>1, OnlyTheStepping DEF Draining
  <2> QED
    BY <2>1, <2>4, <2>5
<1>7. CASE QuotaDataFails(p)
  <2> DEFINE head == Head(call[p].todo)
             rec  == GonePast(call[p])
  <2>1. /\ head \in Keys /\ Tail(call[p].todo) \in Seq(Keys)
        /\ Range(call[p].todo) \subseteq {head} \cup Range(Tail(call[p].todo))
    <3>1. call[p].todo \in Seq(Keys) /\ call[p].todo # <<>>
      BY <1>1, <1>7 DEF QuotaDataFails, Calls
    <3> QED
      BY <3>1, HeadTailRange
  <2>2. /\ rec.at = call[p].at /\ rec.apart = call[p].apart
        /\ rec.todo = Tail(call[p].todo) /\ rec.kept = call[p].kept \cup {head}
    BY <1>1 DEF Calls, GonePast
  <2>3. call' = [call EXCEPT ![p] = rec] /\ call[p].at = "quota" /\ meta' = meta /\ data' = data
    BY <1>7 DEF QuotaDataFails, Busy
  <2> HIDE DEF head, rec
  <2>4. call'[p] = rec /\ \A q \in Procs \ {p} : call'[q] = call[q]
    BY <1>1, <2>3 DEF DiskTypes
  <2>5. Readable' = Readable
    BY <2>3 DEF Readable, Exists
  <2>6. call'[p].apart =>
            \A k \in Readable' : Exists(data'[k]) => k \in Range(call'[p].todo) \cup call'[p].kept
    <3> SUFFICES ASSUME call'[p].apart, NEW k \in Readable, Exists(data[k])
                 PROVE  k \in Range(Tail(call[p].todo)) \cup call[p].kept \cup {head}
      BY <2>2, <2>3, <2>4, <2>5
    <3>1. k \in Range(call[p].todo) \cup call[p].kept
      BY <2>2, <2>3, <2>4 DEF QuotaInv, QuotaListed, Draining
    <3> QED
      BY <2>1, <3>1
  <2>7. call'[p].at = "quota"
    BY <2>2, <2>3, <2>4
  <2> QED
    BY <1>1, <2>3, <2>4, <2>6, <2>7, OnlyTheStepping
<1>6. CASE QuotaReturn(p) \/ QuotaRaises(p)
  <2>1. Return(p) /\ call[p].at # "idle"
    BY <1>6 DEF QuotaReturn, QuotaRaises, Busy
  <2> QED
    BY <1>1, <2>1, ReturnKeepsQuota
<1> QED
  BY <1>2, <1>3, <1>4, <1>5, <1>6, <1>7 DEF EnforceQuota

LEMMA QuotaStep == QuotaInv /\ [Next]_vars => QuotaInv'
<1> SUFFICES ASSUME QuotaInv, [Next]_vars
             PROVE  QuotaInv'
  OBVIOUS
<1>1. LogInv /\ LogInv'
  BY LogStep DEF QuotaInv
<1>2. CASE Crash
  <2>1. \A p \in Procs : call'[p].at = "idle"
    BY <1>2 DEF Crash, Idle
  <2> QED
    BY <1>1, <2>1 DEF QuotaInv, QuotaListed, QuotaLeavesUnreadable, Draining, Busy
<1>3. CASE UNCHANGED vars
  <2>1. data' = data /\ meta' = meta /\ call' = call /\ Size' = Size
    BY <1>3, SizeKept DEF vars
  <2>2. QuotaListed'
    BY <2>1 DEF QuotaInv, QuotaListed, Readable, Exists
  <2>3. QuotaLeavesUnreadable'
    <3>1. Readable' = Readable
      BY <2>1 DEF Readable, Exists
    <3> QED
      BY <2>1, <3>1 DEF QuotaInv, QuotaLeavesUnreadable, Busy, Exists
  <2> QED
    BY <1>1, <2>2, <2>3 DEF QuotaInv
<1> QED
  BY <1>1, <1>2, <1>3, FilesKeepQuota, QuotaKeepsQuota DEF Next, QuotaInv

(* An enforce_quota nothing overlapped that returns ends within the target, or *)
(* with no entry left that it could have read and unlinked, whatever was torn *)
(* by crashes, failing operations or other calls before it, and whichever     *)
(* reads and unlinks of its own failed (enforce_quota).                      *)
THEOREM QuotaEndsUnreadable == Spec => []QuotaLeavesUnreadable
<1>1. Init => QuotaInv
  BY TypesInitial DEF Init, QuotaInv, LogInv, ApartIsApart, InFlightLogged, Idle,
                      QuotaListed, QuotaLeavesUnreadable, Draining, Busy
<1>2. QuotaInv => QuotaLeavesUnreadable
  BY DEF QuotaInv
<1> QED
  BY <1>1, <1>2, QuotaStep, PTL DEF Spec

-----------------------------------------------------------------------------
(***************************************************************************)
(* What the scripts that decide about a release keep to, for any configs,     *)
(* contexts, scenarios, metrics and rules, and however often and in whatever  *)
(* order benchmarks, rows, labels, summary and baseline are written anew.     *)
(*                                                                         *)
(* A label and a recommendation are the answer of the first rule of a list    *)
(* that applies: an answer only the last rule gives says that the condition   *)
(* of every other rule was false.  Labels read rows that may be older than    *)
(* the measurements; the invariant keeps, with a row, what was true of the    *)
(* measurements it was made of.                                              *)
(***************************************************************************)
USE DEF promotionVars, summaryVars, regressionVars

(* Min of a set of indices is the first of them. *)
LEMMA LeastIndex ==
    ASSUME NEW S, S \subseteq Nat, S # {}
    PROVE  Min(S) \in S /\ \A i \in S : Min(S) <= i
<1> DEFINE less == {pair \in Nat \X Nat : pair[1] < pair[2]}
<1>1. IsWellFoundedOn(less, Nat)
  BY NatLessThanWellFounded DEF OpToRel
<1>2. PICK x \in S : \A y \in S : ~(<<y, x>> \in less)
  <2> HIDE DEF less
  <2> QED
    BY <1>1, WFMin
<1>3. ASSUME NEW y \in S
      PROVE  x <= y
  <2>1. ~(<<y, x>> \in less) /\ x \in Nat /\ y \in Nat
    BY <1>2
  <2> QED
    BY <2>1
<1> QED
  BY <1>3 DEF Min

(* The first rule that applies gives the answer; the rules before it do not   *)
(* apply.                                                                   *)
LEMMA FirstApplies ==
    ASSUME NEW rules, NEW n \in Nat, DOMAIN rules = 1 .. n, n # 0, rules[n].when
    PROVE  \E i \in 1 .. n :
              /\ FirstOf(rules) = rules[i].then
              /\ rules[i].when
              /\ \A j \in 1 .. (i - 1) : ~rules[j].when
<1> DEFINE S == {i \in DOMAIN rules : rules[i].when}
<1> DEFINE first == Min(S)
<1>1. first \in S /\ \A i \in S : first <= i
  <2>1. n \in S /\ S \subseteq Nat
    OBVIOUS
  <2> HIDE DEF S
  <2> QED
    BY <2>1, LeastIndex
<1>2. FirstOf(rules) = rules[first].then
  BY DEF FirstOf
<1>3. first \in 1 .. n /\ rules[first].when /\ \A j \in 1 .. (first - 1) : ~rules[j].when
  <2> HIDE DEF first
  <2> QED
    BY <1>1
<1> QED
  <2> HIDE DEF first
  <2> QED
    BY <1>2, <1>3
-----------------------------------------------------------------------------
(* What a config must have shown to get past the rules before the last.      *)
PassedAll(c) ==
    /\ rows[c].passes = Contexts
    /\ rows[c].bytes
    /\ evidence[c].speed # None /\ ~evidence[c].slow
    /\ BaselineValid
    /\ ~ForcedFails(c)
    /\ shared.larger # None /\ c \in shared.larger
    /\ ~(FreeRows(c) > 0) \/ FreePasses(c)

PessimisticMarks ==
    {"rejected_quality", "rejected_memory", "needs_throughput_data",
     "needs_valid_teacher_forced_baseline", "rejected_generation_divergence",
     "free_running_match_but_teacher_forced_failed", "rejected_generation_quality",
     "rejected_speed", "rejected_1_5b", "generation_divergence_observed"}

LEMMA ForcedFailurePessimistic ==
    ASSUME NEW c
    PROVE  ForcedFailure(c) \in PessimisticMarks
<1> DEFINE rules ==
        <<When(Diverges(c), "rejected_generation_divergence"),
          When(FreePasses(c), "free_running_match_but_teacher_forced_failed"),
          When(TRUE, "rejected_generation_quality")>>
<1>1. DOMAIN rules = 1 .. 3 /\ rules[3].when /\ 3 \in Nat /\ 3 # 0
  BY DEF When
<1>2. \A i \in 1 .. 3 : rules[i].then \in PessimisticMarks
  BY DEF When, PessimisticMarks
<1>3. ForcedFailure(c) = FirstOf(rules)
  BY DEF ForcedFailure
<1> HIDE DEF rules
<1>4. PICK i \in 1 .. 3 : FirstOf(rules) = rules[i].then
  BY <1>1, FirstApplies, Zenon
<1> QED
  BY <1>2, <1>3, <1>4

(* What a mark says: every gate was passed, or a failure, or neither.        *)
LEMMA MarkSays ==
    ASSUME NEW c
    PROVE  \/ PassedAll(c)
           \/ ExperimentalMark(c) \in PessimisticMarks
           \/ /\ ExperimentalMark(c) \in {"experimental_only", "experimental_pending_1_5b"}
              /\ ~HasRealGeneration \/ ~ForcedFails(c)
<1> DEFINE rules ==
        <<When(rows[c].passes # Contexts, "rejected_quality"),
          When(~rows[c].bytes, "rejected_memory"),
          When(evidence[c].speed = None, "needs_throughput_data"),
          When(~HasRealGeneration, "experimental_only"),
          When(~BaselineValid, "needs_valid_teacher_forced_baseline"),
          When(ForcedFails(c), ForcedFailure(c)),
          When(evidence[c].slow, "rejected_speed"),
          When(shared.larger = None, "experimental_pending_1_5b"),
          When(shared.larger # None /\ c \notin shared.larger, "rejected_1_5b"),
          When(FreeRows(c) > 0 /\ ~FreePasses(c), "generation_divergence_observed"),
          When(TRUE, Win(c))>>
<1>1. DOMAIN rules = 1 .. 11 /\ rules[11].when /\ 11 \in Nat /\ 11 # 0
  BY DEF When
<1>2. ExperimentalMark(c) = FirstOf(rules)
  BY DEF ExperimentalMark
<1>3. /\ \A i \in {1, 2, 3, 5, 6, 7, 9, 10} : rules[i].then \in PessimisticMarks
      /\ rules[4].then = "experimental_only" /\ rules[8].then = "experimental_pending_1_5b"
  BY ForcedFailurePessimistic DEF When, PessimisticMarks
<1>4. /\ rules[1].when <=> rows[c].passes # Contexts
      /\ rules[2].when <=> ~rows[c].bytes
      /\ rules[3].when <=> evidence[c].speed = None
      /\ rules[4].when <=> ~HasRealGeneration
      /\ rules[5].when <=> ~BaselineValid
      /\ rules[6].when <=> ForcedFails(c)
      /\ rules[7].when <=> evidence[c].slow
      /\ rules[8].when <=> shared.larger = None
      /\ rules[9].when <=> shared.larger # None /\ c \notin shared.larger
      /\ rules[10].when <=> FreeRows(c) > 0 /\ ~FreePasses(c)
  BY DEF When
<1> HIDE DEF rules
<1>5. PICK i \in 1 .. 11 : /\ FirstOf(rules) = rules[i].then
                          /\ rules[i].when
                          /\ \A j \in 1 .. (i - 1) : ~rules[j].when
  BY <1>1, FirstApplies, Zenon
<1>6. CASE i \in {1, 2, 3, 5, 6, 7, 9, 10}
  BY <1>2, <1>3, <1>5, <1>6
<1>7. CASE i = 4
  BY <1>2, <1>3, <1>4, <1>5, <1>7
<1>8. CASE i = 8
  <2>1. ~rules[6].when
    BY <1>5, <1>8
  <2> QED
    BY <1>2, <1>3, <1>4, <1>5, <1>8, <2>1
<1>9. CASE i = 11
  <2>1. \A j \in {1, 2, 3, 5, 6, 7, 8, 9, 10} : ~rules[j].when
    BY <1>5, <1>9
  <2> QED
    BY <1>4, <2>1 DEF PassedAll
<1> QED
  BY <1>6, <1>7, <1>8, <1>9

LEMMA CandidatePassedAll ==
    ASSUME NEW c, Candidate(Is(ExperimentalMark(c)))
    PROVE  PassedAll(c)
BY MarkSays DEF Candidate, Is, PessimisticMarks
-----------------------------------------------------------------------------
Outcomes == {None, "pass", "fail"}

Others == Outcomes \cup {"reference"}

Results ==
    [files : BOOLEAN, real : Outcomes, otherReal : Others, contexts : [Contexts -> Outcomes],
     otherContexts : [Contexts -> Others], ratio : {None, 1, 2}, bytes : BOOLEAN, basis : BOOLEAN,
     quality : 1 .. 2, speed : {None, 1, 2}, slow : BOOLEAN,
     forced : SUBSET {"pass", "fail", "error"}, free : FreeResults,
     updates : SUBSET {"pass", "degraded", "error"}, steps : SUBSET {"pass", "degraded"}]

SharedResults ==
    [baseline : {None, "identical", "off"}, larger : {None} \cup SUBSET (Configs \ Stable), results : BOOLEAN]

SummaryResults ==
    [real : [Tier -> {"pass", "fail"}], long : [Tier -> {"pass", "fail", "error"}],
     time : [Tier -> Nat], baseline : Nat]

ReleaseTypes ==
    /\ evidence \in [Configs -> Results]
    /\ shared \in SharedResults
    /\ results \in SummaryResults
    /\ DOMAIN atRows = Configs

(* A row that passes every context, or has its bytes, was made of measurements *)
(* that had them.                                                           *)
RowsKeep ==
    rows # None =>
        \A c \in Configs \ Stable :
            /\ rows[c].passes = Contexts => "contexts" \in atRows[c]
            /\ rows[c].bytes => "memory" \in atRows[c]

ReleaseInv == ReleaseTypes /\ RowsKeep /\ EveryGateWasOpen

LEMMA ReleaseInitial == ReleaseInit => ReleaseInv
<1> SUFFICES ASSUME ReleaseInit
             PROVE  ReleaseInv
  OBVIOUS
<1>1. Nothing \in Results /\ Everything \in Results
  BY DEF Nothing, Everything, Results, Others, Outcomes, FreeResults
<1>2. evidence \in [Configs -> Results] /\ shared \in SharedResults
  <2>1. evidence \in [Configs -> {Nothing, Everything}]
    BY DEF ReleaseInit, PromotionInit
  <2>2. evidence \in [Configs -> Results]
    BY <1>1, <2>1
  <2>3. shared \in [baseline : {None, "identical"}, larger : {None, Configs \ Stable}, results : {FALSE}]
    BY DEF ReleaseInit, PromotionInit
  <2>4. shared \in SharedResults
    BY <2>3 DEF SharedResults
  <2> QED
    BY <2>2, <2>4
<1>3. results \in SummaryResults
  BY DEF ReleaseInit, SummaryInit, SummaryResults
<1>4. DOMAIN atRows = Configs /\ rows = None /\ labels = None
  BY DEF ReleaseInit, PromotionInit
<1> QED
  BY <1>2, <1>3, <1>4 DEF ReleaseInv, ReleaseTypes, RowsKeep, EveryGateWasOpen

LEMMA WrittenTyped ==
    ASSUME evidence \in [Configs -> Results], NEW c \in Configs, NEW result \in Written(c)
    PROVE  result \in Results
<1>1. evidence[c] \in Results
  OBVIOUS
<1> QED
  BY <1>1 DEF Written, Results, Others, Outcomes

LEMMA TypesKept ==
    ASSUME ReleaseTypes, [ReleaseNext]_releaseVars
    PROVE  ReleaseTypes'
<1>1. evidence' \in [Configs -> Results] /\ shared' \in SharedResults
  <2>1. CASE Measure
    <3>1. CASE \E c \in Configs : \E result \in Written(c) :
                   evidence' = [evidence EXCEPT ![c] = result] /\ UNCHANGED shared
      BY <3>1, WrittenTyped DEF ReleaseTypes
    <3>2. CASE \E bl \in {None, "identical", "off"}, larger \in {None} \cup SUBSET (Configs \ Stable) :
                   \E others \in BOOLEAN :
                       shared' = [baseline |-> bl, larger |-> larger, results |-> others] /\ UNCHANGED evidence
      BY <3>2 DEF ReleaseTypes, SharedResults
    <3> QED
      BY <2>1, <3>1, <3>2 DEF Measure
  <2>2. CASE UNCHANGED <<evidence, shared>>
    BY <2>2 DEF ReleaseTypes
  <2> QED
    BY <2>1, <2>2 DEF ReleaseNext, releaseVars, Promote, Compare, Classify
<1>2. results' \in SummaryResults
  <2>1. CASE Benchmark
    BY <2>1, SummaryAssumption DEF ReleaseTypes, Benchmark, SummaryResults
  <2>2. CASE UNCHANGED results
    BY <2>2 DEF ReleaseTypes
  <2> QED
    BY <2>1, <2>2 DEF ReleaseNext, releaseVars, SummaryNext, Summarise
<1>3. DOMAIN atRows' = Configs
  BY DEF ReleaseNext, releaseVars, Promote, OpenNow, ReleaseTypes
<1> QED
  BY <1>1, <1>2, <1>3 DEF ReleaseTypes
-----------------------------------------------------------------------------
(* Rows made of the measurements that lie there. *)
LEMMA RowsShow ==
    ASSUME ReleaseTypes, NEW c \in Configs \ Stable
    PROVE  /\ Row(c).passes = Contexts => Open("contexts", c)
           /\ Row(c).bytes => Open("memory", c)
<1>1. evidence[c] \in Results
  BY DEF ReleaseTypes
<1>2. CASE ~evidence[c].files
  BY <1>2 DEF Row, Open
<1>3. CASE evidence[c].files
  <2>1. Row(c).passes = Passes(c) /\ Row(c).bytes = evidence[c].bytes
    BY <1>3 DEF Row
  <2>2. evidence[c].bytes => Open("memory", c)
    BY <1>1 DEF Open, Results
  <2>3. ASSUME Passes(c) = Contexts
        PROVE  Open("contexts", c)
    <3>1. \A k \in Contexts : ContextResult(c, k) = "pass"
      BY <2>3 DEF Passes
    <3>2. CASE NoRowOf(c)
      <4>1. \A k \in Contexts : evidence[c].contexts[k] = None
        BY <3>2 DEF NoRowOf
      <4>2. \A k \in Contexts : evidence[c].otherContexts[k] = "pass"
        BY <3>1, <3>2 DEF ContextResult
      <4> QED
        BY <4>1, <4>2 DEF Open
    <3>3. CASE ~NoRowOf(c)
      <4>1. \A k \in Contexts : evidence[c].contexts[k] = "pass"
        BY <3>1, <3>3 DEF ContextResult
      <4> QED
        BY <4>1 DEF Open
    <3> QED
      BY <3>2, <3>3
  <2> QED
    BY <2>1, <2>2, <2>3
<1> QED
  BY <1>2, <1>3

LEMMA RowsStep ==
    ASSUME ReleaseTypes, RowsKeep, [ReleaseNext]_releaseVars
    PROVE  RowsKeep'
<1>1. CASE Compare /\ atRows' = OpenNow
  <2> SUFFICES ASSUME NEW c \in Configs \ Stable
               PROVE  /\ rows'[c].passes = Contexts => "contexts" \in atRows'[c]
                      /\ rows'[c].bytes => "memory" \in atRows'[c]
    BY DEF RowsKeep
  <2>1. rows'[c] = Row(c)
    BY <1>1 DEF Compare, Compared
  <2>2. \A gate \in Gates : Open(gate, c) => gate \in atRows'[c]
    BY <1>1 DEF OpenNow
  <2> QED
    BY <2>1, <2>2, RowsShow DEF Gates, InRows
<1>2. CASE UNCHANGED <<rows, atRows>>
  BY <1>2 DEF RowsKeep
<1> QED
  BY <1>1, <1>2 DEF ReleaseNext, releaseVars, Promote, Measure, Classify

(* A config that passed all the rules has every gate open that is not in its  *)
(* row.                                                                     *)
LEMMA PassedIsOpen ==
    ASSUME ReleaseTypes, NEW c \in Configs, PassedAll(c), NEW gate \in Gates \ InRows
    PROVE  Open(gate, c)
<1>1. evidence[c] \in Results
  BY DEF ReleaseTypes
<1>2. gate \in {"throughput", "baseline", "forced", "larger", "free"}
  BY DEF Gates, InRows
<1>3. CASE gate = "throughput"
  BY <1>1, <1>3 DEF PassedAll, Open, Results
<1>4. CASE gate = "baseline"
  BY <1>4 DEF PassedAll, Open, BaselineValid
<1>5. CASE gate = "forced"
  BY <1>5 DEF PassedAll, Open, ForcedFails
<1>6. CASE gate = "larger"
  BY <1>6 DEF PassedAll, Open
<1>7. CASE gate = "free"
  <2> DEFINE none == evidence[c].free.none
             half == evidence[c].free.half
             all == evidence[c].free.all
  <2>1. none \in Nat /\ half \in Nat /\ all \in Nat
    BY <1>1 DEF Results, FreeResults
  <2>2. ~(none + half + all > 0) \/ half + 2 * all >= none + half + all
    BY DEF PassedAll, FreeRows, FreePasses
  <2>3. Open(gate, c) <=> all >= none
    BY <1>7 DEF Open
  <2> HIDE DEF none, half, all
  <2> QED
    BY <2>1, <2>2, <2>3
<1> QED
  BY <1>2, <1>3, <1>4, <1>5, <1>6, <1>7

LEMMA LabelsStep ==
    ASSUME ReleaseInv, [ReleaseNext]_releaseVars
    PROVE  EveryGateWasOpen'
<1>1. CASE /\ Classify
           /\ atLabels' = [c \in Configs |-> (atRows[c] \cap InRows) \cup (OpenNow[c] \ InRows)]
  <2> SUFFICES ASSUME NEW c \in DOMAIN labels' \ Stable, Candidate(labels'[c])
               PROVE  atLabels'[c] = Gates
    BY DEF EveryGateWasOpen
  <2>1. labels' = Classified
    BY <1>1 DEF Classify
  <2>2. rows # None /\ c \in Configs
    BY <2>1 DEF Classified
  <2>3. labels'[c] = Is(ExperimentalMark(c))
    BY <2>1, <2>2 DEF Classified
  <2>4. PassedAll(c)
    BY <2>3, CandidatePassedAll
  <2>5. InRows \subseteq atRows[c]
    BY <2>2, <2>4 DEF ReleaseInv, RowsKeep, PassedAll, InRows
  <2>6. atLabels'[c] = (atRows[c] \cap InRows) \cup (OpenNow[c] \ InRows)
    BY <1>1, <2>2
  <2>7. OpenNow[c] = {gate \in Gates : Open(gate, c)}
    BY <2>2 DEF OpenNow
  <2>8. InRows \subseteq Gates
    BY DEF Gates
  <2> QED
    BY <2>2, <2>4, <2>5, <2>6, <2>7, <2>8, PassedIsOpen DEF ReleaseInv
<1>2. CASE UNCHANGED <<labels, atLabels>>
  BY <1>2 DEF ReleaseInv, EveryGateWasOpen
<1> QED
  BY <1>1, <1>2 DEF ReleaseNext, releaseVars, Promote, Measure, Compare

LEMMA ReleaseAlways == ReleaseSpec => []ReleaseInv
<1>1. ReleaseInit => ReleaseInv
  BY ReleaseInitial
<1>2. ReleaseInv /\ [ReleaseNext]_releaseVars => ReleaseInv'
  BY TypesKept, RowsStep, LabelsStep DEF ReleaseInv
<1> QED
  BY <1>1, <1>2, PTL DEF ReleaseSpec

(* A config was labelled a candidate only with every gate open, those of the  *)
(* rows when the rows were made: for any configs and contexts, and whatever   *)
(* is measured, compared and classified in whatever order.                   *)
THEOREM CandidatesPassedEveryGate == ReleaseSpec => []EveryGateWasOpen
<1>1. ReleaseInv => EveryGateWasOpen
  BY DEF ReleaseInv
<1> QED
  BY <1>1, ReleaseAlways, PTL
-----------------------------------------------------------------------------
(* A row that is recommended has what a candidate needs. *)
LEMMA RecommendedHasAll ==
    ASSUME ReleaseTypes, NEW c \in Configs, Row(c).recommended = "candidate"
    PROVE  Row(c).passes = Contexts /\ evidence[c].ratio # None
<1> DEFINE rules ==
        <<When(RealStatus(c) # "pass", "rejected_real_model"),
          When(\E k \in Contexts : ContextResult(c, k) = "fail", "rejected_context"),
          When(\E k \in Contexts : ContextResult(c, k) = None, "needs_context_data"),
          When(evidence[c].ratio = None, "needs_memory_data"),
          When(evidence[c].ratio = 1, "rejected_no_compression"),
          When(TRUE, "candidate")>>
<1>1. Row(c).passes = Passes(c) /\ Recommended(c) = "candidate"
  BY DEF Row
<1>2. DOMAIN rules = 1 .. 6 /\ rules[6].when /\ 6 \in Nat /\ 6 # 0
  BY DEF When
<1>3. Recommended(c) = FirstOf(rules)
  BY DEF Recommended
<1>4. \A i \in 1 .. 5 : rules[i].then # "candidate"
  BY DEF When
<1>5. /\ rules[2].when <=> \E k \in Contexts : ContextResult(c, k) = "fail"
      /\ rules[3].when <=> \E k \in Contexts : ContextResult(c, k) = None
      /\ rules[4].when <=> evidence[c].ratio = None
  BY DEF When
<1> HIDE DEF rules
<1>6. PICK i \in 1 .. 6 : /\ FirstOf(rules) = rules[i].then
                         /\ rules[i].when
                         /\ \A j \in 1 .. (i - 1) : ~rules[j].when
  BY <1>2, FirstApplies, Zenon
<1>7. i = 6
  BY <1>1, <1>3, <1>4, <1>6
<1>8. ~rules[2].when /\ ~rules[3].when /\ ~rules[4].when
  BY <1>6, <1>7
<1>9. \A k \in Contexts : ContextResult(c, k) = "pass"
  <2>1. \A k \in Contexts : ContextResult(c, k) \in Outcomes
    BY DEF ContextResult, ReleaseTypes, Results, Others, Outcomes
  <2> QED
    BY <2>1, <1>5, <1>8 DEF Outcomes
<1>10. \A k \in Contexts : \A j \in 1 .. k : j \in Contexts
  BY PromotionAssumption
<1>11. Passes(c) = Contexts
  BY <1>9, <1>10 DEF Passes
<1> QED
  BY <1>1, <1>5, <1>8, <1>11

(* A stable config that fails with the teacher's tokens is labelled so.      *)
LEMMA StableSays ==
    ASSUME NEW c, ForcedFails(c)
    PROVE  Pessimistic(StableLabel(c)) \/ StableLabel(c).issue = "decode_update_issue"
<1> DEFINE rules ==
        <<When(rows[c].passes # Contexts \/ ~rows[c].bytes, Is("stable_needs_data")),
          When(HasRealGeneration /\ ~BaselineValid, Is("needs_valid_teacher_forced_baseline")),
          When(ForcedFails(c) /\ UpdateFails(c),
               [mark |-> StableMark(c), issue |-> "decode_update_issue"]),
          When(ForcedFails(c), [mark |-> StableMark(c), issue |-> "under_teacher_forced_drift"]),
          When(TRUE, Is(StableMark(c)))>>
<1>1. DOMAIN rules = 1 .. 5 /\ rules[5].when /\ 5 \in Nat /\ 5 # 0
  BY DEF When
<1>2. StableLabel(c) = FirstOf(rules)
  BY DEF StableLabel
<1>3. \A i \in 1 .. 4 : Pessimistic(rules[i].then) \/ rules[i].then.issue = "decode_update_issue"
  BY DEF When, Is, Pessimistic
<1>4. rules[4].when
  BY DEF When
<1> HIDE DEF rules
<1>5. PICK i \in 1 .. 5 : /\ FirstOf(rules) = rules[i].then
                         /\ rules[i].when
                         /\ \A j \in 1 .. (i - 1) : ~rules[j].when
  BY <1>1, FirstApplies, Zenon
<1>6. i # 5
  BY <1>4, <1>5
<1> QED
  BY <1>2, <1>3, <1>5, <1>6

LEMMA ForcedFailureShows ==
    ASSUME NEW c \in Configs, ForcedFails(c)
    PROVE  Pessimistic(Is(ExperimentalMark(c)))
<1>1. HasRealGeneration
  BY DEF ForcedFails, HasRealGeneration
<1>2. ExperimentalMark(c) \in PessimisticMarks
  BY <1>1, MarkSays DEF PassedAll
<1> QED
  BY <1>2 DEF Pessimistic, PessimisticMarks, Is

(* With rows and labels up to date, the integrity check refuses a row only     *)
(* where a ratio has not the bytes or the basis it must rest on, and a label  *)
(* only where benchmarks of one config disagree, where a candidate was never  *)
(* run freely, or for the one label without a pessimistic word.              *)
THEOREM RefusalsAreDisagreements == ReleaseSpec => []RefusalIsDisagreement
<1>1. ASSUME ReleaseInv
      PROVE  RefusalIsDisagreement
  <2> SUFFICES ASSUME rows # None, labels # None, rows = Compared, labels = Classified
               PROVE  /\ \A c \in RowsRefused :
                          evidence[c].ratio # None /\ ~(evidence[c].bytes /\ evidence[c].basis)
                      /\ \A c \in Refused :
                          \/ "degraded" \in evidence[c].steps /\ ~ForcedFails(c)
                          \/ Candidate(labels[c]) /\ FreeRows(c) = 0
                          \/ labels[c].issue = "decode_update_issue"
    BY DEF RefusalIsDisagreement
  <2>1. ASSUME NEW c \in RowsRefused
        PROVE  evidence[c].ratio # None /\ ~(evidence[c].bytes /\ evidence[c].basis)
    <3>1. c \in Configs /\ rows[c] = Row(c) /\ Row(c).recommended = "candidate"
      BY DEF Compared, RowsRefused
    <3>2. Row(c).passes = Contexts /\ evidence[c].ratio # None
      BY <1>1, <3>1, RecommendedHasAll DEF ReleaseInv
    <3>3. ~Row(c).bytes \/ ~Row(c).basis
      BY <3>1, <3>2 DEF RowsRefused
    <3>4. Row(c).bytes = evidence[c].bytes /\ Row(c).basis = evidence[c].basis
      BY <3>1 DEF Row
    <3> QED
      BY <3>2, <3>3, <3>4
  <2>2. ASSUME NEW c \in Refused
        PROVE  \/ "degraded" \in evidence[c].steps /\ ~ForcedFails(c)
               \/ Candidate(labels[c]) /\ FreeRows(c) = 0
               \/ labels[c].issue = "decode_update_issue"
    <3>1. c \in Configs
      BY DEF Refused, Classified
    <3>2. labels[c] = IF c \in Stable THEN StableLabel(c) ELSE Is(ExperimentalMark(c))
      BY <3>1 DEF Classified
    <3>3. CASE Candidate(labels[c]) /\ FreeRows(c) = 0
      BY <3>3
    <3>4. CASE "degraded" \in evidence[c].steps /\ ~Pessimistic(labels[c])
      BY <3>1, <3>2, <3>4, StableSays, ForcedFailureShows
    <3> QED
      BY <3>3, <3>4 DEF Refused
  <2> QED
    BY <2>1, <2>2
<1> QED
  BY <1>1, ReleaseAlways, PTL

(* The check accepts the summary that was just generated, unless one config   *)
(* is faster than the baseline and another is not, or a context benchmark     *)
(* ended in neither pass nor fail.                                           *)
THEOREM FreshSummaryIsConsistent == ReleaseSpec => []SummaryAgrees
<1>1. ASSUME ReleaseInv
      PROVE  SummaryAgrees
  <2> SUFFICES ASSUME summary = Summarised, Inconsistent,
                      \A c \in Tier : results.long[c] # "error"
               PROVE  \E fast, slow \in Tier :
                          /\ 0 < results.time[fast] /\ results.time[fast] < results.baseline
                          /\ results.baseline <= results.time[slow]
    BY DEF SummaryAgrees
  <2>1. results \in SummaryResults
    BY <1>1 DEF ReleaseInv, ReleaseTypes
  <2>2. \A c \in Tier : results.long[c] \in {"pass", "fail"}
    BY <2>1 DEF SummaryResults
  <2>3. \A c \in SectionNames : results.real[c] = "pass"
    BY DEF SectionNames, Summarised, LongPassing
  <2>4. SpeedupProven /\ \E c \in Tier : Measured(c) /\ results.time[c] >= results.baseline
    BY <2>2, <2>3 DEF Inconsistent, Summarised
  <2> QED
    BY <2>1, <2>4 DEF SpeedupProven, Measured, SummaryResults
<1> QED
  BY <1>1, ReleaseAlways, PTL

LEMMA HoldsTheRule ==
    ASSUME NEW kind \in {"latency", "drop", "rise"}, NEW limit \in Int,
           NEW old \in Numbers, NEW new \in Numbers,
           ~Breaks([kind |-> kind, threshold |-> limit], old, new)
    PROVE  \/ kind = "latency" /\ (old <= 0 \/ 100 * new <= (100 + limit) * old)
           \/ kind = "drop" /\ new >= old - limit
           \/ kind = "rise" /\ new <= old + limit
<1>1. old \in Int /\ new \in Int
  BY RegressionAssumption
<1>2. limit * old \in Int /\ (100 + limit) * old = 100 * old + limit * old
  BY <1>1
<1>3. CASE kind = "latency"
  <2>1. old <= 0 \/ (new - old) * 100 <= limit * old
    BY <1>1, <1>2, <1>3 DEF Breaks, Number
  <2> QED
    BY <1>1, <1>2, <1>3, <2>1
<1>4. CASE kind = "drop"
  BY <1>1, <1>4 DEF Breaks, Number
<1>5. CASE kind = "rise"
  BY <1>1, <1>5 DEF Breaks, Number
<1> QED
  BY <1>3, <1>4, <1>5

(* A run without a breach has every scenario of the baseline last measured,   *)
(* and no number of it is worse than there by more than its rule allows: for  *)
(* any scenarios, metrics, rules and integers measured.                      *)
THEOREM RunsStayNearTheBaseline == ReleaseSpec => []LossesDoNotAddUp
<1>1. LossesDoNotAddUp
  <2> SUFFICES ASSUME Breaches(baseline, current) = {},
                      NEW s \in Scenarios, baseline[s] # Absent
               PROVE  /\ current[s] # Absent
                      /\ \A m \in Metrics :
                          LET old == baseline[s][m]
                              new == current[s][m]
                              limit == Rules[m].threshold
                          IN  old \in Numbers /\ new \in Numbers =>
                                \/ Rules[m].kind = "latency" /\ (old <= 0 \/ 100 * new <= (100 + limit) * old)
                                \/ Rules[m].kind = "drop" /\ new >= old - limit
                                \/ Rules[m].kind = "rise" /\ new <= old + limit
    BY DEF LossesDoNotAddUp, Comparison
  <2>1. Missing(baseline, current) = {}
    BY DEF Breaches
  <2>2. current[s] # Absent
    BY <2>1 DEF Missing, Ran
  <2>3. \A m \in Metrics : ~Breaks(Rules[m], baseline[s][m], current[s][m])
    <3> SUFFICES ASSUME NEW m \in Metrics, Breaks(Rules[m], baseline[s][m], current[s][m])
                 PROVE  FALSE
      OBVIOUS
    <3>1. s \in Ran(baseline) \cap Ran(current)
      BY <2>2 DEF Ran
    <3>2. <<s, m>> \in Breaches(baseline, current)
      BY <3>1 DEF Breaches
    <3> QED
      BY <3>2
  <2>4. \A m \in Metrics : /\ Rules[m] = [kind |-> Rules[m].kind, threshold |-> Rules[m].threshold]
                          /\ Rules[m].kind \in {"latency", "drop", "rise"}
                          /\ Rules[m].threshold \in Int
    BY RegressionAssumption DEF Metrics
  <2>5. ASSUME NEW m \in Metrics, baseline[s][m] \in Numbers, current[s][m] \in Numbers
        PROVE  \/ /\ Rules[m].kind = "latency"
                  /\ \/ baseline[s][m] <= 0
                     \/ 100 * current[s][m] <= (100 + Rules[m].threshold) * baseline[s][m]
               \/ Rules[m].kind = "drop" /\ current[s][m] >= baseline[s][m] - Rules[m].threshold
               \/ Rules[m].kind = "rise" /\ current[s][m] <= baseline[s][m] + Rules[m].threshold
    <3> DEFINE kind == Rules[m].kind
               limit == Rules[m].threshold
               old == baseline[s][m]
               new == current[s][m]
    <3>1. ~Breaks([kind |-> kind, threshold |-> limit], old, new)
      BY <2>3, <2>4
    <3>2. kind \in {"latency", "drop", "rise"} /\ limit \in Int /\ old \in Numbers /\ new \in Numbers
      BY <2>4, <2>5
    <3> HIDE DEF kind, limit, old, new
    <3>3. \/ kind = "latency" /\ (old <= 0 \/ 100 * new <= (100 + limit) * old)
          \/ kind = "drop" /\ new >= old - limit
          \/ kind = "rise" /\ new <= old + limit
      BY <3>1, <3>2, HoldsTheRule
    <3> QED
      BY <3>3 DEF kind, limit, old, new
  <2> QED
    BY <2>2, <2>5
<1> QED
  BY <1>1, PTL
==============================================================================
