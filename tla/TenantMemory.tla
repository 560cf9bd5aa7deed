----------------------------- MODULE TenantMemory -----------------------------
(***************************************************************************)
(* The multi-tenant memory manager (rfsn_v10/memory_manager.py), called by   *)
(* several threads.  The lock of the manager is held from one step of a     *)
(* call to the next; the lock of the quota manager covers single steps.     *)
(* enforce_quotas takes the manager's lock only inside the releases it       *)
(* makes.                                                                   *)
(*                                                                         *)
(* Abstractions.  The policy's scores depend on the clock, so evict may pick *)
(* any allocations; access(), which only feeds the scores, is left out.     *)
(***************************************************************************)
EXTENDS Integers, Sequences, SequencesExt, FiniteSets, FiniteSetsExt

CONSTANTS
    Threads,
    Tenants,
    SizesOf,        \* sizes a caller may ask for
    Quotas,         \* quotas a tenant may be given
    DefaultQuota,   \* default_quota_gb in bytes
    EvictUpTo,      \* enforce_quotas releases up to 5 allocations of a tenant
    Operations,     \* the calls the threads make
    MaxCalls        \* bound: calls made

\* The lock when nobody holds it.
Free == "free"

ASSUME TenantAssumption ==
    /\ IsFiniteSet(Threads)
    /\ Free \notin Threads
    /\ SizesOf \subseteq Nat
    /\ Quotas \subseteq Nat
    /\ DefaultQuota \in Nat
    /\ EvictUpTo \in Nat
    /\ MaxCalls \in Nat

VARIABLES
    allocations,    \* id to tenant and size
    nextId,         \* allocation_id_counter
    usage,          \* quota_manager.usage
    known,          \* its keys, in no order
    quota,          \* get_quota of every tenant
    lock,           \* holder of the manager's lock
    call,           \* what each thread is doing
    calls           \* calls made

shared == <<allocations, nextId, usage, known, quota, lock>>
tenantVars == <<shared, call, calls>>
-----------------------------------------------------------------------------
\* A thread's call: where it is, its arguments, what is left to look at or do.
Idle == [at |-> "idle", tenant |-> "none", size |-> 0, id |-> -1,
         seen |-> {}, scan |-> {}, todo |-> <<>>, over |-> {}, back |-> "idle"]

At(th, at) == call[th].at = at

Become(th, rec) == call' = [call EXCEPT ![th] = rec]

Goto(th, at) == call' = [call EXCEPT ![th].at = at]

\* Where the caller of an allocation or of a release goes on, with its id.
Back(th, i) ==
    Become(th, IF call[th].back = "idle" THEN Idle ELSE [call[th] EXCEPT !.at = call[th].back, !.id = i])

Acquire(th) == lock = Free /\ lock' = th

Begin(th, op, rec) ==
    /\ op \in Operations
    /\ At(th, "idle")
    /\ calls < MaxCalls
    /\ calls' = calls + 1
    /\ Become(th, rec)

(* Over its quota; the utilisation of a tenant with quota 0 is 0. *)
OverQuota(t) == quota[t] > 0 /\ usage[t] > quota[t]

(* Allocations of a tenant in the order of the dictionary, oldest first. *)
IdsOf(t) ==
    SelectSeq([n \in 1 .. nextId |-> n - 1],
              LAMBDA i : i \in DOMAIN allocations /\ allocations[i].tenant = t)
-----------------------------------------------------------------------------
(* set_quota of the quota manager. *)
SetQuota(th, t, q) ==
    /\ Begin(th, "set_quota", Idle)
    /\ quota' = [quota EXCEPT ![t] = q]
    /\ UNCHANGED <<allocations, nextId, usage, known, lock>>

Allocate(th, t, size) ==
    /\ Begin(th, "allocate", [Idle EXCEPT !.at = "allocLock", !.tenant = t, !.size = size])
    /\ UNCHANGED shared

AllocLock(th) ==
    /\ At(th, "allocLock")
    /\ Acquire(th)
    /\ Goto(th, "allocQuota")
    /\ UNCHANGED <<allocations, nextId, usage, known, quota, calls>>

(* Mutant of AllocQuota: the refusal leaves the lock taken. *)
AllocQuotaKeepsLock(th) ==
    LET t == call[th].tenant
        fits == usage[t] + call[th].size <= quota[t]
    IN
    /\ At(th, "allocQuota")
    /\ known' = known \cup {t}
    /\ usage' = IF fits THEN [usage EXCEPT ![t] = @ + call[th].size] ELSE usage
    /\ IF fits THEN Goto(th, "allocInsert") ELSE Become(th, Idle)
    /\ UNCHANGED <<allocations, nextId, quota, lock, calls>>

(* Mutant of AllocQuota: the size counts before the test. *)
AllocQuotaCountsFirst(th) ==
    LET t == call[th].tenant
        fits == usage[t] + call[th].size <= quota[t]
    IN
    /\ At(th, "allocQuota")
    /\ known' = known \cup {t}
    /\ usage' = [usage EXCEPT ![t] = @ + call[th].size]
    /\ lock' = IF fits THEN lock ELSE Free
    /\ IF fits THEN Goto(th, "allocInsert") ELSE Become(th, Idle)
    /\ UNCHANGED <<allocations, nextId, quota, calls>>

(* Mutant of AllocQuota: what is held already is not counted. *)
AllocQuotaEach(th) ==
    LET t == call[th].tenant
        fits == call[th].size <= quota[t]
    IN
    /\ At(th, "allocQuota")
    /\ known' = known \cup {t}
    /\ usage' = IF fits THEN [usage EXCEPT ![t] = @ + call[th].size] ELSE usage
    /\ lock' = IF fits THEN lock ELSE Free
    /\ IF fits THEN Goto(th, "allocInsert") ELSE Become(th, Idle)
    /\ UNCHANGED <<allocations, nextId, quota, calls>>

(* quota_manager.allocate: a refusal returns None at once. *)
AllocQuota(th) ==
    LET t == call[th].tenant
        fits == usage[t] + call[th].size <= quota[t]
    IN
    /\ At(th, "allocQuota")
    /\ known' = known \cup {t}
    /\ usage' = IF fits THEN [usage EXCEPT ![t] = @ + call[th].size] ELSE usage
    /\ lock' = IF fits THEN lock ELSE Free
    /\ IF fits THEN Goto(th, "allocInsert") ELSE Become(th, Idle)
    /\ UNCHANGED <<allocations, nextId, quota, calls>>

AllocInsert(th) ==
    /\ At(th, "allocInsert")
    /\ allocations' = [i \in DOMAIN allocations \cup {nextId} |->
            IF i = nextId THEN [tenant |-> call[th].tenant, size |-> call[th].size]
                          ELSE allocations[i]]
    /\ nextId' = nextId + 1
    /\ lock' = Free
    /\ Back(th, nextId)
    /\ UNCHANGED <<usage, known, quota, calls>>
-----------------------------------------------------------------------------
(* release, called by a thread or by one of the calls below. *)
Release(th, i) ==
    /\ Begin(th, "release", [Idle EXCEPT !.at = "relLock", !.id = i])
    /\ UNCHANGED shared

(* An id that is gone by then returns False. *)
ReleaseLock(th) ==
    /\ At(th, "relLock")
    /\ lock = Free
    /\ IF call[th].id \in DOMAIN allocations
       THEN lock' = th /\ Goto(th, "relQuota")
       ELSE UNCHANGED lock /\ Back(th, call[th].id)
    /\ UNCHANGED <<allocations, nextId, usage, known, quota, calls>>

ReleaseQuota(th) ==
    LET a == allocations[call[th].id] IN
    /\ At(th, "relQuota")
    /\ usage' = [usage EXCEPT ![a.tenant] = IF @ > a.size THEN @ - a.size ELSE 0]
    /\ Goto(th, "relDelete")
    /\ UNCHANGED <<allocations, nextId, known, quota, lock, calls>>

ReleaseDelete(th) ==
    /\ At(th, "relDelete")
    /\ allocations' = [i \in DOMAIN allocations \ {call[th].id} |-> allocations[i]]
    /\ lock' = Free
    /\ Back(th, call[th].id)
    /\ UNCHANGED <<nextId, usage, known, quota, calls>>
-----------------------------------------------------------------------------
(* enforce_quotas: a look at every tenant, then releases. *)
Enforce(th) ==
    /\ Begin(th, "enforce", [Idle EXCEPT !.at = "enfScan", !.seen = known, !.scan = known])
    /\ UNCHANGED shared

EnforceScan(th) ==
    /\ At(th, "enfScan")
    /\ known = call[th].seen
    /\ \E t \in call[th].scan :
          LET over == IF OverQuota(t) THEN {t} ELSE {} IN
          call' = [call EXCEPT ![th].scan = @ \ {t}, ![th].over = @ \cup over]
    /\ UNCHANGED <<shared, calls>>

(* The call is about to list the allocations of the next tenant.             *)
Listing(th) ==
    \/ At(th, "enfScan") /\ call[th].scan = {} /\ known = call[th].seen
    \/ At(th, "enfNext") /\ call[th].todo = <<>>

(* "dictionary changed size during iteration": over the tenants, a tenant is  *)
(* new; over the allocations, another thread is about to add or remove one.  *)
EnforceRaises(th) ==
    /\ \/ At(th, "enfScan") /\ known # call[th].seen
       \/ /\ Listing(th)
          /\ call[th].over # {}
          /\ \E other \in Threads : call[other].at \in {"allocInsert", "relDelete"}
    /\ Become(th, Idle)
    /\ UNCHANGED <<shared, calls>>

(* The allocations of the next tenant found over its quota; when there is   *)
(* none the call returns.                                                   *)
EnforceList(th) ==
    /\ Listing(th)
    /\ IF call[th].over = {}
       THEN Goto(th, "enfDone")
       ELSE \E t \in call[th].over :
              LET ids == IdsOf(t) IN
              Become(th, [call[th] EXCEPT
                  !.at = "enfNext", !.over = @ \ {t},
                  !.todo = SubSeq(ids, 1, IF Len(ids) < EvictUpTo THEN Len(ids) ELSE EvictUpTo)])
    /\ UNCHANGED <<shared, calls>>

EnforceNext(th) ==
    /\ At(th, "enfNext")
    /\ call[th].todo # <<>>
    /\ Become(th, [call[th] EXCEPT !.at = "relLock", !.id = Head(call[th].todo),
                                   !.todo = Tail(call[th].todo), !.back = "enfNext"])
    /\ UNCHANGED <<shared, calls>>

EnforceReturn(th) ==
    /\ At(th, "enfDone")
    /\ Become(th, Idle)
    /\ UNCHANGED <<shared, calls>>
-----------------------------------------------------------------------------
(* evict: the candidates are chosen, and released, under the lock. *)
Evict(th) ==
    /\ Begin(th, "evict", [Idle EXCEPT !.at = "evictLock"])
    /\ UNCHANGED shared

EvictLock(th) ==
    /\ At(th, "evictLock")
    /\ Acquire(th)
    /\ Goto(th, "evictPick")
    /\ UNCHANGED <<allocations, nextId, usage, known, quota, calls>>

EvictPick(th) ==
    /\ At(th, "evictPick")
    /\ \/ /\ DOMAIN allocations = {}
          /\ lock' = Free
          /\ Become(th, Idle)
       \/ /\ \E i \in DOMAIN allocations :
                Become(th, [call[th] EXCEPT !.at = "relLock", !.id = i, !.back = "evictPick"])
          /\ UNCHANGED lock
    /\ UNCHANGED <<allocations, nextId, usage, known, quota, calls>>
-----------------------------------------------------------------------------
TenantInit ==
    /\ allocations = <<>>
    /\ nextId = 0
    /\ usage = [t \in Tenants |-> 0]
    /\ known = {}
    /\ quota = [t \in Tenants |-> DefaultQuota]
    /\ lock = Free
    /\ call = [th \in Threads |-> Idle]
    /\ calls = 0

Calls(th) ==
    \/ \E t \in Tenants, size \in SizesOf : Allocate(th, t, size)
    \/ \E i \in 0 .. nextId - 1 : Release(th, i)
    \/ \E t \in Tenants, q \in Quotas : SetQuota(th, t, q)
    \/ Enforce(th)
    \/ Evict(th)

Steps(th) ==
    \/ AllocLock(th) \/ AllocQuota(th) \/ AllocInsert(th)
    \/ ReleaseLock(th) \/ ReleaseQuota(th) \/ ReleaseDelete(th)
    \/ EnforceScan(th) \/ EnforceRaises(th) \/ EnforceList(th) \/ EnforceNext(th) \/ EnforceReturn(th)
    \/ EvictLock(th) \/ EvictPick(th)

TenantNext == \E th \in Threads : Calls(th) \/ Steps(th)
=============================================================================
