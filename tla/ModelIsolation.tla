---------------------------- MODULE ModelIsolation ----------------------------
(***************************************************************************)
(* Several models over one tenant memory (rfsn_v10/multi_model.py), each the *)
(* tenant named after it, called by several threads.  The isolation manager   *)
(* has no lock: its two dictionaries change one after the other, between the  *)
(* steps other threads take.                                                *)
(*                                                                         *)
(* Abstractions.  Latencies and hit counts are left out.  The memory usage    *)
(* that the statistics of a model count is the set of the allocations it was  *)
(* raised for: no release ever lowers it.  A model may have been inactive for *)
(* long at any moment, so a clean-up takes any.                              *)
(***************************************************************************)
EXTENDS TenantMemory

Models == Tenants

VARIABLES
    models,         \* the keys of models
    stats,          \* the keys of stats
    counted,        \* memory_usage_bytes of a model's statistics: the
                    \* allocations in it
    read,           \* what each thread read of it, to write it back raised
    stale,          \* threads that will write to statistics no longer in stats
    activeModel     \* active_model

account   == <<counted, read, stale>>
isolation == <<models, stats, activeModel, account>>

vars == <<tenantVars, isolation>>
-----------------------------------------------------------------------------
NoModel == "none"

(* register_model ends in a call of set_tenant_quota, which the memory       *)
(* manager does not have: the AttributeError leaves the model registered    *)
(* and its quota the default.                                               *)
RegisterModel(th, m) ==
    /\ Begin(th, "register", [Idle EXCEPT !.at = "regStats", !.tenant = m])
    /\ models' = models \cup {m}
    /\ UNCHANGED <<shared, stats, activeModel, account>>

(* The statistics of a model go, with all they counted.                      *)
Forget(m) ==
    /\ counted' = [counted EXCEPT ![m] = {}]
    /\ stale' = stale \cup {th \in Threads : At(th, "accountWrite") /\ call[th].tenant = m}
    /\ UNCHANGED read

(* New statistics, in the place of those of a model registered before.       *)
RegisterStats(th) ==
    /\ At(th, "regStats")
    /\ stats' = stats \cup {call[th].tenant}
    /\ Forget(call[th].tenant)
    /\ Become(th, Idle)
    /\ UNCHANGED <<shared, calls, models, activeModel>>

SwitchModel(th, m) ==
    /\ m \in models
    /\ Begin(th, "switch", Idle)
    /\ activeModel' = m
    /\ UNCHANGED <<shared, models, stats, account>>

(* allocate_model_memory: the memory manager's allocate, then the account,   *)
(* read and written back without a lock.                                    *)
AllocateModelMemory(th, m, size) ==
    /\ m \in models
    /\ Begin(th, "allocate", [Idle EXCEPT !.at = "allocLock", !.tenant = m, !.size = size,
                                          !.back = "account"])
    /\ UNCHANGED <<shared, isolation>>

(* Without statistics the KeyError keeps the id from the caller.             *)
AccountRead(th) ==
    /\ At(th, "account")
    /\ IF call[th].tenant \in stats
       THEN Goto(th, "accountWrite") /\ read' = [read EXCEPT ![th] = counted[call[th].tenant]]
       ELSE Become(th, Idle) /\ UNCHANGED read
    /\ UNCHANGED <<shared, calls, models, stats, activeModel, counted, stale>>

(* Mutant of AccountWrite: "=" in the place of "+=". *)
AccountWriteOnly(th) ==
    /\ At(th, "accountWrite")
    /\ counted' = IF th \in stale THEN counted ELSE [counted EXCEPT ![call[th].tenant] = {call[th].id}]
    /\ read' = [read EXCEPT ![th] = {}]
    /\ stale' = stale \ {th}
    /\ Become(th, Idle)
    /\ UNCHANGED <<shared, calls, models, stats, activeModel>>

AccountWrite(th) ==
    /\ At(th, "accountWrite")
    /\ counted' = IF th \in stale THEN counted
                  ELSE [counted EXCEPT ![call[th].tenant] = read[th] \cup {call[th].id}]
    /\ read' = [read EXCEPT ![th] = {}]
    /\ stale' = stale \ {th}
    /\ Become(th, Idle)
    /\ UNCHANGED <<shared, calls, models, stats, activeModel>>

(* release_model_memory: the statistics look the allocation up after its      *)
(* release and find nothing; whose allocation it was is not looked at.       *)
ReleaseModelMemory(th, m, i) ==
    /\ m \in models
    /\ Release(th, i)
    /\ UNCHANGED isolation

(* cleanup_inactive_models over the statistics as they are now; memory and    *)
(* active_model are not looked at.                                          *)
CleanupInactiveModels(th, inactive) ==
    /\ Begin(th, "cleanup", [Idle EXCEPT !.at = "cleanModel", !.scan = inactive])
    /\ UNCHANGED <<shared, isolation>>

(* A model that is gone by then ends the clean-up with a KeyError.           *)
CleanModel(th) ==
    /\ At(th, "cleanModel")
    /\ IF call[th].scan = {} THEN Become(th, Idle) /\ UNCHANGED models
       ELSE \E m \in call[th].scan :
            IF m \in models
            THEN /\ models' = models \ {m}
                 /\ Become(th, [call[th] EXCEPT !.at = "cleanStats", !.tenant = m, !.scan = @ \ {m}])
            ELSE Become(th, Idle) /\ UNCHANGED models
    /\ UNCHANGED <<shared, calls, stats, activeModel, account>>

CleanStats(th) ==
    /\ At(th, "cleanStats")
    /\ stats' = stats \ {call[th].tenant}
    /\ Forget(call[th].tenant)
    /\ IF call[th].tenant \in stats THEN Goto(th, "cleanModel") ELSE Become(th, Idle)
    /\ UNCHANGED <<shared, calls, models, activeModel>>
-----------------------------------------------------------------------------
IsolationInit ==
    /\ models = {} /\ stats = {}
    /\ activeModel = NoModel
    /\ counted = [m \in Models |-> {}]
    /\ read = [th \in Threads |-> {}]
    /\ stale = {}

IsolationCalls(th) ==
    \/ \E m \in Models : RegisterModel(th, m) \/ SwitchModel(th, m)
    \/ \E m \in Models, size \in SizesOf : AllocateModelMemory(th, m, size)
    \/ \E m \in Models, i \in 0 .. nextId - 1 : ReleaseModelMemory(th, m, i)
    \/ \E inactive \in SUBSET stats : CleanupInactiveModels(th, inactive)

(* Quotas and eviction are the memory manager's own.                         *)
ManagerCalls(th) ==
    /\ \/ \E t \in Tenants, q \in Quotas : SetQuota(th, t, q)
       \/ Enforce(th)
       \/ Evict(th)
    /\ UNCHANGED isolation

IsolationSteps(th) ==
    \/ RegisterStats(th) \/ AccountRead(th) \/ AccountWrite(th) \/ CleanModel(th) \/ CleanStats(th)
    \/ Steps(th) /\ UNCHANGED isolation
=============================================================================
