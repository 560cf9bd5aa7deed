------------------------- MODULE ModelIsolationProps -------------------------
(* What models over one tenant memory keep to, under threads.               *)
EXTENDS ModelIsolation

VARIABLES
    met,        \* history: models two calls were in the middle of at one time
    left        \* history: allocations held since before the statistics that
                \* counted them went

allVars == <<vars, met, left>>

(* The calls between their two steps on the dictionaries of a model.        *)
Changing(m) == {th \in Threads : call[th].at \in {"regStats", "cleanStats"} /\ call[th].tenant = m}

Allocating(m) == {th \in Threads : call[th].back = "account" /\ call[th].tenant = m}

Accounting(m) == {th \in Threads : At(th, "accountWrite") /\ call[th].tenant = m}

Meeting ==
    {m \in Models : \/ Changing(m) # {} /\ Cardinality(Changing(m) \cup Allocating(m)) > 1
                    \/ Cardinality(Accounting(m)) > 1}

(* The allocations, held now, of the models whose statistics this step ends.  *)
Forgotten ==
    LET ended == {call[th].tenant : th \in
                    {x \in Threads : call[x].at \in {"regStats", "cleanStats"} /\ call'[x].at # call[x].at}}
    IN {i \in DOMAIN allocations : allocations[i].tenant \in ended}

Init == TenantInit /\ IsolationInit /\ met = {} /\ left = {}

Next ==
    /\ \E th \in Threads : IsolationCalls(th) \/ ManagerCalls(th) \/ IsolationSteps(th)
    /\ met' = met \cup Meeting'
    /\ left' = (left \cup Forgotten) \cap DOMAIN allocations'

(* A thread that can go on does; the calls themselves are up to it.          *)
Fairness == \A th \in Threads : WF_vars(IsolationSteps(th))

Spec == Init /\ [][Next]_allVars /\ Fairness

(* Granted and not yet in the dictionary; gone from the usage and not yet   *)
(* from the dictionary.                                                     *)
Granted == {th \in Threads : At(th, "allocInsert")}

Dropped == {call[th].id : th \in {x \in Threads : At(x, "relDelete")}}

(* The grants in force, as the two dictionaries and the calls hold them.    *)
Held ==
    [i \in (DOMAIN allocations \ Dropped) \cup (IF Granted = {} THEN {} ELSE {nextId}) |->
        IF i = nextId
        THEN [tenant |-> call[CHOOSE th \in Granted : TRUE].tenant,
              size   |-> call[CHOOSE th \in Granted : TRUE].size]
        ELSE allocations[i]]

(* The usage of a tenant is what it holds, at every step of every call: no  *)
(* release counts twice, when threads or a quota enforcement release the    *)
(* same allocation, and the floor at 0 never hides a difference.            *)
UsageExact ==
    \A t \in Tenants :
        usage[t] = MapThenSumSet(LAMBDA i : Held[i].size,
                                 {i \in DOMAIN Held : Held[i].tenant = t})

Ledger == INSTANCE TenantLedger WITH Ids <- 0 .. MaxCalls, held <- Held

(* The manager keeps the promise of the ledger: a grant only within the     *)
(* quota of that moment, and nothing dropped twice.                         *)
ImplementsLedger == Ledger!LedgerSpec
-----------------------------------------------------------------------------
(* The allocations of a model that are granted and on their way into its      *)
(* statistics.                                                              *)
Uncounted(m) ==
    {call[th].id : th \in {x \in Threads : /\ call[x].at \in {"account", "accountWrite"}
                                          /\ call[x].tenant = m}}

(* Unless two calls met in the middle of a model, it has its configuration    *)
(* and its statistics, or neither, and its statistics count every allocation  *)
(* it holds: all but those that it held when a clean-up or another           *)
(* registration ended the statistics that counted them.  A call is in the     *)
(* middle of a model from its first step on it to its last, and two           *)
(* allocations meet only between reading and raising its memory usage         *)
(* (register_model, cleanup_inactive_models, allocate_model_memory).         *)
OneModelTwoDictionaries ==
    \A m \in Models \ met :
        /\ Changing(m) = {} => (m \in models <=> m \in stats)
        /\ \A i \in DOMAIN allocations :
              allocations[i].tenant = m => i \in counted[m] \cup left \cup Uncounted(m)

(* An evict waits, in the release it makes, for the lock it holds.          *)
SelfBlocked == \E th \in Threads : At(th, "relLock") /\ call[th].back = "evictPick"

(* Every call comes to its end, the ones that find a dictionary changed       *)
(* under them included, as long as no evict blocks itself                    *)
(* (memory_manager.py:269).                                                 *)
CallsReturn == \A th \in Threads : ~At(th, "idle") ~> At(th, "idle") \/ SelfBlocked
=============================================================================
