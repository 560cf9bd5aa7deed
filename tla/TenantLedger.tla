----------------------------- MODULE TenantLedger -----------------------------
(***************************************************************************)
(* What the tenant memory manager promises (rfsn_v10/memory_manager.py):     *)
(* memory is granted to a tenant only within its quota at that moment, and  *)
(* what was granted counts against the tenant until it is released, once.   *)
(***************************************************************************)
EXTENDS Integers, FiniteSets, FiniteSetsExt

CONSTANTS
    Ids,            \* names of allocations
    Tenants,
    SizesOf,        \* sizes a caller may ask for
    Quotas,         \* quotas a tenant may be given
    DefaultQuota    \* default_quota_gb in bytes

VARIABLES
    held,       \* the grants: allocation id to tenant and size
    quota       \* get_quota of every tenant

ledger == <<held, quota>>

HeldBy(t) == MapThenSumSet(LAMBDA i : held[i].size,
                           {i \in DOMAIN held : held[i].tenant = t})

LedgerInit ==
    /\ held = <<>>
    /\ quota = [t \in Tenants |-> DefaultQuota]

Grant(i, t, size) ==
    /\ i \notin DOMAIN held
    /\ HeldBy(t) + size <= quota[t]
    /\ held' = [j \in DOMAIN held \cup {i} |->
                    IF j = i THEN [tenant |-> t, size |-> size] ELSE held[j]]
    /\ UNCHANGED quota

Drop(i) ==
    /\ i \in DOMAIN held
    /\ held' = [j \in DOMAIN held \ {i} |-> held[j]]
    /\ UNCHANGED quota

SetQuota(t, q) ==
    /\ quota' = [quota EXCEPT ![t] = q]
    /\ UNCHANGED held

LedgerNext ==
    \/ \E i \in Ids, t \in Tenants, size \in SizesOf : Grant(i, t, size)
    \/ \E i \in DOMAIN held : Drop(i)
    \/ \E t \in Tenants, q \in Quotas : SetQuota(t, q)

LedgerSpec == LedgerInit /\ [][LedgerNext]_ledger
=============================================================================
