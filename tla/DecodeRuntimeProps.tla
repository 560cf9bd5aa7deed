-------------------------- MODULE DecodeRuntimeProps --------------------------
(* What the decode step must keep true of the cache, the guard and the       *)
(* controller it works with.                                                *)
EXTENDS DecodeRuntime

(* Types of the runtime's own state: every ratio stays within the bounds of  *)
(* the controller, and a profile never counts up to the number of clean       *)
(* steps that acts.                                                         *)
TypeOK ==
    /\ guard \in Guards
    /\ profiles \in [Profiles -> ProfileType]
    /\ lastMode \in Modes \cup {"none"}

(* The running totals are the sums they stand for, and of any two entries it  *)
(* is known which was used first: no sequence of stores, replacements of       *)
(* pinned entries, pins and evictions makes them drift.                       *)
TotalsExact ==
    /\ kv.total = SumBytes(kv, Cached(kv))
    /\ kv.pinned = SumBytes(kv, {k \in Cached(kv) : kv.entry[k].pinned})
    /\ kv.older \subseteq Cached(kv) \X Cached(kv)
    /\ \A j, k \in Cached(kv) : j # k => (<<j, k>> \in kv.older <=> <<k, j>> \notin kv.older)

(* After every call both budgets hold; so the loop of                       *)
(* _enforce_memory_budget never runs out of candidates, and its MemoryError *)
(* "All caches pinned" is unreachable, even when the pinned budget is the   *)
(* larger one.                                                              *)
WithinBudgets ==
    /\ kv.total <= MaxBytes
    /\ kv.pinned <= MaxPinnedBytes
-----------------------------------------------------------------------------
(* A step that used the sparse path leaves a guard that allows it: pressure *)
(* or an emergency that arises in the middle of the step, after the         *)
(* decision was taken, still stops the sparse path of that step.            *)
SparseNeedsCalm ==
    HasGuard /\ lastMode = "sparse_compacted" => ~guard.pressure /\ ~guard.noSparse

(* "Disable sparse/quantized mode under pressure" (memory_guard.py:25): a    *)
(* step that starts under pressure or in an emergency leaves the cache as   *)
(* it is, whatever it hits or misses; only its owner still changes it.      *)
PressureLeavesCacheAlone ==
    [][HasGuard /\ (guard.pressure \/ guard.noQuant) =>
        CacheCall \/ UNCHANGED kv]_vars

(* What is pinned stays, and stays pinned, through steps and evictions: the *)
(* steps look before they store, so only the owner replaces a pinned entry. *)
PinnedSurvive ==
    [][\A k \in Cached(kv) : kv.entry[k].pinned =>
        \/ k \in Cached(kv') /\ kv'.entry[k].pinned
        \/ CacheCall /\ \E bytes \in Sizes : Store(k, bytes)]_vars

(* A profile whose sparse path was switched off gets it back by a reset of  *)
(* the controller and by nothing else: the steps that could switch it on    *)
(* again are the sparse ones that no longer happen.                         *)
SparseOffIsForever ==
    [][\A p \in Profiles : profiles[p].noSparse /\ ~profiles'[p].noSparse =>
        profiles' = [q \in Profiles |-> NewProfile]]_vars
=============================================================================
