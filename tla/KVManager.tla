------------------------------ MODULE KVManager ------------------------------
(***************************************************************************)
(* The compressed KV cache (rfsn_v10/kv_manager.py): entries under a byte   *)
(* budget, least recently used first to go, pinned entries exempt, and the  *)
(* two running totals the budget tests read.                                *)
(*                                                                         *)
(* The operators take and return the state of one manager, so that the      *)
(* decode step can chain several of them; the actions are the calls of the  *)
(* manager itself.                                                          *)
(*                                                                         *)
(* Abstractions.  An entry is its size and its pin: the quantised payload   *)
(* decides nothing but the size.  The time stamps last_used only order the  *)
(* entries, so that order is kept instead, as the set of pairs of keys of    *)
(* which the first was used before the second.  A call whose arguments fail  *)
(* validation changes nothing and is not a step.                            *)
(***************************************************************************)
EXTENDS Integers, FiniteSets, FiniteSetsExt

CONSTANTS
    Keys,               \* cache keys
    Sizes,              \* what _estimate_cache_bytes can return for an entry
    MaxBytes,           \* max_memory_gb in bytes
    MaxPinnedBytes,     \* max_pinned_memory_gb in bytes
    Targets             \* arguments of evict_lru; None and 0 mean one entry

ASSUME KVAssumption ==
    /\ Sizes \subseteq Nat \ {0}
    /\ MaxBytes \in Nat
    /\ MaxPinnedBytes \in Nat
    /\ Targets \subseteq Nat

VARIABLE
    kv          \* active_caches, their order of use, the two totals
-----------------------------------------------------------------------------
EmptyKV == [entry |-> <<>>, older |-> {}, total |-> 0, pinned |-> 0]

Cached(s) == DOMAIN s.entry

SumBytes(s, ks) == MapThenSumSet(LAMBDA k : s.entry[k].bytes, ks)

(* pop from active_caches; _pinned_bytes is not touched. *)
Without(s, ks) ==
    LET left == Cached(s) \ ks
    IN  [s EXCEPT !.entry = [k \in left |-> s.entry[k]],
                  !.older = @ \cap (left \X left),
                  !.total = @ - SumBytes(s, ks)]

\* The order of use once k was used after all of ks.
Youngest(older, ks, k) == {p \in older : p[1] # k} \cup ((ks \ {k}) \X {k})

(* last_used := now. *)
Touched(s, k) == [s EXCEPT !.older = Youngest(@, Cached(s), k)]

\* The candidates of eviction.
Unpinned(s) == {k \in Cached(s) : ~s.entry[k].pinned}

\* What goes when candidates go oldest first: none, or all up to some k.
OldestFirst(s) ==
    {{}} \cup {{j \in Unpinned(s) : j = k \/ <<j, k>> \in s.older} : k \in Unpinned(s)}

(* The loops of evict_lru and _enforce_memory_budget take victims one by   *)
(* one: as few as free the amount, all the candidates when none does.       *)
Victims(s, amount) ==
    LET enough == {V \in OldestFirst(s) : SumBytes(s, V) >= amount}
    IN  IF enough = {} THEN Unpinned(s)
        ELSE CHOOSE V \in enough : \A W \in enough : W \subseteq V => W = V

(* evict_lru(target): one victim, which frees a byte, or more until target  *)
(* is freed.                                                                *)
Evicted(s, target) == Without(s, Victims(s, IF target = 0 THEN 1 ELSE target))

FreedBy(s, target) == s.total - Evicted(s, target).total

(* Mutant of BudgetEnforced: one victim is enough. *)
BudgetEnforcedOnce(s) == IF s.total > MaxBytes THEN Evicted(s, 0) ELSE s

(* _enforce_memory_budget.  It raises when the candidates run out first.   *)
BudgetEnforced(s) == Without(s, Victims(s, s.total - MaxBytes))

TooBig(bytes) == bytes > MaxBytes

(* Mutant of Replaced: the pinned total keeps the old entry. *)
ReplacedKeepsPinned(s, k) == IF k \in Cached(s) THEN Without(s, {k}) ELSE s

(* The entry that is about to be overwritten leaves both totals. *)
Replaced(s, k) ==
    IF k \in Cached(s)
    THEN [Without(s, {k}) EXCEPT
            !.pinned = IF s.entry[k].pinned THEN @ - s.entry[k].bytes ELSE @]
    ELSE s

(* store() of an entry that fits the budget by itself: it is unpinned and  *)
(* the youngest, and may be the victim of its own eviction.                *)
Stored(s, k, bytes) ==
    LET r == Replaced(s, k)
        new == [bytes |-> bytes, pinned |-> FALSE]
    IN  BudgetEnforced(
            [r EXCEPT !.entry = [j \in Cached(r) \cup {k} |->
                                    IF j = k THEN new ELSE r.entry[j]],
                      !.older = Youngest(@, Cached(r), k),
                      !.total = @ + bytes])

Pinnable(s, k) ==
    /\ k \in Cached(s)
    /\ ~s.entry[k].pinned
    /\ s.pinned + s.entry[k].bytes <= MaxPinnedBytes

Pinned(s, k) == [s EXCEPT !.entry[k].pinned = TRUE,
                          !.pinned = @ + s.entry[k].bytes]
-----------------------------------------------------------------------------
KVInit == kv = EmptyKV

(* An entry larger than the whole budget raises before anything changed. *)
Store(k, bytes) ==
    /\ ~TooBig(bytes)
    /\ kv' = Stored(kv, k, bytes)

(* retrieve() and retrieve_blocks() count as a use even when the stored     *)
(* metadata does not match and they raise; a missing key is no step.        *)
Retrieve(k) ==
    /\ k \in Cached(kv)
    /\ kv' = Touched(kv, k)

(* True when the entry is pinned already, MemoryError when the pinned       *)
(* budget would be exceeded.                                                *)
PinCache(k) ==
    /\ k \in Cached(kv)
    /\ IF kv.entry[k].pinned
       THEN UNCHANGED kv
       ELSE Pinnable(kv, k) /\ kv' = Pinned(kv, k)

EvictLRU(target) == kv' = Evicted(kv, target)

KVNext ==
    \/ \E k \in Keys, bytes \in Sizes : Store(k, bytes)
    \/ \E k \in Keys : Retrieve(k) \/ PinCache(k)
    \/ \E target \in Targets : EvictLRU(target)
=============================================================================
