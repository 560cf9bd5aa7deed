---------------------------- MODULE DecodeRuntime ----------------------------
(***************************************************************************)
(* One model's decode runtime (rfsn_v10/runtime/engine.py) over the KV       *)
(* cache, the memory guard and the sparsity controller it is given.         *)
(*                                                                         *)
(* execute_decode_step is one action.  It is the chain of its stages, each  *)
(* the set of results the stage can have: the decision, the cache, the      *)
(* attention with its dense fallback, the audit.  A stage that raises ends  *)
(* the step and leaves what the stages before it changed.                   *)
(***************************************************************************)
EXTENDS KVManager, MemoryGuard, SparsityController

CONSTANTS
    BytesOf,            \* size of the entry a key's shape gives
    EstimateOf,         \* estimate_compressed_bytes_for_shape of that shape
    AttentionBytes,     \* the estimate of _validate_inputs
    ProfileOf,          \* the controller's profile for the key
    Readings,           \* what the device can report
    Overrides,          \* per-call top_k_ratio; 0 for none
    DefaultRatio,       \* top_k_ratio of the runtime
    SparseDecode,       \* enable_sparse_decode
    Audit,              \* audit_mode
    HasGuard,           \* memory_guard is given
    HasController,      \* adaptive_sparsity_controller is given
    HasCallback         \* the guard's eviction callback is kv_manager.evict_lru

ASSUME RuntimeAssumption ==
    /\ BytesOf \in [Keys -> Sizes]
    /\ EstimateOf \in [Keys -> Nat]
    /\ AttentionBytes \in Nat
    /\ Readings \subseteq Nat
    /\ Overrides \subseteq Nat
    /\ DefaultRatio \in 1 .. DenseRatio
    /\ {SparseDecode, Audit, HasGuard, HasController, HasCallback} \subseteq BOOLEAN

VARIABLES
    guard,      \* the memory guard
    profiles,   \* _profiles of the controller
    lastMode    \* history: the execution mode of the last step, "none" after
                \* a call that is no step or that raised

runtime == <<guard, profiles, lastMode>>
vars    == <<kv, runtime>>

Profiles == {ProfileOf[k] : k \in Keys}

(* The execution modes; "unknown" when the attention raised, "dense_other" *)
(* for a context too short, a prefill or a ragged batch.                   *)
Modes == {"sparse_compacted", "dense_requested", "dense_other", "unknown"}
-----------------------------------------------------------------------------
(* What the step may use.  With a guard its answer replaces the            *)
(* controller's on the quantised path.                                     *)
Decision(p, g, override) ==
    [quant  |-> IF HasGuard THEN ~ShouldDisableQuantized(g)
                ELSE ~(HasController /\ p.noQuant),
     sparse |-> /\ SparseDecode
                /\ ~(HasController /\ p.noSparse)
                /\ ~(HasGuard /\ ShouldDisableSparse(g)),
     ratio  |-> CASE override # 0 -> override
                  [] override = 0 /\ HasController -> p.ratio
                  [] override = 0 /\ ~HasController -> DefaultRatio]

(* A miss asks the guard before it stores.  Past the soft limit the guard   *)
(* calls the eviction callback, when there is one; the callback may fail.   *)
GuardedMiss(k, s, g) ==
    LET readings  == {active + EstimateOf[k] : active \in Readings}
        evicting  == {r \in readings : HasCallback /\ WantsEviction(r)}
        target(r) == EvictionTarget(r, EstimateOf[k])
    IN  IF HasGuard
        THEN {[kv |-> s, guard |-> Enforced(g, r, 0)] : r \in readings}
             \cup {[kv |-> Evicted(s, target(r)),
                     guard |-> Enforced(g, r, FreedBy(s, target(r)))] : r \in evicting}
        ELSE {[kv |-> s, guard |-> g]}

(* Mutant of AfterMiss: the guard is not asked again about the sparse path. *)
AfterMissOnce(k, m, d) ==
    LET allowed == ~(HasGuard /\ ShouldDisableQuantized(m.guard))
        fails   == allowed /\ TooBig(BytesOf[k])
    IN  [kv     |-> IF allowed /\ ~fails THEN Stored(m.kv, k, BytesOf[k]) ELSE m.kv,
         guard  |-> m.guard,
         sparse |-> d.sparse,
         raised |-> fails]

(* The store of a miss, unless the guard has just forbidden it.  The        *)
(* retrieve that may follow (use_compressed_on_miss) changes nothing: the   *)
(* entry is the youngest already, or gone.  A store that validation rejects *)
(* raises like one too big.                                                 *)
AfterMiss(k, m, d) ==
    LET allowed == ~(HasGuard /\ ShouldDisableQuantized(m.guard))
        fails   == allowed /\ TooBig(BytesOf[k])
    IN  [kv     |-> IF allowed /\ ~fails THEN Stored(m.kv, k, BytesOf[k]) ELSE m.kv,
         guard  |-> m.guard,
         sparse |-> d.sparse /\ ~(HasGuard /\ ShouldDisableSparse(m.guard)),
         raised |-> fails]

(* Mutant of CacheStage: the entry is stored again on a hit. *)
CacheStageStores(k, s, g, d) ==
    IF d.quant
    THEN {AfterMiss(k, m, d) : m \in GuardedMiss(k, s, g)}
    ELSE {[kv |-> s, guard |-> g, sparse |-> d.sparse, raised |-> FALSE]}

(* The cache: skipped, hit, or missed. *)
CacheStage(k, s, g, d) ==
    LET with(s2) == [kv |-> s2, guard |-> g, sparse |-> d.sparse, raised |-> FALSE]
    IN  CASE ~d.quant                      -> {with(s)}
          [] d.quant /\ k \in Cached(s)    -> {with(Touched(s, k))}
          [] d.quant /\ k \notin Cached(s) -> {AfterMiss(k, m, d) : m \in GuardedMiss(k, s, g)}

(* AdaptiveBlockSparseAttention.execute on accepted inputs: a gate that is  *)
(* shut makes the ratio 1.0, below it the shape of the context decides.     *)
SparseAttention(sparse, ratio) ==
    IF ~sparse \/ ratio >= DenseRatio
    THEN {"dense_requested"}
    ELSE Modes \ {"unknown"}

(* The attempt: _validate_inputs may reject the inputs, then it asks the    *)
(* guard and raises under pressure; what is left may raise at any point,    *)
(* and when the output is evaluated, with the mode known by then.           *)
AttentionStage(g, sparse, ratio) ==
    LET raised(g2)     == [guard |-> g2, mode |-> "unknown", ok |-> FALSE]
        returned(g2)   == [guard : {g2}, mode : SparseAttention(sparse, ratio), ok : BOOLEAN]
        checked(r)     == IF UnderPressure(r)
                          THEN {raised(Checked(g, r))}
                          ELSE {raised(Checked(g, r))} \cup returned(Checked(g, r))
    IN  {raised(g)} \cup
        (IF HasGuard
         THEN UNION {checked(active + AttentionBytes) : active \in Readings}
         ELSE returned(g))

IsDense(mode) == mode \in {"dense_requested", "dense_other"}

SparseSuccess(a) == a.ok /\ a.mode = "sparse_compacted"

(* Dense attention runs for every audit, and after a failure unless the     *)
(* attempt was dense already.                                               *)
DenseRuns(a) == Audit \/ (~SparseSuccess(a) /\ ~IsDense(a.mode))

(* The step has an output, unless the dense attention that runs raises.     *)
HasOutput(a) == a.ok \/ DenseRuns(a)

FallbackUsed(a) ==
    /\ ~SparseSuccess(a)
    /\ DenseRuns(a) \/ (a.ok /\ a.mode # "dense_requested")

(* The controller learns from audited steps; without sparse output there   *)
(* is no sparse audit.                                                     *)
ProfileStage(p, a) ==
    IF HasController /\ Audit
    THEN {Updated(p, SparseSuccess(a), FallbackUsed(a), sv, qv) :
            sv \in IF SparseSuccess(a) THEN Verdicts ELSE {"good"},
            qv \in Verdicts}
    ELSE {p}
-----------------------------------------------------------------------------
(* The three ends of a step. *)
StoreRaised(c) ==
    /\ c.raised
    /\ guard' = c.guard
    /\ lastMode' = "none"
    /\ UNCHANGED profiles

AllPathsFailed(a) ==
    /\ DenseRuns(a) \/ ~HasOutput(a)
    /\ lastMode' = "none"
    /\ UNCHANGED profiles

Finished(p, a) ==
    /\ HasOutput(a)
    /\ lastMode' = a.mode
    /\ \E q \in ProfileStage(profiles[p], a) : profiles' = [profiles EXCEPT ![p] = q]

(* execute_decode_step. *)
ExecuteDecodeStep(k, override) ==
    LET p == ProfileOf[k]
        d == Decision(profiles[p], guard, override)
    IN  \E c \in CacheStage(k, kv, guard, d) :
          /\ kv' = c.kv
          /\ \/ StoreRaised(c)
             \/ /\ ~c.raised
                /\ \E a \in AttentionStage(c.guard, c.sparse, d.ratio) :
                      /\ guard' = a.guard
                      /\ Finished(p, a) \/ AllPathsFailed(a)

(* Calls from outside a step: the cache is an object of its own, whose      *)
(* owner may store, retrieve, pin and evict.                                *)
CacheCall ==
    /\ KVNext
    /\ lastMode' = "none"
    /\ UNCHANGED <<guard, profiles>>

(* enter_emergency_mode and exit_emergency_mode. *)
SetEmergency(g) ==
    /\ HasGuard
    /\ guard' = g
    /\ lastMode' = "none"
    /\ UNCHANGED <<kv, profiles>>

(* reset of the controller. *)
ResetController ==
    /\ HasController
    /\ profiles' = [p \in Profiles |-> NewProfile]
    /\ lastMode' = "none"
    /\ UNCHANGED <<kv, guard>>

Init ==
    /\ KVInit
    /\ guard = Calm
    /\ profiles = [p \in Profiles |-> NewProfile]
    /\ lastMode = "none"

Next ==
    \/ \E k \in Keys, override \in Overrides : ExecuteDecodeStep(k, override)
    \/ CacheCall
    \/ \E g \in {Calm, Emergency} : SetEmergency(g)
    \/ ResetController

Spec == Init /\ [][Next]_vars
=============================================================================
