---------------------------- MODULE RuntimeProofs ----------------------------
(***************************************************************************)
(* Theorems about the two runtimes: the decode runtime with its KV cache      *)
(* (runtime/engine.py, kv_manager.py), for every cache, limit, ratio,        *)
(* reading and configuration, and the experimental quantised runtime         *)
(* (runtime/experimental_quant_runtime.py), for every request and window.    *)
(***************************************************************************)
EXTENDS DecodeRuntimeProps, QuantRuntimeProps, CommonLemmas

(* A verdict and an outcome keep a profile within the controller's bounds. *)
LEMMA UpdatedType ==
    ASSUME NEW p \in ProfileType, NEW success \in BOOLEAN, NEW fallback \in BOOLEAN,
           NEW sv \in Verdicts, NEW qv \in Verdicts
    PROVE  Updated(p, success, fallback, sv, qv) \in ProfileType
<1>1. RatioRaised(p.ratio) \in MinRatio .. MaxRatio
  BY SparsityAssumption DEF ProfileType, RatioRaised
<1>2. RatioLowered(p.ratio) \in MinRatio .. MaxRatio
  BY SparsityAssumption DEF ProfileType, RatioLowered
<1>3. 0 \in 0 .. StabilizationSteps - 1
  BY SparsityAssumption
<1>4. AfterFallback(p) \in ProfileType
  BY <1>1, <1>3 DEF AfterFallback, ProfileType
<1>5. AfterSparseLoss(p, sv) \in ProfileType
  BY <1>1, <1>3 DEF AfterSparseLoss, ProfileType
<1>6. AfterQuantLoss(p, qv) \in ProfileType
  BY <1>3 DEF AfterQuantLoss, ProfileType
<1>7. AfterCleanStep(p) \in ProfileType
  BY <1>2, <1>3, SparsityAssumption DEF AfterCleanStep, ProfileType
<1> QED
  BY <1>4, <1>5, <1>6, <1>7 DEF Updated

(* What the audit of a step can leave in a profile. *)
LEMMA ProfileStageType ==
    ASSUME NEW p \in ProfileType, NEW a, a.ok \in BOOLEAN,
           NEW q \in ProfileStage(p, a)
    PROVE  q \in ProfileType
<1>1. CASE HasController /\ Audit
  <2>1. PICK sv \in IF SparseSuccess(a) THEN Verdicts ELSE {"good"}, qv \in Verdicts :
          q = Updated(p, SparseSuccess(a), FallbackUsed(a), sv, qv)
    BY <1>1 DEF ProfileStage
  <2>2. sv \in Verdicts
    BY DEF Verdicts
  <2>3. SparseSuccess(a) \in BOOLEAN /\ FallbackUsed(a) \in BOOLEAN
    BY DEF SparseSuccess, FallbackUsed
  <2> QED
    BY <2>1, <2>2, <2>3, UpdatedType
<1>2. CASE ~(HasController /\ Audit)
  BY <1>2 DEF ProfileStage
<1> QED
  BY <1>1, <1>2

(* Whatever was freed, the guard stays a guard. *)
LEMMA EnforcedType ==
    ASSUME NEW g \in Guards, NEW r \in Int, NEW freed
    PROVE  Enforced(g, r, freed) \in Guards
<1>1. /\ Emergency \in Guards
      /\ WithPressure(g, TRUE) \in Guards
      /\ WithPressure(g, FALSE) \in Guards
  BY DEF Guards, Emergency, WithPressure
<1>2. r > HardLimit \/ (r <= HardLimit /\ r <= SoftLimit) \/ WantsEviction(r)
  BY GuardAssumption DEF WantsEviction
<1> QED
  BY <1>1, <1>2 DEF Enforced

(* The cache stage leaves guard and gate alone, unless the step missed. *)
LEMMA CacheStageShape ==
    ASSUME NEW k, NEW s, NEW g, NEW d, NEW c \in CacheStage(k, s, g, d)
    PROVE  \/ c.guard = g /\ c.sparse = d.sparse
           \/ \E m \in GuardedMiss(k, s, g) : c = AfterMiss(k, m, d)
<1>1. CASE d.quant /\ k \notin Cached(s)
  BY <1>1 DEF CacheStage
<1>2. CASE ~(d.quant /\ k \notin Cached(s))
  BY <1>2 DEF CacheStage
<1> QED
  BY <1>1, <1>2

(* After the cache stage the sparse path is open only with a calm guard.    *)
LEMMA CacheStageGates ==
    ASSUME NEW k \in Keys, NEW s, NEW g \in Guards, NEW p, NEW override,
           NEW c \in CacheStage(k, s, g, Decision(p, g, override))
    PROVE  /\ c.guard \in Guards
           /\ c.sparse => ~(HasController /\ p.noSparse)
           /\ HasGuard /\ c.sparse => ~c.guard.noSparse
<1> DEFINE d == Decision(p, g, override)
<1>1. /\ d.sparse => ~(HasController /\ p.noSparse)
      /\ HasGuard /\ d.sparse => ~g.noSparse
  BY DEF Decision, ShouldDisableSparse
<1>2. CASE c.guard = g /\ c.sparse = d.sparse
  BY <1>1, <1>2
<1>3. CASE \E m \in GuardedMiss(k, s, g) : c = AfterMiss(k, m, d)
  <2>1. PICK m \in GuardedMiss(k, s, g) : c = AfterMiss(k, m, d)
    BY <1>3
  <2>2. /\ c.guard = m.guard
        /\ c.sparse = (d.sparse /\ ~(HasGuard /\ ShouldDisableSparse(m.guard)))
    BY <2>1 DEF AfterMiss
  <2>3. m.guard \in Guards
    <3>1. CASE HasGuard
      <4>1. PICK active, freed :
                /\ active \in Readings
                /\ m.guard = Enforced(g, active + EstimateOf[k], freed)
        BY <3>1 DEF GuardedMiss
      <4>2. active + EstimateOf[k] \in Int
        BY <4>1, RuntimeAssumption
      <4> QED
        BY <4>1, <4>2, EnforcedType
    <3>2. CASE ~HasGuard
      BY <3>2 DEF GuardedMiss
    <3> QED
      BY <3>1, <3>2
  <2> QED
    BY <1>1, <2>2, <2>3 DEF ShouldDisableSparse
<1> QED
  BY <1>2, <1>3, CacheStageShape

LEMMA CacheSparseBoolean ==
    ASSUME NEW k, NEW s, NEW g, NEW p, NEW override,
           NEW c \in CacheStage(k, s, g, Decision(p, g, override))
    PROVE  c.sparse \in BOOLEAN
<1>1. Decision(p, g, override).sparse \in BOOLEAN
  BY DEF Decision
<1>2. CASE c.sparse = Decision(p, g, override).sparse
  BY <1>1, <1>2
<1>3. CASE \E m : c = AfterMiss(k, m, Decision(p, g, override))
  <2>1. PICK m : c = AfterMiss(k, m, Decision(p, g, override))
    BY <1>3
  <2>2. c.sparse = (Decision(p, g, override).sparse
                    /\ ~(HasGuard /\ ShouldDisableSparse(m.guard)))
    BY <2>1 DEF AfterMiss
  <2> QED
    BY <2>2
<1> QED
  BY <1>2, <1>3, CacheStageShape

(* The attempt succeeds in sparse mode only through an open gate, and with  *)
(* the guard found calm by the attempt itself.                              *)
LEMMA AttentionStageGates ==
    ASSUME NEW g \in Guards, NEW sparse \in BOOLEAN, NEW ratio,
           NEW a \in AttentionStage(g, sparse, ratio)
    PROVE  /\ a.guard \in Guards
           /\ a.ok \in BOOLEAN
           /\ a.mode \in Modes
           /\ a.mode = "sparse_compacted" => sparse
           /\ HasGuard /\ a.mode = "sparse_compacted" =>
                ~a.guard.pressure /\ a.guard.noSparse = g.noSparse
<1>1. CASE a.mode = "unknown" /\ a.ok = FALSE /\ \E r : a.guard = g \/ a.guard = Checked(g, r)
  BY <1>1 DEF Guards, Checked, WithPressure, Modes, UnderPressure
<1>2. CASE \E r : /\ ~UnderPressure(r)
                  /\ a \in [guard : {Checked(g, r)}, mode : SparseAttention(sparse, ratio),
                            ok : BOOLEAN]
  <2>1. PICK r :
          /\ ~UnderPressure(r)
          /\ a \in [guard : {Checked(g, r)}, mode : SparseAttention(sparse, ratio), ok : BOOLEAN]
    BY <1>2
  <2>2. a.guard = [g EXCEPT !.pressure = FALSE]
    BY <2>1 DEF Checked, WithPressure
  <2>3. a.ok \in BOOLEAN /\ a.mode \in SparseAttention(sparse, ratio)
    BY <2>1
  <2>4. a.guard \in Guards /\ ~a.guard.pressure /\ a.guard.noSparse = g.noSparse
    BY <2>2 DEF Guards
  <2> QED
    BY <2>3, <2>4 DEF Modes, SparseAttention
<1>3. CASE /\ ~HasGuard
           /\ a \in [guard : {g}, mode : SparseAttention(sparse, ratio), ok : BOOLEAN]
  BY <1>3 DEF Modes, SparseAttention
<1>4. \/ a.mode = "unknown" /\ a.ok = FALSE /\ \E r : a.guard = g \/ a.guard = Checked(g, r)
      \/ \E r : /\ ~UnderPressure(r)
                /\ a \in [guard : {Checked(g, r)}, mode : SparseAttention(sparse, ratio),
                          ok : BOOLEAN]
      \/ /\ ~HasGuard
         /\ a \in [guard : {g}, mode : SparseAttention(sparse, ratio), ok : BOOLEAN]
  BY DEF AttentionStage
<1> QED
  BY <1>1, <1>2, <1>3, <1>4
(* What one step of the runtime does: the results of its stages. *)
LEMMA StepOutcome ==
    ASSUME TypeOK, NEW k \in Keys, NEW override \in Overrides, ExecuteDecodeStep(k, override)
    PROVE  /\ guard' \in Guards
           /\ \/ lastMode' = "none" /\ UNCHANGED profiles
              \/ \E a :
                    /\ Finished(ProfileOf[k], a)
                    /\ guard' = a.guard
                    /\ a.ok \in BOOLEAN
                    /\ a.mode \in Modes
                    /\ a.mode = "sparse_compacted" =>
                          /\ ~(HasController /\ profiles[ProfileOf[k]].noSparse)
                          /\ HasGuard => ~a.guard.pressure /\ ~a.guard.noSparse
<1> DEFINE p == ProfileOf[k]
           d == Decision(profiles[p], guard, override)
<1>1. PICK c \in CacheStage(k, kv, guard, d) :
        \/ StoreRaised(c)
        \/ /\ ~c.raised
           /\ \E a \in AttentionStage(c.guard, c.sparse, d.ratio) :
                 /\ guard' = a.guard
                 /\ Finished(p, a) \/ AllPathsFailed(a)
  BY DEF ExecuteDecodeStep
<1>2. /\ c.guard \in Guards
      /\ c.sparse => ~(HasController /\ profiles[p].noSparse)
      /\ HasGuard /\ c.sparse => ~c.guard.noSparse
  BY CacheStageGates DEF TypeOK
<1>3. CASE StoreRaised(c)
  BY <1>2, <1>3 DEF StoreRaised
<1>4. ASSUME NEW a \in AttentionStage(c.guard, c.sparse, d.ratio),
             guard' = a.guard, Finished(p, a) \/ AllPathsFailed(a)
      PROVE  /\ guard' \in Guards
             /\ \/ lastMode' = "none" /\ UNCHANGED profiles
                \/ /\ Finished(p, a)
                   /\ guard' = a.guard
                   /\ a.ok \in BOOLEAN
                   /\ a.mode \in Modes
                   /\ a.mode = "sparse_compacted" =>
                         /\ ~(HasController /\ profiles[p].noSparse)
                         /\ HasGuard => ~a.guard.pressure /\ ~a.guard.noSparse
  <2>1. c.sparse \in BOOLEAN
    BY CacheSparseBoolean
  <2>2. /\ a.guard \in Guards
        /\ a.ok \in BOOLEAN
        /\ a.mode \in Modes
        /\ a.mode = "sparse_compacted" => c.sparse
        /\ HasGuard /\ a.mode = "sparse_compacted" =>
             ~a.guard.pressure /\ a.guard.noSparse = c.guard.noSparse
    BY <1>2, <2>1, AttentionStageGates
  <2> QED
    BY <1>2, <1>4, <2>2 DEF AllPathsFailed
<1> QED
  BY <1>1, <1>3, <1>4

(* The three uses of the outcome of a step. *)
LEMMA StepTypes ==
    ASSUME TypeOK, NEW k \in Keys, NEW override \in Overrides, ExecuteDecodeStep(k, override)
    PROVE  TypeOK'
<1>1. ProfileOf[k] \in Profiles
  BY DEF Profiles
<1>2. guard' \in Guards
  BY StepOutcome
<1>3. CASE lastMode' = "none" /\ UNCHANGED profiles
  BY <1>2, <1>3 DEF TypeOK
<1>4. CASE \E a : Finished(ProfileOf[k], a) /\ a.ok \in BOOLEAN /\ a.mode \in Modes
  <2>1. PICK a : Finished(ProfileOf[k], a) /\ a.ok \in BOOLEAN /\ a.mode \in Modes
    BY <1>4
  <2>2. PICK q \in ProfileStage(profiles[ProfileOf[k]], a) :
          profiles' = [profiles EXCEPT ![ProfileOf[k]] = q]
    BY <2>1 DEF Finished
  <2>3. q \in ProfileType
    BY <1>1, <2>1, <2>2, ProfileStageType DEF TypeOK
  <2>4. profiles' \in [Profiles -> ProfileType]
    BY <1>1, <2>2, <2>3 DEF TypeOK
  <2>5. lastMode' \in Modes
    BY <2>1 DEF Finished
  <2> QED
    BY <1>2, <2>4, <2>5 DEF TypeOK
<1> QED
  BY <1>3, <1>4, StepOutcome

LEMMA StepGates ==
    ASSUME TypeOK, NEW k \in Keys, NEW override \in Overrides, ExecuteDecodeStep(k, override)
    PROVE  SparseNeedsCalm'
  BY StepOutcome DEF Finished, SparseNeedsCalm

LEMMA StepKeepsSparseOff ==
    ASSUME TypeOK, NEW k \in Keys, NEW override \in Overrides, ExecuteDecodeStep(k, override),
           NEW p \in Profiles, profiles[p].noSparse
    PROVE  profiles'[p].noSparse
<1>1. CASE UNCHANGED profiles
  BY <1>1
<1>2. ASSUME NEW a, Finished(ProfileOf[k], a), a.ok \in BOOLEAN, a.mode \in Modes,
             a.mode = "sparse_compacted" =>
                ~(HasController /\ profiles[ProfileOf[k]].noSparse)
      PROVE  profiles'[p].noSparse
  <2>1. PICK q \in ProfileStage(profiles[ProfileOf[k]], a) :
          profiles' = [profiles EXCEPT ![ProfileOf[k]] = q]
    BY <1>2 DEF Finished
  <2>2. CASE p # ProfileOf[k]
    BY <2>1, <2>2 DEF TypeOK
  <2>3. CASE p = ProfileOf[k]
    <3>1. profiles'[p] = q
      BY <2>1, <2>3 DEF TypeOK
    <3>2. CASE ~(HasController /\ Audit)
      BY <2>1, <2>3, <3>1, <3>2 DEF ProfileStage
    <3>3. CASE HasController /\ Audit
      <4>1. ~SparseSuccess(a)
        BY <1>2, <2>3, <3>3 DEF SparseSuccess
      <4>2. PICK sv, qv :
              q = Updated(profiles[p], SparseSuccess(a), FallbackUsed(a), sv, qv)
        BY <2>1, <2>3, <3>3 DEF ProfileStage
      <4>3. q = AfterFallback(profiles[p])
        BY <4>1, <4>2 DEF Updated
      <4>4. profiles[p] \in ProfileType
        BY DEF TypeOK
      <4> QED
        BY <3>1, <4>3, <4>4 DEF AfterFallback, ProfileType
    <3> QED
      BY <3>2, <3>3
  <2> QED
    BY <2>2, <2>3
<1> QED
  BY <1>1, <1>2, StepOutcome

(* The types, and with them the bounds of every ratio, hold under every     *)
(* step.                                                                    *)
THEOREM RuntimeTypes == Spec => []TypeOK
<1>1. Init => TypeOK
  BY SparsityAssumption
  DEF Init, TypeOK, Calm, Guards, NewProfile, ProfileType, Modes
<1>2. ASSUME TypeOK, [Next]_vars PROVE TypeOK'
  <2>1. ASSUME NEW k \in Keys, NEW override \in Overrides, ExecuteDecodeStep(k, override)
        PROVE  TypeOK'
    BY <1>2, <2>1, StepTypes
  <2>2. ASSUME CacheCall PROVE TypeOK'
    BY <1>2, <2>2 DEF CacheCall, TypeOK
  <2>3. ASSUME NEW g \in {Calm, Emergency}, SetEmergency(g) PROVE TypeOK'
    <3>1. Calm \in Guards /\ Emergency \in Guards
      BY DEF Calm, Emergency, Guards
    <3>2. g \in Guards
      BY <3>1
    <3> QED
      BY <1>2, <2>3, <3>2 DEF SetEmergency, TypeOK
  <2>4. CASE ResetController
    <3>1. NewProfile \in ProfileType
      BY SparsityAssumption DEF NewProfile, ProfileType
    <3> QED
      BY <1>2, <2>4, <3>1 DEF ResetController, TypeOK
  <2>5. CASE UNCHANGED vars
    BY <1>2, <2>5 DEF TypeOK, vars, runtime
  <2> QED
    BY <1>2, <2>1, <2>2, <2>3, <2>4, <2>5 DEF Next
<1> QED
  BY <1>1, <1>2, PTL DEF Spec

(* "Disable sparse/quantized mode under pressure" holds in the middle of a   *)
(* step too: no interleaving of readings and flags lets a step take the     *)
(* sparse path and leave a guard that forbids it.                           *)
THEOREM SparseGate == Spec => []SparseNeedsCalm
<1>1. Init => SparseNeedsCalm
  BY DEF Init, SparseNeedsCalm
<1>2. ASSUME TypeOK, SparseNeedsCalm, [Next]_vars PROVE SparseNeedsCalm'
  <2>1. ASSUME NEW k \in Keys, NEW override \in Overrides, ExecuteDecodeStep(k, override)
        PROVE  SparseNeedsCalm'
    BY <1>2, <2>1, StepGates
  <2>2. CASE lastMode' = "none"
    BY <2>2 DEF SparseNeedsCalm
  <2>3. CASE UNCHANGED vars
    BY <1>2, <2>3 DEF SparseNeedsCalm, vars, runtime
  <2> QED
    BY <1>2, <2>1, <2>2, <2>3 DEF Next, CacheCall, SetEmergency, ResetController
<1> QED
  BY <1>1, <1>2, RuntimeTypes, PTL DEF Spec

(* A profile that lost its sparse path gets it back by a reset and by       *)
(* nothing else, whatever the thresholds, steps and verdicts.               *)
THEOREM SparseStaysOff == Spec => SparseOffIsForever
<1> DEFINE StaysOff ==
      \A p \in Profiles : profiles[p].noSparse /\ ~profiles'[p].noSparse =>
        profiles' = [q \in Profiles |-> NewProfile]
<1>1. ASSUME TypeOK, [Next]_vars PROVE StaysOff
  <2>1. ASSUME NEW k \in Keys, NEW override \in Overrides, ExecuteDecodeStep(k, override)
        PROVE  StaysOff
    BY <1>1, <2>1, StepKeepsSparseOff
  <2>2. CASE UNCHANGED profiles
    BY <2>2
  <2>3. CASE ResetController
    BY <2>3 DEF ResetController
  <2> QED
    BY <1>1, <2>1, <2>2, <2>3 DEF Next, CacheCall, SetEmergency, vars, runtime
<1> QED
  BY <1>1, RuntimeTypes, PTL DEF Spec, SparseOffIsForever
-----------------------------------------------------------------------------
(* The cache: its totals are sums over its entries.                          *)
Bytes(s) == [k \in Cached(s) |-> s.entry[k].bytes]

PinnedKeys(s) == {k \in Cached(s) : s.entry[k].pinned}

IsCache(s) ==
    /\ DOMAIN s = {"entry", "older", "total", "pinned"}
    /\ s.total \in Int /\ s.pinned \in Int
    /\ IsFiniteSet(Cached(s))
    /\ s.entry \in [Cached(s) -> [bytes : Sizes, pinned : BOOLEAN]]

IsOrder(older, ks) ==
    /\ older \subseteq ks \X ks
    /\ \A j, k \in ks : j # k => (<<j, k>> \in older <=> <<k, j>> \notin older)

Exact(s) ==
    /\ IsCache(s)
    /\ IsOrder(s.older, Cached(s))
    /\ s.total = Total(Bytes(s), Cached(s))
    /\ s.pinned = Total(Bytes(s), PinnedKeys(s))

Fits(s) == s.total <= MaxBytes /\ s.pinned <= MaxPinnedBytes

LEMMA SumBytesIsTotal ==
    ASSUME NEW s, NEW ks \in SUBSET Cached(s)
    PROVE  SumBytes(s, ks) = Total(Bytes(s), ks)
<1> DEFINE A(g) == g = [U \in SUBSET ks |-> IF U = {} THEN 0
                                          ELSE s.entry[Some(U)].bytes + g[U \ {Some(U)}]]
<1>1. SumBytes(s, ks) = (CHOOSE g : A(g))[ks]
  BY DEF SumBytes, MapThenSumSet, MapThenFoldSet, Some
<1>2. ASSUME NEW U \in SUBSET ks, U # {}
      PROVE  s.entry[Some(U)].bytes = Bytes(s)[Some(U)]
  BY <1>2 DEF Some, Bytes, Cached
<1>3. \A g : A(g) <=> Adds(g, Bytes(s), ks)
  BY <1>2 DEF Adds
<1>4. (CHOOSE g : A(g)) = CHOOSE g : Adds(g, Bytes(s), ks)
  <2> HIDE DEF A
  <2> QED
    BY <1>3
<1> QED
  BY <1>1, <1>4, TotalAsChoice

LEMMA BytesAreNat ==
    ASSUME NEW s, IsCache(s), NEW ks \in SUBSET Cached(s)
    PROVE  /\ \A k \in ks : Bytes(s)[k] \in Nat /\ Bytes(s)[k] \in Int
           /\ IsFiniteSet(ks)
           /\ Total(Bytes(s), ks) \in Nat
<1>1. \A k \in Cached(s) : Bytes(s)[k] \in Nat /\ Bytes(s)[k] \in Int
  <2>1. \A k \in Cached(s) : s.entry[k] \in [bytes : Sizes, pinned : BOOLEAN]
    BY DEF IsCache
  <2>2. \A k \in Cached(s) : Bytes(s)[k] = s.entry[k].bytes
    BY DEF Bytes
  <2>3. \A k \in Cached(s) : s.entry[k].bytes \in Sizes
    BY <2>1
  <2>4. \A x \in Sizes : x \in Nat /\ x \in Int
    BY KVAssumption
  <2> QED
    BY <2>2, <2>3, <2>4
<1>2. IsFiniteSet(ks)
  BY FS_Subset DEF IsCache
<1> QED
  BY <1>1, <1>2, TotalIsNat

(* What is taken out leaves the total, and nothing but that leaves it.       *)
LEMMA WithoutExact ==
    ASSUME NEW s, Exact(s), NEW ks \in SUBSET Cached(s)
    PROVE  LET r == Without(s, ks) IN
           /\ IsCache(r)
           /\ IsOrder(r.older, Cached(r))
           /\ Cached(r) = Cached(s) \ ks
           /\ \A k \in Cached(r) : r.entry[k] = s.entry[k]
           /\ r.total = Total(Bytes(r), Cached(r))
           /\ r.total = s.total - Total(Bytes(s), ks)
           /\ r.pinned = s.pinned
           /\ Total(Bytes(r), PinnedKeys(r)) = Total(Bytes(s), PinnedKeys(s) \ ks)
<1> DEFINE r == Without(s, ks)
           left == Cached(s) \ ks
<1>0. IsCache(s)
  BY DEF Exact
<1>1. SumBytes(s, ks) = Total(Bytes(s), ks) /\ Total(Bytes(s), ks) \in Nat
  BY <1>0, SumBytesIsTotal, BytesAreNat
<1>2. /\ r.entry = [k \in left |-> s.entry[k]]
      /\ r.older = s.older \cap (left \X left)
      /\ r.total = s.total - Total(Bytes(s), ks)
      /\ r.pinned = s.pinned
  BY <1>0, <1>1 DEF Without, IsCache
<1>2a. DOMAIN r = {"entry", "older", "total", "pinned"} /\ r.total \in Int /\ r.pinned \in Int
  BY <1>0, <1>1, <1>2 DEF Without, IsCache
<1>3. Cached(r) = left /\ \A k \in left : r.entry[k] = s.entry[k] /\ Bytes(r)[k] = Bytes(s)[k]
  BY <1>2 DEF Cached, Bytes
<1>4. IsCache(r)
  <2>1. IsFiniteSet(left)
    BY <1>0, FS_Subset DEF IsCache
  <2>2. \A k \in left : s.entry[k] \in [bytes : Sizes, pinned : BOOLEAN]
    BY <1>0 DEF IsCache
  <2>3. r.entry \in [left -> [bytes : Sizes, pinned : BOOLEAN]]
    BY <1>2, <2>2
  <2> HIDE DEF r
  <2> QED
    BY <1>2a, <1>3, <2>1, <2>3 DEF IsCache
<1>5. IsOrder(r.older, Cached(r))
  BY <1>2, <1>3 DEF Exact, IsOrder
<1>6. r.total = Total(Bytes(r), Cached(r))
  <2>1. Total(Bytes(r), left) = Total(Bytes(s), left)
    BY <1>0, <1>3, BytesAreNat, TotalSame
  <2>2. Total(Bytes(s), Cached(s)) = Total(Bytes(s), left) + Total(Bytes(s), ks)
    <3>1. Cached(s) = left \cup ks /\ left \cap ks = {}
      OBVIOUS
    <3>2. /\ IsFiniteSet(left) /\ IsFiniteSet(ks)
          /\ \A k \in left \cup ks : Bytes(s)[k] \in Int
      BY <1>0, BytesAreNat
    <3> HIDE DEF left
    <3> QED
      BY <3>1, <3>2, TotalApart
  <2>3. Total(Bytes(s), left) \in Nat
    BY <1>0, BytesAreNat
  <2> QED
    BY <1>1, <1>2, <1>3, <2>1, <2>2, <2>3 DEF Exact
<1>7. Total(Bytes(r), PinnedKeys(r)) = Total(Bytes(s), PinnedKeys(s) \ ks)
  <2>1. PinnedKeys(r) = PinnedKeys(s) \ ks /\ PinnedKeys(r) \subseteq left
    BY <1>3 DEF PinnedKeys
  <2>2. IsFiniteSet(PinnedKeys(r)) /\ \A k \in PinnedKeys(r) : Bytes(r)[k] = Bytes(s)[k]
    BY <1>0, <1>3, <2>1, BytesAreNat
  <2> QED
    BY <2>1, <2>2, TotalSame
<1> QED
  BY <1>2, <1>3, <1>4, <1>5, <1>6, <1>7

(* The victims are candidates, and free the amount or leave no candidate.    *)
LEMMA VictimsFree ==
    ASSUME NEW s, Exact(s), NEW amount \in Int
    PROVE  /\ Victims(s, amount) \subseteq Unpinned(s)
           /\ \/ Victims(s, amount) = Unpinned(s)
              \/ Total(Bytes(s), Victims(s, amount)) >= amount
<1> DEFINE enough == {V \in OldestFirst(s) : SumBytes(s, V) >= amount}
           V == CHOOSE V \in enough : \A W \in enough : W \subseteq V => W = V
<1>1. CASE enough = {}
  BY <1>1 DEF Victims
<1>2. CASE enough # {}
  <2>1. enough \subseteq SUBSET Unpinned(s)
    BY DEF OldestFirst
  <2>2. IsFiniteSet(Unpinned(s)) /\ Unpinned(s) \subseteq Cached(s)
    BY BytesAreNat DEF Unpinned, Exact
  <2>3. \E U \in enough : \A W \in SUBSET U : W # U => W \notin enough
    <3> HIDE DEF enough
    <3> QED
      BY <1>2, <2>1, <2>2, SmallestSet
  <2>4. V \in enough
    <3> HIDE DEF enough
    <3> QED
      BY <2>3
  <2>5. Victims(s, amount) = V
    BY <1>2 DEF Victims
  <2>6. SumBytes(s, V) >= amount /\ V \subseteq Unpinned(s)
    BY <2>1, <2>4
  <2> QED
    BY <2>2, <2>5, <2>6, SumBytesIsTotal
<1> QED
  BY <1>1, <1>2

(* Eviction keeps the totals exact and the pinned entries.                   *)
LEMMA EvictionExact ==
    ASSUME NEW s, Exact(s), NEW amount \in Int
    PROVE  LET r == Without(s, Victims(s, amount)) IN
           /\ Exact(r)
           /\ Cached(r) \subseteq Cached(s)
           /\ \A k \in Cached(r) : r.entry[k] = s.entry[k]
           /\ PinnedKeys(s) \subseteq Cached(r)
           /\ r.total <= s.total /\ r.pinned = s.pinned
           /\ r.total = r.pinned \/ r.total <= s.total - amount
<1> DEFINE V == Victims(s, amount)
           r == Without(s, V)
<1>0. IsCache(s) /\ s.total \in Int
  BY DEF Exact, IsCache
<1>1. V \subseteq Unpinned(s) /\ (V = Unpinned(s) \/ Total(Bytes(s), V) >= amount)
  BY VictimsFree
<1>2. V \subseteq Cached(s) /\ PinnedKeys(s) \ V = PinnedKeys(s)
  BY <1>1 DEF Unpinned, PinnedKeys
<1>3. Total(Bytes(s), V) \in Nat
  BY <1>0, <1>2, BytesAreNat
<1> HIDE DEF V
<1>4. /\ IsCache(r)
      /\ IsOrder(r.older, Cached(r))
      /\ Cached(r) = Cached(s) \ V
      /\ \A k \in Cached(r) : r.entry[k] = s.entry[k]
      /\ r.total = Total(Bytes(r), Cached(r))
      /\ r.total = s.total - Total(Bytes(s), V)
      /\ r.pinned = s.pinned
      /\ Total(Bytes(r), PinnedKeys(r)) = Total(Bytes(s), PinnedKeys(s))
  BY <1>2, WithoutExact
<1> HIDE DEF r
<1>5. Exact(r)
  BY <1>4 DEF Exact
<1>6. PinnedKeys(s) \subseteq Cached(r)
  BY <1>1, <1>4 DEF PinnedKeys, Unpinned
<1>7. CASE V = Unpinned(s)
  <2>1. Cached(r) = PinnedKeys(s) /\ PinnedKeys(r) = Cached(r)
    BY <1>4, <1>7 DEF PinnedKeys, Unpinned
  <2>2. r.total = r.pinned
    BY <1>5, <2>1 DEF Exact
  <2> QED
    BY <1>0, <1>3, <1>4, <1>5, <1>6, <2>2 DEF r, V
<1>8. CASE Total(Bytes(s), V) >= amount
  <2>1. r.total <= s.total - amount
    BY <1>0, <1>3, <1>4, <1>8
  <2> QED
    BY <1>0, <1>3, <1>4, <1>5, <1>6, <2>1 DEF r, V
<1> QED
  BY <1>1, <1>7, <1>8

LEMMA EvictedExact ==
    ASSUME NEW s, Exact(s), Fits(s), NEW target \in Int
    PROVE  /\ Exact(Evicted(s, target)) /\ Fits(Evicted(s, target))
           /\ Cached(Evicted(s, target)) \subseteq Cached(s)
           /\ \A k \in PinnedKeys(s) : k \in PinnedKeys(Evicted(s, target))
<1> DEFINE amount == IF target = 0 THEN 1 ELSE target
           r == Without(s, Victims(s, amount))
<1>1. amount \in Int
  OBVIOUS
<1> HIDE DEF amount
<1>2. /\ Exact(r)
      /\ Cached(r) \subseteq Cached(s)
      /\ \A k \in Cached(r) : r.entry[k] = s.entry[k]
      /\ PinnedKeys(s) \subseteq Cached(r)
      /\ r.total <= s.total /\ r.pinned = s.pinned
  BY <1>1, EvictionExact
<1>3. Evicted(s, target) = r
  BY DEF Evicted, amount
<1> HIDE DEF r
<1>4. Fits(r)
  BY <1>2, KVAssumption DEF Fits, Exact, IsCache
<1>5. \A k \in PinnedKeys(s) : k \in PinnedKeys(r)
  BY <1>2 DEF PinnedKeys
<1> QED
  BY <1>2, <1>3, <1>4, <1>5

(* The budget holds after its enforcement, if the pinned entries fit it.     *)
LEMMA EnforcedFits ==
    ASSUME NEW s, Exact(s), s.pinned <= MaxPinnedBytes, s.pinned <= MaxBytes
    PROVE  /\ Exact(BudgetEnforced(s)) /\ Fits(BudgetEnforced(s))
           /\ Cached(BudgetEnforced(s)) \subseteq Cached(s)
           /\ \A k \in PinnedKeys(s) : k \in PinnedKeys(BudgetEnforced(s))
<1> DEFINE amount == s.total - MaxBytes
           r == Without(s, Victims(s, amount))
<1>1. amount \in Int /\ s.total \in Int /\ s.pinned \in Int /\ MaxBytes \in Int /\ MaxPinnedBytes \in Int
  BY KVAssumption DEF Exact, IsCache
<1>2. BudgetEnforced(s) = r
  BY DEF BudgetEnforced
<1>3. \A a : a = s.total - MaxBytes /\ r.total <= s.total - a /\ r.total \in Int => r.total <= MaxBytes
  BY <1>1
<1> HIDE DEF amount
<1>4. /\ Exact(r)
      /\ Cached(r) \subseteq Cached(s)
      /\ \A k \in Cached(r) : r.entry[k] = s.entry[k]
      /\ PinnedKeys(s) \subseteq Cached(r)
      /\ r.total <= s.total /\ r.pinned = s.pinned
      /\ r.total = r.pinned \/ r.total <= s.total - amount
  BY <1>1, EvictionExact
<1>5. r.total \in Int
  BY <1>4 DEF Exact, IsCache
<1>6. r.total <= MaxBytes
  BY <1>3, <1>4, <1>5 DEF amount
<1> HIDE DEF r
<1>7. \A k \in PinnedKeys(s) : k \in PinnedKeys(r)
  BY <1>4 DEF PinnedKeys
<1> QED
  BY <1>2, <1>4, <1>6, <1>7 DEF Fits

(* What a store replaces leaves both totals.                                 *)
LEMMA ReplacedExact ==
    ASSUME NEW s, Exact(s), NEW k
    PROVE  LET r == Replaced(s, k) IN
           /\ Exact(r)
           /\ Cached(r) = Cached(s) \ {k}
           /\ \A j \in Cached(r) : r.entry[j] = s.entry[j]
           /\ r.pinned <= s.pinned
<1>0. s.pinned \in Int /\ s.total \in Int /\ IsCache(s)
  BY DEF Exact, IsCache
<1>1. CASE k \notin Cached(s)
  BY <1>0, <1>1 DEF Replaced
<1>2. CASE k \in Cached(s)
  <2> DEFINE q == Without(s, {k})
             r == [q EXCEPT !.pinned = IF s.entry[k].pinned THEN @ - s.entry[k].bytes ELSE @]
  <2>1. Replaced(s, k) = r
    BY <1>2 DEF Replaced
  <2>2. /\ IsCache(q)
        /\ IsOrder(q.older, Cached(q))
        /\ Cached(q) = Cached(s) \ {k}
        /\ \A j \in Cached(q) : q.entry[j] = s.entry[j]
        /\ q.total = Total(Bytes(q), Cached(q))
        /\ q.pinned = s.pinned
        /\ Total(Bytes(q), PinnedKeys(q)) = Total(Bytes(s), PinnedKeys(s) \ {k})
    <3>1. {k} \in SUBSET Cached(s)
      BY <1>2
    <3> QED
      BY <3>1, WithoutExact
  <2>3. Bytes(s)[k] = s.entry[k].bytes /\ Bytes(s)[k] \in Nat
    BY <1>0, <1>2, BytesAreNat DEF Bytes
  <2> HIDE DEF q
  <2>4. /\ r.entry = q.entry /\ r.older = q.older /\ r.total = q.total
        /\ r.pinned = IF s.entry[k].pinned THEN s.pinned - Bytes(s)[k] ELSE s.pinned
        /\ DOMAIN r = DOMAIN q
    BY <2>2, <2>3 DEF IsCache
  <2> HIDE DEF r
  <2>5. Cached(r) = Cached(q) /\ Bytes(r) = Bytes(q) /\ PinnedKeys(r) = PinnedKeys(q)
    BY <2>4 DEF Cached, Bytes, PinnedKeys
  <2>6. r.pinned \in Int /\ r.pinned <= s.pinned
    BY <1>0, <2>3, <2>4
  <2>7. IsCache(r)
    BY <2>2, <2>4, <2>5, <2>6 DEF IsCache
  <2>8. r.pinned = Total(Bytes(s), PinnedKeys(s) \ {k})
    <3>1. CASE s.entry[k].pinned
      <4>1. k \in PinnedKeys(s) /\ PinnedKeys(s) \in SUBSET Cached(s)
        BY <1>2, <3>1 DEF PinnedKeys
      <4>2. /\ IsFiniteSet(PinnedKeys(s))
            /\ \A j \in PinnedKeys(s) : Bytes(s)[j] \in Int
        BY <1>0, <4>1, BytesAreNat
      <4>3. Total(Bytes(s), PinnedKeys(s)) = Bytes(s)[k] + Total(Bytes(s), PinnedKeys(s) \ {k})
        BY <4>1, <4>2, TotalWithout
      <4>4. Total(Bytes(s), PinnedKeys(s) \ {k}) \in Nat
        BY <1>0, <4>1, BytesAreNat
      <4>5. s.pinned = Total(Bytes(s), PinnedKeys(s))
        BY DEF Exact
      <4> QED
        BY <2>3, <2>4, <3>1, <4>3, <4>4, <4>5
    <3>2. CASE ~s.entry[k].pinned
      <4>1. PinnedKeys(s) \ {k} = PinnedKeys(s)
        BY <3>2 DEF PinnedKeys
      <4> QED
        BY <2>4, <3>2, <4>1 DEF Exact
    <3> QED
      BY <3>1, <3>2
  <2>9. Exact(r)
    BY <2>2, <2>4, <2>5, <2>7, <2>8 DEF Exact
  <2> QED
    BY <2>1, <2>2, <2>4, <2>5, <2>6, <2>9
<1> QED
  BY <1>1, <1>2

LEMMA YoungestIsOrder ==
    ASSUME NEW older, NEW ks, IsOrder(older, ks), NEW k
    PROVE  IsOrder(Youngest(older, ks, k), ks \cup {k})
<1> DEFINE new == Youngest(older, ks, k)
<1>1. new \subseteq (ks \cup {k}) \X (ks \cup {k})
  BY DEF IsOrder, Youngest
<1>2. \A i, j : <<i, j>> \in new <=> i # k /\ (<<i, j>> \in older \/ (i \in ks /\ j = k))
  <2>1. \A i, j : <<i, j>> \in {p \in older : p[1] # k} <=> <<i, j>> \in older /\ i # k
    OBVIOUS
  <2>2. \A i, j : <<i, j>> \in (ks \ {k}) \X {k} <=> i \in ks /\ i # k /\ j = k
    OBVIOUS
  <2> QED
    BY <2>1, <2>2 DEF Youngest
<1> HIDE DEF new
<1>3. ASSUME NEW i \in ks \cup {k}, NEW j \in ks \cup {k}, i # j
      PROVE  <<i, j>> \in new <=> <<j, i>> \notin new
  <2>1. CASE i # k /\ j # k
    <3>1. <<i, j>> \in new <=> <<i, j>> \in older
      BY <1>2, <2>1
    <3>2. <<j, i>> \in new <=> <<j, i>> \in older
      BY <1>2, <2>1
    <3>3. <<i, j>> \in older <=> <<j, i>> \notin older
      BY <1>3, <2>1 DEF IsOrder
    <3> QED
      BY <3>1, <3>2, <3>3
  <2>2. CASE i = k \/ j = k
    BY <1>2, <1>3, <2>2
  <2> QED
    BY <2>1, <2>2
<1> QED
  BY <1>1, <1>3 DEF IsOrder, new

(* store() keeps the totals exact and both budgets.                          *)
LEMMA StoredExact ==
    ASSUME NEW s, Exact(s), Fits(s), NEW k, NEW bytes \in Sizes
    PROVE  /\ Exact(Stored(s, k, bytes)) /\ Fits(Stored(s, k, bytes))
           /\ \A j \in PinnedKeys(s) \ {k} : j \in PinnedKeys(Stored(s, k, bytes))
<1> DEFINE r == Replaced(s, k)
           new == [bytes |-> bytes, pinned |-> FALSE]
           n == [r EXCEPT !.entry = [j \in Cached(r) \cup {k} |-> IF j = k THEN new ELSE r.entry[j]],
                          !.older = Youngest(@, Cached(r), k),
                          !.total = @ + bytes]
<1>1. Stored(s, k, bytes) = BudgetEnforced(n)
  BY DEF Stored
<1>2. /\ Exact(r)
      /\ Cached(r) = Cached(s) \ {k}
      /\ \A j \in Cached(r) : r.entry[j] = s.entry[j]
      /\ r.pinned <= s.pinned
  BY ReplacedExact
<1> HIDE DEF r
<1>3. /\ IsCache(r) /\ IsOrder(r.older, Cached(r))
      /\ r.total = Total(Bytes(r), Cached(r))
      /\ r.pinned = Total(Bytes(r), PinnedKeys(r))
  BY <1>2 DEF Exact
<1>4. bytes \in Nat /\ bytes \in Int
  BY KVAssumption
<1>5. /\ n.entry = [j \in Cached(r) \cup {k} |-> IF j = k THEN new ELSE r.entry[j]]
      /\ n.older = Youngest(r.older, Cached(r), k)
      /\ n.total = r.total + bytes
      /\ n.pinned = r.pinned
      /\ DOMAIN n = DOMAIN r
  BY <1>3 DEF IsCache
<1> HIDE DEF n
<1>6. Cached(n) = Cached(r) \cup {k} /\ k \notin Cached(r)
  BY <1>2, <1>5 DEF Cached
<1>7. /\ \A j \in Cached(r) : n.entry[j] = r.entry[j] /\ Bytes(n)[j] = Bytes(r)[j]
      /\ n.entry[k] = new /\ Bytes(n)[k] = bytes
  BY <1>5, <1>6 DEF Bytes
<1>8. PinnedKeys(n) = PinnedKeys(r)
  BY <1>6, <1>7 DEF PinnedKeys
<1>9. IsCache(n)
  <2>1. IsFiniteSet(Cached(r) \cup {k})
    BY <1>3, FS_AddElement DEF IsCache
  <2>2. n.total \in Int /\ n.pinned \in Int
    BY <1>3, <1>4, <1>5 DEF IsCache
  <2>3. \A j \in Cached(r) : r.entry[j] \in [bytes : Sizes, pinned : BOOLEAN]
    BY <1>3 DEF IsCache
  <2>4. new \in [bytes : Sizes, pinned : BOOLEAN]
    OBVIOUS
  <2> HIDE DEF new
  <2>5. n.entry \in [Cached(n) -> [bytes : Sizes, pinned : BOOLEAN]]
    BY <1>5, <1>6, <2>3, <2>4
  <2>6. DOMAIN n = {"entry", "older", "total", "pinned"}
    BY <1>3, <1>5 DEF IsCache
  <2> QED
    BY <1>6, <2>1, <2>2, <2>5, <2>6 DEF IsCache
<1>10. IsOrder(n.older, Cached(n))
  BY <1>3, <1>5, <1>6, YoungestIsOrder
<1>11. n.total = Total(Bytes(n), Cached(n))
  <2>1. IsFiniteSet(Cached(r)) /\ \A j \in Cached(n) : Bytes(n)[j] \in Int
    BY <1>3, <1>9, BytesAreNat DEF IsCache
  <2>2. Total(Bytes(n), Cached(r) \cup {k}) = Bytes(n)[k] + Total(Bytes(n), Cached(r))
    BY <1>6, <2>1, TotalWith
  <2>3. Total(Bytes(n), Cached(r)) = Total(Bytes(r), Cached(r))
    BY <1>7, <2>1, TotalSame
  <2>4. r.total \in Int
    BY <1>3 DEF IsCache
  <2> QED
    BY <1>3, <1>4, <1>5, <1>6, <1>7, <2>2, <2>3, <2>4
<1>12. n.pinned = Total(Bytes(n), PinnedKeys(n))
  <2>1. PinnedKeys(r) \subseteq Cached(r)
    BY DEF PinnedKeys
  <2>2. IsFiniteSet(PinnedKeys(r)) /\ \A j \in PinnedKeys(r) : Bytes(n)[j] = Bytes(r)[j]
    BY <1>3, <1>7, <2>1, BytesAreNat
  <2> QED
    BY <1>3, <1>5, <1>8, <2>2, TotalSame
<1>13. Exact(n)
  BY <1>9, <1>10, <1>11, <1>12 DEF Exact
<1>14. n.pinned <= MaxPinnedBytes /\ n.pinned <= MaxBytes
  <2>1. s.pinned <= s.total
    <3>1. /\ IsFiniteSet(Cached(s)) /\ \A j \in Cached(s) : Bytes(s)[j] \in Nat
          /\ PinnedKeys(s) \in SUBSET Cached(s)
      BY BytesAreNat DEF Exact, PinnedKeys
    <3>2. Total(Bytes(s), PinnedKeys(s)) <= Total(Bytes(s), Cached(s))
      BY <3>1, TotalOfPart
    <3> QED
      BY <3>2 DEF Exact
  <2>2. s.pinned \in Int /\ s.total \in Int /\ r.pinned \in Int
    BY <1>3 DEF Exact, IsCache
  <2> QED
    BY <1>2, <1>5, <2>1, <2>2, KVAssumption DEF Fits
<1>15. PinnedKeys(s) \ {k} \subseteq PinnedKeys(n)
  BY <1>2, <1>8 DEF PinnedKeys
<1> QED
  BY <1>1, <1>13, <1>14, <1>15, EnforcedFits

LEMMA TouchedExact ==
    ASSUME NEW s, Exact(s), Fits(s), NEW k \in Cached(s)
    PROVE  /\ Exact(Touched(s, k)) /\ Fits(Touched(s, k))
           /\ Cached(Touched(s, k)) = Cached(s) /\ Touched(s, k).entry = s.entry
<1> DEFINE r == Touched(s, k)
<1>1. /\ r.entry = s.entry /\ r.total = s.total /\ r.pinned = s.pinned
      /\ r.older = Youngest(s.older, Cached(s), k)
      /\ DOMAIN r = DOMAIN s
  BY DEF Touched, Exact, IsCache
<1> HIDE DEF r
<1>2. Cached(r) = Cached(s) /\ Bytes(r) = Bytes(s) /\ PinnedKeys(r) = PinnedKeys(s)
  BY <1>1 DEF Cached, Bytes, PinnedKeys
<1>3. IsCache(r)
  BY <1>1, <1>2 DEF Exact, IsCache
<1>4. IsOrder(r.older, Cached(r))
  <2>1. Cached(s) \cup {k} = Cached(s)
    OBVIOUS
  <2> QED
    BY <1>1, <1>2, <2>1, YoungestIsOrder DEF Exact
<1>5. Exact(r) /\ Fits(r)
  BY <1>1, <1>2, <1>3, <1>4 DEF Exact, Fits
<1> QED
  BY <1>1, <1>2, <1>5 DEF r

LEMMA PinnedExact ==
    ASSUME NEW s, Exact(s), Fits(s), NEW k, Pinnable(s, k)
    PROVE  /\ Exact(Pinned(s, k)) /\ Fits(Pinned(s, k))
           /\ PinnedKeys(Pinned(s, k)) = PinnedKeys(s) \cup {k}
<1> DEFINE r == Pinned(s, k)
<1>0. IsCache(s) /\ k \in Cached(s) /\ ~s.entry[k].pinned
  BY DEF Exact, Pinnable
<1>1. s.entry[k] \in [bytes : Sizes, pinned : BOOLEAN] /\ s.entry[k].bytes = Bytes(s)[k]
  BY <1>0 DEF IsCache, Bytes
<1>2. /\ r.entry = [s.entry EXCEPT ![k].pinned = TRUE]
      /\ r.total = s.total /\ r.older = s.older
      /\ r.pinned = s.pinned + Bytes(s)[k]
      /\ DOMAIN r = DOMAIN s
  BY <1>0, <1>1 DEF Pinned, IsCache
<1> HIDE DEF r
<1>3. Cached(r) = Cached(s)
  BY <1>2 DEF Cached
<1>4. /\ \A j \in Cached(s) \ {k} : r.entry[j] = s.entry[j]
      /\ r.entry[k] = [s.entry[k] EXCEPT !.pinned = TRUE]
      /\ DOMAIN r.entry = Cached(s)
  BY <1>0, <1>2 DEF Cached
<1>5. r.entry[k] \in [bytes : Sizes, pinned : BOOLEAN] /\ r.entry[k].pinned
      /\ r.entry[k].bytes = s.entry[k].bytes
  BY <1>1, <1>4
<1>6. Bytes(r) = Bytes(s)
  BY <1>3, <1>4, <1>5 DEF Bytes
<1>7. PinnedKeys(r) = PinnedKeys(s) \cup {k}
  BY <1>0, <1>3, <1>4, <1>5 DEF PinnedKeys
<1>8. Bytes(s)[k] \in Nat
  BY <1>0, BytesAreNat
<1>9. IsCache(r)
  <2>1. \A j \in Cached(s) : r.entry[j] \in [bytes : Sizes, pinned : BOOLEAN]
    BY <1>0, <1>4, <1>5 DEF IsCache
  <2>2. r.entry \in [Cached(s) -> [bytes : Sizes, pinned : BOOLEAN]]
    <3>1. r.entry = [j \in Cached(s) |-> r.entry[j]]
      BY <1>2, <1>4 DEF Cached
    <3> QED
      BY <2>1, <3>1
  <2> QED
    BY <1>0, <1>2, <1>3, <1>8, <2>2 DEF IsCache
<1>10. r.pinned = Total(Bytes(r), PinnedKeys(r))
  <2>1. PinnedKeys(s) \cup {k} \in SUBSET Cached(s) /\ k \notin PinnedKeys(s)
    BY <1>0 DEF PinnedKeys
  <2>2. IsFiniteSet(PinnedKeys(s)) /\ \A j \in PinnedKeys(s) \cup {k} : Bytes(s)[j] \in Int
    BY <1>0, <2>1, BytesAreNat, FS_Subset
  <2>3. Total(Bytes(s), PinnedKeys(s) \cup {k}) = Bytes(s)[k] + Total(Bytes(s), PinnedKeys(s))
    BY <2>1, <2>2, TotalWith
  <2>4. s.pinned = Total(Bytes(s), PinnedKeys(s)) /\ s.pinned \in Int
    BY DEF Exact, IsCache
  <2> QED
    BY <1>2, <1>6, <1>7, <1>8, <2>3, <2>4
<1>11. Exact(r)
  BY <1>2, <1>3, <1>6, <1>9, <1>10 DEF Exact
<1>12. Fits(r)
  BY <1>1, <1>2 DEF Fits, Pinnable
<1> QED
  BY <1>7, <1>11, <1>12 DEF r
-----------------------------------------------------------------------------
KVInv == Exact(kv) /\ Fits(kv)

(* A step, whatever it hits or misses, keeps the totals, the budgets and     *)
(* what is pinned.                                                          *)
LEMMA CacheStageExact ==
    ASSUME NEW s, Exact(s), Fits(s), NEW k \in Keys, NEW g, NEW d, NEW c \in CacheStage(k, s, g, d)
    PROVE  /\ Exact(c.kv) /\ Fits(c.kv)
           /\ \A j \in PinnedKeys(s) : j \in PinnedKeys(c.kv)
<1>1. CASE ~d.quant
  BY <1>1 DEF CacheStage
<1>2. CASE d.quant /\ k \in Cached(s)
  <2>1. c.kv = Touched(s, k)
    BY <1>2 DEF CacheStage
  <2>2. PinnedKeys(Touched(s, k)) = PinnedKeys(s)
    BY <1>2, TouchedExact DEF PinnedKeys
  <2> QED
    BY <1>2, <2>1, <2>2, TouchedExact
<1>3. CASE d.quant /\ k \notin Cached(s)
  <2>1. PICK m \in GuardedMiss(k, s, g) : c = AfterMiss(k, m, d)
    BY <1>3 DEF CacheStage
  <2>2. \/ m.kv = s
        \/ \E target \in Int : m.kv = Evicted(s, target)
    <3>1. \A r \in Int : EvictionTarget(r, EstimateOf[k]) \in Int
      BY GuardAssumption, RuntimeAssumption DEF EvictionTarget
    <3>2. CASE HasGuard
      <4>1. PICK active \in Readings :
              m.kv = s \/ m.kv = Evicted(s, EvictionTarget(active + EstimateOf[k], EstimateOf[k]))
        BY <3>2 DEF GuardedMiss
      <4>2. active + EstimateOf[k] \in Int
        BY RuntimeAssumption
      <4> QED
        BY <3>1, <4>1, <4>2
    <3>3. CASE ~HasGuard
      BY <3>3 DEF GuardedMiss
    <3> QED
      BY <3>2, <3>3
  <2>3. /\ Exact(m.kv) /\ Fits(m.kv)
        /\ Cached(m.kv) \subseteq Cached(s)
        /\ \A j \in PinnedKeys(s) : j \in PinnedKeys(m.kv)
    BY <2>2, EvictedExact
  <2>4. c.kv = m.kv \/ c.kv = Stored(m.kv, k, BytesOf[k])
    BY <2>1 DEF AfterMiss
  <2>5. BytesOf[k] \in Sizes
    BY RuntimeAssumption
  <2>6. \A j \in PinnedKeys(s) : j \in PinnedKeys(m.kv) \ {k}
    BY <1>3, <2>3 DEF PinnedKeys
  <2> QED
    BY <2>3, <2>4, <2>5, <2>6, StoredExact
<1> QED
  BY <1>1, <1>2, <1>3

(* The calls of the owner do so too, but for a store over a pinned entry.     *)
LEMMA CacheCallExact ==
    ASSUME KVInv, KVNext
    PROVE  /\ KVInv'
           /\ \A j \in PinnedKeys(kv) : j \in PinnedKeys(kv') \/ \E bytes \in Sizes : Store(j, bytes)
<1>0. Exact(kv) /\ Fits(kv)
  BY DEF KVInv
<1>1. ASSUME NEW k \in Keys, NEW bytes \in Sizes, Store(k, bytes)
      PROVE  /\ Exact(kv') /\ Fits(kv')
             /\ \A j \in PinnedKeys(kv) \ {k} : j \in PinnedKeys(kv')
  BY <1>0, <1>1, StoredExact DEF Store
<1>2. ASSUME NEW k \in Keys, Retrieve(k)
      PROVE  /\ Exact(kv') /\ Fits(kv')
             /\ \A j \in PinnedKeys(kv) : j \in PinnedKeys(kv')
  BY <1>0, <1>2, TouchedExact DEF Retrieve, PinnedKeys
<1>3. ASSUME NEW k \in Keys, PinCache(k)
      PROVE  /\ Exact(kv') /\ Fits(kv')
             /\ \A j \in PinnedKeys(kv) : j \in PinnedKeys(kv')
  BY <1>0, <1>3, PinnedExact DEF PinCache
<1>4. ASSUME NEW target \in Targets, EvictLRU(target)
      PROVE  /\ Exact(kv') /\ Fits(kv')
             /\ \A j \in PinnedKeys(kv) : j \in PinnedKeys(kv')
  <2>1. target \in Int
    BY KVAssumption
  <2> QED
    BY <1>0, <1>4, <2>1, EvictedExact DEF EvictLRU
<1> QED
  BY <1>1, <1>2, <1>3, <1>4 DEF KVNext, KVInv, Exact, Fits, IsCache, IsOrder, Bytes, PinnedKeys, Cached

LEMMA InitKV == Init => KVInv
<1> SUFFICES ASSUME Init PROVE KVInv
  OBVIOUS
<1>1. kv = EmptyKV
  BY DEF Init, KVInit
<1>2. Cached(kv) = {} /\ PinnedKeys(kv) = {}
  BY <1>1 DEF EmptyKV, Cached, PinnedKeys
<1>3. IsCache(kv)
  BY <1>1, <1>2, FS_EmptySet DEF EmptyKV, IsCache
<1>4. Total(Bytes(kv), {}) = 0
  BY TotalOfNone
<1>5. kv.total = 0 /\ kv.pinned = 0 /\ kv.older = {}
  BY <1>1 DEF EmptyKV
<1>6. IsOrder(kv.older, Cached(kv))
  BY <1>2, <1>5 DEF IsOrder
<1>7. Exact(kv)
  BY <1>2, <1>3, <1>4, <1>5, <1>6 DEF Exact
<1>8. Fits(kv)
  BY <1>5, KVAssumption DEF Fits
<1> QED
  BY <1>7, <1>8 DEF KVInv

LEMMA NextKV ==
    ASSUME KVInv, [Next]_vars
    PROVE  /\ KVInv'
           /\ \A j \in PinnedKeys(kv) :
                 \/ j \in PinnedKeys(kv')
                 \/ CacheCall /\ \E bytes \in Sizes : Store(j, bytes)
<1>1. ASSUME NEW k \in Keys, NEW override \in Overrides, ExecuteDecodeStep(k, override)
      PROVE  KVInv' /\ \A j \in PinnedKeys(kv) : j \in PinnedKeys(kv')
  <2> DEFINE d == Decision(profiles[ProfileOf[k]], guard, override)
  <2>1. PICK c \in CacheStage(k, kv, guard, d) : kv' = c.kv
    BY <1>1 DEF ExecuteDecodeStep
  <2> HIDE DEF d
  <2>2. /\ Exact(kv') /\ Fits(kv')
        /\ \A j \in PinnedKeys(kv) : j \in PinnedKeys(kv')
    BY <2>1, CacheStageExact DEF KVInv
  <2> QED
    BY <2>2 DEF KVInv, Exact, Fits, IsCache, IsOrder, Bytes, PinnedKeys, Cached
<1>2. CASE CacheCall
  BY <1>2, CacheCallExact DEF CacheCall
<1>3. CASE UNCHANGED kv
  BY <1>3 DEF KVInv, Exact, Fits, IsCache, IsOrder, Bytes, PinnedKeys, Cached
<1> QED
  BY <1>1, <1>2, <1>3 DEF Next, SetEmergency, ResetController, vars

LEMMA TotalsOfInv == KVInv => TotalsExact /\ WithinBudgets
<1> SUFFICES ASSUME KVInv PROVE TotalsExact /\ WithinBudgets
  OBVIOUS
<1>1. PinnedKeys(kv) \in SUBSET Cached(kv)
  BY DEF PinnedKeys
<1>2. /\ SumBytes(kv, Cached(kv)) = Total(Bytes(kv), Cached(kv))
      /\ SumBytes(kv, PinnedKeys(kv)) = Total(Bytes(kv), PinnedKeys(kv))
  BY <1>1, SumBytesIsTotal
<1> QED
  BY <1>2 DEF KVInv, Exact, IsOrder, Fits, TotalsExact, WithinBudgets, PinnedKeys

LEMMA InvariantKV == Spec => []KVInv
<1>1. KVInv /\ [Next]_vars => KVInv'
  BY NextKV
<1> QED
  BY <1>1, InitKV, PTL DEF Spec

(* The running totals of the cache are the sums they stand for, after any     *)
(* sequence of steps, stores, replacements, pins and evictions (store,       *)
(* evict_lru, pin_cache).                                                   *)
THEOREM TotalsAreExact == Spec => []TotalsExact
BY InvariantKV, TotalsOfInv, PTL

(* Both budgets hold after every call, whatever the sizes: once every entry   *)
(* that is not pinned is gone, the total is the pinned total, which was       *)
(* within the budget before (_enforce_memory_budget).                        *)
THEOREM BudgetsHold == Spec => []WithinBudgets
BY InvariantKV, TotalsOfInv, PTL

(* What is pinned stays pinned until its owner stores over it.               *)
THEOREM PinsSurvive == Spec => PinnedSurvive
<1>1. KVInv /\ [Next]_vars =>
        \A k \in Cached(kv) : kv.entry[k].pinned =>
            \/ k \in Cached(kv') /\ kv'.entry[k].pinned
            \/ CacheCall /\ \E bytes \in Sizes : Store(k, bytes)
  BY NextKV DEF PinnedKeys
<1> QED
  BY <1>1, InvariantKV, PTL DEF Spec, PinnedSurvive

(* A step that starts under pressure or in an emergency leaves the cache as   *)
(* it is (execute_decode_step, should_disable_quantized).                    *)
THEOREM PressureStops == Spec => PressureLeavesCacheAlone
<1>1. ASSUME [Next]_vars, HasGuard, guard.pressure \/ guard.noQuant
      PROVE  CacheCall \/ UNCHANGED kv
  <2>1. ASSUME NEW k \in Keys, NEW override \in Overrides, ExecuteDecodeStep(k, override)
        PROVE  UNCHANGED kv
    <3>1. ~Decision(profiles[ProfileOf[k]], guard, override).quant
      BY <1>1 DEF Decision, ShouldDisableQuantized
    <3> QED
      BY <2>1, <3>1 DEF ExecuteDecodeStep, CacheStage
  <2> QED
    BY <1>1, <2>1 DEF Next, SetEmergency, ResetController, vars
<1>2. [Next]_vars => [HasGuard /\ (guard.pressure \/ guard.noQuant) => CacheCall \/ UNCHANGED kv]_vars
  BY <1>1
<1> QED
  BY <1>2, PTL DEF Spec, PressureLeavesCacheAlone
-----------------------------------------------------------------------------
(* An entry of the prepared cache was made for a request that meets its key.  *)
PreparedUnderItsKey ==
    \A key \in PreparedKeys :
        prepared[key] # None => prepared[key] \in Requests /\ CacheKey(prepared[key]) = key

AnswerInv ==
    /\ DOMAIN prepared = PreparedKeys
    /\ PreparedUnderItsKey
    /\ NoForeignAnswer

(* Two layers that meet at one key with the same pattern are one layer.      *)
LEMMA KeyAndPatternDecide ==
    ASSUME NEW a \in Requests, NEW b \in Requests, CacheKey(a) = CacheKey(b), a.pattern = b.pattern
    PROVE  a = b
<1> DEFINE s == a.layer
           t == b.layer
           p == a.pattern
<1>1. s \in Seq(Parts) /\ t \in Seq(Parts) /\ p \in Seq(Parts) /\ b.pattern = p
  BY QuantRuntimeAssumption
<1>2. s \o p = t \o p
  BY <1>1 DEF CacheKey
<1>3. a = [layer |-> s, pattern |-> p] /\ b = [layer |-> t, pattern |-> p]
  BY <1>1, QuantRuntimeAssumption
<1> HIDE DEF s, t, p
<1>4. Len(s) = Len(t)
  <2>1. Len(s \o p) = Len(s) + Len(p) /\ Len(t \o p) = Len(t) + Len(p)
    BY <1>1
  <2> QED
    BY <1>1, <1>2, <2>1
<1>5. ASSUME NEW i \in 1 .. Len(s)
      PROVE  s[i] = t[i]
  <2>1. (s \o p)[i] = s[i] /\ (t \o p)[i] = t[i]
    BY <1>1, <1>4
  <2> QED
    BY <1>2, <2>1
<1>6. s = t
  BY <1>1, <1>4, <1>5
<1> QED
  BY <1>3, <1>6

LEMMA ScoredIsAsked ==
    ASSUME AnswerInv, NEW asked \in Requests, NEW scoring \in ScoringModes
    PROVE  Scored(asked, scoring) = asked
<1> DEFINE prep == prepared[CacheKey(asked)]
<1>1. CASE scoring = "prepared" /\ IsValidFor(prep, asked.pattern)
  <2>1. CacheKey(asked) \in PreparedKeys
    BY DEF PreparedKeys
  <2>2. prep \in Requests /\ CacheKey(prep) = CacheKey(asked) /\ prep.pattern = asked.pattern
    BY <1>1, <2>1 DEF AnswerInv, PreparedUnderItsKey, IsValidFor
  <2> QED
    BY <1>1, <2>2, KeyAndPatternDecide DEF Scored
<1>2. CASE ~(scoring = "prepared" /\ IsValidFor(prep, asked.pattern))
  BY <1>2 DEF Scored
<1> QED
  BY <1>1, <1>2

LEMMA StepPrepares ==
    ASSUME AnswerInv, NEW asked \in Requests, NEW scoring \in ScoringModes, StepBegins(asked, scoring)
    PROVE  DOMAIN prepared' = PreparedKeys /\ PreparedUnderItsKey'
<1>1. CASE scoring = "prepared"
  <2>1. prepared' = [prepared EXCEPT ![CacheKey(asked)] = asked]
    BY <1>1, ScoredIsAsked DEF StepBegins, PreparedAfter
  <2> QED
    BY <2>1 DEF AnswerInv, PreparedUnderItsKey
<1>2. CASE scoring # "prepared"
  BY <1>2 DEF StepBegins, PreparedAfter, AnswerInv, PreparedUnderItsKey
<1> QED
  BY <1>1, <1>2

LEMMA AnswerStep == AnswerInv /\ [DecodeStep]_decodeVars => AnswerInv'
<1> SUFFICES ASSUME AnswerInv, [DecodeStep]_decodeVars
             PROVE  AnswerInv'
  OBVIOUS
<1>1. ASSUME NEW asked \in Requests, DecodeStepRaises(asked)
      PROVE  AnswerInv'
  BY <1>1, StepPrepares DEF DecodeStepRaises, AnswerInv, NoForeignAnswer
<1>2. ASSUME NEW asked \in Requests, NEW scoring \in ScoringModes, DecodeStepUnaudited(asked, scoring)
      PROVE  AnswerInv'
  BY <1>2, StepPrepares, ScoredIsAsked DEF DecodeStepUnaudited, AnswerInv, NoForeignAnswer
<1>3. ASSUME NEW asked \in Requests, NEW scoring \in ScoringModes, NEW m \in Metrics,
             DecodeStepAudited(asked, scoring, m)
      PROVE  AnswerInv'
  BY <1>3, StepPrepares, ScoredIsAsked DEF DecodeStepAudited, AnswerInv, NoForeignAnswer
<1>4. ASSUME NEW asked \in Requests, NEW scoring \in ScoringModes, NEW m \in Metrics,
             DecodeStepUnlogged(asked, scoring, m)
      PROVE  AnswerInv'
  BY <1>4, StepPrepares DEF DecodeStepUnlogged, AnswerInv, NoForeignAnswer
<1>5. CASE UNCHANGED decodeVars
  BY <1>5 DEF decodeVars, quantVars, AnswerInv, PreparedUnderItsKey, NoForeignAnswer
<1> QED
  BY <1>1, <1>2, <1>3, <1>4, <1>5 DEF DecodeStep

(* No step answers with the K/V of another layer or pattern, for any layer    *)
(* ids and patterns, colons in them included (decode_step, is_valid_for).    *)
THEOREM AnswersAreOwn == QuantSpec => []NoForeignAnswer
<1>1. QuantInit => AnswerInv
  BY DEF QuantInit, AnswerInv, PreparedUnderItsKey, NoForeignAnswer
<1>2. AnswerInv => NoForeignAnswer
  BY DEF AnswerInv
<1> QED
  BY <1>1, <1>2, AnswerStep, PTL DEF QuantSpec
-----------------------------------------------------------------------------
(* The margins of a window are bounded by what an audit that lost nothing     *)
(* has in hand.                                                             *)
Hand == 10

ControllerInv ==
    /\ bits \in [k : Nat, v : Nat]
    /\ window \in Seq(Int)
    /\ \A i \in 1 .. Len(window) : window[i] <= Hand

LEMMA LeastOfThree ==
    ASSUME NEW a \in Int, NEW b \in Int, NEW c \in Int
    PROVE  Least({a, b, c}) \in Int /\ Least({a, b, c}) <= b
<1>1. \E x \in {a, b, c} : \A y \in {a, b, c} : x <= y
  <2>1. CASE a <= b /\ a <= c
    BY <2>1
  <2>2. CASE b <= a /\ b <= c
    BY <2>2
  <2>3. CASE c <= a /\ c <= b
    BY <2>3
  <2> QED
    BY <2>1, <2>2, <2>3
<1> QED
  BY <1>1 DEF Least

LEMMA MarginBounded ==
    ASSUME NEW m \in Metrics
    PROVE  Margin(m) \in Int /\ Margin(m) <= Hand
<1>1. m.cosine \in Int /\ m.top5 \in Int /\ m.kl \in Nat
  BY DEF Metrics
<1>2. /\ m.cosine - 9990 \in Int /\ 10 - m.kl \in Int /\ m.top5 - 9500 \in Int
      /\ 10 - m.kl <= Hand
  BY <1>1 DEF Hand
<1>3. /\ Least({m.cosine - 9990, 10 - m.kl, m.top5 - 9500}) \in Int
      /\ Least({m.cosine - 9990, 10 - m.kl, m.top5 - 9500}) <= 10 - m.kl
  BY <1>2, LeastOfThree
<1> QED
  BY <1>2, <1>3 DEF Margin, Hand

LEMMA IngestedBounded ==
    ASSUME ControllerInv, NEW m \in Metrics
    PROVE  /\ Ingested(m) \in Seq(Int)
           /\ \A i \in 1 .. Len(Ingested(m)) : Ingested(m)[i] <= Hand
<1> DEFINE e == IF Margin(m) < -Recovery THEN -Recovery - 1 ELSE Margin(m)
           w == Append(window, e)
<1>1. e \in Int /\ e <= Hand
  BY MarginBounded DEF Recovery, Hand
<1> HIDE DEF e
<1>2. w \in Seq(Int) /\ Len(w) = Len(window) + 1
  BY <1>1 DEF ControllerInv
<1>3. \A i \in 1 .. Len(w) : w[i] <= Hand
  BY <1>1, <1>2 DEF ControllerInv
<1> HIDE DEF w
<1>4. Len(w) > Window => /\ Tail(w) \in Seq(Int)
                         /\ \A i \in 1 .. Len(Tail(w)) : Tail(w)[i] <= Hand
  BY <1>2, <1>3 DEF ControllerInv
<1>5. Ingested(m) = IF Len(w) > Window THEN Tail(w) ELSE w
  BY DEF Ingested, w, e
<1> QED
  BY <1>2, <1>3, <1>4, <1>5

(* No window of such margins averages the improvement the default asks for.  *)
LEMMA NoGoodWindow ==
    ASSUME NEW w \in Seq(Int), \A i \in 1 .. Len(w) : w[i] <= Hand, improvement = DefaultImprovement
    PROVE  ~GoodWindow(w)
<1>1. SUFFICES ASSUME Len(w) = Window, Sum(w) >= improvement * Window PROVE FALSE
  BY DEF GoodWindow
<1>2. Sum(w) = Total(w, DOMAIN w)
  BY DEF Sum, FoldSeq, FoldFunction, FoldFunctionOnSet, Total, MapThenSumSet, MapThenFoldSet
<1>3. DOMAIN w = 1 .. Window /\ Window \in Nat \ {0}
  BY <1>1, ControllerAssumption
<1>4. IsFiniteSet(1 .. Window) /\ Cardinality(1 .. Window) = Window
  BY <1>3, FS_Interval
<1>5. \A i \in DOMAIN w : w[i] \in Int /\ w[i] <= Hand
  BY <1>1, <1>3
<1>6. Total(w, DOMAIN w) <= Hand * Cardinality(DOMAIN w)
  BY <1>3, <1>4, <1>5, TotalBounded DEF Hand
<1>7. Total(w, DOMAIN w) \in Int
  BY <1>3, <1>4, <1>5, TotalIsInt
<1> QED
  BY <1>1, <1>2, <1>3, <1>4, <1>6, <1>7 DEF Hand, DefaultImprovement

LEMMA RaisedIsMore ==
    ASSUME NEW b \in [k : Nat, v : Nat]
    PROVE  /\ Raised(b) \in [k : Nat, v : Nat] /\ Raised(b).k >= b.k /\ Raised(b).v >= b.v
           /\ Lowered(b) \in [k : Nat, v : Nat]
BY ControllerAssumption DEF Raised, Lowered

LEMMA ControllerStep ==
    ASSUME ControllerInv, [DecodeStep]_decodeVars
    PROVE  /\ ControllerInv'
           /\ improvement = DefaultImprovement => bits'.k >= bits.k /\ bits'.v >= bits.v
<1>1. CASE UNCHANGED <<bits, window>>
  BY <1>1 DEF ControllerInv
<1>2. ASSUME NEW m \in Metrics, Update(m)
      PROVE  /\ ControllerInv'
             /\ improvement = DefaultImprovement => bits'.k >= bits.k /\ bits'.v >= bits.v
  <2>1. /\ window' \in Seq(Int)
        /\ \A i \in 1 .. Len(window') : window'[i] <= Hand
    BY <1>2, IngestedBounded DEF Update
  <2>2. bits' = bits \/ bits' = Raised(bits) \/ (bits' = Lowered(bits) /\ GoodWindow(Ingested(m)))
    BY <1>2 DEF Update, UpdateTooSoon, UpdateBad, UpdateNotBad, Kept, Adjusted
  <2>3. improvement = DefaultImprovement => ~GoodWindow(Ingested(m))
    BY IngestedBounded, NoGoodWindow
  <2> QED
    BY <2>1, <2>2, <2>3, RaisedIsMore DEF ControllerInv
<1> QED
  BY <1>1, <1>2 DEF DecodeStep, DecodeStepRaises, DecodeStepUnaudited, DecodeStepUnlogged,
     DecodeStepAudited, NoUpdate, decodeVars, controllerVars, quantVars

(* With its default thresholds the controller never lowers a bit width, for   *)
(* any window, interval and bounds: no audit measures more than half of what  *)
(* is asked of a window (adaptive_controller.py:48, :55, :161).               *)
THEOREM DefaultNeverLowers == QuantSpec => NeverLowersByDefault
<1>1. QuantInit => ControllerInv
  <2> SUFFICES ASSUME QuantInit PROVE ControllerInv
    OBVIOUS
  <2> QED
    BY ControllerAssumption DEF QuantInit, ControllerInit, ControllerInv
<1>2. ControllerInv /\ [DecodeStep]_decodeVars => ControllerInv'
  BY ControllerStep
<1>3. ControllerInv /\ [DecodeStep]_decodeVars =>
        [improvement = DefaultImprovement => bits'.k >= bits.k /\ bits'.v >= bits.v]_decodeVars
  BY ControllerStep
<1> QED
  BY <1>1, <1>2, <1>3, PTL DEF QuantSpec, NeverLowersByDefault
=============================================================================
