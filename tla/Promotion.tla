------------------------------ MODULE Promotion ------------------------------
(***************************************************************************)
(* How a quantisation config becomes a candidate: benchmarks write evidence,  *)
(* scripts/generate_experimental_comparison.py makes rows of it,              *)
(* scripts/classify_experimental_configs.py labels of rows and evidence, and  *)
(* scripts/check_release_integrity.py accepts or refuses the labels.  Each    *)
(* reads the files that lie there, so rows and labels may be older than the   *)
(* evidence.                                                                 *)
(*                                                                         *)
(* Abstractions.  A measured row is the verdict its thresholds give it: the   *)
(* same row passes everywhere; of the free-running rows, how many matched      *)
(* none, half or all of the tokens.  Quality, compression ratio and speed are *)
(* small numbers.  The rows never hold a bit width, so the rejection of       *)
(* configs wider than 8 bits cannot happen and is left out.                  *)
(***************************************************************************)
EXTENDS Integers, FiniteSets, FiniteSetsExt

CONSTANTS
    None,
    Configs,        \* the configs compared, baseline_fp16 aside
    Contexts,       \* the context lengths, 1 .. n in their order
    MaxMeasures     \* bound on the measurements of a behaviour

ASSUME PromotionAssumption ==
    /\ \A k \in Contexts : k \in Nat \ {0} /\ 1 .. k \subseteq Contexts
    /\ MaxMeasures \in Nat

VARIABLES
    evidence,       \* what the benchmarks wrote of each config
    shared,         \* what they wrote for all: [baseline, larger, results]
    rows,           \* comparison_summary.json
    labels,         \* config_classification.json
    measures        \* measurements so far

promotionVars == <<evidence, shared, rows, labels, measures>>
-----------------------------------------------------------------------------
Stable == {"stable_k8_v5_gs64", "stable_k8_v5_gs32", "stable_k8_v4_gs64"}

Default == "stable_k8_v5_gs64"

(* The label of the first rule that applies.                                 *)
FirstOf(rules) == rules[Min({i \in DOMAIN rules : rules[i].when})].then

When(condition, label) == [when |-> condition, then |-> label]

Is(mark) == [mark |-> mark, issue |-> None]

(* The files of an experimental config without a row of its name are read for *)
(* another row.  The baseline's says "reference".                            *)
NoRowOf(c) == c \notin Stable /\ \A k \in Contexts : evidence[c].contexts[k] = None

(* The real-model file: the second row there is, or the only one (_find_config, *)
(* _find_first_config); a reference is good enough.                          *)
RealStatus(c) ==
    LET found == IF c \notin Stable /\ evidence[c].real = None THEN evidence[c].otherReal ELSE evidence[c].real
    IN  IF found = "reference" THEN "pass" ELSE found

(* The long-context file (extract_context_passes), and where no context has a  *)
(* row of the config the only row of each (extract_single_config_context_passes): *)
(* what is not "pass" fails, a reference too.                                *)
ContextResult(c, context) ==
    LET found == IF NoRowOf(c) THEN evidence[c].otherContexts[context] ELSE evidence[c].contexts[context]
    IN  IF found = "reference" THEN "fail" ELSE found

(* classify_context_status stops at the first failure.                       *)
Passes(c) ==
    {k \in Contexts : ContextResult(c, k) = "pass" /\ \A j \in 1 .. k : ContextResult(c, j) # "fail"}

Recommended(c) ==
    FirstOf(<<When(RealStatus(c) # "pass", "rejected_real_model"),
              When(\E k \in Contexts : ContextResult(c, k) = "fail", "rejected_context"),
              When(\E k \in Contexts : ContextResult(c, k) = None, "needs_context_data"),
              When(evidence[c].ratio = None, "needs_memory_data"),
              When(evidence[c].ratio = 1, "rejected_no_compression"),
              When(TRUE, "candidate")>>)

(* load_stable_config, load_experimental_variant                             *)
Row(c) ==
    IF c \notin Stable /\ ~evidence[c].files
    THEN [passes |-> {}, ratio |-> None, bytes |-> FALSE, basis |-> FALSE, quality |-> 0,
          recommended |-> "missing_data"]
    ELSE [passes |-> Passes(c), ratio |-> evidence[c].ratio, bytes |-> evidence[c].bytes,
          basis |-> evidence[c].basis, quality |-> evidence[c].quality, recommended |-> Recommended(c)]

Compared == [c \in Configs |-> Row(c)]
-----------------------------------------------------------------------------
(* Mutant of ForcedFails: one row that passes is enough. *)
ForcedFailsIfAllDo(c) == evidence[c].forced # {} /\ "pass" \notin evidence[c].forced

(* _check_real_generation_teacher_forced: rows of errors fail only when       *)
(* there are no others.                                                      *)
ForcedFails(c) ==
    /\ evidence[c].forced # {}
    /\ evidence[c].forced = {"error"} \/ "fail" \in evidence[c].forced

(* _check_real_generation_free_running: the rows without an error, and whether *)
(* the average of their exact_token_match_rate, 0, 1/2 or 1, is at least 1/2. *)
FreeRows(c) == evidence[c].free.none + evidence[c].free.half + evidence[c].free.all

FreePasses(c) == FreeRows(c) > 0 /\ evidence[c].free.half + 2 * evidence[c].free.all >= FreeRows(c)

(* _has_free_running_divergence *)
Diverges(c) == evidence[c].free.none + evidence[c].free.half > 0

(* _check_decode_update_trace                                                *)
UpdateFails(c) ==
    /\ evidence[c].updates # {}
    /\ evidence[c].updates = {"error"} \/ "degraded" \in evidence[c].updates

(* Rows of the teacher's tokens, of any config, or results of another kind.   *)
HasRealGeneration ==
    shared.baseline # None \/ shared.results \/ \E c \in Configs : evidence[c].forced # {}

(* teacher_forced_baseline_is_valid                                          *)
BaselineValid == shared.baseline = "identical"

StableMark(c) ==
    IF c = Default THEN "stable_default"
    ELSE IF c = "stable_k8_v5_gs32" THEN "quality_candidate" ELSE "stable_baseline"

StableLabel(c) ==
    FirstOf(<<When(rows[c].passes # Contexts \/ ~rows[c].bytes, Is("stable_needs_data")),
              When(HasRealGeneration /\ ~BaselineValid, Is("needs_valid_teacher_forced_baseline")),
              When(ForcedFails(c) /\ UpdateFails(c),
                   [mark |-> StableMark(c), issue |-> "decode_update_issue"]),
              When(ForcedFails(c), [mark |-> StableMark(c), issue |-> "under_teacher_forced_drift"]),
              When(TRUE, Is(StableMark(c)))>>)

BetterQuality(c) == rows[c].quality >= rows[Default].quality

Ratio(row) == IF row.ratio = None THEN 1 ELSE row.ratio

BetterMemory(c) == Ratio(rows[c]) >= Ratio(rows[Default])

Speed(c) == IF evidence[c].speed = None THEN 0 ELSE evidence[c].speed

(* What a config that passed every gate is, by the row of the default.        *)
Win(c) ==
    FirstOf(<<When(Default \notin Configs, "experimental_only"),
              When(c = "turbo_polar" /\ Speed(c) > Speed(Default), "speed_candidate"),
              When(c = "turbo_polar", "experimental_only"),
              When(BetterQuality(c) /\ (c = "adaptive" \/ BetterMemory(c)), "quality_candidate"),
              When(c # "adaptive" /\ BetterMemory(c), "memory_candidate"),
              When(TRUE, "experimental_only")>>)

(* A failure in generation, by what the free-running rows say.               *)
ForcedFailure(c) ==
    FirstOf(<<When(Diverges(c), "rejected_generation_divergence"),
              When(FreePasses(c), "free_running_match_but_teacher_forced_failed"),
              When(TRUE, "rejected_generation_quality")>>)

ExperimentalMark(c) ==
    FirstOf(<<When(rows[c].passes # Contexts, "rejected_quality"),
              When(~rows[c].bytes, "rejected_memory"),
              When(evidence[c].speed = None, "needs_throughput_data"),
              When(~HasRealGeneration, "experimental_only"),
              When(~BaselineValid, "needs_valid_teacher_forced_baseline"),
              When(ForcedFails(c), ForcedFailure(c)),
              When(evidence[c].slow, "rejected_speed"),
              When(shared.larger = None, "experimental_pending_1_5b"),
              When(shared.larger # None /\ c \notin shared.larger, "rejected_1_5b"),
              When(FreeRows(c) > 0 /\ ~FreePasses(c), "generation_divergence_observed"),
              When(TRUE, Win(c))>>)

(* classify_configs: without rows there is nothing to classify.              *)
Classified ==
    [c \in IF rows = None THEN {} ELSE Configs |->
        IF c \in Stable THEN StableLabel(c) ELSE Is(ExperimentalMark(c))]
-----------------------------------------------------------------------------
Candidate(label) == label.mark \in {"quality_candidate", "memory_candidate", "speed_candidate"}

(* Mutant of Pessimistic: a drift is not among the pessimistic words. *)
PessimisticButDrift(label) ==
    label.mark \in {"stable_needs_data", "needs_valid_teacher_forced_baseline", "rejected_quality",
                    "rejected_memory", "needs_throughput_data", "rejected_generation_divergence",
                    "free_running_match_but_teacher_forced_failed", "rejected_generation_quality",
                    "rejected_speed", "rejected_1_5b", "generation_divergence_observed"}

(* The labels in which the checker finds one of its pessimistic words; a      *)
(* decode-update issue is not among them.                                    *)
Pessimistic(label) ==
    \/ label.issue = "under_teacher_forced_drift"
    \/ label.mark \in {"stable_needs_data", "needs_valid_teacher_forced_baseline", "rejected_quality",
                       "rejected_memory", "needs_throughput_data", "rejected_generation_divergence",
                       "free_running_match_but_teacher_forced_failed", "rejected_generation_quality",
                       "rejected_speed", "rejected_1_5b", "generation_divergence_observed"}

(* check: the configs whose label is refused.                                *)
Refused ==
    {c \in DOMAIN labels :
        \/ Candidate(labels[c]) /\ FreeRows(c) = 0
        \/ "degraded" \in evidence[c].steps /\ ~Pessimistic(labels[c])}

(* check: a row that is recommended must have what a candidate needs.        *)
RowsRefused ==
    {c \in IF rows = None THEN {} ELSE Configs :
        /\ rows[c].recommended = "candidate"
        /\ rows[c].passes # Contexts \/ ~rows[c].bytes \/ ~rows[c].basis}
-----------------------------------------------------------------------------
FreeResults == [none : 0 .. 2, half : 0 .. 1, all : 0 .. 1]

\* A benchmark writes one of its results anew.
Written(c) ==
    {[evidence[c] EXCEPT !.files = v] : v \in BOOLEAN}
    \cup {[evidence[c] EXCEPT !.real = v] : v \in {None, "pass", "fail"}}
    \cup {[evidence[c] EXCEPT !.otherReal = v] : v \in {None, "reference", "pass", "fail"}}
    \cup {[evidence[c] EXCEPT !.contexts[k] = v] : k \in Contexts, v \in {None, "pass", "fail"}}
    \cup {[evidence[c] EXCEPT !.otherContexts = [k \in Contexts |-> v]] : v \in {None, "reference", "pass", "fail"}}
    \cup {[evidence[c] EXCEPT !.ratio = v] : v \in {None, 1, 2}}
    \cup {[evidence[c] EXCEPT !.bytes = v] : v \in BOOLEAN}
    \cup {[evidence[c] EXCEPT !.basis = v] : v \in BOOLEAN}
    \cup {[evidence[c] EXCEPT !.quality = v] : v \in 1 .. 2}
    \cup {[evidence[c] EXCEPT !.speed = v] : v \in {None, 1, 2}}
    \cup {[evidence[c] EXCEPT !.slow = v] : v \in BOOLEAN}
    \cup {[evidence[c] EXCEPT !.forced = v] : v \in SUBSET {"pass", "fail", "error"}}
    \cup {[evidence[c] EXCEPT !.free = v] : v \in FreeResults}
    \cup {[evidence[c] EXCEPT !.updates = v] : v \in SUBSET {"pass", "degraded", "error"}}
    \cup {[evidence[c] EXCEPT !.steps = v] : v \in SUBSET {"pass", "degraded"}}

Measure ==
    /\ measures < MaxMeasures
    /\ measures' = measures + 1
    /\ \/ \E c \in Configs : \E result \in Written(c) :
            evidence' = [evidence EXCEPT ![c] = result] /\ UNCHANGED shared
       \/ \E baseline \in {None, "identical", "off"}, larger \in {None} \cup SUBSET (Configs \ Stable) :
            \E others \in BOOLEAN :
                shared' = [baseline |-> baseline, larger |-> larger, results |-> others] /\ UNCHANGED evidence
    /\ UNCHANGED <<rows, labels>>

Compare == rows' = Compared /\ UNCHANGED <<evidence, shared, labels, measures>>

Classify == labels' = Classified /\ UNCHANGED <<evidence, shared, rows, measures>>

\* Nothing measured yet, or all gates passed.
Nothing ==
    [files |-> FALSE, real |-> None, otherReal |-> None, contexts |-> [k \in Contexts |-> None],
     otherContexts |-> [k \in Contexts |-> None], ratio |-> None, bytes |-> FALSE, basis |-> FALSE,
     quality |-> 1, speed |-> None, slow |-> FALSE, forced |-> {},
     free |-> [none |-> 0, half |-> 0, all |-> 0], updates |-> {}, steps |-> {}]

Everything ==
    [files |-> TRUE, real |-> "pass", otherReal |-> "reference", contexts |-> [k \in Contexts |-> "pass"],
     otherContexts |-> [k \in Contexts |-> "reference"], ratio |-> 2, bytes |-> TRUE, basis |-> TRUE,
     quality |-> 2, speed |-> 2, slow |-> FALSE, forced |-> {"pass"},
     free |-> [none |-> 0, half |-> 0, all |-> 1], updates |-> {"pass"}, steps |-> {"pass"}]

PromotionInit ==
    /\ evidence \in [Configs -> {Nothing, Everything}]
    /\ shared \in [baseline : {None, "identical"}, larger : {None, Configs \ Stable}, results : {FALSE}]
    /\ rows = None /\ labels = None /\ measures = 0

PromotionNext == Measure \/ Compare \/ Classify
=============================================================================
