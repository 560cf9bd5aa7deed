-------------------------- MODULE SparsityController --------------------------
(***************************************************************************)
(* The adaptive sparsity controller (rfsn_v10/adaptive_sparsity.py): per     *)
(* profile a top-k ratio and two switches, updated from the audit of one    *)
(* decode step.                                                             *)
(*                                                                         *)
(* Operators on one profile.  A ratio is a whole number of the controller's *)
(* smallest step, DenseRatio standing for 1.0; an audit is a verdict:       *)
(* "good", "bad" (past a warn threshold) or "fail" (past the fail           *)
(* threshold, which is past the warn threshold too).                        *)
(***************************************************************************)
EXTENDS Integers

CONSTANTS
    DenseRatio,         \* 1.0
    InitialRatio,       \* initial_top_k_ratio
    MinRatio,           \* min_top_k_ratio
    MaxRatio,           \* max_top_k_ratio
    IncreaseStep,       \* increase_step_size
    DecreaseStep,       \* decrease_step_size
    StabilizationSteps  \* stabilization_steps

ASSUME SparsityAssumption ==
    /\ DenseRatio \in Nat \ {0}
    /\ MinRatio \in Nat \ {0}
    /\ MaxRatio \in MinRatio .. DenseRatio
    /\ InitialRatio \in MinRatio .. MaxRatio
    /\ IncreaseStep \in Nat
    /\ DecreaseStep \in Nat
    /\ StabilizationSteps \in Nat \ {0}

Verdicts == {"good", "bad", "fail"}

ProfileType ==
    [ratio : MinRatio .. MaxRatio, noSparse : BOOLEAN, noQuant : BOOLEAN,
     clean : 0 .. StabilizationSteps - 1]

(* _state_for a profile seen for the first time. *)
NewProfile ==
    [ratio |-> InitialRatio, noSparse |-> FALSE, noQuant |-> FALSE, clean |-> 0]

RatioRaised(ratio) ==
    IF ratio + IncreaseStep > MaxRatio THEN MaxRatio ELSE ratio + IncreaseStep

RatioLowered(ratio) ==
    IF ratio - DecreaseStep < MinRatio THEN MinRatio ELSE ratio - DecreaseStep

(* Mutant of AfterFallback: the step does not count against sparse decode. *)
AfterFallbackForgives(p) ==
    [p EXCEPT !.ratio = RatioRaised(@), !.noSparse = FALSE, !.clean = 0]

(* The sparse path failed, was not taken, or a fallback was used. *)
AfterFallback(p) ==
    [p EXCEPT !.ratio = RatioRaised(@), !.noSparse = TRUE, !.clean = 0]

AfterSparseLoss(p, verdict) ==
    [p EXCEPT !.ratio = RatioRaised(@), !.noSparse = verdict = "fail", !.clean = 0]

AfterQuantLoss(p, verdict) ==
    [p EXCEPT !.noQuant = verdict = "fail", !.clean = 0]

(* Enough clean steps in a row lower the ratio and switch both paths on. *)
AfterCleanStep(p) ==
    IF p.clean + 1 >= StabilizationSteps
    THEN [ratio |-> RatioLowered(p.ratio), noSparse |-> FALSE, noQuant |-> FALSE, clean |-> 0]
    ELSE [p EXCEPT !.clean = @ + 1]

(* update(). *)
Updated(p, sparseSuccess, fallbackUsed, sparse, quant) ==
    CASE ~sparseSuccess \/ fallbackUsed -> AfterFallback(p)
      [] sparseSuccess /\ ~fallbackUsed /\ sparse # "good" -> AfterSparseLoss(p, sparse)
      [] sparseSuccess /\ ~fallbackUsed /\ sparse = "good" /\ quant # "good" ->
            AfterQuantLoss(p, quant)
      [] sparseSuccess /\ ~fallbackUsed /\ sparse = "good" /\ quant = "good" ->
            AfterCleanStep(p)
=============================================================================
