----------------------------- MODULE QuantRuntime -----------------------------
(***************************************************************************)
(* The experimental quantised runtime                                       *)
(* (runtime/experimental_quant_runtime.py).  A decode step picks a manager,  *)
(* stores the K/V it was given, reads K/V back in the way its scoring mode    *)
(* says, scores, audits every AuditEvery-th step against reference logits    *)
(* and feeds the audit to the live controller.                               *)
(*                                                                         *)
(* Every manager holds the last K/V stored under a pattern; a step stores     *)
(* before it reads, so all scoring modes but "prepared" read what the step    *)
(* itself stored.  A layer id and a pattern are sequences of the parts        *)
(* between their colons, since the key of the prepared cache joins them       *)
(* with one.  K/V are known by the request they were given with.              *)
(***************************************************************************)
EXTENDS AdaptiveController

CONSTANTS
    None,
    Parts,          \* what stands between the colons of a layer id or a pattern
    Requests,       \* the layer and the pattern a step may be asked for, as
                    \* sequences of parts: [layer, pattern]
    AuditEvery      \* audit_interval of decode_step

ASSUME QuantRuntimeAssumption ==
    /\ Requests \subseteq [layer : Seq(Parts), pattern : Seq(Parts)]
    /\ AuditEvery \in Nat \ {0}

VARIABLES
    quantMode,      \* quant_mode
    live,           \* a live controller was asked for
    phase,          \* _step_num modulo AuditEvery
    prepared,       \* _prepared_cache
    answer,         \* what the last step that returned was asked for and scored
    recommended     \* the fallback its audit recommends, or "none"

quantVars == <<quantMode, live, phase, prepared, answer, recommended>>
-----------------------------------------------------------------------------
QuantModes == {"stable_k8_v5_gs64", "adaptive", "experimental_hybrid", "live_adaptive"}

\* "direct" stands for the modes that read what the step itself was given or
\* stored: fp16, reconstructed, packed_block and quantized_metal.
ScoringModes == {"direct", "prepared"}

(* check_drift: the FP16 path after a value that is not finite, the stable    *)
(* mode after a threshold is missed.                                         *)
CheckDrift(m) ==
    IF m.nan THEN "FP16"
    ELSE IF m.cosine < 9990 \/ m.top5 < 9500 \/ m.kl > 10 THEN "k8_v5_gs64"
    ELSE "none"

CacheKey(asked) == asked.layer \o asked.pattern

PreparedKeys == {CacheKey(asked) : asked \in Requests}

(* Mutant of IsValidFor: whatever the key finds is valid. *)
IsValidForAnything(prep, pattern) == prep # None

IsValidFor(prep, pattern) == prep # None /\ prep.pattern = pattern

(* The K/V a step scores, and what the prepared cache holds after it read     *)
(* them.  Nothing ever leaves the prepared cache because its pattern was      *)
(* stored again: an entry answers with the K/V of the step that made it.     *)
Scored(asked, scoring) ==
    IF scoring = "prepared" /\ IsValidFor(prepared[CacheKey(asked)], asked.pattern)
    THEN prepared[CacheKey(asked)]
    ELSE asked

PreparedAfter(asked, scoring) ==
    IF scoring = "prepared"
    THEN [prepared EXCEPT ![CacheKey(asked)] = Scored(asked, scoring)]
    ELSE prepared

AuditDue == (phase + 1) % AuditEvery = 0

(* __init__: a controller needs an adaptive mode.                            *)
QuantInit ==
    /\ quantMode \in QuantModes
    /\ live \in BOOLEAN
    /\ live => quantMode \in {"adaptive", "live_adaptive"}
    /\ phase = 0
    /\ prepared = [key \in PreparedKeys |-> None]
    /\ answer = None
    /\ recommended = "none"
    /\ ControllerInit

(* The part every decode step does, whatever becomes of it.                  *)
StepBegins(asked, scoring) ==
    /\ phase' = (phase + 1) % AuditEvery
    /\ prepared' = PreparedAfter(asked, scoring)
    /\ UNCHANGED <<quantMode, live>>

(* A step that raises: before the store, in it, because its scoring mode has *)
(* no answer (no blocks named, nothing retrieved, a mode nobody knows), in    *)
(* the scoring or in the audit.  It counts, and may have prepared K/V.       *)
DecodeStepRaises(asked) ==
    /\ \E scoring \in ScoringModes : StepBegins(asked, scoring)
    /\ IF live THEN NoUpdate ELSE UNCHANGED controllerVars
    /\ UNCHANGED <<answer, recommended>>

(* A step without reference logits, or between two audits.                   *)
DecodeStepUnaudited(asked, scoring) ==
    /\ StepBegins(asked, scoring)
    /\ answer' = [asked |-> asked, scored |-> Scored(asked, scoring)]
    /\ recommended' = "none"
    /\ IF live THEN NoUpdate ELSE UNCHANGED controllerVars

(* A step that raises after its audit, when an event cannot be appended to    *)
(* the telemetry file: the controller has taken the audit, nobody has the     *)
(* answer.                                                                   *)
DecodeStepUnlogged(asked, scoring, m) ==
    /\ AuditDue
    /\ StepBegins(asked, scoring)
    /\ IF live THEN Update(m) ELSE UNCHANGED controllerVars
    /\ UNCHANGED <<answer, recommended>>

(* The fallback an audit recommends is logged and counted, not followed.     *)
DecodeStepAudited(asked, scoring, m) ==
    /\ AuditDue
    /\ StepBegins(asked, scoring)
    /\ answer' = [asked |-> asked, scored |-> Scored(asked, scoring)]
    /\ recommended' = CheckDrift(m)
    /\ IF live THEN Update(m) ELSE UNCHANGED controllerVars

DecodeStep ==
    \E asked \in Requests :
        \/ DecodeStepRaises(asked)
        \/ \E scoring \in ScoringModes :
            \/ DecodeStepUnaudited(asked, scoring)
            \/ \E m \in Metrics : DecodeStepUnlogged(asked, scoring, m) \/ DecodeStepAudited(asked, scoring, m)
=============================================================================
