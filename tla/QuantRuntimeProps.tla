-------------------------- MODULE QuantRuntimeProps --------------------------
(***************************************************************************)
(* What the experimental quantised runtime keeps to.                         *)
(***************************************************************************)
EXTENDS QuantRuntime

decodeVars == <<controllerVars, quantVars>>

Audited ==
    \E asked \in Requests, scoring \in ScoringModes, m \in Metrics :
        DecodeStepAudited(asked, scoring, m)

\* A caller that decodes forever and gives reference logits for some audits.
Fairness == WF_decodeVars(DecodeStep) /\ SF_decodeVars(Audited)

QuantSpec == QuantInit /\ [][DecodeStep]_decodeVars /\ Fairness

(* A step scores K/V that were given for the layer and the pattern it was    *)
(* asked for, although two layers may meet at one key of the prepared cache  *)
(* and entries are never invalidated (decode_step, is_valid_for).            *)
NoForeignAnswer == answer # None => answer.scored = answer.asked

(* With the thresholds it is made with the controller never lowers a bit     *)
(* width, whatever the audits measure: no margin can exceed the one that is   *)
(* asked of a window (adaptive_controller.py:48, :55, :161).                  *)
NeverLowersByDefault ==
    [][improvement = DefaultImprovement => bits'.k >= bits.k /\ bits'.v >= bits.v]_decodeVars

(* If from some time on every audit is bad, both widths reach their maximum,  *)
(* whatever the audits before left in the counters (update, _raise_bits).     *)
LastIsBad == window # <<>> /\ Last(window) < -Recovery

DriftRaisesBits ==
    live /\ <>[]LastIsBad => <>(bits.k = MaxBits /\ bits.v = MaxBits)
=============================================================================
