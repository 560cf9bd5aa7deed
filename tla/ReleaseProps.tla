---------------------------- MODULE ReleaseProps ----------------------------
(***************************************************************************)
(* What the scripts that decide about a release keep to: the path of a config *)
(* to its label, the summary, the regression gate.  They share no file that   *)
(* they write, so a behaviour looks at one of them, as focus says.           *)
(***************************************************************************)
EXTENDS Promotion, ProofSummary, ProofRegression

VARIABLES
    focus,
    atRows,     \* by config: the gates that were open when the rows were made
    atLabels    \* and, for what rows do not hold, when the labels were

releaseVars == <<promotionVars, summaryVars, regressionVars, focus, atRows, atLabels>>
-----------------------------------------------------------------------------
InRows == {"contexts", "memory"}

Gates == InRows \cup {"throughput", "baseline", "forced", "larger", "free"}

(* What must be true of the measurements for a gate to be open.  The two      *)
(* alternatives of "contexts" are rows of its own name and, when it has none,  *)
(* those of another config, which must be alone and must not be the baseline. *)
Open(gate, c) ==
    LET is == evidence[c] IN
    \/ /\ gate = "contexts"
       /\ \/ \A k \in Contexts : is.contexts[k] = "pass"
          \/ \A k \in Contexts : is.contexts[k] = None /\ is.otherContexts[k] = "pass"
    \/ gate = "memory" /\ is.bytes
    \/ gate = "throughput" /\ is.speed \in {1, 2} /\ ~is.slow
    \/ gate = "baseline" /\ shared.baseline = "identical"
    \/ gate = "forced" /\ "fail" \notin is.forced /\ is.forced # {"error"}
    \/ gate = "larger" /\ shared.larger # None /\ c \in shared.larger
    \/ gate = "free" /\ is.free.all >= is.free.none

OpenNow == [c \in Configs |-> {gate \in Gates : Open(gate, c)}]

ReleaseInit ==
    /\ PromotionInit /\ SummaryInit /\ RegressionInit
    /\ focus \in {"promotion", "summary", "regression"}
    /\ focus # "promotion" => evidence = [c \in Configs |-> Nothing] /\ shared = [baseline |-> None, larger |-> None, results |-> FALSE]
    /\ focus # "regression" => baseline = [s \in Scenarios |-> [m \in Metrics |-> 1]]
    /\ atRows = [c \in Configs |-> {}] /\ atLabels = atRows

Promote ==
    \/ Measure /\ UNCHANGED <<atRows, atLabels>>
    \/ Compare /\ atRows' = OpenNow /\ UNCHANGED atLabels
    \/ /\ Classify
       /\ atLabels' = [c \in Configs |-> (atRows[c] \cap InRows) \cup (OpenNow[c] \ InRows)]
       /\ UNCHANGED atRows

ReleaseNext ==
    \/ focus = "promotion" /\ Promote /\ UNCHANGED <<summaryVars, regressionVars, focus>>
    \/ focus = "summary" /\ SummaryNext /\ UNCHANGED <<promotionVars, regressionVars, focus, atRows, atLabels>>
    \/ focus = "regression" /\ RegressionNext /\ UNCHANGED <<promotionVars, summaryVars, focus, atRows, atLabels>>

ReleaseSpec == ReleaseInit /\ [][ReleaseNext]_releaseVars
-----------------------------------------------------------------------------
(* When an experimental config was labelled a candidate every gate was open,  *)
(* those of the rows when the rows were made: rows, labels and measurements   *)
(* are of different ages, and what is missing is a pass in some files and a   *)
(* failure in others (classify_configs, load_experimental_variant).          *)
EveryGateWasOpen ==
    labels # None =>
        \A c \in DOMAIN labels \ Stable : Candidate(labels[c]) => atLabels[c] = Gates

(* When rows and labels are up to date, the integrity check refuses a label   *)
(* only where benchmarks of one config disagree (the steps say degraded, the  *)
(* prompts passed), where a candidate was never run freely, or for the label  *)
(* of a decode-update issue, which has none of its words; and a row only      *)
(* where the memory file gave a ratio without the bytes or the basis it must   *)
(* rest on: the comparison recommends by the ratio alone (classify_configs,   *)
(* generate_experimental_comparison.py:216, check_release_integrity.check).  *)
RefusalIsDisagreement ==
    rows # None /\ labels # None /\ rows = Compared /\ labels = Classified =>
        /\ \A c \in RowsRefused : evidence[c].ratio # None /\ ~(evidence[c].bytes /\ evidence[c].basis)
        /\ \A c \in Refused :
            \/ "degraded" \in evidence[c].steps /\ ~ForcedFails(c)
            \/ Candidate(labels[c]) /\ FreeRows(c) = 0
            \/ labels[c].issue = "decode_update_issue"

(* The check accepts the summary that was just generated, unless one config   *)
(* is faster than the baseline and another is not, or a context benchmark     *)
(* ended in neither pass nor fail (generate, check); of a recommended_default *)
(* in summary.json and of sparse_enabled, which no script of the repository   *)
(* sets, it says nothing.                                                    *)
SummaryAgrees ==
    summary # NoSummary /\ summary = Summarised /\ Inconsistent =>
        \/ \E c \in Tier : results.long[c] = "error"
        \/ \E fast, slow \in Tier :
            0 < results.time[fast] /\ results.time[fast] < results.baseline /\ results.baseline <= results.time[slow]

(* A run the gate lets pass has every scenario of the baseline that was last  *)
(* measured and, wherever both sides are numbers, is no worse than that       *)
(* baseline by more than the rule of the metric: runs that each lose a little *)
(* cannot add up as long as nobody refreshes (compare_proof_dirs).           *)
LossesDoNotAddUp ==
    report # Absent /\ report = Comparison(baseline, current) /\ report.breaches = {} =>
        \A s \in Scenarios : baseline[s] # Absent =>
            /\ current[s] # Absent
            /\ \A m \in Metrics :
                LET old == baseline[s][m]
                    new == current[s][m]
                    limit == Rules[m].threshold
                IN  old \in Numbers /\ new \in Numbers =>
                        \/ Rules[m].kind = "latency" /\ (old <= 0 \/ 100 * new <= (100 + limit) * old)
                        \/ Rules[m].kind = "drop" /\ new >= old - limit
                        \/ Rules[m].kind = "rise" /\ new <= old + limit
=============================================================================
