--------------------------- MODULE ProofRegression ---------------------------
(***************************************************************************)
(* The regression gate on benchmark runs (tools/proof_regression.py, called    *)
(* by scripts/check_proof_regression.py as CI does, with strict_missing and    *)
(* without strict_absolute) against a baseline that a workflow writes anew.   *)
(*                                                                         *)
(* A run of a scenario gives each metric a number, NaN, or nothing.  Numbers  *)
(* are small integers, thresholds as well; latencies regress in per cent.     *)
(***************************************************************************)
EXTENDS Integers, FiniteSets, FiniteSetsExt

CONSTANTS
    Absent, NaN,
    Scenarios,
    Numbers,        \* what is measured
    Rules,          \* metric |-> [kind |-> latency, drop or rise, threshold]
    Floors          \* metric |-> the least value wanted, on some metrics

ASSUME RegressionAssumption ==
    /\ Numbers \subseteq Int
    /\ Rules \in [DOMAIN Rules -> [kind : {"latency", "drop", "rise"}, threshold : Int]]

VARIABLES
    baseline,       \* benchmarks/proof_baselines: a run or Absent, by scenario
    current,        \* artifacts/proof: likewise
    report          \* what the last comparison reported, Absent if out of date

regressionVars == <<baseline, current, report>>

Metrics == DOMAIN Rules
-----------------------------------------------------------------------------
(* A comparison with NaN is false, so a metric that is not a number on both   *)
(* sides breaks no rule (_get_float and the three _apply rules).             *)
Number(value) == value \in Numbers

Breaks(rule, old, new) ==
    /\ Number(old) /\ Number(new)
    /\ \/ rule.kind = "latency" /\ old > 0 /\ (new - old) * 100 > rule.threshold * old
       \/ rule.kind = "drop" /\ old - new > rule.threshold
       \/ rule.kind = "rise" /\ new - old > rule.threshold

Ran(runs) == {s \in Scenarios : runs[s] # Absent}

(* Mutant of Missing: only scenarios nobody ran before are looked for. *)
MissingExtra(old, new) == Ran(new) \ Ran(old)

Missing(old, new) == Ran(old) \ Ran(new)

(* compare_section: what is missing, and each rule on each scenario both ran. *)
Breaches(old, new) ==
    Missing(old, new)
    \cup {b \in (Ran(old) \cap Ran(new)) \X Metrics :
             Breaks(Rules[b[2]], old[b[1]][b[2]], new[b[1]][b[2]])}

(* compare_proof_dirs: a metric below its floor is a warning.                *)
Warnings(new) ==
    {m \in DOMAIN Floors : \E s \in Ran(new) : Number(new[s][m]) /\ new[s][m] < Floors[m]}

Comparison(old, new) == [breaches |-> Breaches(old, new), unsafe |-> Warnings(new) # {}]
-----------------------------------------------------------------------------
Runs == [Metrics -> Numbers \cup {Absent, NaN}]

\* run_kv_benchmarks, run_e2e_benchmarks: external, any results.
Generate ==
    /\ \E s \in Scenarios, run \in Runs \cup {Absent} : current' = [current EXCEPT ![s] = run]
    /\ report' = Absent
    /\ UNCHANGED baseline

(* check_proof_regression: a release goes on if there is no breach.          *)
Gate == report' = Comparison(baseline, current) /\ UNCHANGED <<baseline, current>>

(* refresh-proof-baseline.yml: the baseline is measured anew, then compared   *)
(* with itself.                                                              *)
Refresh ==
    /\ \E s \in Scenarios, run \in Runs :
        baseline' = [baseline EXCEPT ![s] = run]
    /\ report' = Comparison(baseline', baseline')
    /\ UNCHANGED current

RegressionInit ==
    /\ \E run \in [Metrics -> Numbers] : baseline = [s \in Scenarios |-> run]
    /\ current = [s \in Scenarios |-> Absent]
    /\ report = Absent

RegressionNext == Generate \/ Gate \/ Refresh
=============================================================================
