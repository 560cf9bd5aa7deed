---------------------------- MODULE ProofSummary ----------------------------
(***************************************************************************)
(* The summary a release is shipped with (scripts/generate_proof_summary.py)  *)
(* and the check that it says what the benchmark files say                   *)
(* (scripts/check_proof_summary_consistency.py).  The files may be written    *)
(* anew in between.                                                          *)
(*                                                                         *)
(* Abstractions.  The tables are left out; the text is what it claims: the    *)
(* recommended configs and whether a speedup is proven.  A time of 0 is as    *)
(* good as none, as in both scripts.                                         *)
(***************************************************************************)
EXTENDS Integers, FiniteSets

CONSTANTS
    NoSummary,
    Tiers,          \* the configs that can be recommended, the default first
    Times           \* end-to-end times, 0 if not measured

ASSUME SummaryAssumption == Times \subseteq Nat

VARIABLES
    results,        \* the benchmark files: [real, long, time, baseline]
    summary         \* proof_summary.md

summaryVars == <<results, summary>>
-----------------------------------------------------------------------------
Tier == {Tiers[i] : i \in DOMAIN Tiers}

PracticalDefault == Tiers[1]

(* Mutant of LongPassing: only the contexts are looked at. *)
LongAlone == {c \in Tier : results.long[c] = "pass"}

(* A config passes when the real model and every context do.                 *)
LongPassing == {c \in Tier : results.real[c] = "pass" /\ results.long[c] = "pass"}

Measured(c) == results.baseline # 0 /\ results.time[c] # 0

SpeedupProven == \E c \in Tier : Measured(c) /\ results.time[c] < results.baseline

(* generate                                                                  *)
Summarised ==
    [recommended |-> LongPassing, rejected |-> Tier \ LongPassing, claimsSpeedup |-> SpeedupProven]

(* The lines the check finds in the Recommended section.  The line of the     *)
(* practical default says Recommended itself, so it is taken for the heading  *)
(* of a section and not read.                                                *)
SectionNames == summary.recommended \ {PracticalDefault}

(* check.  Its last two parts hold of whatever the repository writes and are  *)
(* left out: summary.json has no recommended_default, sparse_enabled is False *)
(* in every real-model file, and the text says sparse is disabled.           *)
Inconsistent ==
    \/ \E c \in Tier : results.long[c] \notin {"pass", "fail"}
    \/ \E c \in SectionNames : results.real[c] # "pass"
    \/ /\ summary.claimsSpeedup
       /\ \E c \in Tier : Measured(c) /\ results.time[c] >= results.baseline
-----------------------------------------------------------------------------
\* One of the benchmark files is written anew.
Benchmark ==
    /\ \/ \E real \in [Tier -> {"pass", "fail"}] : results' = [results EXCEPT !.real = real]
       \/ \E long \in [Tier -> {"pass", "fail", "error"}] : results' = [results EXCEPT !.long = long]
       \/ \E time \in [Tier -> Times], baseline \in Times :
            results' = [results EXCEPT !.time = time, !.baseline = baseline]
    /\ UNCHANGED summary

Summarise == summary' = Summarised /\ UNCHANGED results

SummaryInit ==
    /\ results = [real |-> [c \in Tier |-> "pass"], long |-> [c \in Tier |-> "pass"],
                  time |-> [c \in Tier |-> 0], baseline |-> 0]
    /\ summary = NoSummary

SummaryNext == Benchmark \/ Summarise
=============================================================================
