------------------------- MODULE MCClickHouseClient -------------------------
(* Three events, one for the audit table and two for the attention table:    *)
(* two parked events make a drain of two tables, and a third starts it.      *)
EXTENDS ClickHouseClient, TLC

CONSTANTS e1, e2, e3

MCTables == [e \in Events |-> IF e = e1 THEN "audit" ELSE "attention"]

(* A mishap is never forgotten, so a state in which neither invariant claims *)
(* anything any more has no successor worth looking at.                      *)
StillClaimed ==
    \/ mishaps \cap {"crash", "disk", "overlap", "cut", "spill", "left"} = {}
    \/ mishaps \cap {"unanswered", "partial", "overlap", "again", "disk", "kept", "crash"} = {}

(* Bound: the restarts and signals, and the kinds of mishap, that come       *)
(* together in one behaviour.                                                *)
FewFaults ==
    /\ starts + signals <= 4
    /\ Cardinality(mishaps) <= 2

EventSymmetry == Permutations(Events \ {e1})
=============================================================================
