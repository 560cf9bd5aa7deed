----------------------------- MODULE MemoryGuard -----------------------------
(***************************************************************************)
(* The memory guard (rfsn_v10/memory_guard.py): three flags, set from        *)
(* readings of the device memory and by the emergency mode, that the decode *)
(* step asks before it uses the cache and the sparse path.                  *)
(*                                                                         *)
(* Operators on the state of one guard.  A reading is the active memory the *)
(* device reports plus the caller's estimate; the device may report         *)
(* anything.  A missing limit is a limit above every reading.               *)
(***************************************************************************)
EXTENDS Integers

CONSTANTS
    SoftLimit,      \* soft_limit_gb in bytes
    HardLimit       \* hard_limit_gb in bytes

ASSUME GuardAssumption == SoftLimit \in Nat /\ HardLimit \in Nat

Guards == [pressure : BOOLEAN, noSparse : BOOLEAN, noQuant : BOOLEAN]

(* __init__ and exit_emergency_mode. *)
Calm == [pressure |-> FALSE, noSparse |-> FALSE, noQuant |-> FALSE]

(* enter_emergency_mode. *)
Emergency == [pressure |-> TRUE, noSparse |-> TRUE, noQuant |-> TRUE]

WithPressure(g, on) == [g EXCEPT !.pressure = on]

ShouldDisableSparse(g) == g.noSparse \/ g.pressure

(* Mutant of ShouldDisableQuantized: pressure alone does not disable. *)
DisableQuantizedInEmergency(g) == g.noQuant

ShouldDisableQuantized(g) == g.noQuant \/ g.pressure

UnderPressure(reading) == reading > HardLimit \/ reading > SoftLimit

(* check_pressure: the flag follows the reading, the emergency stays. *)
Checked(g, reading) == WithPressure(g, UnderPressure(reading))

(* enforce_safety, first half: does it ask for an eviction, and of what. *)
WantsEviction(reading) == reading <= HardLimit /\ reading > SoftLimit

EvictionTarget(reading, estimate) ==
    IF reading - SoftLimit > estimate THEN reading - SoftLimit ELSE estimate

(* enforce_safety, the flags it leaves when "freed" bytes were evicted.  A  *)
(* hard excess is an emergency at once; a soft one stays flagged after the  *)
(* eviction, however much that freed.                                       *)
Enforced(g, reading, freed) ==
    CASE reading > HardLimit          -> Emergency
      [] reading <= HardLimit /\ reading <= SoftLimit -> WithPressure(g, FALSE)
      [] WantsEviction(reading)       ->
            IF reading - freed > HardLimit THEN Emergency ELSE WithPressure(g, TRUE)
=============================================================================
