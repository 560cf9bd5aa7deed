-------------------------- MODULE AdaptiveController --------------------------
(***************************************************************************)
(* The live quantisation controller (runtime/adaptive_controller.py) and     *)
(* the audit that feeds it (runtime/audit.py).  Audited steps give a margin; *)
(* two bad ones raise a bit width, a good window lowers one, and nothing     *)
(* changes within an interval of the last adjustment.                        *)
(*                                                                         *)
(* Quality numbers are in units of 0.0001.  Step numbers only matter as the  *)
(* distance to the last adjustment, which is capped at the interval, and     *)
(* modulo the audit interval.                                                *)
(***************************************************************************)
EXTENDS Integers, Sequences, SequencesExt

CONSTANTS
    MinBits, MaxBits,
    StartK, StartV,
    Window,         \* quality_window_size
    Interval,       \* adjustment_interval, in decode steps
    Improvements    \* the improvement_margin a controller may be made with

ASSUME ControllerAssumption ==
    /\ {MinBits, MaxBits, StartK, StartV} \subseteq Nat
    /\ {StartK, StartV} \subseteq MinBits .. MaxBits
    /\ {Window, Interval} \subseteq Nat \ {0}
    /\ Improvements \subseteq Int

VARIABLES
    bits,           \* current_k_bits and current_v_bits
    since,          \* steps since _last_adjustment_step
    good, bad,      \* the two counters of consecutive audits
    window,         \* the margins of the last audited steps
    improvement     \* improvement_margin

controllerVars == <<bits, since, good, bad, window, improvement>>
-----------------------------------------------------------------------------
DefaultImprovement == 20
Recovery == 10

(* What an audit may measure: nothing lost, each measure under its threshold  *)
(* by less or by more than the recovery margin, a value that is not finite.   *)
Metrics ==
    LET perfect == [cosine |-> 10000, kl |-> 0, top5 |-> 10000, nan |-> FALSE] IN
    {perfect, [perfect EXCEPT !.cosine = 9985], [perfect EXCEPT !.kl = 25],
     [perfect EXCEPT !.top5 = 9400], [perfect EXCEPT !.nan = TRUE]}

Least(S) == CHOOSE x \in S : \A y \in S : x <= y

(* _compute_margin                                                           *)
Margin(m) == IF m.nan THEN -10000 ELSE Least({m.cosine - 9990, 10 - m.kl, m.top5 - 9500})

Lowered(b) ==
    IF b.k > MinBits /\ b.k >= b.v THEN [b EXCEPT !.k = @ - 1]
    ELSE IF b.v > MinBits THEN [b EXCEPT !.v = @ - 1]
    ELSE b

(* Mutant of Raised: no room for one width is taken for no room at all. *)
RaisedNeedsRoomForBoth(b) ==
    IF b.k = MaxBits \/ b.v = MaxBits THEN b
    ELSE IF b.k < b.v THEN [b EXCEPT !.k = @ + 1] ELSE [b EXCEPT !.v = @ + 1]

(* _raise_bits: the smaller width first, values when equal, else the other.  *)
Raised(b) ==
    LET raiseK == [b EXCEPT !.k = @ + 1]
        raiseV == [b EXCEPT !.v = @ + 1] IN
    IF b.k < b.v THEN (IF b.k < MaxBits THEN raiseK ELSE IF b.v < MaxBits THEN raiseV ELSE b)
    ELSE (IF b.v < MaxBits THEN raiseV ELSE IF b.k < MaxBits THEN raiseK ELSE b)

\* A margin below the recovery margin enters the window as one just below it.
Ingested(m) ==
    LET w == Append(window, IF Margin(m) < -Recovery THEN -Recovery - 1 ELSE Margin(m)) IN
    IF Len(w) > Window THEN Tail(w) ELSE w

Sum(w) == FoldSeq(LAMBDA x, y : x + y, 0, w)

(* Mutant of GoodWindow: a window is good unless a margin is negative. *)
GoodWindowNotNegative(w) == Len(w) = Window /\ \A i \in DOMAIN w : w[i] >= 0

GoodWindow(w) == Len(w) = Window /\ Sum(w) >= improvement * Window

\* The counters only matter up to the number they are compared with.
UpTo(n, limit) == IF n > limit THEN limit ELSE n

\* The distance to the last adjustment at the step that runs now.
Elapsed == UpTo(since + 1, Interval)

Adjusted(b) ==
    /\ bits' = b
    /\ since' = IF b # bits THEN 0 ELSE Elapsed

Kept == bits' = bits /\ since' = Elapsed

(* Audits within the interval only enter the window.                         *)
UpdateTooSoon(m) ==
    /\ Elapsed < Interval
    /\ Kept
    /\ UNCHANGED <<good, bad>>

UpdateBad(m) ==
    /\ Elapsed >= Interval
    /\ Margin(m) < -Recovery
    /\ bad' = UpTo(bad + 1, 2)
    /\ good' = 0
    /\ IF bad + 1 >= 2 THEN Adjusted(Raised(bits)) ELSE Kept

UpdateNotBad(m) ==
    /\ Elapsed >= Interval
    /\ Margin(m) >= -Recovery
    /\ bad' = 0
    /\ good' = IF GoodWindow(Ingested(m)) THEN UpTo(good + 1, Window)
               ELSE IF Len(Ingested(m)) < Window THEN good ELSE 0
    /\ IF GoodWindow(Ingested(m)) /\ good + 1 >= Window THEN Adjusted(Lowered(bits)) ELSE Kept

(* update: one audited step.                                                 *)
Update(m) ==
    /\ window' = Ingested(m)
    /\ UpdateTooSoon(m) \/ UpdateBad(m) \/ UpdateNotBad(m)
    /\ UNCHANGED improvement

(* A step without an audit only makes the last adjustment older.             *)
NoUpdate ==
    /\ since' = Elapsed
    /\ UNCHANGED <<bits, good, bad, window, improvement>>

ControllerInit ==
    /\ bits = [k |-> StartK, v |-> StartV]
    /\ since = 0
    /\ good = 0
    /\ bad = 0
    /\ window = <<>>
    /\ improvement \in Improvements
=============================================================================
