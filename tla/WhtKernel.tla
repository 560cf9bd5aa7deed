------------------------------ MODULE WhtKernel ------------------------------
(***************************************************************************)
(* One threadgroup of the Walsh-Hadamard kernel                              *)
(* (kernels/_metal_backend.py, wht_transform): a thread per element of a      *)
(* block, shared memory, and a barrier after every read and every write, in   *)
(* any interleaving the barriers allow.                                      *)
(*                                                                         *)
(* Lanes is the width of the block, 64 in the code.  The transform is not     *)
(* normalised here: the code divides by the square root of the width.        *)
(***************************************************************************)
EXTENDS Integers, Sequences, FiniteSets

CONSTANTS
    Lanes,          \* width of a block, a power of two
    Blocks          \* the blocks the kernel may be given, functions on lanes

Lane == 0 .. Lanes - 1

\* A power of two has no odd divisor but one.
ASSUME LanesAssumption ==
    /\ Lanes \in Nat /\ Lanes > 1
    /\ \A d \in 2 .. Lanes : Lanes % d = 0 => d % 2 = 0

ASSUME BlocksAssumption == Blocks \subseteq [Lane -> Int]

VARIABLES
    block,      \* x, the block of the group
    smem,       \* threadgroup memory
    lane        \* where each thread is: [at, step, a, b]

whtVars == <<block, smem, lane>>
-----------------------------------------------------------------------------
\* Bit arithmetic on lanes: step is a power of two.
HasBit(i, step) == (i \div step) % 2 = 1

Partner(i, step) == IF HasBit(i, step) THEN i - step ELSE i + step

Thread(i, at) == lane[i].at = at

(* Mutant of Barrier: nobody waits. *)
BarrierForNobody(at, next) ==
    /\ \E i \in Lane : Thread(i, at) /\ lane' = [lane EXCEPT ![i].at = next]
    /\ UNCHANGED <<block, smem>>

(* All threads leave a barrier together.                                     *)
Barrier(at, next) ==
    /\ \A i \in Lane : Thread(i, at)
    /\ lane' = [i \in Lane |-> [lane[i] EXCEPT !.at = next]]
    /\ UNCHANGED <<block, smem>>

Load(i) ==
    /\ Thread(i, "load")
    /\ smem' = [smem EXCEPT ![i] = block[i]]
    /\ lane' = [lane EXCEPT ![i].at = "loaded"]
    /\ UNCHANGED block

Read(i) ==
    /\ Thread(i, "read")
    /\ lane' = [lane EXCEPT ![i].at = "have", ![i].a = smem[i], ![i].b = smem[Partner(i, lane[i].step)]]
    /\ UNCHANGED <<block, smem>>

Write(i) ==
    /\ Thread(i, "write")
    /\ smem' = [smem EXCEPT ![i] = IF HasBit(i, lane[i].step) THEN lane[i].b - lane[i].a
                                   ELSE lane[i].a + lane[i].b]
    /\ lane' = [lane EXCEPT ![i].at = "wrote"]
    /\ UNCHANGED block

(* The barrier at the end of the loop's body, and the loop's condition.      *)
NextStep ==
    /\ \A i \in Lane : Thread(i, "wrote")
    /\ lane' = [i \in Lane |->
                  [lane[i] EXCEPT !.step = 2 * @, !.at = IF 2 * lane[i].step < Lanes THEN "read" ELSE "done"]]
    /\ UNCHANGED <<block, smem>>

WhtInit ==
    /\ block \in Blocks
    /\ smem = [i \in Lane |-> 0]
    /\ lane = [i \in Lane |-> [at |-> "load", step |-> 1, a |-> 0, b |-> 0]]

WhtNext ==
    \/ \E i \in Lane : Load(i) \/ Read(i) \/ Write(i)
    \/ Barrier("loaded", "read")
    \/ Barrier("have", "write")
    \/ NextStep
-----------------------------------------------------------------------------
(* The reference transform of the KV manager (_wht_block_recursive): the sums *)
(* of the two transformed halves, then their differences.                    *)
WhtBlock(x) ==
    LET wht[y \in Seq(Int)] ==
            IF Len(y) = 1 THEN y
            ELSE LET half == Len(y) \div 2
                     y0 == wht[SubSeq(y, 1, half)]
                     y1 == wht[SubSeq(y, half + 1, Len(y))]
                 IN  [i \in 1 .. half |-> y0[i] + y1[i]] \o [i \in 1 .. half |-> y0[i] - y1[i]]
    IN  wht[x]
=============================================================================
