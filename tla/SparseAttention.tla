--------------------------- MODULE SparseAttention ---------------------------
(***************************************************************************)
(* Which keys a query attends to (rfsn_v10/attention.py,                     *)
(* AdaptiveBlockSparseAttention.execute, and attention_reference.py): all     *)
(* that are not after it, or the tokens of the blocks that are reserved or    *)
(* score best, one selection for all heads of a batch.                       *)
(*                                                                         *)
(* Abstractions.  Scores, with what they blend and the biases they get, are   *)
(* the order they put the blocks in, best first; a tie is any order.  A ratio *)
(* is a fraction of integers.  The blocks of a selection are counted from 0,  *)
(* as are tokens; a batch and a query are an index of a sequence.             *)
(***************************************************************************)
EXTENDS Integers, Sequences, SequencesExt, FiniteSets, FiniteSetsExt, Functions

CONSTANTS
    NotCalled,
    AttentionCalls  \* [batches, queries, keys, size, ratio |-> [of, outOf], sinks, recents,
                    \*  overflow, past], all of them what _validate_inputs lets through

ASSUME CallsAssumption ==
    /\ NotCalled \notin AttentionCalls
    /\ AttentionCalls \subseteq
          [batches : Nat, queries : Nat \ {0}, keys : Nat \ {0}, size : Nat \ {0},
           ratio : [of : Nat \ {0}, outOf : Nat \ {0}], sinks : Nat, recents : Nat,
           overflow : BOOLEAN, past : BOOLEAN]

VARIABLES
    asked,      \* the call
    best,       \* by batch, its blocks in the order of their scores
    attended    \* what it returned: [mode, blocks, keys], keys by batch and query

attentionVars == <<asked, best, attended>>
-----------------------------------------------------------------------------
BlocksFor(tokens, size) == (tokens + size - 1) \div size

KeyBlocks(c) == BlocksFor(c.keys, c.size)

\* The share of the blocks a call asks for, rounded up.
Active(c) == Max({1, BlocksFor(KeyBlocks(c) * c.ratio.of, c.ratio.outOf)})

(* Why a call is answered with dense attention, or "sparse_compacted".       *)
Mode(c) ==
    IF c.ratio.of >= c.ratio.outOf THEN "dense_requested"
    ELSE IF c.keys <= c.size THEN "dense_short_context"
    ELSE IF c.queries > 1 THEN "dense_prefill"
    ELSE IF ~c.past THEN "dense_not_strictly_past"
    ELSE IF Active(c) >= KeyBlocks(c) THEN "dense_short_context"
    ELSE IF c.keys % c.size # 0 /\ c.batches > 1 THEN "dense_requested"
    ELSE "sparse_compacted"

(* The keys of query i of several: the mask is a large negative number, so a  *)
(* query without a single key of its own weighs all of them alike.           *)
Unmasked(c, i) ==
    LET last == i - 1 + c.keys - c.queries IN
    IF c.queries = 1 \/ last < 0 THEN [k \in 1 .. c.keys |-> k - 1]
    ELSE [k \in 1 .. last + 1 |-> k - 1]

Dense(c) ==
    [mode |-> Mode(c), blocks |-> KeyBlocks(c),
     keys |-> [b \in 1 .. c.batches |-> [i \in 1 .. c.queries |-> Unmasked(c, i)]]]
-----------------------------------------------------------------------------
(* One turn of a loop that collects: each value once, while there is room.    *)
Taken(limit, sofar, blk) ==
    IF blk \in ToSet(sofar) \/ Len(sofar) >= limit THEN sofar ELSE Append(sofar, blk)

FirstOf(blks, limit) == FoldLeft(LAMBDA sofar, blk : Taken(limit, sofar, blk), <<>>, blks)

(* The first blocks, then the last ones, the latest first.                   *)
Reserved(c) ==
    FirstOf([i \in 1 .. Min({c.sinks, KeyBlocks(c)}) |-> i - 1]
                \o [i \in 1 .. Min({c.recents, KeyBlocks(c)}) |-> KeyBlocks(c) - i],
            KeyBlocks(c))

Budget(c) ==
    IF c.overflow THEN Min({KeyBlocks(c), Max({Active(c), Len(Reserved(c))})}) ELSE Active(c)

\* The blocks that are candidates for their score (argpartition).
Candidates(c, order) ==
    LET reserved == Min({KeyBlocks(c), c.sinks + c.recents}) IN
    SubSeq(order, 1, IF c.overflow THEN Min({KeyBlocks(c), Max({Active(c), reserved})}) ELSE Active(c))

(* Mutant of Chosen: only scored blocks count against the budget. *)
ChosenPastReserved(c, order) ==
    FirstOf(Reserved(c) \o Candidates(c, order), Len(Reserved(c)) + Budget(c))

(* Reserved blocks first, then candidates, as long as the budget lasts.      *)
Chosen(c, order) == FirstOf(Reserved(c) \o Candidates(c, order), Budget(c))

(* A sort: the n-th smallest comes n-th.                                     *)
Sorted(s) ==
    [n \in DOMAIN s |->
        CHOOSE x \in ToSet(s) : /\ Cardinality({i \in DOMAIN s : s[i] < x}) < n
                                /\ Cardinality({i \in DOMAIN s : s[i] <= x}) >= n]

Selected(c, order) == Sorted(Chosen(c, order))

(* A batch that chose fewer blocks than another repeats its last.            *)
PaddedTo(blks, n) == [i \in 1 .. n |-> IF i <= Len(blks) THEN blks[i] ELSE Last(blks)]

Tokens(c, blks) ==
    [i \in 1 .. Len(blks) * c.size |-> (blks[BlocksFor(i, c.size)] * c.size) + ((i - 1) % c.size)]

(* The tokens that are not padding of the last block: the others are sorted   *)
(* to the end and cut off.                                                   *)
Compacted(c, tokens) ==
    SubSeq(Sorted([i \in DOMAIN tokens |-> Min({tokens[i], c.keys})]),
           1, Cardinality({i \in DOMAIN tokens : tokens[i] < c.keys}))

Sparse(c, orders) ==
    LET chosen == [b \in 1 .. c.batches |-> Selected(c, orders[b])]
        most == Max({Len(chosen[b]) : b \in 1 .. c.batches})
        tokens == [b \in 1 .. c.batches |-> Tokens(c, PaddedTo(chosen[b], most))]
        keys == IF c.batches = 1 THEN <<Compacted(c, tokens[1])>> ELSE tokens
    IN  [mode |-> "sparse_compacted",
         blocks |-> IF c.batches = 1 THEN Max({1, BlocksFor(Len(keys[1]), c.size)}) ELSE most,
         keys |-> [b \in 1 .. c.batches |-> <<keys[b]>>]]

(* The orders the blocks of a call can be in.                                *)
Orders(c) == {order \in [1 .. KeyBlocks(c) -> 0 .. KeyBlocks(c) - 1] : IsInjective(order)}

Execute(c) ==
    /\ asked = NotCalled
    /\ asked' = c
    /\ IF Mode(c) = "sparse_compacted"
       THEN \E orders \in [1 .. c.batches -> Orders(c)] :
                best' = orders /\ attended' = Sparse(c, orders)
       ELSE best' = <<>> /\ attended' = Dense(c)

(* Under pressure the memory guard makes the call raise before it starts.    *)
ExecuteRaises(c) ==
    /\ asked = NotCalled
    /\ asked' = c
    /\ UNCHANGED <<best, attended>>

AttentionInit == asked = NotCalled /\ best = <<>> /\ attended = NotCalled

AttentionNext == \E c \in AttentionCalls : Execute(c) \/ ExecuteRaises(c)
=============================================================================
