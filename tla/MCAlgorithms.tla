---------------------------- MODULE MCAlgorithms ----------------------------
(* Small tensors, a kernel of four lanes and up to four blocks of keys.       *)
EXTENDS AlgorithmsProps

SmallShapes == [heads : 1 .. 2, tokens : 1 .. 5, dim : 1 .. 2]

\* The transform is linear: the unit vectors, and one block that mixes them.
MCBlocks == {[i \in 0 .. Lanes - 1 |-> IF i = j THEN 1 ELSE 0] : j \in 0 .. Lanes - 1}
            \cup {[i \in 0 .. Lanes - 1 |-> 3 * i * i + 1]}

MCCalls ==
    [batches : 1 .. 2, queries : {1}, keys : 1 .. 8, size : {2}, ratio : [of : 1 .. 4, outOf : {4}],
     sinks : 0 .. 2, recents : 0 .. 2, overflow : BOOLEAN, past : BOOLEAN]
    \cup [batches : {1}, queries : 2 .. 4, keys : 1 .. 5, size : {2}, ratio : [of : {1, 4}, outOf : {4}],
          sinks : {1}, recents : {1}, overflow : {FALSE}, past : BOOLEAN]
=============================================================================
