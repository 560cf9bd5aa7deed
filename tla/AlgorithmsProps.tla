-------------------------- MODULE AlgorithmsProps --------------------------
(***************************************************************************)
(* The store's layout, one threadgroup of the transform kernel and the choice *)
(* of the keys a query attends to.  They share no state, so a behaviour looks *)
(* at one of them, as focus says.                                            *)
(***************************************************************************)
EXTENDS BlockCodec, WhtKernel, SparseAttention

VARIABLE focus

vars == <<codecVars, whtVars, attentionVars, focus>>

Init ==
    /\ CodecInit /\ WhtInit /\ AttentionInit
    /\ focus \in {"layout", "kernel", "attention"}
    /\ focus # "kernel" => block = CHOOSE b \in Blocks : TRUE

Next ==
    \/ focus = "layout" /\ CodecNext /\ UNCHANGED <<whtVars, attentionVars, focus>>
    \/ focus = "kernel" /\ WhtNext /\ UNCHANGED <<codecVars, attentionVars, focus>>
    \/ focus = "attention" /\ AttentionNext /\ UNCHANGED <<codecVars, whtVars, focus>>

Spec == Init /\ [][Next]_vars

(* The element of the tensor that belongs at a place of what was read.       *)
Belongs(e) ==
    LET at == TokensOf(read.blks)[e.token + 1] IN
    [e EXCEPT !.token = at.blk * cache.blockSize + at.token]

(* The elements of one group of one block.                                   *)
OneGroup(codes) ==
    \E blk \in 0 .. cache.numBlocks - 1 :
        LET there == BlockElements(cache.shape, cache.blockSize, blk) IN
        \E g \in 1 .. CeilDiv(Len(there), cache.group) :
            codes = {there[i] : i \in {j \in DOMAIN there : CeilDiv(j, cache.group) = g}}

RightSign(e) ==
    read.result[e].sign = IF cache.signs THEN FlatIndex(cache.shape, Belongs(e)) ELSE None

(* The Metal route undoes the signs of a selection that is no prefix as if    *)
(* it were one (kernels/__init__.py:268).                                    *)
MisSigns == read.route = "metal" /\ read.call = "retrieve_blocks" /\ ~IsPrefix0(read.blks)

(* The sketch reads several blocks as one tensor (kv_manager.py:1190).  With  *)
(* more than one head the order is another; where a block does not fill its   *)
(* words or groups the codes after it are shifted.                           *)
Misreads ==
    /\ read.call = "sketch" /\ cache.numBlocks > 1
    /\ \/ cache.shape.heads > 1
       \/ cache.values[1] % cache.perWord # 0
       \/ cache.values[1] % cache.group # 0

(* What a read returns is, at every place, the code of the element that       *)
(* belongs there, scaled by the scale of that element's own group and freed   *)
(* of that element's own sign: for every shape, block size, packing and       *)
(* group, whole, selected or cut, but for the two cases above (store,         *)
(* retrieve, retrieve_blocks).                                               *)
ReadsExact ==
    read # None /\ ~Misreads =>
        /\ read.result # Raised
        /\ DOMAIN read.result = Places(Len(TokensOf(read.blks)))
        /\ \A e \in DOMAIN read.result :
            /\ read.result[e].code = Belongs(e)
            /\ Belongs(e) \in read.result[e].scale /\ OneGroup(read.result[e].scale)
            /\ MisSigns \/ RightSign(e)

(* Whatever the order in which the threads of the group run, the barriers     *)
(* make its shared memory the transform the KV manager computes by recursion, *)
(* up to the scaling both apply (wht_transform, _wht_block_recursive).       *)
KernelIsWHT ==
    (\A i \in Lane : Thread(i, "done")) =>
        \A i \in Lane : smem[i] = WhtBlock([j \in 1 .. Lanes |-> block[j - 1]])[i + 1]

(* The keys of a sparse query are whole blocks, each key once and none of     *)
(* them padding; the blocks keep to the budget, hold all that are reserved     *)
(* unless these alone exceed it, and beyond those no block scores worse than  *)
(* one that was left out.                                                    *)
SparseKeysRight(c, order, keys) ==
    LET there == {k \div c.size : k \in ToSet(keys)}
        kept == ToSet(Reserved(c)) IN
    /\ \A n \in 1 .. Len(keys) - 1 : keys[n] < keys[n + 1]
    /\ ToSet(keys) = {k \in 0 .. c.keys - 1 : k \div c.size \in there}
    /\ attended.blocks = Cardinality(there)
    /\ Cardinality(there) <= IF c.overflow THEN Max({Active(c), Cardinality(kept)}) ELSE Active(c)
    /\ kept \subseteq there \/ (~c.overflow /\ Cardinality(kept) > Active(c))
    /\ \A m, n \in DOMAIN order : m < n /\ order[n] \in there \ kept => order[m] \in there

(* A dense query attends to every key that is not after it and to no other,   *)
(* unless there are more queries than keys; a sparse one to the right blocks  *)
(* (execute, causal_attention_dense).                                        *)
AttendsToTheRightKeys ==
    attended # NotCalled =>
        \A b \in 1 .. asked.batches, i \in 1 .. asked.queries :
            LET keys == attended.keys[b][i] IN
            IF attended.mode = "sparse_compacted" THEN SparseKeysRight(asked, best[b], keys)
            ELSE asked.queries <= asked.keys =>
                    ToSet(keys) = {k \in 0 .. asked.keys - 1 : k - (asked.keys - asked.queries) < i}
=============================================================================
