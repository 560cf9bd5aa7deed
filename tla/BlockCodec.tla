------------------------------ MODULE BlockCodec ------------------------------
(***************************************************************************)
(* How the KV manager lays one tensor out and reads it back (kv_manager.py,   *)
(* bitpack.py and the kernel routes in kernels/): tokens in blocks, each      *)
(* block quantised in groups and packed into words by itself, the blocks one   *)
(* after the other with an offset table; then all of them, or the selected    *)
(* ones, unpacked, scaled, and freed of the signs they were mixed with.       *)
(*                                                                         *)
(* Abstractions.  Batch and head are one index.  A code is the element it was *)
(* made from, the scale of a group is the set of the group's elements, a sign *)
(* is the flat index it is hashed from: two signs agree if and only if their  *)
(* indices do.  The Walsh-Hadamard transform stays within a token, so it is   *)
(* part of a code.  The polar modes keep no blocks and are not modelled.      *)
(* A read changes nothing another read sees, so a behaviour ends with one.    *)
(***************************************************************************)
EXTENDS Integers, Sequences, SequencesExt, FiniteSets, FiniteSetsExt, Functions

CONSTANTS
    None,
    Pad,            \* what fills up the last word
    Shapes,         \* [heads, tokens, dim] of the tensors
    BlockSizes,     \* block_size, in tokens
    CodesPerWord,   \* 32 // bits
    GroupSizes      \* group_size, in elements

\* No tensor is empty (_quantize refuses one), and the sizes are positive (__init__).
ASSUME CodecAssumption ==
    /\ Shapes \subseteq [heads : Nat \ {0}, tokens : Nat \ {0}, dim : Nat \ {0}]
    /\ BlockSizes \subseteq Nat \ {0}
    /\ CodesPerWord \subseteq Nat \ {0}
    /\ GroupSizes \subseteq Nat \ {0}

VARIABLES
    cache,      \* the stored tensor
    read        \* what the last call returned

codecVars == <<cache, read>>
-----------------------------------------------------------------------------
\* An exception: the call gave nothing.
Raised == <<>>

CeilDiv(n, m) == (n + m - 1) \div m

(* Row-major order of the elements of tokens first .. first + tokens - 1.    *)
Element(shape, first, tokens, i) ==
    [head |-> i \div (tokens * shape.dim),
     token |-> first + ((i % (tokens * shape.dim)) \div shape.dim),
     dim |-> i % shape.dim]

Elements(shape, first, tokens) ==
    [i \in 1 .. shape.heads * tokens * shape.dim |-> Element(shape, first, tokens, i - 1)]

\* The index the sign of an element is hashed from.
FlatIndex(shape, e) == (e.head * shape.tokens + e.token) * shape.dim + e.dim

(* BitPackedQuantizer.pack: the last word is filled up.                      *)
Packed(codes, perWord) ==
    [w \in 1 .. CeilDiv(Len(codes), perWord) |->
        [i \in 1 .. perWord |->
            LET at == (w - 1) * perWord + i IN IF at <= Len(codes) THEN codes[at] ELSE Pad]]

(* _quantize: one scale for each group of elements.                          *)
Scales(codes, group) ==
    [g \in 1 .. CeilDiv(Len(codes), group) |->
        {codes[i] : i \in {j \in DOMAIN codes : CeilDiv(j, group) = g}}]

(* BitPackedQuantizer.unpack                                                 *)
Unpacked(words, n, perWord) ==
    [i \in 1 .. n |-> words[CeilDiv(i, perWord)][((i - 1) % perWord) + 1]]

NumBlocks(shape, blockSize) == Max({1, CeilDiv(shape.tokens, blockSize)})

BlockEnd(shape, blockSize, blk) == Min({(blk + 1) * blockSize, shape.tokens})

BlockElements(shape, blockSize, blk) ==
    Elements(shape, blk * blockSize, BlockEnd(shape, blockSize, blk) - blk * blockSize)

(* Where each part begins, and the last one ends.                            *)
Offsets(parts) ==
    LET offset[b \in 0 .. Len(parts)] == IF b = 0 THEN 0 ELSE offset[b - 1] + Len(parts[b])
    IN  offset

Concatenated(parts) ==
    LET joined[b \in 0 .. Len(parts)] == IF b = 0 THEN <<>> ELSE joined[b - 1] \o parts[b]
    IN  joined[Len(parts)]

(* store, of a tensor the validation lets through.                           *)
Stored(shape, blockSize, perWord, group, signs) ==
    LET blocks == [b \in 1 .. NumBlocks(shape, blockSize) |-> BlockElements(shape, blockSize, b - 1)]
        words == [b \in DOMAIN blocks |-> Packed(blocks[b], perWord)]
        scales == [b \in DOMAIN blocks |-> Scales(blocks[b], group)]
    IN  [shape |-> shape, blockSize |-> blockSize, perWord |-> perWord, group |-> group,
         signs |-> signs, numBlocks |-> Len(blocks),
         packed |-> Concatenated(words), scales |-> Concatenated(scales),
         packedOffsets |-> Offsets(words), scaleOffsets |-> Offsets(scales),
         values |-> [b \in DOMAIN blocks |-> Len(blocks[b])]]
-----------------------------------------------------------------------------
(* What the reference route wants of the buffers for n codes: the words, and  *)
(* exactly the groups (_reconstruct_packed_dequant_wht).                     *)
FitsReference(words, scales, n) ==
    /\ Len(words) >= CeilDiv(n, cache.perWord)
    /\ Len(scales) = CeilDiv(n, cache.group)

(* The kernel is content with more (MetalBackend.packed_dequant).            *)
FitsKernel(words, scales, n) ==
    /\ Len(words) >= CeilDiv(n, cache.perWord)
    /\ Len(scales) >= CeilDiv(n, cache.group)

(* _reconstruct_cached_tensor on part of the buffers: n codes with the scales *)
(* of their groups, or an exception.                                         *)
Reconstructed(words, scales, n, route) ==
    IF IF route = "metal" THEN FitsKernel(words, scales, n) ELSE FitsReference(words, scales, n)
    THEN [i \in 1 .. n |->
            [code |-> Unpacked(words, n, cache.perWord)[i], scale |-> scales[CeilDiv(i, cache.group)]]]
    ELSE Raised

(* _reconstruct_block                                                        *)
Block(blk, route) ==
    Reconstructed(
        SubSeq(cache.packed, cache.packedOffsets[blk] + 1, cache.packedOffsets[blk + 1]),
        SubSeq(cache.scales, cache.scaleOffsets[blk] + 1, cache.scaleOffsets[blk + 1]),
        cache.values[blk + 1], route)

BlockTokens(blk) == BlockEnd(cache.shape, cache.blockSize, blk) - blk * cache.blockSize

(* The tokens of the blocks blks one after the other, as concatenation along  *)
(* the tokens puts them: the block and the place in it.                      *)
TokensOf(blks) ==
    Concatenated([i \in DOMAIN blks |->
                    [t \in 1 .. BlockTokens(blks[i]) |-> [blk |-> blks[i], token |-> t - 1]]])

Places(tokens) ==
    [head : 0 .. cache.shape.heads - 1, token : 0 .. tokens - 1, dim : 0 .. cache.shape.dim - 1]

Joined(blks, route) ==
    LET from == TokensOf(blks)
        block == [b \in ToSet(blks) |-> Block(b, route)] IN
    [e \in Places(Len(from)) |->
        LET at == from[e.token + 1] IN
        block[at.blk][(e.head * BlockTokens(at.blk) + at.token) * cache.shape.dim + e.dim + 1]]

BlocksRaise(blks, route) == \E b \in ToSet(blks) : Block(b, route) = Raised

AllBlocks == [i \in 1 .. cache.numBlocks |-> i - 1]

IsPrefix0(blks) == \A i \in DOMAIN blks : blks[i] = i - 1

(* The tensor, each element with the index its sign is undone with.          *)
Signed(tensor, Index(_)) ==
    [e \in DOMAIN tensor |->
        [code |-> tensor[e].code, scale |-> tensor[e].scale,
         sign |-> IF cache.signs THEN Index(e) ELSE None]]

(* _reconstruct_all_blocks: the signs of the whole tensor, counted from 0.   *)
Retrieved(route) ==
    IF BlocksRaise(AllBlocks, route) THEN Raised
    ELSE Signed(Joined(AllBlocks, route), LAMBDA e : FlatIndex(cache.shape, e))

(* The index of a place in a tensor that holds only the tokens of blks.      *)
LocalIndex(blks, e, route) == FlatIndex([cache.shape EXCEPT !.tokens = Len(TokensOf(blks))], e)

(* The index a selected element's sign is undone with.  The metal helper that *)
(* takes indices drops them and counts from 0 (kernels/__init__.py,           *)
(* apply_hash_signs_with_indices_metal).                                     *)
SelectedIndex(blks, e, route) ==
    LET at == TokensOf(blks)[e.token + 1] IN
    IF route = "metal" THEN LocalIndex(blks, e, route)
    ELSE FlatIndex(cache.shape, [e EXCEPT !.token = at.blk * cache.blockSize + at.token])

(* retrieve_blocks: a prefix is cut from the whole tensor.                   *)
RetrievedBlocks(blks, route) ==
    IF IsPrefix0(blks) THEN
        IF Retrieved(route) = Raised THEN Raised
        ELSE Restrict(Retrieved(route), {e \in DOMAIN Retrieved(route) : e.token < Len(TokensOf(blks))})
    ELSE IF BlocksRaise(blks, route) THEN Raised
    ELSE Signed(Joined(blks, route), LAMBDA e : SelectedIndex(blks, e, route))

(* The base the score correction sketches its residual against: the buffers   *)
(* of all blocks read as if they were one.                                   *)
SketchBase(route) ==
    LET shape == cache.shape
        n == shape.heads * shape.tokens * shape.dim
        flat == Reconstructed(cache.packed, cache.scales, n, route)
    IN  IF flat = Raised THEN Raised
        ELSE Signed([e \in ToSet(Elements(shape, 0, shape.tokens)) |-> flat[FlatIndex(shape, e) + 1]],
                    LAMBDA e : FlatIndex(shape, e))
-----------------------------------------------------------------------------
Routes == {"reference", "metal"}

Store(shape, blockSize, perWord, group, signs) ==
    /\ cache = None
    /\ cache' = Stored(shape, blockSize, perWord, group, signs)
    /\ UNCHANGED read

(* A kernel that fails falls back to the reference, unless metal is strict.   *)
Retrieve ==
    /\ cache # None /\ read = None
    /\ \E route \in Routes :
        read' = [call |-> "retrieve", route |-> route, blks |-> AllBlocks, result |-> Retrieved(route)]
    /\ UNCHANGED cache

(* Duplicates are dropped and the indices sorted before anything is read.    *)
Ascending(blocks) ==
    {blks \in [1 .. Cardinality(blocks) -> blocks] : \A i, j \in DOMAIN blks : i < j => blks[i] < blks[j]}

RetrieveBlocks(blocks) ==
    /\ cache # None /\ read = None
    /\ blocks # {} /\ blocks \subseteq 0 .. cache.numBlocks - 1
    /\ \E route \in Routes, blks \in Ascending(blocks) :
        read' = [call |-> "retrieve_blocks", route |-> route, blks |-> blks,
                 result |-> RetrievedBlocks(blks, route)]
    /\ UNCHANGED cache

Sketch ==
    /\ cache # None /\ read = None
    /\ \E route \in Routes :
        read' = [call |-> "sketch", route |-> route, blks |-> AllBlocks, result |-> SketchBase(route)]
    /\ UNCHANGED cache

CodecInit == cache = None /\ read = None

CodecNext ==
    \/ \E shape \in Shapes, blockSize \in BlockSizes, perWord \in CodesPerWord, group \in GroupSizes,
          signs \in BOOLEAN : Store(shape, blockSize, perWord, group, signs)
    \/ Retrieve
    \/ cache # None /\ \E blocks \in SUBSET (0 .. cache.numBlocks - 1) : RetrieveBlocks(blocks)
    \/ Sketch
=============================================================================
