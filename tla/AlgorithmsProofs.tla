-------------------------- MODULE AlgorithmsProofs --------------------------
(***************************************************************************)
(* The transform kernel, the keys of sparse attention and the store's layout. *)
(***************************************************************************)
EXTENDS AlgorithmsProps, CommonLemmas

(* Division with a rest.                                                     *)
LEMMA Euclid ==
    ASSUME NEW a \in Int, NEW b \in Int, b > 0
    PROVE  /\ a \div b \in Int /\ a % b \in Int /\ a = b * (a \div b) + (a % b)
           /\ 0 <= a % b /\ a % b < b
OBVIOUS

LEMMA NoMultipleBetween ==
    ASSUME NEW b \in Int, b > 0, NEW d \in Int, NEW r \in Int, b * d = r, r < b, 0 - b < r
    PROVE  d = 0
<1>1. CASE d >= 1
  <2>1. b * d >= b
    BY <1>1
  <2> QED
    BY <2>1
<1>2. CASE d <= 0 - 1
  <2>1. b * d <= 0 - b
    BY <1>2
  <2> QED
    BY <2>1
<1> QED
  BY <1>1, <1>2

(* The quotient and the rest are the only ones. *)
LEMMA EuclidUnique ==
    ASSUME NEW a \in Int, NEW b \in Int, b > 0, NEW q \in Int, NEW r \in Int,
           a = b * q + r, 0 <= r, r < b
    PROVE  a \div b = q /\ a % b = r
<1> DEFINE p == a \div b
           s == a % b
<1>1. p \in Int /\ s \in Int /\ a = b * p + s /\ 0 <= s /\ s < b
  BY Euclid
<1> HIDE DEF p, s
<1>2. b * (p - q) = r - s
  BY <1>1
<1>3. p - q = 0
  BY <1>1, <1>2, NoMultipleBetween
<1> QED
  BY <1>1, <1>3 DEF p, s
-----------------------------------------------------------------------------
(* The reference transform by the equation of its recursion.                 *)
FirstHalf(y) == SubSeq(y, 1, Len(y) \div 2)

SecondHalf(y) == SubSeq(y, (Len(y) \div 2) + 1, Len(y))

Combined(n, y0, y1) == [i \in 1 .. n |-> y0[i] + y1[i]] \o [i \in 1 .. n |-> y0[i] - y1[i]]

Halved(f, y) ==
    IF Len(y) = 1 THEN y ELSE Combined(Len(y) \div 2, f[FirstHalf(y)], f[SecondHalf(y)])

Solves(f, D) == f = [y \in D |-> Halved(f, y)]

UpTo(k) == {y \in Seq(Int) : Len(y) <= k}

LEMMA WhtBlockAsChoice ==
    ASSUME NEW x
    PROVE  WhtBlock(x) = (CHOOSE f : Solves(f, Seq(Int)))[x]
BY DEF WhtBlock, Solves, Halved, Combined, FirstHalf, SecondHalf

LEMMA HalvesShorter ==
    ASSUME NEW y \in Seq(Int), Len(y) > 1
    PROVE  /\ FirstHalf(y) \in Seq(Int) /\ Len(FirstHalf(y)) = Len(y) \div 2
           /\ SecondHalf(y) \in Seq(Int) /\ Len(SecondHalf(y)) = Len(y) - (Len(y) \div 2)
           /\ Len(y) \div 2 \in Nat /\ 0 < Len(y) \div 2 /\ Len(y) \div 2 < Len(y)
<1> DEFINE n == Len(y)
           h == n \div 2
<1>1. n \in Nat /\ h \in Nat /\ 0 < h /\ h < n
  BY LenProperties
<1>2. y \in [1 .. n -> Int]
  BY LenProperties
<1> HIDE DEF h, n
<1>3. /\ SubSeq(y, 1, h) \in Seq(Int) /\ Len(SubSeq(y, 1, h)) = h
      /\ SubSeq(y, h + 1, n) \in Seq(Int) /\ Len(SubSeq(y, h + 1, n)) = n - h
  <2>1. 1 \in 1 .. n + 1 /\ h \in 0 .. n /\ h + 1 \in 1 .. n + 1 /\ n \in 0 .. n
    BY <1>1
  <2>2. 1 \in 1 .. Len(y) + 1 /\ h \in 0 - 1 .. Len(y) /\ h + 1 \in 1 .. Len(y) + 1 /\ n \in 0 .. Len(y)
    BY <1>1, <2>1 DEF n
  <2> QED
    BY <1>1, <2>2, SubSeqProperties
<1> QED
  BY <1>1, <1>3 DEF FirstHalf, SecondHalf, n, h

(* What is halved depends on the two halves only. *)
LEMMA HalvedAgrees ==
    ASSUME NEW f, NEW g, NEW y \in Seq(Int),
           Len(y) > 1 => f[FirstHalf(y)] = g[FirstHalf(y)] /\ f[SecondHalf(y)] = g[SecondHalf(y)]
    PROVE  Halved(f, y) = Halved(g, y)
<1>1. CASE Len(y) > 1
  BY <1>1 DEF Halved
<1>2. CASE Len(y) = 1
  BY <1>2 DEF Halved
<1>3. CASE Len(y) = 0
  <2>1. Combined(0, f[FirstHalf(y)], f[SecondHalf(y)]) = Combined(0, g[FirstHalf(y)], g[SecondHalf(y)])
    <3>1. \A u, v : [i \in 1 .. 0 |-> u[i] + v[i]] = <<>> /\ [i \in 1 .. 0 |-> u[i] - v[i]] = <<>>
      OBVIOUS
    <3> QED
      BY <3>1 DEF Combined
  <2> QED
    BY <1>3, <2>1 DEF Halved
<1>4. Len(y) \in Nat
  BY LenProperties
<1> QED
  BY <1>1, <1>2, <1>3, <1>4

(* Two solutions agree where both are defined. *)
LEMMA SolutionsAgree ==
    ASSUME NEW D, NEW E, NEW f, NEW g, Solves(f, D), Solves(g, E),
           NEW k \in Nat, UpTo(k) \subseteq D, UpTo(k) \subseteq E
    PROVE  \A y \in UpTo(k) : f[y] = g[y]
<1> DEFINE T == {Len(y) : y \in {z \in UpTo(k) : f[z] # g[z]}}
<1>1. SUFFICES ASSUME T # {} PROVE FALSE
  OBVIOUS
<1>2. PICK y \in UpTo(k) : f[y] # g[y] /\ \A m \in T : Len(y) <= m
  <2>1. T \subseteq Nat
    BY LenProperties DEF UpTo
  <2>2. PICK n \in T : \A m \in T : n <= m
    <3> HIDE DEF T
    <3> QED
      BY <1>1, <2>1, SmallestNumber
  <2> QED
    BY <2>2
<1>3. ASSUME NEW z \in UpTo(k), Len(z) < Len(y)
      PROVE  f[z] = g[z]
  <2>1. Len(z) \in Nat /\ Len(y) \in Nat
    BY LenProperties DEF UpTo
  <2>2. f[z] # g[z] => Len(y) <= Len(z)
    BY <1>2
  <2> QED
    BY <1>3, <2>1, <2>2
<1>4. Len(y) > 1 => f[FirstHalf(y)] = g[FirstHalf(y)] /\ f[SecondHalf(y)] = g[SecondHalf(y)]
  <2> SUFFICES ASSUME Len(y) > 1 PROVE f[FirstHalf(y)] = g[FirstHalf(y)] /\ f[SecondHalf(y)] = g[SecondHalf(y)]
    OBVIOUS
  <2>1. /\ FirstHalf(y) \in UpTo(k) /\ Len(FirstHalf(y)) < Len(y)
        /\ SecondHalf(y) \in UpTo(k) /\ Len(SecondHalf(y)) < Len(y)
    BY HalvesShorter, LenProperties DEF UpTo
  <2> QED
    BY <1>3, <2>1
<1>5. Halved(f, y) = Halved(g, y)
  BY <1>4, HalvedAgrees DEF UpTo
<1>6. f[y] = Halved(f, y) /\ g[y] = Halved(g, y)
  <2>1. y \in D /\ y \in E
    OBVIOUS
  <2> QED
    BY <2>1, Zenon DEF Solves
<1> QED
  BY <1>2, <1>5, <1>6

LEMMA SolutionExtends ==
    ASSUME NEW k \in Nat, NEW f, Solves(f, UpTo(k))
    PROVE  \E g : Solves(g, UpTo(k + 1))
<1> DEFINE g == [y \in UpTo(k + 1) |-> Halved(f, y)]
<1>1. ASSUME NEW z \in UpTo(k)
      PROVE  g[z] = f[z]
  <2>1. z \in UpTo(k + 1)
    BY LenProperties DEF UpTo
  <2>2. f[z] = Halved(f, z)
    BY Zenon DEF Solves
  <2> QED
    BY <2>1, <2>2
<1>2. ASSUME NEW y \in UpTo(k + 1)
      PROVE  Halved(f, y) = Halved(g, y)
  <2>1. Len(y) > 1 => FirstHalf(y) \in UpTo(k) /\ SecondHalf(y) \in UpTo(k)
    BY HalvesShorter, LenProperties DEF UpTo
  <2> HIDE DEF g
  <2>2. y \in Seq(Int)
    BY DEF UpTo
  <2> QED
    BY <1>1, <2>1, <2>2, HalvedAgrees
<1>3. g = [y \in UpTo(k + 1) |-> Halved(g, y)]
  <2>1. \A y \in UpTo(k + 1) : g[y] = Halved(g, y)
    BY <1>2
  <2>2. g = [y \in UpTo(k + 1) |-> g[y]]
    OBVIOUS
  <2> HIDE DEF g
  <2> QED
    BY <2>1, <2>2
<1> HIDE DEF g
<1> QED
  BY <1>3 DEF Solves

LEMMA SolutionExists ==
    ASSUME NEW k \in Nat
    PROVE  \E f : Solves(f, UpTo(k))
<1> DEFINE T == {n \in Nat : ~\E f : Solves(f, UpTo(n))}
<1>1. SUFFICES ASSUME T # {} PROVE FALSE
  OBVIOUS
<1>2. PICK n \in T : \A m \in T : n <= m
  <2>1. T \subseteq Nat
    OBVIOUS
  <2> HIDE DEF T
  <2> QED
    BY <1>1, <2>1, SmallestNumber
<1>3. CASE n = 0
  <2> DEFINE f == [y \in UpTo(0) |-> Halved(y, y)]
  <2>1. ASSUME NEW y \in UpTo(0)
        PROVE  Halved(y, y) = Halved(f, y)
    <3>1. y \in Seq(Int) /\ ~(Len(y) > 1)
      BY LenProperties DEF UpTo
    <3> HIDE DEF f
    <3> QED
      BY <3>1, HalvedAgrees
  <2>2. \A y \in UpTo(0) : f[y] = Halved(f, y)
    BY <2>1
  <2>3. f = [y \in UpTo(0) |-> f[y]]
    OBVIOUS
  <2> HIDE DEF f
  <2>4. f = [y \in UpTo(0) |-> Halved(f, y)]
    BY <2>2, <2>3
  <2>5. Solves(f, UpTo(0))
    BY <2>4 DEF Solves
  <2> QED
    BY <1>2, <1>3, <2>5
<1>4. CASE n > 0
  <2>1. n - 1 \in Nat /\ n - 1 \notin T
    BY <1>2, <1>4
  <2>2. PICK f : Solves(f, UpTo(n - 1))
    BY <2>1
  <2>3. \E g : Solves(g, UpTo((n - 1) + 1))
    BY <2>1, <2>2, SolutionExtends
  <2>4. (n - 1) + 1 = n
    OBVIOUS
  <2> QED
    BY <2>3, <2>4, <1>2
<1> QED
  BY <1>2, <1>3, <1>4

(* The reference transform meets the equation of its recursion. *)
LEMMA WhtBlockStep ==
    ASSUME NEW x \in Seq(Int)
    PROVE  /\ Len(x) = 1 => WhtBlock(x) = x
           /\ Len(x) > 1 => WhtBlock(x) = Combined(Len(x) \div 2, WhtBlock(FirstHalf(x)), WhtBlock(SecondHalf(x)))
<1> DEFINE G(k) == CHOOSE f : Solves(f, UpTo(k))
           F == [y \in Seq(Int) |-> G(Len(y))[y]]
           W == CHOOSE f : Solves(f, Seq(Int))
<1>1. ASSUME NEW k \in Nat
      PROVE  Solves(G(k), UpTo(k))
  BY SolutionExists
<1>2. ASSUME NEW k \in Nat, NEW y \in UpTo(k)
      PROVE  F[y] = G(k)[y]
  <2>1. Len(y) \in Nat /\ Len(y) <= k /\ y \in Seq(Int)
    BY LenProperties DEF UpTo
  <2>2. UpTo(Len(y)) \subseteq UpTo(k)
    BY <2>1, LenProperties DEF UpTo
  <2>3. Solves(G(k), UpTo(k)) /\ Solves(G(Len(y)), UpTo(Len(y)))
    BY <1>1, <2>1
  <2>4. F[y] = G(Len(y))[y]
    BY <2>1
  <2>5. y \in UpTo(Len(y))
    BY <2>1 DEF UpTo
  <2> HIDE DEF F, G
  <2>6. G(k)[y] = G(Len(y))[y]
    BY <2>1, <2>2, <2>3, <2>5, SolutionsAgree
  <2> QED
    BY <2>4, <2>6
<1>3. ASSUME NEW y \in Seq(Int)
      PROVE  F[y] = Halved(F, y)
  <2> DEFINE k == Len(y)
  <2>1. k \in Nat /\ y \in UpTo(k)
    BY LenProperties DEF UpTo
  <2>2. Len(y) > 1 => FirstHalf(y) \in UpTo(k) /\ SecondHalf(y) \in UpTo(k)
    BY HalvesShorter, LenProperties DEF UpTo
  <2>3. G(k)[y] = Halved(G(k), y)
    <3>1. Solves(G(k), UpTo(k))
      BY <1>1, <2>1
    <3> HIDE DEF G, k
    <3> QED
      BY <2>1, <3>1, Zenon DEF Solves
  <2> HIDE DEF k, G, F
  <2>4. Halved(G(k), y) = Halved(F, y)
    BY <1>2, <2>1, <2>2, HalvedAgrees
  <2> QED
    BY <1>2, <2>1, <2>3, <2>4
<1>4. Solves(F, Seq(Int))
  <2>1. F = [y \in Seq(Int) |-> F[y]]
    OBVIOUS
  <2> HIDE DEF F
  <2>2. F = [y \in Seq(Int) |-> Halved(F, y)]
    BY <1>3, <2>1
  <2> QED
    BY <2>2 DEF Solves
<1>5. Solves(W, Seq(Int))
  <2> HIDE DEF F
  <2> QED
    BY <1>4
<1>6. \A y \in Seq(Int) : WhtBlock(y) = W[y]
  BY WhtBlockAsChoice
<1> HIDE DEF W, F, G
<1>7. W[x] = Halved(W, x)
  BY <1>5, Zenon DEF Solves
<1>8. Len(x) > 1 => WhtBlock(FirstHalf(x)) = W[FirstHalf(x)] /\ WhtBlock(SecondHalf(x)) = W[SecondHalf(x)]
  BY <1>6, HalvesShorter
<1>9. WhtBlock(x) = Halved(W, x)
  BY <1>6, <1>7
<1>10. Len(x) \in Nat
  BY LenProperties
<1>11. CASE Len(x) > 1
  <2>0. 2 \in DOMAIN x
    BY <1>10, <1>11, LenProperties
  <2>1. Len(x) # 1
    BY <2>0
  <2>2. Halved(W, x) = Combined(Len(x) \div 2, W[FirstHalf(x)], W[SecondHalf(x)])
    BY <2>1 DEF Halved
  <2> QED
    BY <1>8, <1>9, <1>11, <2>1, <2>2
<1>12. CASE ~(Len(x) > 1)
  <2>1. Len(x) = 1 => Halved(W, x) = x
    BY DEF Halved
  <2> QED
    BY <1>9, <1>12, <2>1
<1> QED
  BY <1>11, <1>12
-----------------------------------------------------------------------------
(* The part of a block that is w wide and starts at a lane, and the element    *)
(* of the transform of lane i's part: the parts of a width start at the        *)
(* multiples of it.                                                          *)
Part(x, w, from) == [j \in 1 .. w |-> x[from + j - 1]]

Level(x, w, i) == WhtBlock(Part(x, w, i - (i % w)))[(i % w) + 1]

(* What a thread read.                                                       *)
Holds(i, w) == lane[i].a = Level(block, w, i) /\ lane[i].b = Level(block, w, Partner(i, w))

Loading(w) ==
    w = 1 /\ \A i \in Lane : Thread(i, "load") \/ (Thread(i, "loaded") /\ smem[i] = block[i])

(* Nobody writes before everybody has read: the memory is at level w.        *)
Reading(w) ==
    /\ w < Lanes
    /\ \A i \in Lane : /\ smem[i] = Level(block, w, i)
                       /\ Thread(i, "read") \/ (Thread(i, "have") /\ Holds(i, w))

(* Nobody reads before everybody has written: who has is a level further.     *)
Writing(w) ==
    /\ w < Lanes
    /\ \A i \in Lane : /\ Holds(i, w)
                       /\ Thread(i, "write") \/ (Thread(i, "wrote") /\ smem[i] = Level(block, 2 * w, i))

Finished(w) ==
    w = Lanes /\ \A i \in Lane : Thread(i, "done") /\ smem[i] = Level(block, w, i)

(* The group is in one phase of one round, whose step divides the width.     *)
InRound(w) ==
    /\ \E q \in 1 .. Lanes : Lanes = w * q
    /\ \A i \in Lane : lane[i].step = w
    /\ Loading(w) \/ Reading(w) \/ Writing(w) \/ Finished(w)

Spots == {"load", "loaded", "read", "have", "write", "wrote", "done"}

KernelTypeOK ==
    /\ block \in Blocks
    /\ smem \in [Lane -> Int]
    /\ lane \in [Lane -> [at : Spots, step : Nat, a : Int, b : Int]]

(* The inductive invariant of the kernel.                                    *)
KernelInv == KernelTypeOK /\ \E w \in 1 .. Lanes : InRound(w)

(* The two halves of a part are the parts of half the width.                  *)
LEMMA PartHalves ==
    ASSUME NEW x \in [Lane -> Int], NEW w \in Nat, w >= 1, NEW from \in Nat, from + 2 * w <= Lanes
    PROVE  /\ Part(x, 2 * w, from) \in Seq(Int) /\ Len(Part(x, 2 * w, from)) = 2 * w
           /\ FirstHalf(Part(x, 2 * w, from)) = Part(x, w, from)
           /\ SecondHalf(Part(x, 2 * w, from)) = Part(x, w, from + w)
<1> DEFINE y == Part(x, 2 * w, from)
<1>1. \A j \in 1 .. 2 * w : from + j - 1 \in Lane
  BY LanesAssumption DEF Lane
<1>2. y \in [1 .. 2 * w -> Int]
  BY <1>1 DEF Part
<1>3. y \in Seq(Int) /\ Len(y) = 2 * w
  <2> HIDE DEF y
  <2> QED
    BY <1>2, FunctionIsSeq
<1>4. (2 * w) \div 2 = w
  OBVIOUS
<1>5. \A j \in 1 .. 2 * w : y[j] = x[from + j - 1]
  BY DEF Part
<1> HIDE DEF y
<1>6. FirstHalf(y) = Part(x, w, from)
  <2>1. FirstHalf(y) = [j \in 1 .. w |-> y[1 + j - 1]]
    <3>1. FirstHalf(y) = SubSeq(y, 1, w)
      BY <1>3, <1>4 DEF FirstHalf
    <3> QED
      BY <1>3, <3>1
  <2>2. \A j \in 1 .. w : y[1 + j - 1] = x[from + j - 1]
    BY <1>5
  <2> QED
    BY <2>1, <2>2 DEF Part
<1>7. SecondHalf(y) = Part(x, w, from + w)
  <2>1. SecondHalf(y) = [j \in 1 .. w |-> y[w + 1 + j - 1]]
    <3>1. SecondHalf(y) = SubSeq(y, w + 1, 2 * w)
      BY <1>3, <1>4 DEF SecondHalf
    <3>2. 2 * w - (w + 1) + 1 = w
      OBVIOUS
    <3> QED
      BY <1>3, <3>1, <3>2
  <2>2. \A j \in 1 .. w : y[w + 1 + j - 1] = x[from + w + j - 1]
    <3>1. ASSUME NEW j \in 1 .. w
          PROVE  y[w + 1 + j - 1] = x[from + w + j - 1]
      <4>1. w + j \in 1 .. 2 * w /\ w + 1 + j - 1 = w + j /\ from + w + j - 1 = from + (w + j) - 1
        OBVIOUS
      <4> QED
        BY <1>5, <4>1
    <3> QED
      BY <3>1
  <2> QED
    BY <2>1, <2>2 DEF Part
<1> QED
  BY <1>3, <1>6, <1>7 DEF y

(* The part of a lane lies in the block when its width divides the block's.   *)
LEMMA PartInBlock ==
    ASSUME NEW w \in Nat, w >= 1, NEW q \in Nat, Lanes = w * q, NEW i \in Lane
    PROVE  /\ i - (i % w) \in Nat /\ i - (i % w) + w <= Lanes
           /\ i % w \in Nat /\ i % w < w
<1> DEFINE d == i \div w
           r == i % w
<1>1. i \in Nat /\ i < Lanes
  BY LanesAssumption DEF Lane
<1>2. d \in Int /\ r \in Int /\ i = w * d + r /\ 0 <= r /\ r < w
  BY <1>1, Euclid
<1> HIDE DEF d, r
<1>3. d >= 0
  <2>1. SUFFICES ASSUME d <= 0 - 1 PROVE FALSE
    BY <1>2
  <2>2. w * d <= 0 - w
    BY <1>2, <2>1
  <2> QED
    BY <1>1, <1>2, <2>2
<1>4. w * d >= 0
  BY <1>2, <1>3
<1>5. d < q
  <2>1. SUFFICES ASSUME d >= q PROVE FALSE
    BY <1>2
  <2>2. w * d >= w * q
    BY <1>2, <2>1
  <2> QED
    BY <1>1, <1>2, <2>2
<1>6. w * (d + 1) <= w * q
  BY <1>2, <1>3, <1>5
<1>7. w * d + w <= Lanes
  BY <1>2, <1>6
<1> QED
  BY <1>1, <1>2, <1>4, <1>7 DEF r

(* Where a lane and its partner are in the part that is twice as wide: the     *)
(* same place of the two halves.                                             *)
LEMMA PartnerPlace ==
    ASSUME NEW w \in Nat, w >= 1, NEW i \in Nat
    PROVE  LET p == Partner(i, w)
               wide == i - (i % (2 * w)) IN
           /\ p \in Int /\ p % w = i % w
           /\ HasBit(i, w) => /\ i % (2 * w) = w + (i % w)
                              /\ i - (i % w) = wide + w
                              /\ p - (p % w) = wide
           /\ ~HasBit(i, w) => /\ i % (2 * w) = i % w
                               /\ i - (i % w) = wide
                               /\ p - (p % w) = wide + w
<1> DEFINE d == i \div w
           r == i % w
           e == d \div 2
           bit == d % 2
           p == Partner(i, w)
<1>1. d \in Int /\ r \in Int /\ i = w * d + r /\ 0 <= r /\ r < w
  BY Euclid
<1>2. e \in Int /\ bit \in {0, 1} /\ d = 2 * e + bit
  <2> HIDE DEF d
  <2>1. e \in Int /\ bit \in Int /\ d = 2 * e + bit /\ 0 <= bit /\ bit < 2
    BY <1>1, Euclid
  <2> HIDE DEF e, bit
  <2> QED
    BY <2>1
<1>3. HasBit(i, w) <=> bit = 1
  BY DEF HasBit
<1>4. p = IF bit = 1 THEN i - w ELSE i + w
  BY <1>3 DEF Partner
<1> HIDE DEF d, r, e, bit, p
<1>5. CASE bit = 1
  <2>1. w * d = (2 * w) * e + w
    BY <1>1, <1>2, <1>5
  <2>2. i = (2 * w) * e + (w + r)
    BY <1>1, <1>2, <2>1
  <2>3. i % (2 * w) = w + r
    <3> DEFINE m == 2 * w
               s == w + r
    <3>1. m \in Int /\ m > 0 /\ s \in Int /\ 0 <= s /\ s < m
      BY <1>1
    <3>2. i = m * e + s
      BY <2>2
    <3> HIDE DEF m, s
    <3>3. i % m = s
      BY <1>2, <3>1, <3>2, EuclidUnique
    <3> QED
      BY <3>3 DEF m, s
  <2>4. p = w * (d - 1) + r
    BY <1>1, <1>4, <1>5
  <2>5. p % w = r /\ p \in Int
    <3>1. p \in Int
      BY <1>1, <1>4, <1>5
    <3> QED
      BY <1>1, <2>4, <3>1, EuclidUnique
  <2>6. i % w = r
    BY DEF r
  <2>7. p = i - w
    BY <1>4, <1>5
  <2>8. Partner(i, w) = p
    BY DEF p
  <2>9. i - r = (i - (w + r)) + w /\ p - r = i - (w + r)
    BY <1>1, <2>7
  <2> QED
    BY <1>3, <1>5, <2>3, <2>5, <2>6, <2>8, <2>9
<1>6. CASE bit = 0
  <2>1. w * d = (2 * w) * e
    BY <1>1, <1>2, <1>6
  <2>2. i = (2 * w) * e + r
    BY <1>1, <1>2, <2>1
  <2>3. i % (2 * w) = r
    <3>1. 2 * w \in Int /\ 2 * w > 0 /\ r < 2 * w
      BY <1>1
    <3> QED
      BY <1>1, <1>2, <2>2, <3>1, EuclidUnique
  <2>4. p = w * (d + 1) + r
    BY <1>1, <1>4, <1>6
  <2>5. p % w = r /\ p \in Int
    <3>1. p \in Int
      BY <1>1, <1>4, <1>6
    <3> QED
      BY <1>1, <2>4, <3>1, EuclidUnique
  <2>6. i % w = r
    BY DEF r
  <2>7. p = i + w
    BY <1>4, <1>6
  <2>8. Partner(i, w) = p
    BY DEF p
  <2> QED
    BY <1>1, <1>3, <1>6, <2>3, <2>5, <2>6, <2>7, <2>8
<1> QED
  BY <1>2, <1>5, <1>6

LEMMA PartnerInBlock ==
    ASSUME NEW w \in Nat, w >= 1, NEW q \in Nat, Lanes = (2 * w) * q, NEW i \in Lane
    PROVE  Partner(i, w) \in Lane
<1>1. i \in Nat
  BY DEF Lane
<1>2. /\ i - (i % (2 * w)) \in Nat /\ i - (i % (2 * w)) + 2 * w <= Lanes
      /\ i % (2 * w) \in Nat /\ i % (2 * w) < 2 * w
  <2>1. 2 * w \in Nat /\ 2 * w >= 1
    OBVIOUS
  <2> QED
    BY <2>1, PartInBlock
<1>3. i % w \in Nat /\ i % w < w
  BY <1>1, Euclid
<1>4. HasBit(i, w) => i % (2 * w) = w + (i % w)
  BY <1>1, PartnerPlace
<1>5. ~HasBit(i, w) => i % (2 * w) = i % w
  BY <1>1, PartnerPlace
<1>6. CASE HasBit(i, w)
  <2>1. Partner(i, w) = i - w /\ i >= w
    BY <1>1, <1>2, <1>3, <1>4, <1>6 DEF Partner
  <2> QED
    BY <1>1, <2>1, LanesAssumption DEF Lane
<1>7. CASE ~HasBit(i, w)
  <2>1. Partner(i, w) = i + w
    BY <1>7 DEF Partner
  <2>2. i + w < Lanes
    BY <1>1, <1>2, <1>3, <1>5, <1>7, LanesAssumption
  <2> QED
    BY <1>1, <2>1, <2>2, LanesAssumption DEF Lane
<1> QED
  BY <1>6, <1>7

(* Half of twice a number is that number. *)
LEMMA HalfOfDouble ==
    ASSUME NEW n \in Nat, n >= 1
    PROVE  2 * n > 1 /\ (2 * n) \div 2 = n
OBVIOUS

(* One butterfly: a lane's element of the wider part from the two it read.    *)
LEMMA LevelDoubles ==
    ASSUME NEW x \in [Lane -> Int], NEW w \in Nat, w >= 1, NEW q \in Nat, Lanes = (2 * w) * q,
           NEW i \in Lane
    PROVE  Level(x, 2 * w, i) = IF HasBit(i, w) THEN Level(x, w, Partner(i, w)) - Level(x, w, i)
                                ELSE Level(x, w, i) + Level(x, w, Partner(i, w))
<1> DEFINE wide == i - (i % (2 * w))
           r == i % w
           p == Partner(i, w)
           y0 == WhtBlock(Part(x, w, wide))
           y1 == WhtBlock(Part(x, w, wide + w))
           sums == [k \in 1 .. w |-> y0[k] + y1[k]]
           differences == [k \in 1 .. w |-> y0[k] - y1[k]]
<1>1. i \in Nat
  BY DEF Lane
<1>2. wide \in Nat /\ wide + 2 * w <= Lanes
  <2>1. 2 * w \in Nat /\ 2 * w >= 1
    OBVIOUS
  <2> QED
    BY <2>1, PartInBlock
<1>3. r \in Nat /\ r < w
  BY <1>1, Euclid
<1>4. p % w = r
  BY <1>1, PartnerPlace
<1>5. WhtBlock(Part(x, 2 * w, wide)) = sums \o differences
  <2> DEFINE y == Part(x, 2 * w, wide)
  <2>1. y \in Seq(Int) /\ Len(y) = 2 * w /\ FirstHalf(y) = Part(x, w, wide) /\ SecondHalf(y) = Part(x, w, wide + w)
    BY <1>2, PartHalves
  <2> HIDE DEF y
  <2>2. Len(y) > 1 /\ Len(y) \div 2 = w
    BY <2>1, HalfOfDouble
  <2>3. WhtBlock(y) = Combined(w, WhtBlock(FirstHalf(y)), WhtBlock(SecondHalf(y)))
    BY <2>1, <2>2, WhtBlockStep
  <2> QED
    BY <2>1, <2>3 DEF Combined, y
<1>6. \A k \in 1 .. w : (sums \o differences)[k] = y0[k] + y1[k] /\ (sums \o differences)[w + k] = y0[k] - y1[k]
  <2> DEFINE V == {y0[k] + y1[k] : k \in 1 .. w} \cup {y0[k] - y1[k] : k \in 1 .. w}
  <2>1. sums \in [1 .. w -> V] /\ differences \in [1 .. w -> V]
    OBVIOUS
  <2>2. \A k \in 1 .. w : sums[k] = y0[k] + y1[k] /\ differences[k] = y0[k] - y1[k]
    OBVIOUS
  <2> HIDE DEF sums, differences, V
  <2>3. sums \in Seq(V) /\ differences \in Seq(V) /\ Len(sums) = w /\ Len(differences) = w
    BY <2>1, FunctionIsSeq
  <2>4. \A k \in 1 .. w : (sums \o differences)[k] = sums[k] /\ (sums \o differences)[w + k] = differences[k]
    <3>1. \A k \in 1 .. 2 * w : (sums \o differences)[k] = IF k <= w THEN sums[k] ELSE differences[k - w]
      <4>1. \A k \in 1 .. Len(sums) + Len(differences) :
               (sums \o differences)[k] = IF k <= Len(sums) THEN sums[k] ELSE differences[k - Len(sums)]
        BY <2>3, ConcatProperties
      <4>2. w + w = 2 * w
        OBVIOUS
      <4> QED
        BY <2>3, <4>1, <4>2
    <3>2. ASSUME NEW k \in 1 .. w
          PROVE  (sums \o differences)[k] = sums[k] /\ (sums \o differences)[w + k] = differences[k]
      <4>1. k \in 1 .. 2 * w /\ w + k \in 1 .. 2 * w /\ k <= w /\ ~(w + k <= w) /\ (w + k) - w = k
        OBVIOUS
      <4> QED
        BY <3>1, <4>1
    <3> QED
      BY <3>2
  <2> QED
    BY <2>2, <2>4
<1>7. r + 1 \in 1 .. w
  BY <1>3
<1>8. Level(x, 2 * w, i) = (sums \o differences)[(i % (2 * w)) + 1]
  BY <1>5 DEF Level
<1> HIDE DEF sums, differences, y0, y1, wide
<1>9. CASE HasBit(i, w)
  <2>1. i % (2 * w) = w + r /\ i - r = wide + w /\ p - (p % w) = wide
    BY <1>1, <1>9, PartnerPlace DEF wide
  <2>2. Level(x, w, i) = y1[r + 1] /\ Level(x, w, p) = y0[r + 1]
    BY <1>4, <2>1 DEF Level, y0, y1
  <2>3. Level(x, 2 * w, i) = (sums \o differences)[w + (r + 1)]
    <3>1. (w + r) + 1 = w + (r + 1)
      BY <1>3
    <3> QED
      BY <1>8, <2>1, <3>1
  <2> QED
    BY <1>6, <1>7, <1>9, <2>2, <2>3
<1>10. CASE ~HasBit(i, w)
  <2>1. i % (2 * w) = r /\ i - r = wide /\ p - (p % w) = wide + w
    BY <1>1, <1>10, PartnerPlace DEF wide
  <2>2. Level(x, w, i) = y0[r + 1] /\ Level(x, w, p) = y1[r + 1]
    BY <1>4, <2>1 DEF Level, y0, y1
  <2>3. Level(x, 2 * w, i) = (sums \o differences)[r + 1]
    BY <1>8, <2>1
  <2> QED
    BY <1>6, <1>7, <1>10, <2>2, <2>3
<1> QED
  BY <1>9, <1>10

(* A part of one lane is its element; the part of all lanes is the block.     *)
LEMMA FirstLevel ==
    ASSUME NEW x \in [Lane -> Int], NEW i \in Lane
    PROVE  Level(x, 1, i) = x[i]
<1> DEFINE y == Part(x, 1, i)
<1>1. i \in Nat /\ i % 1 = 0 /\ i - 0 = i
  BY DEF Lane
<1>2. \A j \in 1 .. 1 : x[i + j - 1] = x[i] /\ x[i + j - 1] \in Int
  <2>1. \A j \in 1 .. 1 : i + j - 1 = i
    BY <1>1
  <2> QED
    BY <2>1
<1>3. y \in [1 .. 1 -> Int] /\ y[1] = x[i]
  BY <1>2 DEF Part
<1>4. y \in Seq(Int) /\ Len(y) = 1
  <2> HIDE DEF y
  <2> QED
    BY <1>3, FunctionIsSeq
<1> HIDE DEF y
<1>5. WhtBlock(y) = y
  BY <1>4, WhtBlockStep
<1>6. Level(x, 1, i) = WhtBlock(y)[0 + 1]
  BY <1>1 DEF Level, y
<1> QED
  BY <1>3, <1>5, <1>6

LEMMA LastLevel ==
    ASSUME NEW x, NEW i \in Lane
    PROVE  Level(x, Lanes, i) = WhtBlock([j \in 1 .. Lanes |-> x[j - 1]])[i + 1]
<1>1. i % Lanes = i
  <2>1. i = Lanes * 0 + i /\ 0 <= i /\ i < Lanes /\ i \in Int /\ Lanes \in Int /\ Lanes > 0
    BY LanesAssumption DEF Lane
  <2> QED
    BY <2>1, EuclidUnique
<1>2. i - i = 0
  BY DEF Lane
<1>3. Part(x, Lanes, 0) = [j \in 1 .. Lanes |-> x[j - 1]]
  <2>1. \A j \in 1 .. Lanes : 0 + j - 1 = j - 1
    BY LanesAssumption
  <2> QED
    BY <2>1 DEF Part
<1> QED
  BY <1>1, <1>2, <1>3 DEF Level

(* A round that is not the last leaves room for another.                     *)
LEMMA NextRoundFits ==
    ASSUME NEW w \in 1 .. Lanes, NEW q \in 1 .. Lanes, Lanes = w * q, w < Lanes
    PROVE  /\ \E h \in 1 .. Lanes : q = 2 * h /\ Lanes = (2 * w) * h
           /\ 2 * w \in 1 .. Lanes
<1>1. w \in Nat /\ q \in Nat /\ w >= 1 /\ Lanes \in Nat
  BY LanesAssumption
<1>2. q # 1
  <2>1. SUFFICES ASSUME q = 1 PROVE FALSE
    OBVIOUS
  <2>2. Lanes = w
    BY <1>1, <2>1
  <2> QED
    BY <1>1, <2>2
<1>3. Lanes % q = 0
  <2>1. Lanes = q * w + 0
    BY <1>1
  <2> QED
    BY <1>1, <2>1, EuclidUnique
<1>4. q % 2 = 0
  BY <1>1, <1>2, <1>3, LanesAssumption
<1>5. PICK h \in Int : q = 2 * h
  BY <1>1, <1>4
<1>6. h \in 1 .. Lanes
  BY <1>1, <1>5
<1>7. Lanes = (2 * w) * h
  BY <1>1, <1>5, <1>6
<1>8. 2 * w <= (2 * w) * h
  BY <1>1, <1>6
<1> QED
  BY <1>1, <1>5, <1>6, <1>7, <1>8-----------------------------------------------------------------------------
LEMMA BlockType ==
    ASSUME KernelTypeOK
    PROVE  block \in [Lane -> Int] /\ 0 \in Lane
<1>1. block \in [Lane -> Int]
  BY BlocksAssumption DEF KernelTypeOK
<1>2. 0 \in Lane
  BY LanesAssumption DEF Lane
<1> QED
  BY <1>1, <1>2

(* A round that reads or writes is not the last: partners are in the block.   *)
LEMMA PartnersThere ==
    ASSUME NEW w \in 1 .. Lanes, InRound(w), w < Lanes
    PROVE  /\ \A i \in Lane : Partner(i, w) \in Lane
           /\ \E h \in Nat : Lanes = (2 * w) * h
           /\ w \in Nat /\ w >= 1 /\ 2 * w \in 1 .. Lanes
<1>1. PICK q \in 1 .. Lanes : Lanes = w * q
  BY DEF InRound
<1>2. PICK h \in 1 .. Lanes : Lanes = (2 * w) * h
  BY <1>1, NextRoundFits
<1>3. 2 * w \in 1 .. Lanes
  BY <1>1, NextRoundFits
<1>4. w \in Nat /\ w >= 1 /\ h \in Nat
  BY LanesAssumption
<1>5. \A i \in Lane : Partner(i, w) \in Lane
  BY <1>2, <1>4, PartnerInBlock
<1> QED
  BY <1>2, <1>3, <1>4, <1>5

LEMMA KernelTypeStep ==
    ASSUME KernelTypeOK, \E w \in 1 .. Lanes : InRound(w), WhtNext
    PROVE  KernelTypeOK'
<1>1. PICK w \in 1 .. Lanes : InRound(w)
  OBVIOUS
<1>2. \A i \in Lane : lane[i].step = w
  BY <1>1 DEF InRound
<1>3. w \in Nat
  BY LanesAssumption
<1>4. ASSUME NEW i \in Lane, Load(i)
      PROVE  KernelTypeOK'
  BY <1>4, BlockType DEF KernelTypeOK, Load, Spots
<1>5. ASSUME NEW i \in Lane, Read(i)
      PROVE  KernelTypeOK'
  <2>1. w < Lanes
    BY <1>1, <1>5 DEF InRound, Loading, Reading, Writing, Finished, Read, Thread
  <2>2. Partner(i, lane[i].step) \in Lane
    BY <1>1, <1>2, <2>1, PartnersThere
  <2>3. smem[i] \in Int /\ smem[Partner(i, lane[i].step)] \in Int
    BY <2>2 DEF KernelTypeOK
  <2> DEFINE a == smem[i]
             b == smem[Partner(i, lane[i].step)]
  <2>4. lane' = [lane EXCEPT ![i].at = "have", ![i].a = a, ![i].b = b]
    BY <1>5 DEF Read
  <2>5. a \in Int /\ b \in Int
    BY <2>3
  <2> HIDE DEF a, b
  <2> DEFINE Threads == [at : Spots, step : Nat, a : Int, b : Int]
  <2>6. [lane[i] EXCEPT !.at = "have", !.a = a, !.b = b] \in Threads
    BY <2>5 DEF KernelTypeOK, Spots
  <2>7. lane' = [lane EXCEPT ![i] = [lane[i] EXCEPT !.at = "have", !.a = a, !.b = b]]
    BY <2>4
  <2>8. lane' \in [Lane -> Threads]
    <3>1. lane \in [Lane -> Threads]
      BY DEF KernelTypeOK
    <3> HIDE DEF Threads
    <3> QED
      BY <2>6, <2>7, <3>1
  <2> QED
    BY <1>5, <2>8 DEF KernelTypeOK, Read
<1>6. ASSUME NEW i \in Lane, Write(i)
      PROVE  KernelTypeOK'
  <2>1. lane[i].a \in Int /\ lane[i].b \in Int
    BY DEF KernelTypeOK
  <2>2. smem' \in [Lane -> Int]
    BY <1>6, <2>1 DEF KernelTypeOK, Write
  <2>3. lane' \in [Lane -> [at : Spots, step : Nat, a : Int, b : Int]]
    BY <1>6 DEF KernelTypeOK, Write, Spots
  <2> QED
    BY <1>6, <2>2, <2>3 DEF KernelTypeOK, Write
<1>7. CASE Barrier("loaded", "read")
  BY <1>7 DEF KernelTypeOK, Barrier, Spots
<1>8. CASE Barrier("have", "write")
  BY <1>8 DEF KernelTypeOK, Barrier, Spots
<1>9. CASE NextStep
  <2>1. \A i \in Lane : 2 * lane[i].step \in Nat
    BY <1>2, <1>3
  <2> QED
    BY <1>9, <2>1 DEF KernelTypeOK, NextStep, Spots
<1> QED
  BY <1>4, <1>5, <1>6, <1>7, <1>8, <1>9 DEF WhtNext

LEMMA LoadStep ==
    ASSUME KernelTypeOK, NEW w \in 1 .. Lanes, InRound(w), NEW i \in Lane, Load(i)
    PROVE  InRound(w)'
<1>1. Loading(w)
  BY DEF InRound, Loading, Reading, Writing, Finished, Load, Thread
<1>2. \A j \in Lane : lane'[j].step = lane[j].step
  BY DEF Load, KernelTypeOK
<1>3. Loading(w)'
  <2>1. SUFFICES ASSUME NEW j \in Lane
                 PROVE  Thread(j, "load")' \/ (Thread(j, "loaded")' /\ smem'[j] = block'[j])
    BY <1>1 DEF Loading
  <2>2. CASE j = i
    BY <2>2 DEF Load, Thread, KernelTypeOK
  <2>3. CASE j # i
    BY <1>1, <2>3 DEF Loading, Load, Thread, KernelTypeOK
  <2> QED
    BY <2>2, <2>3
<1> QED
  BY <1>2, <1>3 DEF InRound

LEMMA ReadStep ==
    ASSUME KernelTypeOK, NEW w \in 1 .. Lanes, InRound(w), NEW i \in Lane, Read(i)
    PROVE  InRound(w)'
<1>1. Reading(w)
  BY DEF InRound, Loading, Reading, Writing, Finished, Read, Thread
<1>2. \A j \in Lane : lane'[j].step = lane[j].step
  BY DEF Read, KernelTypeOK
<1>3. block' = block /\ smem' = smem
  BY DEF Read
<1>4. Reading(w)'
  <2>1. SUFFICES ASSUME NEW j \in Lane
                 PROVE  Thread(j, "read")' \/ (Thread(j, "have")' /\ Holds(j, w)')
    BY <1>1, <1>3 DEF Reading
  <2>2. CASE j = i
    <3>1. Partner(i, w) \in Lane
      BY <1>1, PartnersThere DEF Reading
    <3>2. lane[i].step = w
      BY DEF InRound
    <3>3. /\ lane'[i].at = "have" /\ lane'[i].a = smem[i]
          /\ lane'[i].b = smem[Partner(i, w)]
      BY <3>2 DEF Read, KernelTypeOK
    <3>4. smem[i] = Level(block, w, i) /\ smem[Partner(i, w)] = Level(block, w, Partner(i, w))
      BY <1>1, <3>1 DEF Reading
    <3> QED
      BY <1>3, <2>2, <3>3, <3>4 DEF Holds, Thread
  <2>3. CASE j # i
    <3>1. lane'[j] = lane[j]
      BY <2>3 DEF Read, KernelTypeOK
    <3> QED
      BY <1>1, <1>3, <3>1 DEF Reading, Holds, Thread
  <2> QED
    BY <2>2, <2>3
<1> QED
  BY <1>2, <1>4 DEF InRound

LEMMA WriteStep ==
    ASSUME KernelTypeOK, NEW w \in 1 .. Lanes, InRound(w), NEW i \in Lane, Write(i)
    PROVE  InRound(w)'
<1>1. Writing(w)
  BY DEF InRound, Loading, Reading, Writing, Finished, Write, Thread
<1>2. \A j \in Lane : lane'[j].step = lane[j].step /\ lane'[j].a = lane[j].a /\ lane'[j].b = lane[j].b
  BY DEF Write, KernelTypeOK
<1>3. block' = block
  BY DEF Write
<1>4. \A j \in Lane : Holds(j, w)'
  BY <1>1, <1>2, <1>3 DEF Writing, Holds
<1>5. smem'[i] = Level(block, 2 * w, i)
  <2>1. lane[i].step = w /\ Holds(i, w)
    BY <1>1 DEF InRound, Writing
  <2>2. w \in Nat /\ w >= 1 /\ \E h \in Nat : Lanes = (2 * w) * h
    BY <1>1, PartnersThere DEF Writing
  <2>3. Level(block, 2 * w, i) = IF HasBit(i, w) THEN Level(block, w, Partner(i, w)) - Level(block, w, i)
                                 ELSE Level(block, w, i) + Level(block, w, Partner(i, w))
    BY <2>2, BlockType, LevelDoubles
  <2>4. smem'[i] = IF HasBit(i, w) THEN lane[i].b - lane[i].a ELSE lane[i].a + lane[i].b
    BY <2>1 DEF Write, KernelTypeOK
  <2> QED
    BY <2>1, <2>3, <2>4 DEF Holds
<1>6. Writing(w)'
  <2>1. SUFFICES ASSUME NEW j \in Lane
                 PROVE  Thread(j, "write")' \/ (Thread(j, "wrote")' /\ smem'[j] = Level(block, 2 * w, j)')
    BY <1>1, <1>4 DEF Writing
  <2>2. CASE j = i
    <3>1. lane'[i].at = "wrote"
      BY DEF Write, KernelTypeOK
    <3> QED
      BY <1>3, <1>5, <2>2, <3>1 DEF Thread
  <2>3. CASE j # i
    <3>1. lane'[j] = lane[j] /\ smem'[j] = smem[j]
      BY <2>3 DEF Write, KernelTypeOK
    <3> QED
      BY <1>1, <1>3, <3>1 DEF Writing, Thread
  <2> QED
    BY <2>2, <2>3
<1> QED
  BY <1>2, <1>6 DEF InRound

LEMMA LoadedStep ==
    ASSUME KernelTypeOK, NEW w \in 1 .. Lanes, InRound(w), Barrier("loaded", "read")
    PROVE  InRound(w)'
<1>1. Loading(w)
  BY BlockType DEF InRound, Loading, Reading, Writing, Finished, Barrier, Thread
<1>2. \A j \in Lane : lane'[j].step = lane[j].step /\ lane'[j].at = "read"
  BY DEF Barrier, KernelTypeOK
<1>3. \A j \in Lane : smem'[j] = Level(block', w, j)
  <2>1. \A j \in Lane : smem[j] = block[j]
    BY <1>1 DEF Loading, Barrier, Thread
  <2>2. \A j \in Lane : Level(block, 1, j) = block[j]
    BY BlockType, FirstLevel
  <2> QED
    BY <1>1, <2>1, <2>2 DEF Loading, Barrier
<1>4. Reading(w)'
  BY <1>1, <1>2, <1>3, LanesAssumption DEF Loading, Reading, Thread
<1> QED
  BY <1>2, <1>4 DEF InRound

LEMMA HaveStep ==
    ASSUME KernelTypeOK, NEW w \in 1 .. Lanes, InRound(w), Barrier("have", "write")
    PROVE  InRound(w)'
<1>1. Reading(w)
  BY BlockType DEF InRound, Loading, Reading, Writing, Finished, Barrier, Thread
<1>2. \A j \in Lane : /\ lane'[j].step = lane[j].step /\ lane'[j].at = "write"
                      /\ lane'[j].a = lane[j].a /\ lane'[j].b = lane[j].b
  BY DEF Barrier, KernelTypeOK
<1>3. \A j \in Lane : Holds(j, w)
  BY <1>1 DEF Reading, Barrier, Thread
<1>4. Writing(w)'
  BY <1>1, <1>2, <1>3 DEF Reading, Writing, Holds, Thread, Barrier
<1> QED
  BY <1>2, <1>4 DEF InRound

LEMMA NextStepStep ==
    ASSUME KernelTypeOK, NEW w \in 1 .. Lanes, InRound(w), NextStep
    PROVE  2 * w \in 1 .. Lanes /\ InRound(2 * w)'
<1>1. Writing(w)
  BY BlockType DEF InRound, Loading, Reading, Writing, Finished, NextStep, Thread
<1>2. w < Lanes
  BY <1>1 DEF Writing
<1>3. PICK q \in 1 .. Lanes : Lanes = w * q
  BY DEF InRound
<1>4. \E h \in 1 .. Lanes : Lanes = (2 * w) * h
  BY <1>2, <1>3, NextRoundFits
<1>5. 2 * w \in 1 .. Lanes
  BY <1>2, <1>3, NextRoundFits
<1>6. \A j \in Lane : /\ lane'[j].step = 2 * w
                      /\ lane'[j].at = IF 2 * w < Lanes THEN "read" ELSE "done"
  BY DEF NextStep, KernelTypeOK, InRound
<1>7. \A j \in Lane : smem'[j] = Level(block', 2 * w, j)
  BY <1>1 DEF Writing, NextStep, Thread
<1>8. CASE 2 * w < Lanes
  <2>1. Reading(2 * w)'
    BY <1>6, <1>7, <1>8 DEF Reading, Thread
  <2> QED
    BY <1>4, <1>5, <1>6, <2>1 DEF InRound
<1>9. CASE ~(2 * w < Lanes)
  <2>1. 2 * w = Lanes
    BY <1>5, <1>9, LanesAssumption
  <2>2. Finished(2 * w)'
    BY <1>6, <1>7, <1>9, <2>1 DEF Finished, Thread
  <2> QED
    BY <1>4, <1>5, <1>6, <2>2 DEF InRound
<1> QED
  BY <1>8, <1>9

LEMMA KernelInit ==
    ASSUME WhtInit
    PROVE  KernelInv
<1>1. KernelTypeOK
  BY DEF WhtInit, KernelTypeOK, Spots
<1>2. 1 \in 1 .. Lanes
  BY LanesAssumption
<1>3. Loading(1)
  BY DEF WhtInit, Loading, Thread
<1>4. Lanes = 1 * Lanes /\ Lanes \in 1 .. Lanes
  BY LanesAssumption
<1>5. \A i \in Lane : lane[i].step = 1
  BY DEF WhtInit
<1> QED
  BY <1>1, <1>2, <1>3, <1>4, <1>5 DEF KernelInv, InRound

LEMMA KernelStep ==
    ASSUME KernelInv, WhtNext
    PROVE  KernelInv'
<1>1. KernelTypeOK /\ \E w \in 1 .. Lanes : InRound(w)
  BY DEF KernelInv
<1>2. PICK w \in 1 .. Lanes : InRound(w)
  BY <1>1
<1>3. KernelTypeOK'
  BY <1>1, KernelTypeStep
<1>4. ASSUME NEW i \in Lane, Load(i) \/ Read(i) \/ Write(i)
      PROVE  InRound(w)'
  BY <1>1, <1>2, <1>4, LoadStep, ReadStep, WriteStep
<1>5. ASSUME Barrier("loaded", "read")
      PROVE  InRound(w)'
  BY <1>1, <1>2, <1>5, LoadedStep
<1>6. ASSUME Barrier("have", "write")
      PROVE  InRound(w)'
  BY <1>1, <1>2, <1>6, HaveStep
<1>7. ASSUME NextStep
      PROVE  2 * w \in 1 .. Lanes /\ InRound(2 * w)'
  BY <1>1, <1>2, <1>7, NextStepStep
<1>8. (\E v \in 1 .. Lanes : InRound(v))'
  BY <1>4, <1>5, <1>6, <1>7 DEF WhtNext
<1> QED
  BY <1>3, <1>8 DEF KernelInv

LEMMA KernelUnchanged ==
    ASSUME KernelInv, UNCHANGED whtVars
    PROVE  KernelInv'
BY DEF KernelInv, KernelTypeOK, InRound, Loading, Reading, Writing, Finished, Holds, Thread, whtVars

LEMMA KernelInvImplies ==
    ASSUME KernelInv
    PROVE  KernelIsWHT
<1>1. SUFFICES ASSUME \A i \in Lane : Thread(i, "done"), NEW i \in Lane
               PROVE  smem[i] = WhtBlock([j \in 1 .. Lanes |-> block[j - 1]])[i + 1]
  BY DEF KernelIsWHT
<1>2. PICK w \in 1 .. Lanes : InRound(w)
  BY DEF KernelInv
<1>3. Finished(w)
  BY <1>1, <1>2 DEF InRound, Loading, Reading, Writing, Finished, Thread
<1>4. smem[i] = Level(block, Lanes, i)
  BY <1>3 DEF Finished
<1> QED
  BY <1>4, LastLevel

(* For every width that is a power of two, every block of integers and every   *)
(* interleaving of the threads, the kernel computes the transform.           *)
THEOREM KernelIsTheTransform == Spec => []KernelIsWHT
<1>1. Init => KernelInv
  BY KernelInit DEF Init
<1>2. KernelInv /\ [Next]_vars => KernelInv'
  <2>1. SUFFICES ASSUME KernelInv, [Next]_vars PROVE KernelInv'
    OBVIOUS
  <2>2. WhtNext \/ UNCHANGED whtVars
    BY <2>1 DEF Next, vars
  <2> QED
    BY <2>1, <2>2, KernelStep, KernelUnchanged
<1>3. KernelInv => KernelIsWHT
  BY KernelInvImplies
<1> QED
  BY <1>1, <1>2, <1>3, PTL DEF Spec
-----------------------------------------------------------------------------
(* The greatest number of a set below a bound.                               *)
LEMMA GreatestNumber ==
    ASSUME NEW S, S # {}, NEW n \in Int, \A x \in S : x \in Int /\ x <= n
    PROVE  Max(S) \in S /\ \A x \in S : x <= Max(S)
<1> DEFINE T == {n - x : x \in S}
<1>1. T # {} /\ T \subseteq Nat
  OBVIOUS
<1>2. PICK m \in T : \A k \in T : m <= k
  <2> HIDE DEF T
  <2> QED
    BY <1>1, SmallestNumber
<1>3. PICK x \in S : m = n - x
  BY <1>2
<1>4. ASSUME NEW y \in S
      PROVE  x >= y
  <2>1. n - y \in T
    BY <1>4
  <2>2. n - x <= n - y
    BY <1>2, <1>3, <2>1
  <2> QED
    BY <1>3, <2>2
<1>5. \E z \in S : \A y \in S : z >= y
  BY <1>4
<1>6. Max(S) \in S /\ \A y \in S : Max(S) >= y
  BY <1>5 DEF Max
<1> QED
  BY <1>6

LEMMA GreaterOfTwo ==
    ASSUME NEW a \in Int, NEW b \in Int
    PROVE  Max({a, b}) = IF a >= b THEN a ELSE b
<1> DEFINE S == {a, b}
<1>1. \E z \in S : \A y \in S : z >= y
  <2>1. CASE a >= b
    BY <2>1
  <2>2. CASE b >= a
    BY <2>2
  <2> QED
    BY <2>1, <2>2
<1>2. Max(S) \in S /\ \A y \in S : Max(S) >= y
  <2> HIDE DEF S
  <2> QED
    BY <1>1 DEF Max
<1> QED
  BY <1>2

LEMMA SmallerOfTwo ==
    ASSUME NEW a \in Int, NEW b \in Int
    PROVE  Min({a, b}) = IF a <= b THEN a ELSE b
<1> DEFINE S == {a, b}
<1>1. \E z \in S : \A y \in S : z <= y
  <2>1. CASE a <= b
    BY <2>1
  <2>2. CASE b <= a
    BY <2>2
  <2> QED
    BY <2>1, <2>2
<1>2. Min(S) \in S /\ \A y \in S : Min(S) <= y
  <2> HIDE DEF S
  <2> QED
    BY <1>1 DEF Min
<1> QED
  BY <1>2

(* A sequence without repetitions has as many elements as its set.            *)
LEMMA ElementsOfInjective ==
    ASSUME NEW V, NEW s \in Seq(V)
    PROVE  /\ IsFiniteSet(ToSet(s)) /\ Cardinality(ToSet(s)) \in Nat
           /\ Cardinality(ToSet(s)) <= Len(s)
           /\ IsInjective(s) => Cardinality(ToSet(s)) = Len(s)
<1> DEFINE D == 1 .. Len(s)
           T == ToSet(s)
<1>1. Len(s) \in Nat /\ DOMAIN s = D /\ s \in [D -> V]
  BY LenProperties
<1>2. T = {s[i] : i \in D}
  BY <1>1 DEF ToSet
<1>3. IsFiniteSet(D) /\ Cardinality(D) = Len(s)
  BY <1>1, FS_Interval
<1>4. s \in Surjection(D, T)
  BY <1>1, <1>2 DEF Surjection
<1> HIDE DEF D, T
<1>5. /\ IsFiniteSet(T) /\ Cardinality(T) <= Cardinality(D)
      /\ Cardinality(T) = Cardinality(D) <=> s \in Injection(D, T)
  BY <1>3, <1>4, FS_Surjection
<1>6. Cardinality(T) \in Nat
  BY <1>5, FS_CardinalityType
<1>7. IsInjective(s) => s \in Injection(D, T)
  BY <1>1, <1>4 DEF IsInjective, Injection, Surjection
<1> QED
  BY <1>3, <1>5, <1>6, <1>7 DEF T
-----------------------------------------------------------------------------
(* The loop that collects, by the equation of its recursion.                  *)
Gathers(g, s, limit, U) ==
    g = [S \in SUBSET U |-> IF S = {} THEN <<>> ELSE Taken(limit, g[S \ {Max(S)}], s[Max(S)])]

LEMMA FirstOfAsChoice ==
    ASSUME NEW s, NEW limit
    PROVE  FirstOf(s, limit) = (CHOOSE g : Gathers(g, s, limit, DOMAIN s))[DOMAIN s]
BY DEF FirstOf, FoldLeft, MapThenFoldSet, Gathers

LEMMA GathersAgree ==
    ASSUME NEW s, NEW limit, NEW n \in Nat, NEW U, NEW V, NEW f, NEW g,
           Gathers(f, s, limit, U), Gathers(g, s, limit, V),
           NEW S \in SUBSET (1 .. n), S \subseteq U, S \subseteq V
    PROVE  f[S] = g[S]
<1> DEFINE T == {R \in SUBSET S : f[R] # g[R]}
<1>1. SUFFICES ASSUME T # {} PROVE FALSE
  OBVIOUS
<1>2. PICK R \in T : \A Q \in SUBSET R : Q # R => Q \notin T
  <2> HIDE DEF T
  <2>1. T \subseteq SUBSET S
    BY DEF T
  <2>2. IsFiniteSet(S)
    <3>1. IsFiniteSet(1 .. n)
      BY FS_Interval
    <3> QED
      BY <3>1, FS_Subset
  <2> QED
    BY <1>1, <2>1, <2>2, SmallestSet
<1>3. R \in SUBSET U /\ R \in SUBSET V
  BY <1>2
<1>4. R # {}
  BY <1>2, <1>3 DEF Gathers
<1>5. Max(R) \in R
  <2>0. R \subseteq 1 .. n
    OBVIOUS
  <2> HIDE DEF T
  <2>1. \A x \in R : x \in Int /\ x <= n
    BY <2>0
  <2> QED
    BY <1>4, <2>1, GreatestNumber
<1>6. f[R \ {Max(R)}] = g[R \ {Max(R)}]
  BY <1>2, <1>5
<1>7. /\ f[R] = Taken(limit, f[R \ {Max(R)}], s[Max(R)])
      /\ g[R] = Taken(limit, g[R \ {Max(R)}], s[Max(R)])
  BY <1>3, <1>4 DEF Gathers
<1> QED
  BY <1>2, <1>6, <1>7

LEMMA GathersExtend ==
    ASSUME NEW s, NEW limit, NEW n \in Nat, NEW U \in SUBSET (1 .. n),
           \A V \in SUBSET U : V # U => \E g : Gathers(g, s, limit, V)
    PROVE  \E g : Gathers(g, s, limit, U)
<1> DEFINE G(V) == CHOOSE g : Gathers(g, s, limit, V)
           rest(S) == S \ {Max(S)}
           h == [S \in SUBSET U |-> IF S = {} THEN <<>>
                                    ELSE Taken(limit, G(rest(S))[rest(S)], s[Max(S)])]
<1>1. ASSUME NEW V \in SUBSET U, V # U
      PROVE  Gathers(G(V), s, limit, V)
  BY <1>1
<1>2. ASSUME NEW S \in SUBSET U, S # {}
      PROVE  rest(S) \in SUBSET U /\ rest(S) # U /\ rest(S) \in SUBSET S
  <2>1. \A x \in S : x \in Int /\ x <= n
    OBVIOUS
  <2>2. Max(S) \in S
    <3>1. n \in Int /\ S # {}
      BY <1>2
    <3> QED
      BY ONLY <2>1, <3>1, GreatestNumber
  <2> QED
    BY <2>2
<1>3. ASSUME NEW V \in SUBSET U, V # U
      PROVE  h[V] = G(V)[V]
  <2>1. Gathers(G(V), s, limit, V)
    BY <1>1, <1>3
  <2>2. CASE V = {}
    <3>1. G(V)[V] = <<>>
      <4> HIDE DEF G
      <4> QED
        BY <2>1, <2>2 DEF Gathers
    <3> QED
      BY <2>2, <3>1
  <2>3. CASE V # {}
    <3>1. G(V)[V] = Taken(limit, G(V)[rest(V)], s[Max(V)])
      <4> HIDE DEF G
      <4> QED
        BY <2>1, <2>3 DEF Gathers
    <3>2. Gathers(G(rest(V)), s, limit, rest(V)) /\ rest(V) \in SUBSET (1 .. n)
      BY <1>1, <1>2, <2>3
    <3>3. G(V)[rest(V)] = G(rest(V))[rest(V)]
      <4> DEFINE a == G(V)
                 R == rest(V)
                 b == G(R)
      <4>1. R \subseteq V /\ R \subseteq R /\ R \in SUBSET (1 .. n)
        BY <3>2
      <4>2. Gathers(a, s, limit, V) /\ Gathers(b, s, limit, R)
        BY <2>1, <3>2
      <4>3. n \in Nat
        OBVIOUS
      <4> HIDE DEF a, b, R
      <4>4. a[R] = b[R]
        BY ONLY <4>1, <4>2, <4>3, GathersAgree
      <4> QED
        BY <4>4 DEF a, b, R
    <3>4. h[V] = Taken(limit, G(rest(V))[rest(V)], s[Max(V)])
      BY <2>3
    <3> HIDE DEF h, G
    <3> QED
      BY <3>1, <3>3, <3>4
  <2> QED
    BY <2>2, <2>3
<1>4. ASSUME NEW S \in SUBSET U, S # {}
      PROVE  h[S] = Taken(limit, h[rest(S)], s[Max(S)])
  <2>1. h[rest(S)] = G(rest(S))[rest(S)]
    <3>1. rest(S) \in SUBSET U /\ rest(S) # U
      BY <1>2, <1>4
    <3> HIDE DEF h, G, rest
    <3> QED
      BY <1>3, <3>1
  <2>2. h[S] = Taken(limit, G(rest(S))[rest(S)], s[Max(S)])
    BY <1>4
  <2> HIDE DEF h, G, rest
  <2> QED
    BY <2>1, <2>2
<1>5. Gathers(h, s, limit, U)
  <2>1. h = [S \in SUBSET U |-> h[S]]
    OBVIOUS
  <2>2. h[{}] = <<>>
    OBVIOUS
  <2> HIDE DEF h
  <2>3. \A S \in SUBSET U : h[S] = IF S = {} THEN <<>> ELSE Taken(limit, h[rest(S)], s[Max(S)])
    BY <1>4, <2>2
  <2> QED
    BY <2>1, <2>3 DEF Gathers
<1> QED
  BY <1>5

LEMMA GathersExists ==
    ASSUME NEW s, NEW limit, NEW n \in Nat
    PROVE  \E g : Gathers(g, s, limit, 1 .. n)
<1> DEFINE T == {V \in SUBSET (1 .. n) : ~\E g : Gathers(g, s, limit, V)}
<1>1. SUFFICES ASSUME T # {} PROVE FALSE
  OBVIOUS
<1>2. PICK V \in T : \A Q \in SUBSET V : Q # V => Q \notin T
  <2> HIDE DEF T
  <2>1. T \subseteq SUBSET (1 .. n)
    BY DEF T
  <2>2. IsFiniteSet(1 .. n)
    BY FS_Interval
  <2> QED
    BY <1>1, <2>1, <2>2, SmallestSet
<1>3. \A Q \in SUBSET V : Q # V => \E g : Gathers(g, s, limit, Q)
  BY <1>2
<1>4. V \in SUBSET (1 .. n)
  BY <1>2
<1>5. \E g : Gathers(g, s, limit, V)
  <2> HIDE DEF T
  <2> QED
    BY <1>3, <1>4, GathersExtend
<1> QED
  BY <1>2, <1>5

LEMMA GreatestOfInterval ==
    ASSUME NEW n \in Nat, NEW k \in 1 .. n
    PROVE  Max(1 .. k) = k
<1> DEFINE S == 1 .. k
<1>1. k \in Int /\ k >= 1
  OBVIOUS
<1>2. k \in S /\ S # {}
  BY ONLY <1>1
<1>3. \A x \in S : x \in Int /\ x <= k
  BY ONLY <1>1
<1> HIDE DEF S
<1>4. Max(S) \in S /\ \A x \in S : x <= Max(S)
  BY ONLY <1>1, <1>2, <1>3, GreatestNumber
<1>5. Max(S) \in Int /\ Max(S) <= k /\ k <= Max(S)
  BY ONLY <1>2, <1>3, <1>4
<1>6. Max(S) = k
  BY ONLY <1>1, <1>5
<1> QED
  BY ONLY <1>6 DEF S

(* What the loop has collected after each of its turns.                      *)
Turns(w, n, s, limit) ==
    /\ w[0] = <<>>
    /\ \A k \in 1 .. n : w[k] = Taken(limit, w[k - 1], s[k])

LEMMA FirstOfTurns ==
    ASSUME NEW n \in Nat, NEW s, DOMAIN s = 1 .. n, NEW limit
    PROVE  \E w : Turns(w, n, s, limit) /\ FirstOf(s, limit) = w[n]
<1> DEFINE g == CHOOSE f : Gathers(f, s, limit, 1 .. n)
           w == [k \in 0 .. n |-> g[1 .. k]]
<1>1. Gathers(g, s, limit, 1 .. n)
  BY GathersExists
<1>2. FirstOf(s, limit) = g[1 .. n]
  BY FirstOfAsChoice
<1> HIDE DEF g
<1>3. w[0] = <<>>
  <2>1. 1 .. 0 = {} /\ {} \in SUBSET (1 .. n)
    OBVIOUS
  <2>2. g[{}] = <<>>
    BY <1>1, <2>1 DEF Gathers
  <2> QED
    BY <2>1, <2>2
<1>4. ASSUME NEW k \in 1 .. n
      PROVE  w[k] = Taken(limit, w[k - 1], s[k])
  <2>1. 1 .. k \in SUBSET (1 .. n) /\ 1 .. k # {} /\ (1 .. k) \ {k} = 1 .. (k - 1)
    OBVIOUS
  <2>2. Max(1 .. k) = k
    BY GreatestOfInterval
  <2>3. g[1 .. k] = Taken(limit, g[(1 .. k) \ {Max(1 .. k)}], s[Max(1 .. k)])
    BY <1>1, <2>1 DEF Gathers
  <2>4. w[k] = g[1 .. k] /\ w[k - 1] = g[1 .. (k - 1)]
    OBVIOUS
  <2> HIDE DEF w
  <2> QED
    BY <2>1, <2>2, <2>3, <2>4
<1>5. w[n] = g[1 .. n]
  OBVIOUS
<1> HIDE DEF w
<1> QED
  BY <1>2, <1>3, <1>4, <1>5 DEF Turns
LEMMA AppendNew ==
    ASSUME NEW V, NEW q \in Seq(V), IsInjective(q), NEW x \in V, x \notin ToSet(q)
    PROVE  /\ Append(q, x) \in Seq(V) /\ IsInjective(Append(q, x))
           /\ Len(Append(q, x)) = Len(q) + 1
           /\ ToSet(Append(q, x)) = ToSet(q) \cup {x}
<1> DEFINE r == Append(q, x)
           n == Len(q)
<1>1. /\ r \in Seq(V) /\ Len(r) = n + 1 /\ r[n + 1] = x
      /\ \A i \in 1 .. n : r[i] = q[i]
  BY AppendProperties
<1>2. n \in Nat /\ DOMAIN q = 1 .. n /\ DOMAIN r = 1 .. (n + 1)
  BY <1>1, LenProperties
<1> HIDE DEF r, n
<1>3. \A i \in 1 .. n : q[i] # x
  BY <1>2 DEF ToSet
<1>4. \A i, j \in 1 .. n : q[i] = q[j] => i = j
  BY <1>2 DEF IsInjective
<1>5. \A i \in 1 .. (n + 1) : i \in 1 .. n \/ i = n + 1
  BY <1>2
<1>6. ASSUME NEW i \in 1 .. (n + 1), NEW j \in 1 .. (n + 1), r[i] = r[j]
      PROVE  i = j
  BY <1>1, <1>3, <1>4, <1>5, <1>6
<1>7. IsInjective(r)
  BY <1>2, <1>6 DEF IsInjective
<1>8. ToSet(r) = ToSet(q) \cup {x}
  <2>1. ToSet(r) \subseteq ToSet(q) \cup {x}
    BY <1>1, <1>2, <1>5 DEF ToSet
  <2>2. n + 1 \in 1 .. (n + 1) /\ \A i \in 1 .. n : i \in 1 .. (n + 1)
    BY <1>2
  <2>3. ToSet(q) \cup {x} \subseteq ToSet(r)
    BY <1>1, <1>2, <2>2 DEF ToSet
  <2> QED
    BY <2>1, <2>3
<1> QED
  BY <1>1, <1>7, <1>8 DEF r, n

(* The values at the places up to m.                                         *)
Firsts(s, m) == {s[i] : i \in 1 .. m}

(* After k turns: each value once, none but the first k, within the limit; and *)
(* from any shorter prefix all the values, unless the limit was met by then.   *)
Gathered(q, V, s, limit, k) ==
    /\ q \in Seq(V) /\ IsInjective(q) /\ Len(q) <= limit
    /\ ToSet(q) \subseteq Firsts(s, k)
    /\ \A m \in 0 .. k : \/ Firsts(s, m) \subseteq ToSet(q)
                         \/ Len(q) = limit /\ ToSet(q) \subseteq Firsts(s, m)

LEMMA GatheredTurn ==
    ASSUME NEW V, NEW n \in Nat, NEW s \in [1 .. n -> V], NEW limit \in Nat, NEW k \in 1 .. n, NEW q,
           Gathered(q, V, s, limit, k - 1)
    PROVE  Gathered(Taken(limit, q, s[k]), V, s, limit, k)
<1> DEFINE x == s[k]
           old == Firsts(s, k - 1)
           new == Firsts(s, k)
<1>1. q \in Seq(V) /\ IsInjective(q) /\ Len(q) <= limit /\ Len(q) \in Nat /\ ToSet(q) \subseteq old
  BY LenProperties DEF Gathered
<1>2. \A m \in 0 .. k - 1 : \/ Firsts(s, m) \subseteq ToSet(q)
                            \/ Len(q) = limit /\ ToSet(q) \subseteq Firsts(s, m)
  BY DEF Gathered
<1>3. new = old \cup {x}
  <2>1. 1 .. k = (1 .. (k - 1)) \cup {k}
    OBVIOUS
  <2> QED
    BY <2>1 DEF Firsts
<1>4. x \in V
  OBVIOUS
<1>5. \A m \in 0 .. k : m \in 0 .. k - 1 \/ m = k
  OBVIOUS
<1>6. k - 1 \in 0 .. k - 1 /\ k \in 0 .. k
  OBVIOUS
<1> HIDE DEF x, old, new
<1>7. CASE x \in ToSet(q)
  <2>1. Taken(limit, q, x) = q
    BY <1>7 DEF Taken
  <2>2. ToSet(q) \subseteq new
    BY <1>1, <1>3
  <2>3. \/ new \subseteq ToSet(q)
        \/ Len(q) = limit /\ ToSet(q) \subseteq new
    BY <1>2, <1>3, <1>6, <1>7 DEF old
  <2> QED
    BY <1>1, <1>2, <1>5, <2>1, <2>2, <2>3 DEF Gathered, x, new
<1>8. CASE Len(q) >= limit
  <2>1. Taken(limit, q, x) = q
    BY <1>8 DEF Taken
  <2>2. ToSet(q) \subseteq new
    BY <1>1, <1>3
  <2>3. Len(q) = limit
    BY <1>1, <1>8
  <2> QED
    BY <1>1, <1>2, <1>5, <2>1, <2>2, <2>3 DEF Gathered, x, new
<1>9. CASE x \notin ToSet(q) /\ ~(Len(q) >= limit)
  <2> DEFINE r == Append(q, x)
  <2>1. Taken(limit, q, x) = r
    BY <1>9 DEF Taken
  <2>2. r \in Seq(V) /\ IsInjective(r) /\ Len(r) = Len(q) + 1 /\ ToSet(r) = ToSet(q) \cup {x}
    BY <1>1, <1>4, <1>9, AppendNew
  <2> HIDE DEF r
  <2>3. Len(r) <= limit
    BY <1>1, <1>9, <2>2
  <2>4. \A m \in 0 .. k - 1 : Firsts(s, m) \subseteq ToSet(q)
    BY <1>1, <1>2, <1>9
  <2>5. ToSet(r) \subseteq new
    BY <1>1, <1>3, <2>2
  <2>6. new \subseteq ToSet(r)
    BY <1>3, <1>6, <2>2, <2>4 DEF old
  <2> QED
    BY <1>5, <2>1, <2>2, <2>3, <2>4, <2>5, <2>6 DEF Gathered, x, new
<1> QED
  BY <1>7, <1>8, <1>9 DEF x

LEMMA FirstOfGathered ==
    ASSUME NEW V, NEW n \in Nat, NEW s \in [1 .. n -> V], NEW limit \in Nat
    PROVE  Gathered(FirstOf(s, limit), V, s, limit, n)
<1>1. PICK w : Turns(w, n, s, limit) /\ FirstOf(s, limit) = w[n]
  BY FirstOfTurns
<1> DEFINE T == {k \in 0 .. n : ~Gathered(w[k], V, s, limit, k)}
<1>2. SUFFICES ASSUME T # {} PROVE FALSE
  BY <1>1
<1>3. PICK k \in T : \A m \in T : k <= m
  <2>1. T \subseteq Nat
    OBVIOUS
  <2> HIDE DEF T
  <2> QED
    BY <1>2, <2>1, SmallestNumber
<1>4. CASE k = 0
  <2>1. w[0] = <<>>
    BY <1>1 DEF Turns
  <2>2. <<>> \in Seq(V) /\ Len(<<>>) = 0 /\ ToSet(<<>>) = {} /\ IsInjective(<<>>)
    BY EmptySeq DEF ToSet, IsInjective
  <2>3. \A m \in 0 .. 0 : Firsts(s, m) = {}
    <3>1. 1 .. 0 = {}
      OBVIOUS
    <3> QED
      BY <3>1 DEF Firsts
  <2>4. Gathered(<<>>, V, s, limit, 0)
    BY <2>2, <2>3 DEF Gathered
  <2> QED
    BY <1>3, <1>4, <2>1, <2>4
<1>5. CASE k # 0
  <2>1. k \in 1 .. n /\ k - 1 \in 0 .. n /\ k - 1 \notin T
    <3>1. k \in 1 .. n /\ k - 1 \in 0 .. n /\ ~(k <= k - 1)
      BY <1>5
    <3> HIDE DEF T
    <3> QED
      BY <1>3, <3>1
  <2>2. Gathered(w[k - 1], V, s, limit, k - 1)
    BY <2>1
  <2>3. w[k] = Taken(limit, w[k - 1], s[k])
    BY <1>1, <2>1 DEF Turns
  <2>4. Gathered(w[k], V, s, limit, k)
    BY <2>1, <2>2, <2>3, GatheredTurn
  <2> QED
    BY <1>3, <2>4
<1> QED
  BY <1>4, <1>5
-----------------------------------------------------------------------------
(* The ranks of the values of a sequence of numbers.                         *)
Below(s, x) == {i \in DOMAIN s : s[i] < x}

UpTill(s, x) == {i \in DOMAIN s : s[i] <= x}

Ranked(s, n, x) == x \in ToSet(s) /\ Cardinality(Below(s, x)) < n /\ Cardinality(UpTill(s, x)) >= n

LEMMA RanksFinite ==
    ASSUME NEW s \in Seq(Int), NEW x
    PROVE  /\ IsFiniteSet(Below(s, x)) /\ Cardinality(Below(s, x)) \in Nat
           /\ IsFiniteSet(UpTill(s, x)) /\ Cardinality(UpTill(s, x)) \in Nat
<1>1. IsFiniteSet(DOMAIN s)
  <2>1. DOMAIN s = 1 .. Len(s) /\ Len(s) \in Nat
    BY LenProperties
  <2>2. IsFiniteSet(1 .. Len(s))
    BY <2>1, FS_Interval
  <2> QED
    BY <2>1, <2>2
<1>2. Below(s, x) \in SUBSET (DOMAIN s) /\ UpTill(s, x) \in SUBSET (DOMAIN s)
  BY DEF Below, UpTill
<1> QED
  BY <1>1, <1>2, FS_Subset, FS_CardinalityType

(* A value of a smaller rank is smaller. *)
LEMMA RankOrder ==
    ASSUME NEW s \in Seq(Int), NEW m \in Int, NEW n \in Int, m <= n, NEW x, NEW y,
           Ranked(s, m, x), Ranked(s, n, y)
    PROVE  x <= y
<1>1. x \in Int /\ y \in Int
  <2>1. \A i \in DOMAIN s : s[i] \in Int
    BY LenProperties
  <2> QED
    BY <2>1 DEF Ranked, ToSet
<1>2. SUFFICES ASSUME y < x PROVE FALSE
  BY <1>1
<1>3. UpTill(s, y) \in SUBSET Below(s, x)
  <2>1. \A i \in DOMAIN s : s[i] \in Int
    BY LenProperties
  <2> QED
    BY <1>1, <1>2, <2>1 DEF UpTill, Below
<1>4. Cardinality(UpTill(s, y)) <= Cardinality(Below(s, x))
  BY <1>3, RanksFinite, FS_Subset
<1>5. Cardinality(UpTill(s, y)) >= n /\ Cardinality(Below(s, x)) < m
  BY DEF Ranked
<1>6. Cardinality(UpTill(s, y)) \in Nat /\ Cardinality(Below(s, x)) \in Nat
  BY RanksFinite
<1> QED
  BY <1>4, <1>5, <1>6

LEMMA RankExists ==
    ASSUME NEW s \in Seq(Int), NEW n \in DOMAIN s
    PROVE  \E x : Ranked(s, n, x)
<1>1. Len(s) \in Nat /\ DOMAIN s = 1 .. Len(s) /\ (\A i \in DOMAIN s : s[i] \in Int)
  BY LenProperties
<1>2. IsFiniteSet(DOMAIN s) /\ Cardinality(DOMAIN s) = Len(s)
  <2> DEFINE l == Len(s)
  <2>1. l \in Nat /\ DOMAIN s = 1 .. l
    BY <1>1
  <2> HIDE DEF l
  <2>2. IsFiniteSet(1 .. l) /\ Cardinality(1 .. l) = l
    BY <2>1, FS_Interval
  <2> QED
    BY <2>1, <2>2 DEF l
<1> DEFINE T == {Cardinality(UpTill(s, s[i])) : i \in {j \in DOMAIN s : Cardinality(UpTill(s, s[j])) >= n}}
<1>3. T \subseteq Nat
  BY RanksFinite
<1>4. ASSUME NEW A \in SUBSET (DOMAIN s), A # {}
      PROVE  \E i \in A : \A j \in A : s[j] <= s[i]
  <2> DEFINE C == {Cardinality(Below(s, s[i])) : i \in A}
  <2>1. C \subseteq Nat /\ C # {}
    BY <1>4, RanksFinite
  <2>2. \A k \in C : k <= Len(s)
    <3>1. \A i \in A : Below(s, s[i]) \in SUBSET (DOMAIN s)
      BY DEF Below
    <3> QED
      BY <1>2, <3>1, FS_Subset
  <2>3. Max(C) \in C /\ \A k \in C : k <= Max(C)
    <3>1. \A k \in C : k \in Int /\ k <= Len(s)
      BY <2>1, <2>2
    <3>2. C # {} /\ Len(s) \in Int
      BY <1>1, <2>1
    <3> HIDE DEF C
    <3> QED
      BY ONLY <3>1, <3>2, GreatestNumber
  <2>4. PICK i \in A : Max(C) = Cardinality(Below(s, s[i]))
    BY <2>3
  <2>5. ASSUME NEW j \in A, s[i] < s[j]
        PROVE  FALSE
    <3>1. s[i] \in Int /\ s[j] \in Int /\ i \in DOMAIN s
      BY <1>1
    <3>2. Below(s, s[i]) \cup {i} \in SUBSET Below(s, s[j])
      BY <1>1, <2>5, <3>1 DEF Below
    <3>3. i \notin Below(s, s[i])
      BY <3>1 DEF Below
    <3>4. Cardinality(Below(s, s[i]) \cup {i}) = Cardinality(Below(s, s[i])) + 1
      BY <3>3, RanksFinite, FS_AddElement
    <3>5. Cardinality(Below(s, s[i]) \cup {i}) <= Cardinality(Below(s, s[j]))
      BY <3>2, RanksFinite, FS_Subset
    <3>6. Cardinality(Below(s, s[j])) <= Cardinality(Below(s, s[i]))
      BY <2>3, <2>4
    <3>7. Cardinality(Below(s, s[i])) \in Nat /\ Cardinality(Below(s, s[j])) \in Nat
      BY RanksFinite
    <3> QED
      BY <3>4, <3>5, <3>6, <3>7
  <2> QED
    BY <1>1, <2>5
<1>5. T # {}
  <2>1. DOMAIN s # {} /\ DOMAIN s \in SUBSET (DOMAIN s)
    OBVIOUS
  <2>2. PICK i \in DOMAIN s : \A j \in DOMAIN s : s[j] <= s[i]
    BY <1>4, <2>1
  <2>3. UpTill(s, s[i]) = DOMAIN s
    BY <2>2 DEF UpTill
  <2>4. Cardinality(UpTill(s, s[i])) >= n
    BY <1>1, <1>2, <2>3
  <2> QED
    BY <2>4
<1>6. PICK c \in T : \A d \in T : c <= d
  <2> HIDE DEF T
  <2> QED
    BY <1>3, <1>5, SmallestNumber
<1>7. PICK i \in DOMAIN s : c = Cardinality(UpTill(s, s[i])) /\ c >= n
  BY <1>6
<1> DEFINE B == Below(s, s[i])
<1>8. Cardinality(B) < n
  <2>1. Cardinality(B) \in Nat
    BY RanksFinite
  <2>2. CASE B = {}
    <3>1. Cardinality({}) = 0
      BY FS_EmptySet
    <3> QED
      BY <1>1, <2>2, <3>1
  <2>3. CASE B # {}
    <3>1. B \in SUBSET (DOMAIN s)
      BY DEF Below
    <3>2. PICK j \in B : \A k \in B : s[k] <= s[j]
      BY <1>4, <2>3, <3>1
    <3>3. j \in DOMAIN s /\ s[j] < s[i] /\ s[j] \in Int /\ s[i] \in Int
      BY <1>1 DEF Below
    <3>4. UpTill(s, s[j]) = B
      <4>1. UpTill(s, s[j]) \subseteq B
        BY <1>1, <3>3 DEF UpTill, Below
      <4>2. B \subseteq UpTill(s, s[j])
        BY <3>1, <3>2 DEF UpTill
      <4> QED
        BY <4>1, <4>2
    <3>5. SUFFICES ASSUME Cardinality(B) >= n PROVE FALSE
      BY <1>1, <2>1
    <3>6. Cardinality(B) \in T
      BY <3>3, <3>4, <3>5
    <3>7. c <= Cardinality(B)
      BY <1>6, <3>6
    <3>8. B \cup {i} \in SUBSET UpTill(s, s[i]) /\ i \notin B
      BY <1>1, <3>1, <3>3 DEF UpTill, Below
    <3>9. Cardinality(B \cup {i}) = Cardinality(B) + 1
      <4>1. IsFiniteSet(B)
        BY RanksFinite
      <4> HIDE DEF B
      <4> QED
        BY <3>8, <4>1, FS_AddElement
    <3>10. Cardinality(B \cup {i}) <= c
      <4>1. IsFiniteSet(UpTill(s, s[i]))
        BY RanksFinite
      <4> HIDE DEF B
      <4> QED
        BY <1>7, <3>8, <4>1, FS_Subset
    <3>11. c \in Nat
      BY <1>3
    <3> HIDE DEF B, T
    <3> QED
      BY <2>1, <3>7, <3>9, <3>10, <3>11
  <2> QED
    BY <2>2, <2>3
<1>9. s[i] \in ToSet(s)
  BY DEF ToSet
<1> QED
  BY <1>7, <1>8, <1>9 DEF Ranked
-----------------------------------------------------------------------------
(* The sort.                                                                 *)
LEMMA SortedIsFunction ==
    ASSUME NEW s
    PROVE  Sorted(s) = [n \in DOMAIN s |-> Sorted(s)[n]]
<1> DEFINE At(n) == CHOOSE x \in ToSet(s) :
                       /\ Cardinality({i \in DOMAIN s : s[i] < x}) < n
                       /\ Cardinality({i \in DOMAIN s : s[i] <= x}) >= n
           t == Sorted(s)
<1>1. t = [n \in DOMAIN s |-> At(n)]
  BY DEF Sorted
<1> HIDE DEF At, t
<1>2. t = [n \in DOMAIN s |-> t[n]]
  BY <1>1
<1> QED
  BY <1>2 DEF t

LEMMA SortedIsRanked ==
    ASSUME NEW s \in Seq(Int)
    PROVE  /\ DOMAIN Sorted(s) = DOMAIN s
           /\ \A n \in DOMAIN s : Ranked(s, n, Sorted(s)[n])
<1>1. ASSUME NEW n \in DOMAIN s
      PROVE  Ranked(s, n, Sorted(s)[n])
  <2>1. PICK x : Ranked(s, n, x)
    BY RankExists
  <2>2. Sorted(s)[n] = CHOOSE y \in ToSet(s) : /\ Cardinality(Below(s, y)) < n
                                               /\ Cardinality(UpTill(s, y)) >= n
    BY DEF Sorted, Below, UpTill
  <2> QED
    BY <2>1, <2>2 DEF Ranked
<1> QED
  BY <1>1 DEF Sorted

(* Numbers in order stay as they are. *)
LEMMA SortedOfSorted ==
    ASSUME NEW s \in Seq(Int), \A m, n \in DOMAIN s : m < n => s[m] <= s[n]
    PROVE  Sorted(s) = s
<1>1. Len(s) \in Nat /\ DOMAIN s = 1 .. Len(s) /\ (\A i \in DOMAIN s : s[i] \in Int)
  BY LenProperties
<1>2. ASSUME NEW n \in DOMAIN s
      PROVE  Ranked(s, n, s[n])
  <2>1. n \in Nat /\ n >= 1 /\ n - 1 \in Int
    BY <1>1
  <2>2. Below(s, s[n]) \in SUBSET (1 .. (n - 1))
    <3>1. ASSUME NEW i \in DOMAIN s, s[i] < s[n]
          PROVE  i \in 1 .. (n - 1)
      BY <1>1, <3>1
    <3> QED
      BY <3>1 DEF Below
  <2>3. (1 .. n) \in SUBSET UpTill(s, s[n])
    <3>1. ASSUME NEW i \in 1 .. n
          PROVE  i \in DOMAIN s /\ s[i] <= s[n]
      <4>1. i \in DOMAIN s
        BY <1>1
      <4>2. i = n \/ i < n
        BY <2>1
      <4> QED
        BY <1>1, <4>1, <4>2
    <3> QED
      BY <3>1 DEF UpTill
  <2>4. Cardinality(Below(s, s[n])) <= n - 1
    <3> DEFINE p == n - 1
    <3>1. IsFiniteSet(1 .. p) /\ Cardinality(1 .. p) = p
      <4>1. p \in Nat /\ 1 \in Int
        BY <2>1
      <4> HIDE DEF p
      <4> QED
        BY <4>1, FS_Interval
    <3>2. Cardinality(Below(s, s[n])) <= Cardinality(1 .. p)
      BY <2>2, <3>1, FS_Subset
    <3> QED
      BY <3>1, <3>2
  <2>5. Cardinality(UpTill(s, s[n])) >= n
    <3>1. IsFiniteSet(1 .. n) /\ Cardinality(1 .. n) = n
      BY <2>1, FS_Interval
    <3>2. Cardinality(1 .. n) <= Cardinality(UpTill(s, s[n]))
      BY <2>3, RanksFinite, FS_Subset
    <3> QED
      BY <3>1, <3>2
  <2>6. s[n] \in ToSet(s)
    BY DEF ToSet
  <2>7. Cardinality(Below(s, s[n])) \in Nat
    BY RanksFinite
  <2> QED
    BY <2>1, <2>4, <2>5, <2>6, <2>7 DEF Ranked
<1>3. ASSUME NEW n \in DOMAIN s
      PROVE  Sorted(s)[n] = s[n]
  <2> DEFINE x == Sorted(s)[n]
  <2>1. Ranked(s, n, x) /\ Ranked(s, n, s[n])
    BY <1>2, SortedIsRanked
  <2>2. n \in Int /\ n <= n
    BY <1>1
  <2> HIDE DEF x
  <2>3. x <= s[n] /\ s[n] <= x
    BY <2>1, <2>2, RankOrder
  <2>4. x \in Int /\ s[n] \in Int
    BY <1>1, <2>1 DEF Ranked, ToSet
  <2> QED
    BY <2>3, <2>4 DEF x
<1>4. Sorted(s) = [n \in DOMAIN s |-> Sorted(s)[n]]
  BY SortedIsFunction
<1>5. s = [n \in DOMAIN s |-> s[n]]
  OBVIOUS
<1> QED
  BY <1>3, <1>4, <1>5

(* Numbers that differ ascend, and they are the same numbers. *)
LEMMA SortedOfInjective ==
    ASSUME NEW s \in Seq(Int), IsInjective(s)
    PROVE  /\ Sorted(s) \in Seq(Int) /\ Len(Sorted(s)) = Len(s)
           /\ DOMAIN Sorted(s) = 1 .. Len(s)
           /\ \A m, n \in 1 .. Len(s) : m < n => Sorted(s)[m] < Sorted(s)[n]
           /\ ToSet(Sorted(s)) = ToSet(s)
<1> DEFINE t == Sorted(s)
<1>1. Len(s) \in Nat /\ DOMAIN s = 1 .. Len(s) /\ (\A i \in DOMAIN s : s[i] \in Int)
  BY LenProperties
<1>2. DOMAIN t = 1 .. Len(s) /\ \A n \in 1 .. Len(s) : Ranked(s, n, t[n])
  BY <1>1, SortedIsRanked
<1>3. t = [n \in 1 .. Len(s) |-> t[n]]
  BY <1>1, SortedIsFunction
<1> HIDE DEF t
<1>4. \A n \in 1 .. Len(s) : t[n] \in ToSet(s) /\ t[n] \in Int
  BY <1>1, <1>2 DEF Ranked, ToSet
<1>5. t \in Seq(Int) /\ Len(t) = Len(s)
  <2>1. t \in [1 .. Len(s) -> Int]
    BY <1>3, <1>4
  <2> QED
    BY <1>1, <2>1, FunctionIsSeq
<1>6. ASSUME NEW m \in 1 .. Len(s), NEW n \in 1 .. Len(s), m < n
      PROVE  t[m] < t[n]
  <2>1. m \in Int /\ n \in Int /\ m <= n
    BY <1>1, <1>6
  <2>2. t[m] <= t[n]
    BY <1>2, <2>1, RankOrder
  <2>3. SUFFICES ASSUME t[m] = t[n] PROVE FALSE
    BY <1>4, <2>2
  <2> DEFINE x == t[m]
  <2>4. PICK i \in DOMAIN s : s[i] = x
    BY <1>4 DEF ToSet
  <2>5. UpTill(s, x) = Below(s, x) \cup {i}
    <3>1. UpTill(s, x) \subseteq Below(s, x) \cup {i}
      <4>1. ASSUME NEW j \in UpTill(s, x)
            PROVE  j \in Below(s, x) \cup {i}
        <5>1. j \in DOMAIN s /\ s[j] <= x /\ s[j] \in Int /\ x \in Int
          BY <1>1, <2>4 DEF UpTill
        <5>2. s[j] < x \/ s[j] = x
          BY <5>1
        <5>3. s[j] = x => j = i
          BY <2>4, <5>1 DEF IsInjective
        <5> QED
          BY <5>1, <5>2, <5>3 DEF Below
      <4> QED
        BY <4>1
    <3>2. Below(s, x) \cup {i} \subseteq UpTill(s, x)
      <4>1. \A j \in DOMAIN s : s[j] < x => s[j] <= x
        BY <1>1, <2>4
      <4>2. s[i] <= x
        BY <1>1, <2>4
      <4> QED
        BY <4>1, <4>2 DEF Below, UpTill
    <3> QED
      BY <3>1, <3>2
  <2>6. i \notin Below(s, x)
    BY <1>1, <2>4 DEF Below
  <2>7. Cardinality(UpTill(s, x)) = Cardinality(Below(s, x)) + 1
    BY <2>5, <2>6, RanksFinite, FS_AddElement
  <2>8. Cardinality(Below(s, x)) < m /\ Cardinality(UpTill(s, x)) >= n
    BY <1>2, <2>3 DEF Ranked
  <2>9. Cardinality(Below(s, x)) \in Nat
    BY RanksFinite
  <2> QED
    BY <1>6, <2>1, <2>7, <2>8, <2>9
<1>7. IsInjective(t)
  <2>1. ASSUME NEW m \in 1 .. Len(s), NEW n \in 1 .. Len(s), t[m] = t[n]
        PROVE  m = n
    <3>1. ~(m < n) /\ ~(n < m)
      BY <1>4, <1>6, <2>1
    <3> QED
      BY <1>1, <3>1
  <2> QED
    BY <1>2, <2>1 DEF IsInjective
<1>8. ToSet(t) = ToSet(s)
  <2>1. ToSet(t) \in SUBSET ToSet(s)
    BY <1>2, <1>4 DEF ToSet
  <2>2. IsFiniteSet(ToSet(s)) /\ Cardinality(ToSet(s)) = Len(s)
    BY ElementsOfInjective
  <2>3. Cardinality(ToSet(t)) = Len(t)
    BY <1>5, <1>7, ElementsOfInjective
  <2> QED
    BY <1>5, <2>1, <2>2, <2>3, FS_Subset
<1> QED
  BY <1>2, <1>5, <1>6, <1>8 DEF t
-----------------------------------------------------------------------------
(* Counting in blocks.                                                       *)
LEMMA BlocksForFacts ==
    ASSUME NEW n \in Int, n >= 1, NEW size \in Int, size >= 1
    PROVE  /\ BlocksFor(n, size) \in Int /\ BlocksFor(n, size) >= 1
           /\ n - 1 = size * (BlocksFor(n, size) - 1) + ((n - 1) % size)
           /\ (n - 1) % size \in Int /\ 0 <= (n - 1) % size /\ (n - 1) % size < size
<1> DEFINE q == (n - 1) \div size
           r == (n - 1) % size
<1>1. q \in Int /\ r \in Int /\ n - 1 = size * q + r /\ 0 <= r /\ r < size
  BY Euclid
<1> HIDE DEF q, r
<1>2. q >= 0
  <2>1. SUFFICES ASSUME q <= 0 - 1 PROVE FALSE
    BY <1>1
  <2>2. size * q <= 0 - size
    BY <1>1, <2>1
  <2> QED
    BY <1>1, <2>2
<1>3. n + size - 1 = size * (q + 1) + r
  BY <1>1
<1>4. BlocksFor(n, size) = q + 1
  <2> DEFINE a == n + size - 1
             p == q + 1
  <2>1. a \in Int /\ p \in Int /\ a = size * p + r /\ size > 0
    BY <1>1, <1>3
  <2> HIDE DEF a, p
  <2>2. a \div size = p
    BY <1>1, <2>1, EuclidUnique
  <2> QED
    BY <2>2 DEF a, p, BlocksFor
<1> QED
  BY <1>1, <1>2, <1>4 DEF r

LEMMA BlocksForUnique ==
    ASSUME NEW n \in Int, NEW size \in Int, size >= 1, NEW p \in Int, NEW r \in Int,
           n - 1 = size * (p - 1) + r, 0 <= r, r < size
    PROVE  BlocksFor(n, size) = p /\ (n - 1) % size = r
<1> DEFINE a == n + size - 1
           b == n - 1
           q == p - 1
<1>1. /\ a \in Int /\ a = size * p + r /\ size > 0
      /\ b \in Int /\ b = size * q + r /\ q \in Int
  OBVIOUS
<1> HIDE DEF a, b, q
<1>2. a \div size = p /\ b % size = r
  BY <1>1, EuclidUnique
<1> QED
  BY <1>2 DEF a, b, BlocksFor

(* Places without a gap are the first ones. *)
LEMMA InitialSegment ==
    ASSUME NEW n \in Nat, NEW S \in SUBSET (1 .. n),
           \A i \in S, j \in 1 .. n : j < i => j \in S
    PROVE  Cardinality(S) \in 0 .. n /\ S = 1 .. Cardinality(S)
<1>1. CASE S = {}
  <2>1. Cardinality(S) = 0
    BY <1>1, FS_EmptySet
  <2> QED
    BY <1>1, <2>1
<1>2. CASE S # {}
  <2> DEFINE m == Max(S)
  <2>1. m \in S /\ \A i \in S : i <= m
    <3>1. n \in Int /\ \A i \in S : i \in Int /\ i <= n
      OBVIOUS
    <3> QED
      BY ONLY <1>2, <3>1, GreatestNumber
  <2> HIDE DEF m
  <2>2. m \in 1 .. n
    BY <2>1
  <2>3. S = 1 .. m
    <3>1. \A i \in S : i \in 1 .. m
      BY <2>1, <2>2
    <3>2. \A i \in 1 .. m : i \in 1 .. n /\ (i < m \/ i = m)
      BY <2>2
    <3> QED
      BY <2>1, <3>1, <3>2
  <2>4. Cardinality(1 .. m) = m
    BY <2>2, FS_Interval
  <2> QED
    BY <2>2, <2>3, <2>4
<1> QED
  BY <1>1, <1>2

(* A call that is answered with a selection: it asks for one query, has blocks *)
(* to leave out, and fills its last block unless it is alone in its batch.     *)
SparseCall(c) == c \in AttentionCalls /\ Mode(c) = "sparse_compacted"

LEMMA CallTypes ==
    ASSUME NEW c \in AttentionCalls
    PROVE  /\ c.batches \in Nat /\ c.sinks \in Nat /\ c.recents \in Nat /\ c.overflow \in BOOLEAN
           /\ c.queries \in Int /\ c.queries >= 1 /\ c.keys \in Int /\ c.keys >= 1
           /\ c.size \in Int /\ c.size >= 1
           /\ KeyBlocks(c) \in Int /\ KeyBlocks(c) >= 1
           /\ Active(c) \in Int /\ Active(c) >= 1
<1>1. /\ c.batches \in Nat /\ c.sinks \in Nat /\ c.recents \in Nat /\ c.overflow \in BOOLEAN
      /\ c.queries \in Nat \ {0} /\ c.keys \in Nat \ {0} /\ c.size \in Nat \ {0}
      /\ c.ratio \in [of : Nat \ {0}, outOf : Nat \ {0}]
  BY CallsAssumption
<1>2. /\ c.queries \in Int /\ c.queries >= 1 /\ c.keys \in Int /\ c.keys >= 1
      /\ c.size \in Int /\ c.size >= 1
      /\ c.ratio.of \in Int /\ c.ratio.of >= 1 /\ c.ratio.outOf \in Int /\ c.ratio.outOf >= 1
  BY <1>1
<1>3. KeyBlocks(c) \in Int /\ KeyBlocks(c) >= 1
  BY <1>2, BlocksForFacts DEF KeyBlocks
<1>4. Active(c) \in Int /\ Active(c) >= 1
  <2> DEFINE k == KeyBlocks(c) * c.ratio.of
             a == BlocksFor(k, c.ratio.outOf)
  <2>1. k \in Int /\ k >= 1
    BY <1>2, <1>3
  <2> HIDE DEF k
  <2>2. a \in Int
    BY <1>2, <2>1, BlocksForFacts
  <2>3. Active(c) = Max({1, a})
    BY DEF Active, k
  <2> HIDE DEF a
  <2>4. Max({1, a}) = IF 1 >= a THEN 1 ELSE a
    BY <2>2, GreaterOfTwo
  <2> QED
    BY <2>2, <2>3, <2>4
<1> QED
  BY <1>1, <1>2, <1>3, <1>4

LEMMA SparseCallFacts ==
    ASSUME NEW c, SparseCall(c)
    PROVE  /\ c.queries = 1 /\ Active(c) < KeyBlocks(c)
           /\ c.batches > 1 => c.keys % c.size = 0
<1>1. c \in AttentionCalls /\ Mode(c) = "sparse_compacted"
  BY DEF SparseCall
<1>2. ~(c.queries > 1) /\ ~(Active(c) >= KeyBlocks(c)) /\ ~(c.keys % c.size # 0 /\ c.batches > 1)
  BY <1>1 DEF Mode
<1> QED
  BY <1>1, <1>2, CallTypes
-----------------------------------------------------------------------------
(* The blocks a call chooses.                                                *)
Blks(c) == 0 .. KeyBlocks(c) - 1

Reserves(c) ==
    [i \in 1 .. Min({c.sinks, KeyBlocks(c)}) |-> i - 1]
        \o [i \in 1 .. Min({c.recents, KeyBlocks(c)}) |-> KeyBlocks(c) - i]

LEMMA ReservedFacts ==
    ASSUME NEW c \in AttentionCalls
    PROVE  /\ Reserved(c) \in Seq(Blks(c)) /\ IsInjective(Reserved(c))
           /\ Len(Reserved(c)) \in Nat /\ Len(Reserved(c)) <= KeyBlocks(c)
           /\ Len(Reserved(c)) <= c.sinks + c.recents
           /\ Cardinality(ToSet(Reserved(c))) = Len(Reserved(c)) /\ IsFiniteSet(ToSet(Reserved(c)))
<1> DEFINE K == KeyBlocks(c)
           a == Min({c.sinks, K})
           b == Min({c.recents, K})
           s1 == [i \in 1 .. a |-> i - 1]
           s2 == [i \in 1 .. b |-> K - i]
           s == Reserves(c)
           V == Blks(c)
           R == Reserved(c)
<1>1. K \in Int /\ K >= 1 /\ c.sinks \in Nat /\ c.recents \in Nat
  BY CallTypes
<1>2. s = s1 \o s2 /\ V = 0 .. K - 1 /\ R = FirstOf(s, K)
  BY DEF Reserves, Reserved, Blks
<1> HIDE DEF K, s, V, R
<1>3. a \in Nat /\ a <= K /\ a <= c.sinks /\ b \in Nat /\ b <= K /\ b <= c.recents
  <2>1. a = (IF c.sinks <= K THEN c.sinks ELSE K) /\ b = (IF c.recents <= K THEN c.recents ELSE K)
    BY <1>1, SmallerOfTwo
  <2> QED
    BY <1>1, <2>1
<1> HIDE DEF a, b
<1>4. s1 \in Seq(V) /\ Len(s1) = a
  <2>1. \A i \in 1 .. a : i - 1 \in V
    BY <1>1, <1>2, <1>3
  <2>2. s1 \in [1 .. a -> V]
    BY <2>1
  <2> HIDE DEF s1
  <2> QED
    BY <1>3, <2>2, FunctionIsSeq
<1>5. s2 \in Seq(V) /\ Len(s2) = b
  <2>1. \A i \in 1 .. b : K - i \in V
    BY <1>1, <1>2, <1>3
  <2>2. s2 \in [1 .. b -> V]
    BY <2>1
  <2> HIDE DEF s2
  <2> QED
    BY <1>3, <2>2, FunctionIsSeq
<1> HIDE DEF s1, s2
<1>6. s \in Seq(V) /\ Len(s) = a + b
  BY <1>2, <1>4, <1>5, ConcatProperties
<1> DEFINE n == a + b
<1>7. n \in Nat /\ s \in [1 .. n -> V] /\ DOMAIN s = 1 .. n
  BY <1>3, <1>6, LenProperties
<1>8. Gathered(R, V, s, K, n)
  <2>1. K \in Nat
    BY <1>1
  <2> HIDE DEF n
  <2> QED
    BY <1>2, <1>7, <2>1, FirstOfGathered
<1>9. R \in Seq(V) /\ IsInjective(R) /\ Len(R) <= K /\ ToSet(R) \subseteq Firsts(s, n)
  BY <1>8 DEF Gathered
<1>10. Cardinality(ToSet(R)) = Len(R) /\ IsFiniteSet(ToSet(R)) /\ Len(R) \in Nat
  BY <1>9, ElementsOfInjective, LenProperties
<1>11. Firsts(s, n) = ToSet(s)
  BY <1>7 DEF Firsts, ToSet
<1>12. Cardinality(ToSet(R)) <= Cardinality(ToSet(s)) /\ Cardinality(ToSet(s)) <= n
       /\ Cardinality(ToSet(s)) \in Nat
  BY <1>6, <1>9, <1>11, ElementsOfInjective, FS_Subset
<1>13. Len(R) <= c.sinks + c.recents
  BY <1>1, <1>3, <1>10, <1>12
<1> QED
  BY <1>9, <1>10, <1>13 DEF K, V, R

(* The budget, and that there are candidates enough to meet it. *)
LEMMA BudgetFacts ==
    ASSUME NEW c, SparseCall(c), NEW order \in Orders(c)
    PROVE  /\ Budget(c) \in Nat /\ 1 <= Budget(c) /\ Budget(c) <= KeyBlocks(c)
           /\ c.overflow => Budget(c) >= Len(Reserved(c))
           /\ ~c.overflow => Budget(c) = Active(c)
           /\ Budget(c) <= Active(c) \/ (c.overflow /\ Budget(c) <= Len(Reserved(c)))
           /\ \E l \in 1 .. KeyBlocks(c) : l >= Budget(c) /\ Candidates(c, order) = SubSeq(order, 1, l)
<1> DEFINE K == KeyBlocks(c)
           q == Active(c)
           r == Len(Reserved(c))
           u == c.sinks + c.recents
           v == Min({K, u})
           w == Max({q, r})
           x == Max({q, v})
<1>1. c \in AttentionCalls
  BY DEF SparseCall
<1>2. K \in Int /\ K >= 1 /\ q \in Int /\ q >= 1 /\ q < K /\ u \in Int /\ c.overflow \in BOOLEAN
  BY <1>1, CallTypes, SparseCallFacts
<1>3. r \in Int /\ r >= 0 /\ r <= K /\ r <= u
  BY <1>1, ReservedFacts
<1>4. /\ Budget(c) = IF c.overflow THEN Min({K, w}) ELSE q
      /\ Candidates(c, order) = SubSeq(order, 1, IF c.overflow THEN Min({K, x}) ELSE q)
  BY DEF Budget, Candidates
<1> HIDE DEF K, q, r, u
<1>5. v = IF K <= u THEN K ELSE u
  BY <1>2, SmallerOfTwo
<1> HIDE DEF v
<1>6. v \in Int /\ v <= K /\ r <= v
  BY <1>2, <1>3, <1>5
<1>7. w = (IF q >= r THEN q ELSE r) /\ x = (IF q >= v THEN q ELSE v)
  BY <1>2, <1>3, <1>6, GreaterOfTwo
<1> HIDE DEF w, x
<1>8. w \in Int /\ x \in Int /\ w <= K /\ x <= K /\ w <= x /\ q <= w /\ r <= w
      /\ (w <= q \/ w <= r)
  BY <1>2, <1>3, <1>6, <1>7
<1>9. Min({K, w}) = w /\ Min({K, x}) = x
  <2>1. Min({K, w}) = (IF K <= w THEN K ELSE w) /\ Min({K, x}) = (IF K <= x THEN K ELSE x)
    BY <1>2, <1>8, SmallerOfTwo
  <2> QED
    BY <1>2, <1>8, <2>1
<1>10. CASE c.overflow
  <2>1. Budget(c) = w /\ Candidates(c, order) = SubSeq(order, 1, x) /\ x \in 1 .. K
    <3>1. Budget(c) = w
      BY <1>4, <1>9, <1>10
    <3>2. Candidates(c, order) = SubSeq(order, 1, x)
      BY <1>4, <1>9, <1>10
    <3>3. x \in 1 .. K
      BY <1>2, <1>8
    <3> QED
      BY <3>1, <3>2, <3>3
  <2> QED
    BY <1>2, <1>3, <1>8, <1>10, <2>1 DEF K, q, r
<1>11. CASE ~c.overflow
  <2>1. Budget(c) = q /\ Candidates(c, order) = SubSeq(order, 1, q) /\ q \in 1 .. K
    BY <1>2, <1>4, <1>11
  <2> QED
    BY <1>2, <1>11, <2>1 DEF K, q
<1> QED
  BY <1>10, <1>11
(* The blocks chosen: as many as the budget allows; all that are reserved or   *)
(* none but these; and of the others those that score best.                  *)
ChosenRight(c, order, there) ==
    LET kept == ToSet(Reserved(c)) IN
    /\ Cardinality(there) = Budget(c)
    /\ kept \subseteq there \/ (Cardinality(there) <= Cardinality(kept) /\ there \subseteq kept)
    /\ \A m, n \in DOMAIN order : m < n /\ order[n] \in there \ kept => order[m] \in there

LEMMA ChosenFacts ==
    ASSUME NEW c, SparseCall(c), NEW order \in Orders(c)
    PROVE  /\ Chosen(c, order) \in Seq(Blks(c)) /\ IsInjective(Chosen(c, order))
           /\ Len(Chosen(c, order)) = Budget(c)
           /\ IsFiniteSet(ToSet(Chosen(c, order)))
           /\ ChosenRight(c, order, ToSet(Chosen(c, order)))
<1> DEFINE K == KeyBlocks(c)
           V == Blks(c)
           R == Reserved(c)
           r == Len(R)
           B == Budget(c)
           cand == Candidates(c, order)
           s == R \o cand
           C == Chosen(c, order)
           there == ToSet(C)
           kept == ToSet(R)
<1>1. c \in AttentionCalls
  BY DEF SparseCall
<1>2. K \in Int /\ K >= 1 /\ V = 0 .. K - 1
  BY <1>1, CallTypes DEF Blks
<1>3. order \in [1 .. K -> V] /\ IsInjective(order) /\ DOMAIN order = 1 .. K
  BY <1>2 DEF Orders
<1>4. R \in Seq(V) /\ r \in Nat /\ IsFiniteSet(kept) /\ Cardinality(kept) = r
  BY <1>1, ReservedFacts
<1>5. B \in Nat
  BY BudgetFacts
<1>6. PICK l \in 1 .. K : l >= B /\ cand = SubSeq(order, 1, l)
  BY BudgetFacts
<1>7. C = FirstOf(s, B)
  BY DEF Chosen
<1> HIDE DEF K, V, R, B, cand, C
<1>8. cand \in Seq(V) /\ Len(cand) = l /\ \A i \in 1 .. l : cand[i] = order[i]
  <2>1. \A i \in 1 .. l : order[i] \in V
    BY <1>2, <1>3
  <2>2. l \in Int /\ l >= 1
    BY <1>2
  <2>3. /\ SubSeq(order, 1, l) \in Seq(V) /\ Len(SubSeq(order, 1, l)) = l
        /\ \A i \in 1 .. l - 1 + 1 : SubSeq(order, 1, l)[i] = order[1 + i - 1]
    BY <2>1, <2>2, SubSeqProperties
  <2>4. \A i \in 1 .. l : i \in 1 .. l - 1 + 1 /\ order[1 + i - 1] = order[i]
    BY <2>2
  <2> QED
    BY <1>6, <2>3, <2>4
<1> DEFINE n == r + l
<1>9. /\ s \in Seq(V) /\ Len(s) = n /\ n \in Nat
      /\ \A i \in 1 .. r : s[i] = R[i]
      /\ \A i \in 1 .. l : s[r + i] = order[i]
  <2>1. /\ s \in Seq(V) /\ Len(s) = r + l
        /\ \A i \in 1 .. r + l : s[i] = IF i <= r THEN R[i] ELSE cand[i - r]
    BY <1>4, <1>8, ConcatProperties
  <2>2. l \in Int /\ l >= 1
    BY <1>2
  <2>3. ASSUME NEW i \in 1 .. r
        PROVE  s[i] = R[i]
    <3>1. i \in 1 .. r + l /\ i <= r
      BY <1>4, <2>2
    <3> QED
      BY <2>1, <3>1
  <2>4. ASSUME NEW i \in 1 .. l
        PROVE  s[r + i] = order[i]
    <3>1. r + i \in 1 .. r + l /\ ~(r + i <= r) /\ (r + i) - r = i
      BY <1>4, <2>2
    <3> QED
      BY <1>8, <2>1, <3>1
  <2> QED
    BY <1>4, <2>1, <2>2, <2>3, <2>4
<1> HIDE DEF s, n
<1>10. s \in [1 .. n -> V]
  BY <1>9, LenProperties
<1>11. Gathered(C, V, s, B, n)
  BY <1>5, <1>7, <1>9, <1>10, FirstOfGathered
<1>12. C \in Seq(V) /\ IsInjective(C) /\ Len(C) <= B /\ there \subseteq Firsts(s, n)
  BY <1>11 DEF Gathered
<1>13. \A m \in 0 .. n : Firsts(s, m) \subseteq there \/ (Len(C) = B /\ there \subseteq Firsts(s, m))
  BY <1>11 DEF Gathered
<1>14. IsFiniteSet(there) /\ Cardinality(there) = Len(C) /\ Len(C) \in Nat
  BY <1>12, ElementsOfInjective, LenProperties
<1> HIDE DEF there
<1>15. Firsts(s, r) = kept
  <2>1. DOMAIN R = 1 .. r
    BY <1>4, LenProperties
  <2> QED
    BY <1>9, <2>1 DEF Firsts, ToSet
<1> HIDE DEF kept, r
<1>16. ASSUME NEW m \in 0 .. l
       PROVE  /\ r + m \in 0 .. n
              /\ Firsts(s, r + m) = kept \cup {order[i] : i \in 1 .. m}
  <2>1. r + m \in 0 .. n /\ r \in Nat /\ m \in Nat
    BY <1>2, <1>4 DEF n
  <2>2. ASSUME NEW i \in 1 .. r + m
        PROVE  i \in 1 .. r \/ \E j \in 1 .. m : i = r + j
    <3>1. CASE i <= r
      BY <2>1, <3>1
    <3>2. CASE i > r
      <4>1. i - r \in 1 .. m /\ i = r + (i - r)
        BY <2>1, <3>2
      <4> QED
        BY <4>1
    <3> QED
      BY <2>1, <3>1, <3>2
  <2>3. \A i \in 1 .. r : i \in 1 .. r + m
    BY <2>1
  <2>4. \A j \in 1 .. m : r + j \in 1 .. r + m /\ j \in 1 .. l
    BY <1>2, <2>1
  <2>5. Firsts(s, r + m) \subseteq Firsts(s, r) \cup {order[i] : i \in 1 .. m}
    BY <1>9, <2>2, <2>4 DEF Firsts
  <2>6. Firsts(s, r) \subseteq Firsts(s, r + m)
    BY <2>3 DEF Firsts
  <2>7. {order[i] : i \in 1 .. m} \subseteq Firsts(s, r + m)
    BY <1>9, <2>4 DEF Firsts
  <2> QED
    BY <1>15, <2>1, <2>5, <2>6, <2>7
<1>17. Len(C) = B
  <2>1. n \in 0 .. n /\ l \in 0 .. l /\ n = r + l
    BY <1>2, <1>9 DEF n
  <2>2. CASE Firsts(s, n) \subseteq there
    <3>1. ToSet(cand) \in SUBSET there
      <4>1. DOMAIN cand = 1 .. l
        BY <1>8, LenProperties
      <4>2. ToSet(cand) = {order[i] : i \in 1 .. l}
        BY <1>8, <4>1 DEF ToSet
      <4> QED
        BY <1>16, <2>1, <2>2, <4>2
    <3>2. IsInjective(cand)
      <4>1. DOMAIN cand = 1 .. l
        BY <1>8, LenProperties
      <4>2. \A i \in 1 .. l : i \in 1 .. K
        BY <1>2
      <4> QED
        BY <1>3, <1>8, <4>1, <4>2 DEF IsInjective
    <3>3. Cardinality(ToSet(cand)) = l
      BY <1>8, <3>2, ElementsOfInjective
    <3>4. Cardinality(ToSet(cand)) <= Cardinality(there)
      BY <1>14, <3>1, FS_Subset
    <3> QED
      BY <1>5, <1>6, <1>12, <1>14, <3>3, <3>4
  <2> QED
    BY <1>13, <2>1, <2>2
<1>18. kept \subseteq there \/ (Cardinality(there) <= Cardinality(kept) /\ there \subseteq kept)
  <2>1. r \in 0 .. n
    BY <1>2, <1>4 DEF n
  <2>2. there \in SUBSET kept => Cardinality(there) <= Cardinality(kept)
    BY <1>4, FS_Subset
  <2> QED
    BY <1>13, <1>15, <2>1, <2>2
<1>19. ASSUME NEW i \in DOMAIN order, NEW j \in DOMAIN order, i < j, order[j] \in there, order[j] \notin kept
       PROVE  order[i] \in there
  <2>1. i \in 1 .. K /\ j \in 1 .. K /\ \A m \in 1 .. l : m \in 1 .. K
    BY <1>2, <1>3
  <2>2. \A m \in 1 .. K : order[j] = order[m] => j = m
    BY <1>3, <2>1 DEF IsInjective
  <2>3. j \in 1 .. l
    <3>1. l \in 0 .. l /\ n = r + l
      BY <1>2 DEF n
    <3>2. order[j] \in {order[m] : m \in 1 .. l}
      BY <1>12, <1>16, <1>19, <3>1
    <3>3. PICK m \in 1 .. l : order[j] = order[m]
      BY <3>2
    <3> QED
      BY <2>1, <2>2, <3>3
  <2>4. j - 1 \in 0 .. l /\ i \in 1 .. j - 1 /\ \A m \in 1 .. j - 1 : m \in 1 .. K /\ m # j
    BY <1>2, <1>19, <2>1, <2>3
  <2>5. order[j] \notin Firsts(s, r + (j - 1))
    BY <1>16, <1>19, <2>2, <2>4
  <2>6. Firsts(s, r + (j - 1)) \subseteq there
    BY <1>13, <1>16, <1>19, <2>4, <2>5
  <2> QED
    BY <1>16, <2>4, <2>6
<1>20. ChosenRight(c, order, there)
  <2>1. Cardinality(there) = B
    BY <1>14, <1>17
  <2>2. \A m, k \in DOMAIN order : m < k /\ order[k] \in there \ kept => order[m] \in there
    BY <1>19
  <2> QED
    BY <1>18, <2>1, <2>2 DEF ChosenRight, B, kept, R
<1> QED
  BY <1>12, <1>14, <1>17, <1>20 DEF C, B, V, there
-----------------------------------------------------------------------------
(* The tokens of blocks that ascend.                                         *)
Ascends(s) == \A m, n \in DOMAIN s : m < n => s[m] < s[n]

LEMMA TokenPlaces ==
    ASSUME NEW size \in Int, size >= 1, NEW b \in Int, b >= 1, NEW i \in 1 .. (b * size)
    PROVE  /\ i \in Int /\ i >= 1 /\ BlocksFor(i, size) \in 1 .. b
           /\ i - 1 = size * (BlocksFor(i, size) - 1) + ((i - 1) % size)
           /\ (i - 1) % size \in Int /\ 0 <= (i - 1) % size /\ (i - 1) % size < size
<1> DEFINE p == BlocksFor(i, size)
           r == (i - 1) % size
           N == b * size
<1>1. N \in Int /\ N = size * b
  OBVIOUS
<1>2. i \in 1 .. N
  OBVIOUS
<1> HIDE DEF N
<1>3. i \in Int /\ i >= 1 /\ i <= N
  BY <1>1, <1>2
<1>4. p \in Int /\ p >= 1 /\ i - 1 = size * (p - 1) + r /\ r \in Int /\ 0 <= r /\ r < size
  BY <1>3, BlocksForFacts
<1> HIDE DEF p, r
<1>5. p <= b
  <2>1. SUFFICES ASSUME p - 1 >= b PROVE FALSE
    BY <1>4
  <2>2. size * (p - 1) >= size * b
    BY <1>4, <2>1
  <2>3. size * (p - 1) \in Int
    BY <1>4
  <2> QED
    BY <1>1, <1>3, <1>4, <2>2, <2>3
<1> QED
  BY <1>3, <1>4, <1>5 DEF p, r

LEMMA TokensFacts ==
    ASSUME NEW c \in AttentionCalls, NEW s \in Seq(Nat), Len(s) >= 1, Ascends(s)
    PROVE  /\ Len(s) * c.size \in Nat /\ DOMAIN Tokens(c, s) = 1 .. (Len(s) * c.size)
           /\ \A i \in 1 .. (Len(s) * c.size) :
                 /\ Tokens(c, s)[i] \in Nat
                 /\ Tokens(c, s)[i] = c.size * s[BlocksFor(i, c.size)] + ((i - 1) % c.size)
                 /\ Tokens(c, s)[i] \div c.size = s[BlocksFor(i, c.size)]
           /\ Ascends(Tokens(c, s))
           /\ ToSet(Tokens(c, s)) = {k \in Nat : k \div c.size \in ToSet(s)}
<1> DEFINE size == c.size
           b == Len(s)
           N == b * size
           t == Tokens(c, s)
           p(i) == BlocksFor(i, size)
           r(i) == (i - 1) % size
<1>1. size \in Int /\ size >= 1
  BY CallTypes
<1>2. b \in Int /\ b >= 1 /\ DOMAIN s = 1 .. b /\ \A m \in 1 .. b : s[m] \in Nat
  BY LenProperties
<1>3. N \in Nat
  BY <1>1, <1>2
<1>4. \A i \in 1 .. N : /\ i \in Int /\ i >= 1 /\ p(i) \in 1 .. b /\ i - 1 = size * (p(i) - 1) + r(i)
                        /\ r(i) \in Int /\ 0 <= r(i) /\ r(i) < size
  <2> HIDE DEF size, b
  <2> QED
    BY <1>1, <1>2, TokenPlaces
<1>5. DOMAIN t = 1 .. N /\ \A i \in 1 .. N : t[i] = (s[p(i)] * size) + r(i)
  BY DEF Tokens
<1> HIDE DEF size, b, N, t, p, r
<1>6. ASSUME NEW i \in 1 .. N
      PROVE  /\ t[i] \in Nat /\ t[i] = size * s[p(i)] + r(i)
             /\ t[i] \div size = s[p(i)]
  <2> DEFINE x == s[p(i)]
             y == size * x
             z == r(i)
  <2>1. x \in Nat /\ z \in Int /\ 0 <= z /\ z < size
    BY <1>2, <1>4
  <2>2. t[i] = x * size + z
    BY <1>5
  <2> HIDE DEF x, z
  <2>3. y \in Int /\ y >= 0 /\ x * size = y
    BY <1>1, <2>1
  <2>4. t[i] = y + z
    BY <2>2, <2>3
  <2>5. t[i] \in Nat
    BY <2>1, <2>3, <2>4
  <2>6. t[i] \div size = x
    BY <1>1, <2>1, <2>4, <2>5, EuclidUnique
  <2> QED
    BY <2>4, <2>5, <2>6 DEF x, z
<1>7. ASSUME NEW i \in 1 .. N, NEW j \in 1 .. N, i < j
      PROVE  t[i] < t[j]
  <2> DEFINE pi == p(i)
             pj == p(j)
             ri == r(i)
             rj == r(j)
  <2>1. /\ i \in Int /\ pi \in 1 .. b /\ i - 1 = size * (pi - 1) + ri /\ ri \in Int /\ 0 <= ri /\ ri < size
        /\ j \in Int /\ pj \in 1 .. b /\ j - 1 = size * (pj - 1) + rj /\ rj \in Int /\ 0 <= rj /\ rj < size
    BY <1>4
  <2>2. t[i] = size * s[pi] + ri /\ t[j] = size * s[pj] + rj
    BY <1>6
  <2> HIDE DEF pi, pj, ri, rj
  <2>3. pi \in Int /\ pj \in Int /\ s[pi] \in Nat /\ s[pj] \in Nat
    BY <1>2, <2>1
  <2>4. pi <= pj
    <3>1. SUFFICES ASSUME pi - 1 >= pj PROVE FALSE
      BY <2>3
    <3> DEFINE e == size * (pi - 1)
               f == size * pj
               g == size * (pj - 1)
    <3>2. e \in Int /\ f \in Int /\ g \in Int /\ e >= f /\ f = g + size
      BY <1>1, <2>3, <3>1
    <3>3. i - 1 = e + ri /\ j - 1 = g + rj
      BY <2>1
    <3> HIDE DEF e, f, g
    <3> QED
      BY <1>1, <1>7, <2>1, <3>2, <3>3
  <2>5. CASE pi = pj
    <3>1. size * (pi - 1) \in Int /\ size * s[pi] \in Int
      BY <1>1, <2>3
    <3>2. ri < rj
      BY <1>7, <2>1, <2>5, <3>1
    <3> QED
      BY <2>1, <2>2, <2>5, <3>1, <3>2
  <2>6. CASE pi # pj
    <3>1. pi < pj /\ pi \in DOMAIN s /\ pj \in DOMAIN s
      BY <1>2, <2>1, <2>3, <2>4, <2>6
    <3>2. s[pi] < s[pj]
      BY <3>1 DEF Ascends
    <3> DEFINE x == s[pi]
               y == s[pj]
               e == size * x
               f == size * y
    <3>3. x \in Int /\ y \in Int /\ x + 1 <= y
      BY <2>3, <3>2
    <3>4. t[i] = e + ri /\ t[j] = f + rj
      BY <2>2
    <3> HIDE DEF x, y
    <3>5. e \in Int /\ f \in Int /\ e + size <= f
      <4>1. size * (x + 1) <= size * y
        BY <1>1, <3>3
      <4>2. size * (x + 1) = e + size
        BY <1>1, <3>3
      <4> QED
        BY <1>1, <3>3, <4>1, <4>2
    <3> HIDE DEF e, f
    <3> QED
      BY <1>1, <2>1, <3>4, <3>5
  <2> QED
    BY <2>5, <2>6
<1>8. ASSUME NEW k \in Nat, k \div size \in ToSet(s)
      PROVE  \E i \in 1 .. N : t[i] = k
  <2> DEFINE z == k % size
             x == k \div size
  <2>1. x \in Int /\ z \in Int /\ k = size * x + z /\ 0 <= z /\ z < size
    BY <1>1, Euclid
  <2>2. PICK m \in 1 .. b : s[m] = x
    BY <1>2, <1>8 DEF ToSet
  <2> HIDE DEF x, z
  <2> DEFINE d == size * (m - 1)
             i == d + z + 1
  <2>3. m \in Int /\ 1 <= m /\ m <= b
    BY <1>2
  <2>4. d \in Int /\ d >= 0 /\ d + size = size * m /\ size * m <= size * b /\ N = size * b
    BY <1>1, <1>2, <2>3 DEF N
  <2>5. i \in 1 .. N
    <3>1. size * m \in Int /\ size * b \in Int
      BY <1>1, <1>2, <2>3
    <3> HIDE DEF d
    <3> QED
      BY <1>1, <2>1, <2>4, <3>1
  <2>6. i - 1 = size * (m - 1) + z
    <3>1. d \in Int
      BY <2>4
    <3>2. d = size * (m - 1)
      OBVIOUS
    <3> HIDE DEF d
    <3> QED
      BY <2>1, <3>1, <3>2
  <2>7. i \in Int
    BY <2>1, <2>4
  <2> HIDE DEF i, d
  <2>8. p(i) = m /\ r(i) = z
    BY <1>1, <2>1, <2>3, <2>6, <2>7, BlocksForUnique DEF p, r
  <2>9. t[i] = k
    BY <1>6, <2>1, <2>2, <2>5, <2>8
  <2> QED
    BY <2>5, <2>9
<1>9. ToSet(t) = {k \in Nat : k \div size \in ToSet(s)}
  <2>1. ASSUME NEW i \in 1 .. N
        PROVE  t[i] \in Nat /\ t[i] \div size \in ToSet(s)
    BY <1>2, <1>4, <1>6 DEF ToSet
  <2>2. ToSet(t) = {t[i] : i \in 1 .. N}
    BY <1>5 DEF ToSet
  <2> QED
    BY <1>8, <2>1, <2>2
<1>10. Ascends(t)
  BY <1>5, <1>7 DEF Ascends
<1> QED
  BY <1>3, <1>5, <1>6, <1>9, <1>10 DEF size, b, N, t, p, r
(* The tokens of the chosen blocks that are no padding.                      *)
KeysOf(c, s, keys) ==
    /\ \A n \in 1 .. Len(keys) - 1 : keys[n] < keys[n + 1]
    /\ {k \div c.size : k \in ToSet(keys)} = ToSet(s)
    /\ ToSet(keys) = {k \in 0 .. c.keys - 1 : k \div c.size \in ToSet(s)}
    /\ Len(keys) \in Int /\ Len(keys) >= 1 /\ BlocksFor(Len(keys), c.size) = Len(s)

LEMMA KeysOfBlocks ==
    ASSUME NEW c \in AttentionCalls, NEW s \in Seq(Blks(c)), Len(s) >= 1, Ascends(s),
           NEW keys \in Seq(Nat), Len(keys) <= Len(s) * c.size,
           \A i \in 1 .. Len(keys) : keys[i] = Tokens(c, s)[i],
           \A i \in 1 .. (Len(s) * c.size) : Tokens(c, s)[i] < c.keys <=> i \in 1 .. Len(keys)
    PROVE  KeysOf(c, s, keys)
<1> DEFINE size == c.size
           K == KeyBlocks(c)
           b == Len(s)
           N == b * size
           t == Tokens(c, s)
           m == Len(keys)
<1>1. size \in Int /\ size >= 1 /\ c.keys \in Int /\ c.keys >= 1 /\ K \in Int /\ K >= 1
  BY CallTypes
<1>2. b \in Int /\ b >= 1 /\ DOMAIN s = 1 .. b /\ \A i \in 1 .. b : s[i] \in 0 .. K - 1
  <2>1. b \in Nat /\ DOMAIN s = 1 .. b /\ s \in [1 .. b -> Blks(c)]
    BY LenProperties
  <2>2. Blks(c) = 0 .. K - 1
    BY DEF Blks
  <2> HIDE DEF b, K
  <2>3. b >= 1
    BY DEF b
  <2> QED
    BY <2>1, <2>2, <2>3
<1>3. s \in Seq(Nat)
  <2>1. \A i \in 1 .. b : s[i] \in Nat
    BY <1>1, <1>2
  <2>2. s \in [1 .. b -> Nat] /\ b \in Nat
    <3>1. s \in [1 .. b -> Blks(c)]
      BY LenProperties
    <3> QED
      BY <1>2, <2>1, <3>1
  <2> QED
    BY <2>2, FunctionIsSeq
<1>4. /\ N \in Nat /\ DOMAIN t = 1 .. N /\ Ascends(t)
      /\ \A i \in 1 .. N : t[i] \in Nat /\ t[i] \div size = s[BlocksFor(i, size)]
                           /\ t[i] = size * s[BlocksFor(i, size)] + ((i - 1) % size)
      /\ ToSet(t) = {k \in Nat : k \div size \in ToSet(s)}
  BY <1>2, <1>3, TokensFacts
<1>5. m \in Nat /\ DOMAIN keys = 1 .. m /\ m <= N
  BY LenProperties
<1>6. \A i \in 1 .. m : keys[i] = t[i] /\ i \in 1 .. N
  BY <1>4, <1>5
<1>7. \A i \in 1 .. N : t[i] < c.keys <=> i \in 1 .. m
  OBVIOUS
<1>8. c.keys - 1 = size * (K - 1) + ((c.keys - 1) % size) /\ 0 <= (c.keys - 1) % size
      /\ (c.keys - 1) % size \in Int
  BY <1>1, BlocksForFacts DEF KeyBlocks
<1> DEFINE e == size * (K - 1)
<1>9. e \in Int /\ e < c.keys
  <2>1. e \in Int
    BY <1>1
  <2>2. c.keys - 1 = e + ((c.keys - 1) % size)
    BY <1>8
  <2> HIDE DEF e
  <2> QED
    BY <1>1, <1>8, <2>1, <2>2
<1> HIDE DEF size, K, b, N, t, m, e
<1>10. ToSet(keys) = {k \in 0 .. c.keys - 1 : k \div size \in ToSet(s)}
  <2>1. ToSet(keys) = {t[i] : i \in 1 .. m}
    BY <1>5, <1>6 DEF ToSet
  <2>2. ToSet(t) = {t[i] : i \in 1 .. N}
    BY <1>4 DEF ToSet
  <2>3. ASSUME NEW i \in 1 .. m
        PROVE  t[i] \in 0 .. c.keys - 1 /\ t[i] \div size \in ToSet(s)
    <3>1. i \in 1 .. N /\ t[i] \in Nat /\ t[i] < c.keys
      BY <1>4, <1>6, <1>7
    <3>2. t[i] \in ToSet(t)
      BY <2>2, <3>1
    <3>3. t[i] \div size \in ToSet(s)
      BY <1>4, <3>2
    <3> QED
      BY <1>1, <3>1, <3>3
  <2>4. ASSUME NEW k \in 0 .. c.keys - 1, k \div size \in ToSet(s)
        PROVE  \E i \in 1 .. m : t[i] = k
    <3>1. k \in Nat /\ k < c.keys
      BY <1>1
    <3>2. k \in ToSet(t)
      BY <1>4, <2>4, <3>1
    <3>3. PICK i \in 1 .. N : t[i] = k
      BY <2>2, <3>2
    <3> QED
      BY <1>7, <3>1, <3>3
  <2> QED
    BY <2>1, <2>3, <2>4
<1>11. {k \div size : k \in ToSet(keys)} = ToSet(s)
  <2>1. ASSUME NEW x \in ToSet(s)
        PROVE  \E k \in ToSet(keys) : k \div size = x
    <3> DEFINE k == size * x
    <3>1. x \in Int /\ 0 <= x /\ x <= K - 1
      BY <1>1, <1>2 DEF ToSet
    <3>2. k \in Int /\ k >= 0 /\ k <= e
      BY <1>1, <3>1 DEF e
    <3>3. k = size * x + 0
      BY <3>2
    <3> HIDE DEF k
    <3>4. k \div size = x
      BY <1>1, <3>1, <3>2, <3>3, EuclidUnique
    <3>5. k \in 0 .. c.keys - 1
      BY <1>1, <1>9, <3>2
    <3> QED
      BY <1>10, <2>1, <3>4, <3>5
  <2>2. \A k \in ToSet(keys) : k \div size \in ToSet(s)
    BY <1>10
  <2> QED
    BY <2>1, <2>2
<1>12. ASSUME NEW n \in 1 .. m - 1
       PROVE  keys[n] < keys[n + 1]
  <2>1. n \in 1 .. m /\ n + 1 \in 1 .. m /\ n < n + 1
    BY <1>5
  <2>2. t[n] < t[n + 1]
    BY <1>4, <1>6, <2>1 DEF Ascends
  <2> QED
    BY <1>6, <2>1, <2>2
<1>13. m >= 1 /\ BlocksFor(m, size) = b
  <2> DEFINE d == size * (b - 1)
             i == d + 1
  <2>1. d \in Int /\ d >= 0 /\ N = d + size
    BY <1>1, <1>2 DEF N
  <2>2. i - 1 = size * (b - 1) + 0
    BY <2>1
  <2>3. i \in 1 .. N /\ i \in Int
    BY <1>1, <2>1
  <2> HIDE DEF i
  <2>4. BlocksFor(i, size) = b /\ (i - 1) % size = 0
    BY <1>1, <1>2, <2>2, <2>3, BlocksForUnique
  <2>5. t[i] = size * s[b] + 0
    BY <1>4, <2>3, <2>4
  <2>6. s[b] \in Int /\ s[b] <= K - 1
    BY <1>1, <1>2
  <2>7. size * s[b] <= size * (K - 1) /\ size * s[b] \in Int
    <3> DEFINE x == s[b]
               y == K - 1
    <3>1. x \in Int /\ y \in Int /\ x <= y
      BY <1>1, <2>6
    <3> HIDE DEF x, y
    <3>2. size * x <= size * y /\ size * x \in Int
      BY <1>1, <3>1
    <3> QED
      BY <3>2 DEF x, y
  <2>8. t[i] < c.keys
    BY <1>1, <1>9, <2>5, <2>7 DEF e
  <2>9. i <= m
    BY <1>5, <1>7, <2>3, <2>8
  <2>10. i = d + 1
    BY DEF i
  <2> DEFINE r == m - 1 - d
  <2>11. r \in Int /\ 0 <= r /\ r < size /\ m - 1 = d + r
    <3> HIDE DEF d
    <3> QED
      BY <1>1, <1>5, <2>1, <2>9, <2>10
  <2>12. m \in Int /\ m >= 1
    BY <1>5, <2>1, <2>9, <2>10
  <2> HIDE DEF r
  <2>13. m - 1 = size * (b - 1) + r
    BY <2>11
  <2> HIDE DEF d
  <2>14. BlocksFor(m, size) = b
    BY <1>1, <1>2, <2>11, <2>12, <2>13, BlocksForUnique
  <2> QED
    BY <2>12, <2>14
<1> QED
  BY <1>5, <1>10, <1>11, <1>12, <1>13 DEF KeysOf, size, b, m

(* Cut off where the padding begins. *)
LEMMA CompactedFacts ==
    ASSUME NEW c \in AttentionCalls, NEW s \in Seq(Blks(c)), Len(s) >= 1, Ascends(s)
    PROVE  KeysOf(c, s, Compacted(c, Tokens(c, s)))
<1> DEFINE size == c.size
           b == Len(s)
           N == b * size
           t == Tokens(c, s)
           safe == [i \in DOMAIN t |-> Min({t[i], c.keys})]
           valid == {i \in DOMAIN t : t[i] < c.keys}
           m == Cardinality(valid)
           keys == SubSeq(safe, 1, m)
<1>1. size \in Int /\ size >= 1 /\ c.keys \in Int /\ c.keys >= 1
  BY CallTypes
<1>2. s \in Seq(Nat)
  <2>1. KeyBlocks(c) \in Int
    BY CallTypes
  <2>2. Blks(c) \subseteq Nat
    BY <2>1 DEF Blks
  <2>3. s \in [1 .. Len(s) -> Blks(c)] /\ Len(s) \in Nat
    BY LenProperties
  <2>4. s \in [1 .. Len(s) -> Nat]
    BY <2>2, <2>3
  <2> QED
    BY <2>3, <2>4, FunctionIsSeq
<1>3. N \in Nat /\ DOMAIN t = 1 .. N /\ Ascends(t) /\ \A i \in 1 .. N : t[i] \in Nat
  BY <1>2, TokensFacts
<1>4. \A i \in 1 .. N : Min({t[i], c.keys}) = IF t[i] <= c.keys THEN t[i] ELSE c.keys
  <2> HIDE DEF t, N
  <2> QED
    BY <1>1, <1>3, SmallerOfTwo
<1>5. Compacted(c, t) = SubSeq(Sorted(safe), 1, m)
  BY DEF Compacted
<1> HIDE DEF N, t
<1>6. DOMAIN safe = 1 .. N /\ \A i \in 1 .. N : /\ safe[i] = IF t[i] <= c.keys THEN t[i] ELSE c.keys
                                                /\ safe[i] \in Nat
  BY <1>1, <1>3, <1>4
<1>7. safe \in Seq(Int) /\ safe \in [1 .. N -> Nat]
  <2>1. safe \in [1 .. N -> Nat]
    BY <1>3, <1>6
  <2>2. safe \in [1 .. N -> Int]
    BY <1>3, <1>6
  <2> HIDE DEF safe
  <2> QED
    BY <1>3, <2>1, <2>2, FunctionIsSeq
<1> HIDE DEF safe
<1>8. Sorted(safe) = safe
  <2>1. ASSUME NEW i \in DOMAIN safe, NEW j \in DOMAIN safe, i < j
        PROVE  safe[i] <= safe[j]
    <3>1. t[i] < t[j] /\ t[i] \in Nat /\ t[j] \in Nat
      BY <1>3, <1>6, <2>1 DEF Ascends
    <3> QED
      BY <1>1, <1>6, <2>1, <3>1
  <2> QED
    BY <1>7, <2>1, SortedOfSorted
<1>9. m \in 0 .. N /\ valid = 1 .. m
  <2>1. valid \in SUBSET (1 .. N)
    BY <1>3
  <2>2. ASSUME NEW i \in valid, NEW j \in 1 .. N, j < i
        PROVE  j \in valid
    <3>1. i \in 1 .. N /\ t[i] < c.keys
      BY <1>3
    <3>2. t[j] < t[i] /\ t[i] \in Nat /\ t[j] \in Nat
      BY <1>3, <2>2, <3>1 DEF Ascends
    <3> QED
      BY <1>1, <1>3, <3>1, <3>2
  <2> HIDE DEF valid
  <2> QED
    BY <1>3, <2>1, <2>2, InitialSegment
<1>10. \A i \in 1 .. N : t[i] < c.keys <=> i \in 1 .. m
  <2>1. \A i \in 1 .. N : i \in valid <=> t[i] < c.keys
    BY <1>3
  <2> HIDE DEF valid, m
  <2> QED
    BY <1>9, <2>1
<1> HIDE DEF valid, m
<1>11. keys \in Seq(Nat) /\ Len(keys) = m /\ \A i \in 1 .. m : keys[i] = t[i]
  <2>1. m \in Int /\ m >= 0 /\ \A i \in 1 .. m : i \in 1 .. N /\ safe[i] \in Nat
    BY <1>3, <1>6, <1>9
  <2>2. /\ keys \in Seq(Nat) /\ Len(keys) = IF 1 <= m THEN m - 1 + 1 ELSE 0
        /\ \A i \in 1 .. m - 1 + 1 : keys[i] = safe[1 + i - 1]
    BY <2>1, SubSeqProperties
  <2>3. Len(keys) = m
    BY <2>1, <2>2
  <2>4. \A i \in 1 .. m : i \in 1 .. m - 1 + 1 /\ 1 + i - 1 = i
    BY <2>1
  <2>5. \A i \in 1 .. m : keys[i] = safe[i]
    BY <2>2, <2>4
  <2>6. ASSUME NEW i \in 1 .. m
        PROVE  safe[i] = t[i]
    <3>1. i \in 1 .. N /\ t[i] < c.keys /\ t[i] \in Nat
      BY <1>3, <1>10, <2>1
    <3> QED
      BY <1>1, <1>6, <3>1
  <2> HIDE DEF keys
  <2> QED
    BY <2>2, <2>3, <2>5, <2>6
<1> HIDE DEF keys
<1>12. Len(keys) <= N
  BY <1>3, <1>9, <1>11
<1>13. KeysOf(c, s, keys)
  BY <1>10, <1>11, <1>12, KeysOfBlocks DEF N, t
<1> QED
  BY <1>5, <1>8, <1>13 DEF keys, t
(* Nothing to cut off.                                                       *)
LEMMA WholeBlocksFacts ==
    ASSUME NEW c \in AttentionCalls, c.keys % c.size = 0,
           NEW s \in Seq(Blks(c)), Len(s) >= 1, Ascends(s)
    PROVE  KeysOf(c, s, Tokens(c, s))
<1> DEFINE size == c.size
           K == KeyBlocks(c)
           b == Len(s)
           N == b * size
           t == Tokens(c, s)
<1>1. size \in Int /\ size >= 1 /\ c.keys \in Int /\ c.keys >= 1 /\ K \in Int /\ K >= 1
  BY CallTypes
<1>2. b \in Nat /\ s \in [1 .. b -> Blks(c)] /\ Blks(c) = 0 .. K - 1
  BY LenProperties DEF Blks
<1>3. s \in Seq(Nat)
  <2> HIDE DEF b, K
  <2>1. s \in [1 .. b -> Nat]
    BY <1>1, <1>2
  <2> QED
    BY <1>2, <2>1, FunctionIsSeq
<1>4. /\ N \in Nat /\ DOMAIN t = 1 .. N
      /\ \A i \in 1 .. N : t[i] \in Nat /\ t[i] = size * s[BlocksFor(i, size)] + ((i - 1) % size)
  BY <1>3, TokensFacts
<1>5. b \in Int /\ b >= 1
  BY <1>2
<1>6. \A i \in 1 .. N : /\ BlocksFor(i, size) \in 1 .. b
                        /\ (i - 1) % size \in Int /\ (i - 1) % size < size
  <2> HIDE DEF size, b
  <2> QED
    BY <1>1, <1>5, TokenPlaces
<1>7. c.keys = size * K
  <2> DEFINE n == c.keys
             d == n \div size
             e == size * (K - 1)
             f == size * (d - 1)
             r == (n - 1) % size
  <2> HIDE DEF size, K
  <2>1. d \in Int /\ n = size * d
    <3> DEFINE o == n % size
    <3>1. o = 0
      BY DEF n, size
    <3> HIDE DEF n
    <3>2. d \in Int /\ n = size * d + o
      <4>1. n \in Int /\ size > 0
        BY <1>1 DEF n
      <4> QED
        BY <1>1, <4>1, Euclid
    <3> HIDE DEF d, o
    <3>3. size * d \in Int
      BY <1>1, <3>2
    <3> QED
      BY <3>1, <3>2, <3>3
  <2> HIDE DEF d
  <2> DEFINE z == size - 1
  <2>2. n - 1 = f + z /\ f \in Int /\ z \in Int /\ 0 <= z /\ z < size /\ n \in Int
    <3> DEFINE g == size * d
    <3>1. g \in Int /\ f = g - size
      BY <1>1, <2>1
    <3>2. n = g
      BY <2>1
    <3> HIDE DEF f, g
    <3> QED
      BY <1>1, <3>1, <3>2
  <2>3. n - 1 = size * (d - 1) + z
    BY <2>2
  <2> HIDE DEF n, z
  <2>4. BlocksFor(n, size) = d
    BY <1>1, <2>1, <2>2, <2>3, BlocksForUnique
  <2>5. K = d
    BY <2>4 DEF n, KeyBlocks, K, size
  <2> QED
    BY <1>1, <2>1, <2>5 DEF n
<1> HIDE DEF size, K, b, N, t
<1>8. \A i \in 1 .. N : t[i] < c.keys
  <2> TAKE i \in 1 .. N
  <2> DEFINE x == s[BlocksFor(i, size)]
             z == (i - 1) % size
             y == size * x
  <2>1. x \in Int /\ x + 1 <= K /\ z \in Int /\ z < size /\ t[i] = y + z
    BY <1>1, <1>2, <1>4, <1>6
  <2> HIDE DEF x, z
  <2>2. size * (x + 1) <= size * K /\ size * (x + 1) = y + size /\ y \in Int
    BY <1>1, <2>1
  <2> HIDE DEF y
  <2> QED
    BY <1>1, <1>7, <2>1, <2>2
<1>9. t \in Seq(Nat) /\ Len(t) = N
  <2>1. t = [i \in 1 .. N |-> t[i]]
    BY <1>4 DEF t, Tokens
  <2>2. t \in [1 .. N -> Nat]
    BY <1>4, <2>1
  <2> QED
    BY <1>4, <2>2, FunctionIsSeq
<1>10. Len(t) <= N /\ (\A i \in 1 .. Len(t) : t[i] = t[i])
       /\ \A i \in 1 .. N : t[i] < c.keys <=> i \in 1 .. Len(t)
  BY <1>4, <1>8, <1>9
<1>11. KeysOf(c, s, t)
  BY <1>9, <1>10, KeysOfBlocks DEF N, t, b, size
<1> QED
  BY <1>11 DEF t
-----------------------------------------------------------------------------
(* What a call with a selection returns.                                     *)
LEMMA SelectedFacts ==
    ASSUME NEW c, SparseCall(c), NEW order \in Orders(c)
    PROVE  /\ Selected(c, order) \in Seq(Blks(c)) /\ Len(Selected(c, order)) = Budget(c)
           /\ Ascends(Selected(c, order))
           /\ ToSet(Selected(c, order)) = ToSet(Chosen(c, order))
<1> DEFINE C == Chosen(c, order)
           s == Sorted(C)
           B == Budget(c)
           V == Blks(c)
<1>1. C \in Seq(V) /\ IsInjective(C) /\ Len(C) = B
  BY ChosenFacts
<1>2. B \in Nat /\ V \subseteq Int
  BY BudgetFacts DEF Blks
<1>3. Selected(c, order) = s
  BY DEF Selected
<1> HIDE DEF C, B, V
<1>4. DOMAIN C = 1 .. B /\ \A i \in 1 .. B : C[i] \in V
  BY <1>1, LenProperties
<1>5. C \in Seq(Int)
  <2>1. C \in [1 .. B -> V]
    BY <1>1, LenProperties
  <2>2. C \in [1 .. B -> Int]
    BY <1>2, <2>1
  <2> QED
    BY <1>2, <2>2, FunctionIsSeq
<1>6. /\ s \in Seq(Int) /\ Len(s) = B /\ DOMAIN s = 1 .. B
      /\ \A m, n \in 1 .. B : m < n => s[m] < s[n]
      /\ ToSet(s) = ToSet(C)
  BY <1>1, <1>5, SortedOfInjective
<1> HIDE DEF s
<1>7. \A i \in 1 .. B : s[i] \in V
  <2>1. \A i \in 1 .. B : s[i] \in ToSet(C)
    BY <1>6 DEF ToSet
  <2>2. \A x \in ToSet(C) : x \in V
    BY <1>4 DEF ToSet
  <2> QED
    BY <2>1, <2>2
<1>8. s \in Seq(V)
  <2>1. s \in [1 .. B -> Int]
    BY <1>6, LenProperties
  <2>2. s \in [1 .. B -> V]
    BY <1>7, <2>1
  <2> QED
    BY <1>2, <2>2, FunctionIsSeq
<1>9. Ascends(s)
  BY <1>6 DEF Ascends
<1> QED
  BY <1>3, <1>6, <1>8, <1>9 DEF C, B, V

\* SparseKeysRight of a number of blocks.
RightKeys(c, order, keys, blocks) ==
    LET there == {k \div c.size : k \in ToSet(keys)}
        kept == ToSet(Reserved(c)) IN
    /\ \A n \in 1 .. Len(keys) - 1 : keys[n] < keys[n + 1]
    /\ ToSet(keys) = {k \in 0 .. c.keys - 1 : k \div c.size \in there}
    /\ blocks = Cardinality(there)
    /\ Cardinality(there) <= IF c.overflow THEN Max({Active(c), Cardinality(kept)}) ELSE Active(c)
    /\ kept \subseteq there \/ (~c.overflow /\ Cardinality(kept) > Active(c))
    /\ \A m, n \in DOMAIN order : m < n /\ order[n] \in there \ kept => order[m] \in there

LEMMA KeysRight ==
    ASSUME NEW c, SparseCall(c), NEW order \in Orders(c), NEW keys, KeysOf(c, Selected(c, order), keys)
    PROVE  RightKeys(c, order, keys, Budget(c))
<1> DEFINE there == ToSet(Chosen(c, order))
           kept == ToSet(Reserved(c))
           B == Budget(c)
           q == Active(c)
           r == Len(Reserved(c))
<1>1. c \in AttentionCalls
  BY DEF SparseCall
<1>2. q \in Int /\ c.overflow \in BOOLEAN
  BY <1>1, CallTypes
<1>3. r \in Nat /\ Cardinality(kept) = r /\ IsFiniteSet(kept)
  BY <1>1, ReservedFacts
<1>4. /\ B \in Nat
      /\ c.overflow => B >= r
      /\ ~c.overflow => B = q
      /\ B <= q \/ (c.overflow /\ B <= r)
  BY BudgetFacts
<1>5. ToSet(Selected(c, order)) = there
  BY SelectedFacts
<1>6. IsFiniteSet(there) /\ ChosenRight(c, order, there)
  BY ChosenFacts
<1>7. /\ Cardinality(there) = B
      /\ kept \subseteq there \/ (Cardinality(there) <= Cardinality(kept) /\ there \subseteq kept)
      /\ \A m, n \in DOMAIN order : m < n /\ order[n] \in there \ kept => order[m] \in there
  BY <1>6 DEF ChosenRight
<1>8. /\ \A n \in 1 .. Len(keys) - 1 : keys[n] < keys[n + 1]
      /\ {k \div c.size : k \in ToSet(keys)} = there
      /\ ToSet(keys) = {k \in 0 .. c.keys - 1 : k \div c.size \in there}
  BY <1>5 DEF KeysOf
<1> HIDE DEF there, kept, B, q, r
<1>9. Cardinality(there) <= IF c.overflow THEN Max({q, Cardinality(kept)}) ELSE q
  <2>1. Max({q, r}) = IF q >= r THEN q ELSE r
    BY <1>2, <1>3, GreaterOfTwo
  <2>2. CASE c.overflow
    <3>1. B <= q \/ B <= r
      BY <1>4
    <3>2. B <= Max({q, r})
      BY <1>2, <1>3, <1>4, <2>1, <3>1
    <3> QED
      BY <1>3, <1>7, <2>2, <3>2
  <2>3. CASE ~c.overflow
    <3>1. B <= q
      BY <1>2, <1>4, <2>3
    <3> QED
      BY <1>7, <2>3, <3>1
  <2> QED
    BY <2>2, <2>3
<1>10. kept \subseteq there \/ (~c.overflow /\ Cardinality(kept) > q)
  <2>1. SUFFICES ASSUME ~(kept \subseteq there), ~(~c.overflow /\ Cardinality(kept) > q)
                 PROVE  FALSE
    OBVIOUS
  <2>2. there \in SUBSET kept /\ B <= r
    BY <1>3, <1>7, <2>1
  <2>3. B = r
    <3>1. CASE c.overflow
      BY <1>3, <1>4, <2>2, <3>1
    <3>2. CASE ~c.overflow
      <4>1. B = q /\ ~(r > q)
        BY <1>3, <1>4, <2>1, <3>2
      <4> QED
        BY <1>2, <1>3, <2>2, <4>1
    <3> QED
      BY <3>1, <3>2
  <2>4. kept = there
    BY <1>3, <1>7, <2>2, <2>3, FS_Subset
  <2> QED
    BY <2>1, <2>4
<1> QED
  BY <1>7, <1>8, <1>9, <1>10 DEF RightKeys, B, kept, q

LEMMA SparseFacts ==
    ASSUME NEW c, SparseCall(c), NEW orders \in [1 .. c.batches -> Orders(c)], NEW b \in 1 .. c.batches
    PROVE  /\ Sparse(c, orders).mode = "sparse_compacted"
           /\ RightKeys(c, orders[b], Sparse(c, orders).keys[b][1], Sparse(c, orders).blocks)
<1> DEFINE D == 1 .. c.batches
           chosen == [e \in D |-> Selected(c, orders[e])]
           lens == {Len(chosen[e]) : e \in D}
           most == Max(lens)
           tokens == [e \in D |-> Tokens(c, PaddedTo(chosen[e], most))]
           keys == IF c.batches = 1 THEN <<Compacted(c, tokens[1])>> ELSE tokens
           blocks == IF c.batches = 1 THEN Max({1, BlocksFor(Len(keys[1]), c.size)}) ELSE most
           B == Budget(c)
           s == Selected(c, orders[b])
<1>1. c \in AttentionCalls
  BY DEF SparseCall
<1>2. c.batches \in Nat /\ c.size \in Int /\ c.size >= 1 /\ c.keys \in Int /\ c.keys >= 1
  BY <1>1, CallTypes
<1>3. c.batches > 1 => c.keys % c.size = 0
  BY SparseCallFacts
<1>4. Sparse(c, orders) = [mode |-> "sparse_compacted", blocks |-> blocks,
                           keys |-> [e \in D |-> <<keys[e]>>]]
  BY DEF Sparse
<1>5. Sparse(c, orders).mode = "sparse_compacted" /\ Sparse(c, orders).blocks = blocks
      /\ Sparse(c, orders).keys[b][1] = keys[b]
  <2> HIDE DEF keys, blocks
  <2> QED
    BY <1>4
<1>6. \A e \in D : orders[e] \in Orders(c)
  OBVIOUS
<1>7. ASSUME NEW e \in D
      PROVE  Len(chosen[e]) = B /\ chosen[e] = Selected(c, orders[e])
  BY <1>6, SelectedFacts
<1>8. s \in Seq(Blks(c)) /\ Len(s) = B /\ Ascends(s)
  BY <1>6, SelectedFacts
<1>9. B \in Int /\ B >= 1
  BY <1>6, BudgetFacts
<1>10. most = B
  <2>1. lens = {B, B}
    <3>1. \A e \in D : Len(chosen[e]) = B
      BY <1>7
    <3>2. D # {}
      OBVIOUS
    <3> HIDE DEF D, chosen, B
    <3> QED
      BY <3>1, <3>2
  <2>2. Max({B, B}) = B
    <3> HIDE DEF B
    <3> QED
      BY <1>9, GreaterOfTwo
  <2> HIDE DEF lens
  <2> QED
    BY <2>1, <2>2
<1>11. PaddedTo(chosen[b], most) = s
  <2>1. chosen[b] = s
    BY <1>7
  <2> HIDE DEF chosen, most, s, B
  <2>2. DOMAIN s = 1 .. B /\ s = [i \in DOMAIN s |-> s[i]]
    BY <1>8, LenProperties
  <2>3. PaddedTo(s, B) = [i \in 1 .. B |-> IF i <= B THEN s[i] ELSE Last(s)]
    BY <1>8 DEF PaddedTo
  <2>4. \A i \in 1 .. B : i <= B
    BY <1>9
  <2>5. PaddedTo(s, B) = [i \in 1 .. B |-> s[i]]
    BY <2>3, <2>4
  <2> QED
    BY <1>10, <2>1, <2>2, <2>5
<1>12. tokens[b] = Tokens(c, s)
  <2>1. tokens[b] = Tokens(c, PaddedTo(chosen[b], most))
    <3> HIDE DEF chosen, most
    <3> QED
      OBVIOUS
  <2> QED
    BY <1>11, <2>1
<1> HIDE DEF chosen, most, tokens, s, B, lens
<1>13. CASE c.batches = 1
  <2>1. b = 1 /\ keys[b] = Compacted(c, Tokens(c, s))
    <3>1. b = 1
      BY <1>13
    <3> QED
      BY <1>12, <1>13, <3>1
  <2>2. KeysOf(c, s, keys[b])
    BY <1>1, <1>8, <1>9, <2>1, CompactedFacts
  <2>3. blocks = Max({1, BlocksFor(Len(keys[b]), c.size)})
    BY <1>13, <2>1
  <2> HIDE DEF keys, blocks
  <2>4. blocks = B
    <3>1. blocks = Max({1, B})
      BY <1>8, <2>2, <2>3 DEF KeysOf
    <3>2. Max({1, B}) = IF 1 >= B THEN 1 ELSE B
      BY <1>9, GreaterOfTwo
    <3> QED
      BY <1>9, <3>1, <3>2
  <2>5. RightKeys(c, orders[b], keys[b], B)
    BY <1>6, <2>2, KeysRight DEF s, B
  <2> QED
    BY <1>5, <2>4, <2>5
<1>14. CASE c.batches # 1
  <2>1. keys[b] = Tokens(c, s) /\ blocks = B
    BY <1>10, <1>12, <1>14
  <2> HIDE DEF keys, blocks
  <2>2. KeysOf(c, s, Tokens(c, s))
    <3>1. c.batches > 1
      BY <1>2, <1>14
    <3> QED
      BY <1>1, <1>3, <1>8, <1>9, <3>1, WholeBlocksFacts
  <2>3. RightKeys(c, orders[b], keys[b], B)
    BY <1>6, <2>1, <2>2, KeysRight DEF s, B
  <2> QED
    BY <1>5, <2>1, <2>3
<1> QED
  BY <1>13, <1>14
-----------------------------------------------------------------------------
(* What a call with every key returns.                                       *)
LEMMA UnmaskedFacts ==
    ASSUME NEW c \in AttentionCalls, NEW i \in 1 .. c.queries, c.queries <= c.keys
    PROVE  ToSet(Unmasked(c, i)) = {k \in 0 .. c.keys - 1 : k - (c.keys - c.queries) < i}
<1> DEFINE n == c.keys
           q == c.queries
           last == i - 1 + n - q
           m == IF q = 1 THEN n ELSE last + 1
           f == [k \in 1 .. m |-> k - 1]
<1>1. n \in Int /\ n >= 1 /\ q \in Int /\ q >= 1 /\ q <= n /\ i \in 1 .. q
  BY CallTypes
<1>2. last \in Int /\ last >= 0 /\ last < n /\ m \in Int /\ m = i + (n - q)
  <2> HIDE DEF n, q
  <2> QED
    BY <1>1
<1>3. Unmasked(c, i) = f
  <2>1. CASE q = 1
    BY <2>1 DEF Unmasked
  <2>2. CASE q # 1
    BY <1>2, <2>2 DEF Unmasked
  <2> QED
    BY <2>1, <2>2
<1> HIDE DEF n, q, last, m
<1>4. DOMAIN f = 1 .. m /\ \A k \in 1 .. m : f[k] = k - 1
  OBVIOUS
<1> HIDE DEF f
<1>5. ToSet(f) = {k - 1 : k \in 1 .. m}
  BY <1>4 DEF ToSet
<1>6. \A k \in 1 .. m : k - 1 \in 0 .. n - 1 /\ (k - 1) - (n - q) < i
  BY <1>1, <1>2
<1>7. \A k \in 0 .. n - 1 : k - (n - q) < i => k + 1 \in 1 .. m /\ k = (k + 1) - 1
  BY <1>1, <1>2
<1>8. {k - 1 : k \in 1 .. m} = {k \in 0 .. n - 1 : k - (n - q) < i}
  BY <1>6, <1>7
<1> QED
  BY <1>3, <1>5, <1>8 DEF n, q

(* A call answers once, and what it answers is right. *)
AttentionInv == AttendsToTheRightKeys /\ (asked = NotCalled => attended = NotCalled)

LEMMA DenseStep ==
    ASSUME NEW c \in AttentionCalls, Mode(c) # "sparse_compacted",
           asked' = c, attended' = Dense(c)
    PROVE  AttendsToTheRightKeys'
<1>1. attended'.mode = Mode(c)
      /\ \A b \in 1 .. c.batches, i \in 1 .. c.queries : attended'.keys[b][i] = Unmasked(c, i)
  BY DEF Dense
<1>2. \A b \in 1 .. c.batches, i \in 1 .. c.queries :
        c.queries <= c.keys =>
          ToSet(attended'.keys[b][i]) = {k \in 0 .. c.keys - 1 : k - (c.keys - c.queries) < i}
  BY <1>1, UnmaskedFacts
<1> QED
  BY <1>1, <1>2 DEF AttendsToTheRightKeys

LEMMA SparseStep ==
    ASSUME NEW c, SparseCall(c), NEW orders \in [1 .. c.batches -> Orders(c)],
           asked' = c, best' = orders, attended' = Sparse(c, orders)
    PROVE  AttendsToTheRightKeys'
<1>1. c.queries = 1
  BY SparseCallFacts
<1>2. ASSUME NEW b \in 1 .. c.batches, NEW i \in 1 .. c.queries
      PROVE  attended'.mode = "sparse_compacted"
             /\ RightKeys(c, orders[b], attended'.keys[b][i], attended'.blocks)
  <2>1. i = 1
    BY <1>1
  <2> QED
    BY <2>1, SparseFacts
<1>3. ASSUME NEW b \in 1 .. c.batches, NEW i \in 1 .. c.queries
      PROVE  SparseKeysRight(c, orders[b], attended.keys[b][i])'
  BY <1>2 DEF SparseKeysRight, RightKeys
<1> QED
  BY <1>2, <1>3 DEF AttendsToTheRightKeys

LEMMA AttentionStep ==
    ASSUME AttentionInv, [Next]_vars
    PROVE  AttentionInv'
<1>1. ASSUME UNCHANGED attentionVars
      PROVE  AttentionInv'
  <2>1. asked' = asked /\ best' = best /\ attended' = attended
    BY <1>1 DEF attentionVars
  <2>2. AttendsToTheRightKeys'
    <3>1. CASE attended = NotCalled
      BY <2>1, <3>1 DEF AttendsToTheRightKeys
    <3>2. ASSUME attended # NotCalled, NEW b \in 1 .. asked.batches, NEW i \in 1 .. asked.queries,
                 attended.mode = "sparse_compacted"
          PROVE  SparseKeysRight(asked, best[b], attended.keys[b][i])'
      <4>1. SparseKeysRight(asked, best[b], attended.keys[b][i])
        BY <3>2 DEF AttentionInv, AttendsToTheRightKeys
      <4> QED
        BY <2>1, <4>1 DEF SparseKeysRight
    <3>3. ASSUME attended # NotCalled, NEW b \in 1 .. asked.batches, NEW i \in 1 .. asked.queries,
                 attended.mode # "sparse_compacted", asked.queries <= asked.keys
          PROVE  ToSet(attended.keys[b][i]) =
                     {k \in 0 .. asked.keys - 1 : k - (asked.keys - asked.queries) < i}
      BY <3>3 DEF AttentionInv, AttendsToTheRightKeys
    <3> QED
      BY <2>1, <3>1, <3>2, <3>3 DEF AttendsToTheRightKeys
  <2> QED
    BY <2>1, <2>2 DEF AttentionInv
<1>2. ASSUME NEW c \in AttentionCalls, Execute(c)
      PROVE  AttentionInv'
  <2>1. asked' = c /\ c # NotCalled
    BY <1>2, CallsAssumption DEF Execute
  <2>2. CASE Mode(c) = "sparse_compacted"
    <3>1. PICK orders \in [1 .. c.batches -> Orders(c)] : best' = orders /\ attended' = Sparse(c, orders)
      BY <1>2, <2>2 DEF Execute
    <3>2. SparseCall(c)
      BY <2>2 DEF SparseCall
    <3>3. AttendsToTheRightKeys'
      BY <2>1, <3>1, <3>2, SparseStep
    <3> QED
      BY <2>1, <3>3 DEF AttentionInv
  <2>3. CASE Mode(c) # "sparse_compacted"
    <3>1. attended' = Dense(c)
      BY <1>2, <2>3 DEF Execute
    <3>2. AttendsToTheRightKeys'
      BY <2>1, <2>3, <3>1, DenseStep
    <3> QED
      BY <2>1, <3>2 DEF AttentionInv
  <2> QED
    BY <2>2, <2>3
<1>3. ASSUME NEW c \in AttentionCalls, ExecuteRaises(c)
      PROVE  AttentionInv'
  <2>1. asked' # NotCalled /\ attended' = NotCalled
    BY <1>3, CallsAssumption DEF ExecuteRaises, AttentionInv
  <2> QED
    BY <2>1 DEF AttentionInv, AttendsToTheRightKeys
<1>4. CASE Next
  BY <1>1, <1>2, <1>3, <1>4 DEF Next, AttentionNext
<1>5. CASE UNCHANGED vars
  BY <1>1, <1>5 DEF vars
<1> QED
  BY <1>4, <1>5

(* A dense query attends to every key that is not after it; a sparse one to    *)
(* the tokens of the reserved blocks and of those that score best, each key    *)
(* once: for every number of batches, queries, keys, blocks and reserved       *)
(* blocks and every order of the scores.                                     *)
THEOREM KeysAreTheRightOnes == Spec => []AttendsToTheRightKeys
<1>1. Init => AttentionInv
  BY DEF Init, AttentionInit, AttentionInv, AttendsToTheRightKeys
<1>2. AttentionInv /\ [Next]_vars => AttentionInv'
  BY AttentionStep
<1>3. AttentionInv => AttendsToTheRightKeys
  BY DEF AttentionInv
<1> QED
  BY <1>1, <1>2, <1>3, PTL DEF Spec
-----------------------------------------------------------------------------
(* The codec joins the parts of a block as the lemmas do.                     *)
LEMMA ConcatenatedIsJoined ==
    ASSUME NEW parts
    PROVE  Concatenated(parts) = Joins(parts)[Len(parts)]
BY DEF Concatenated, Joins

LEMMA OffsetsFacts ==
    ASSUME NEW S, NEW parts \in Seq(Seq(S))
    PROVE  /\ Offsets(parts) \in [0 .. Len(parts) -> Nat] /\ Offsets(parts)[0] = 0
           /\ \A k \in 1 .. Len(parts) : Offsets(parts)[k] = Offsets(parts)[k - 1] + Len(parts[k])
<1> DEFINE n == Len(parts)
           Solves0(o) == o = [b \in 0 .. n |-> IF b = 0 THEN 0 ELSE o[b - 1] + Len(parts[b])]
           turn == [k \in 1 .. n |-> [x \in Nat |-> x + Len(parts[k])]]
<1>1. n \in Nat /\ \A k \in 1 .. n : Len(parts[k]) \in Nat
  BY LenProperties
<1>2. Offsets(parts) = CHOOSE o : Solves0(o)
  BY DEF Offsets
<1> HIDE DEF n
<1>3. turn \in [1 .. n -> [Nat -> Nat]]
  BY <1>1
<1>4. \A k \in 1 .. n : \A x \in Nat : turn[k][x] = x + Len(parts[k])
  OBVIOUS
<1>5. PICK f \in [0 .. n -> Nat] : f[0] = 0 /\ \A k \in 1 .. n : f[k] = turn[k][f[k - 1]]
  <2> HIDE DEF turn
  <2>1. Loop(n, Nat, 0, turn)
    BY <1>1, <1>3 DEF Loop
  <2> QED
    BY <2>1, LoopRuns DEF LoopRun
<1> HIDE DEF turn
<1>6. \A k \in 1 .. n : f[k] = f[k - 1] + Len(parts[k])
  <2>1. \A k \in 1 .. n : k - 1 \in 0 .. n
    BY <1>1
  <2> QED
    BY <1>4, <1>5, <2>1
<1>7. Solves0(f)
  <2>1. \A k \in 0 .. n : k # 0 => k \in 1 .. n
    BY <1>1
  <2> QED
    BY <1>5, <1>6, <2>1
<1>8. Solves0(Offsets(parts))
  <2> HIDE DEF Solves0
  <2> QED
    BY <1>2, <1>7
<1> DEFINE o == Offsets(parts)
<1> HIDE DEF o
<1>9. o = [b \in 0 .. n |-> IF b = 0 THEN 0 ELSE o[b - 1] + Len(parts[b])]
  BY <1>8 DEF o
<1> HIDE DEF Solves0
<1>10. 0 \in 0 .. n /\ \A k \in 1 .. n : k \in 0 .. n /\ k # 0 /\ k - 1 \in 0 .. n
  BY <1>1
<1>11. DOMAIN o = 0 .. n /\ o[0] = 0 /\ \A k \in 1 .. n : o[k] = o[k - 1] + Len(parts[k])
  BY <1>9, <1>10
<1> DEFINE T == {k \in 0 .. n : o[k] \in Nat}
<1>12. \A k \in 0 .. n : k \in T
  <2>0. 0 \in T
    BY <1>10, <1>11
  <2>1. ASSUME NEW k \in 1 .. n, k - 1 \in T
        PROVE  k \in T
    <3>1. o[k - 1] \in Nat /\ Len(parts[k]) \in Nat /\ o[k] = o[k - 1] + Len(parts[k])
      BY <1>1, <1>11, <2>1
    <3> QED
      BY <1>10, <3>1
  <2> HIDE DEF T
  <2> QED
    BY <1>1, <2>0, <2>1, AllReached
<1>13. o \in [0 .. n -> Nat]
  BY <1>9, <1>12
<1> QED
  BY <1>11, <1>13 DEF o, n

LEMMA JoinsLengths ==
    ASSUME NEW S, NEW parts \in Seq(Seq(S))
    PROVE  \A k \in 0 .. Len(parts) : Len(Joins(parts)[k]) = Offsets(parts)[k]
<1> DEFINE n == Len(parts)
           J == Joins(parts)
           O == Offsets(parts)
           T == {k \in 0 .. n : Len(J[k]) = O[k]}
<1>1. n \in Nat /\ \A k \in 1 .. n : parts[k] \in Seq(S)
  BY LenProperties
<1>2. J \in [0 .. n -> Seq(S)] /\ J[0] = <<>> /\ \A k \in 1 .. n : J[k] = J[k - 1] \o parts[k]
  BY JoinsFacts
<1>3. O[0] = 0 /\ \A k \in 1 .. n : O[k] = O[k - 1] + Len(parts[k])
  BY OffsetsFacts
<1> HIDE DEF n, J, O
<1>4. 0 \in T
  <2>1. Len(<<>>) = 0 /\ 0 \in 0 .. n
    BY <1>1
  <2> QED
    BY <1>2, <1>3, <2>1
<1>5. ASSUME NEW k \in 1 .. n, k - 1 \in T
      PROVE  k \in T
  <2>1. k - 1 \in 0 .. n /\ k \in 0 .. n
    BY <1>1
  <2>2. J[k - 1] \in Seq(S) /\ parts[k] \in Seq(S)
    BY <1>1, <1>2, <2>1
  <2>3. Len(J[k]) = Len(J[k - 1]) + Len(parts[k])
    <3>1. J[k] = J[k - 1] \o parts[k]
      BY <1>2
    <3>2. Len(J[k - 1] \o parts[k]) = Len(J[k - 1]) + Len(parts[k])
      BY <2>2, ConcatProperties
    <3> QED
      BY <3>1, <3>2
  <2> QED
    BY <1>3, <1>5, <2>1, <2>3
<1>6. \A k \in 0 .. n : k \in T
  <2> HIDE DEF T
  <2> QED
    BY <1>1, <1>4, <1>5, AllReached
<1> QED
  BY <1>6 DEF n, J, O

(* A part is in all that is joined from it on, at its offset. *)
LEMMA PartAt ==
    ASSUME NEW S, NEW parts \in Seq(Seq(S)), NEW k \in 1 .. Len(parts)
    PROVE  \A m \in k .. Len(parts) :
              /\ Offsets(parts)[k] <= Offsets(parts)[m]
              /\ \A j \in 1 .. Len(parts[k]) : Joins(parts)[m][Offsets(parts)[k - 1] + j] = parts[k][j]
<1> DEFINE n == Len(parts)
           J == Joins(parts)
           O == Offsets(parts)
           p == parts[k]
           There(m) == O[k] <= O[m] /\ \A j \in 1 .. Len(p) : J[m][O[k - 1] + j] = p[j]
           T == {m \in 0 .. n : m < k \/ There(m)}
<1>1. n \in Nat /\ k \in 1 .. n /\ (\A m \in 1 .. n : parts[m] \in Seq(S) /\ Len(parts[m]) \in Nat)
  BY LenProperties
<1>2. J \in [0 .. n -> Seq(S)] /\ \A m \in 1 .. n : J[m] = J[m - 1] \o parts[m]
  BY JoinsFacts
<1>3. O \in [0 .. n -> Nat] /\ \A m \in 1 .. n : O[m] = O[m - 1] + Len(parts[m])
  BY OffsetsFacts
<1>4. \A m \in 0 .. n : Len(J[m]) = O[m]
  BY JoinsLengths
<1>5. p \in Seq(S) /\ Len(p) \in Nat /\ k \in 0 .. n /\ k - 1 \in 0 .. n
  BY <1>1
<1>6. O[k - 1] \in Nat /\ O[k] \in Nat /\ O[k] = O[k - 1] + Len(p)
  BY <1>1, <1>3, <1>5
<1> HIDE DEF n, J, O, p
<1>7. ASSUME NEW m \in 1 .. n
      PROVE  /\ m - 1 \in 0 .. n /\ m \in 0 .. n
             /\ O[m - 1] \in Nat /\ O[m] \in Nat /\ O[m - 1] <= O[m]
             /\ \A i \in 1 .. O[m] : J[m][i] = IF i <= O[m - 1] THEN J[m - 1][i] ELSE parts[m][i - O[m - 1]]
  <2>1. m - 1 \in 0 .. n /\ m \in 0 .. n
    BY <1>1
  <2>2. J[m - 1] \in Seq(S) /\ parts[m] \in Seq(S) /\ Len(parts[m]) \in Nat /\ Len(J[m - 1]) = O[m - 1]
    BY <1>1, <1>2, <1>4, <2>1
  <2>3. O[m - 1] \in Nat /\ O[m] = O[m - 1] + Len(parts[m])
    BY <1>3, <2>1
  <2>4. \A i \in 1 .. Len(J[m - 1]) + Len(parts[m]) :
           (J[m - 1] \o parts[m])[i] = IF i <= Len(J[m - 1]) THEN J[m - 1][i] ELSE parts[m][i - Len(J[m - 1])]
    BY <2>2, ConcatProperties
  <2>5. J[m] = J[m - 1] \o parts[m]
    BY <1>2
  <2>6. \A i \in 1 .. O[m] : J[m][i] = IF i <= O[m - 1] THEN J[m - 1][i] ELSE parts[m][i - O[m - 1]]
    BY <2>2, <2>3, <2>4, <2>5
  <2> QED
    BY <2>1, <2>2, <2>3, <2>6
<1>8. 0 \in T
  BY <1>1
<1>9. ASSUME NEW m \in 1 .. n, m - 1 \in T
      PROVE  m \in T
  <2>1. m \in Int /\ k \in Int /\ m \in 0 .. n
    BY <1>1
  <2>2. CASE m < k
    BY <2>1, <2>2
  <2>3. CASE m = k
    <3>1. ASSUME NEW j \in 1 .. Len(p)
          PROVE  J[k][O[k - 1] + j] = p[j]
      <4>1. O[k - 1] + j \in 1 .. O[k] /\ ~(O[k - 1] + j <= O[k - 1]) /\ (O[k - 1] + j) - O[k - 1] = j
        BY <1>5, <1>6
      <4> DEFINE i == O[k - 1] + j
      <4> HIDE DEF i
      <4>2. J[k][i] = parts[k][i - O[k - 1]]
        <5>1. k \in 1 .. n /\ i \in 1 .. O[k] /\ ~(i <= O[k - 1])
          BY <1>1, <4>1 DEF i
        <5> QED
          BY <1>7, <5>1
      <4>3. i - O[k - 1] = j
        BY <4>1 DEF i
      <4> QED
        BY <4>2, <4>3 DEF i, p
    <3>2. O[k] <= O[k]
      BY <1>6
    <3> QED
      BY <2>1, <2>3, <3>1, <3>2
  <2>4. CASE k < m
    <3>1. There(m - 1) /\ O[m - 1] \in Nat /\ O[m] \in Nat /\ O[m - 1] <= O[m]
      <4>1. ~(m - 1 < k)
        BY <2>1, <2>4
      <4> QED
        BY <1>7, <1>9, <4>1
    <3>2. O[k] <= O[m]
      BY <1>6, <3>1
    <3>3. ASSUME NEW j \in 1 .. Len(p)
          PROVE  J[m][O[k - 1] + j] = p[j]
      <4>1. O[k - 1] + j \in 1 .. O[m] /\ O[k - 1] + j <= O[m - 1]
        <5>1. j \in Nat /\ 1 <= j /\ j <= Len(p)
          BY <1>5
        <5>2. O[k] <= O[m - 1] /\ O[m - 1] <= O[m]
          BY <3>1
        <5> DEFINE a == O[k - 1]
                   b == O[k]
                   c == O[m - 1]
                   d == O[m]
                   l == Len(p)
        <5>3. a \in Nat /\ b = a + l /\ b <= c /\ c <= d /\ l \in Nat /\ c \in Nat /\ d \in Nat
          BY <1>5, <1>6, <3>1, <5>2
        <5>4. j \in Nat /\ 1 <= j /\ j <= l
          BY <5>1
        <5> HIDE DEF a, b, c, d, l
        <5>5. a + j \in 1 .. d /\ a + j <= c
          BY <5>3, <5>4
        <5> QED
          BY <5>5 DEF a, c, d
      <4>2. J[m][O[k - 1] + j] = J[m - 1][O[k - 1] + j]
        BY <1>7, <4>1
      <4> QED
        BY <3>1, <4>2
    <3> QED
      BY <2>1, <3>2, <3>3
  <2> QED
    BY <2>1, <2>2, <2>3, <2>4
<1>10. \A m \in 0 .. n : m \in T
  <2> HIDE DEF T
  <2> QED
    BY <1>1, <1>8, <1>9, AllReached
<1>11. ASSUME NEW m \in k .. n
       PROVE  There(m)
  <2>1. m \in 0 .. n /\ ~(m < k)
    BY <1>1
  <2> QED
    BY <1>10, <2>1
<1> QED
  BY <1>11 DEF n, J, O, p

(* Cut at its offsets, what is joined gives the part back. *)
LEMMA PartCutOut ==
    ASSUME NEW S, NEW parts \in Seq(Seq(S)), NEW k \in 1 .. Len(parts)
    PROVE  SubSeq(Concatenated(parts), Offsets(parts)[k - 1] + 1, Offsets(parts)[k]) = parts[k]
<1> DEFINE n == Len(parts)
           C == Concatenated(parts)
           O == Offsets(parts)
           p == parts[k]
           a == O[k - 1]
           b == O[k]
           q == SubSeq(C, a + 1, b)
<1>1. n \in Nat /\ k \in k .. n /\ n \in k .. n /\ k - 1 \in 0 .. n /\ k \in 0 .. n
      /\ p \in Seq(S) /\ Len(p) \in Nat
  BY LenProperties
<1>2. a \in Nat /\ b \in Nat /\ b = a + Len(p)
  BY <1>1, OffsetsFacts
<1>3. \A j \in 1 .. Len(p) : C[a + j] = p[j]
  BY <1>1, PartAt, ConcatenatedIsJoined
<1>4. \A j \in 1 .. Len(p) : p[j] \in S
  BY <1>1, LenProperties
<1> HIDE DEF n, C, O, p, a, b
<1>5. \A i \in (a + 1) .. b : C[i] \in S
  <2>1. \A i \in (a + 1) .. b : i - a \in 1 .. Len(p) /\ a + (i - a) = i
    BY <1>1, <1>2
  <2> QED
    BY <1>3, <1>4, <2>1
<1>6. /\ q \in Seq(S) /\ Len(q) = IF a + 1 <= b THEN b - (a + 1) + 1 ELSE 0
      /\ \A i \in 1 .. b - (a + 1) + 1 : q[i] = C[(a + 1) + i - 1]
  <2>1. a + 1 \in Int /\ b \in Int
    BY <1>2
  <2> QED
    BY <1>5, <2>1, SubSeqProperties
<1> HIDE DEF q
<1>7. Len(q) = Len(p) /\ \A i \in 1 .. Len(p) : q[i] = p[i]
  <2>1. Len(q) = Len(p)
    BY <1>1, <1>2, <1>6
  <2>2. \A i \in 1 .. Len(p) : i \in 1 .. b - (a + 1) + 1 /\ (a + 1) + i - 1 = a + i
    BY <1>1, <1>2
  <2> QED
    BY <1>3, <1>6, <2>1, <2>2
<1>8. q = p
  BY <1>1, <1>6, <1>7, SeqEqual
<1> QED
  BY <1>8 DEF q, p, a, b, C, O

(* Every place of what is joined is a place of a part. *)
LEMMA PlaceInPart ==
    ASSUME NEW S, NEW parts \in Seq(Seq(S))
    PROVE  /\ Concatenated(parts) \in Seq(S) /\ Len(Concatenated(parts)) = Offsets(parts)[Len(parts)]
           /\ \A i \in 1 .. Len(Concatenated(parts)) :
                 \E k \in 1 .. Len(parts) : \E j \in 1 .. Len(parts[k]) :
                    i = Offsets(parts)[k - 1] + j /\ Concatenated(parts)[i] = parts[k][j]
<1> DEFINE n == Len(parts)
           C == Concatenated(parts)
           O == Offsets(parts)
           Within(i, m) == \E k \in 1 .. m : \E j \in 1 .. Len(parts[k]) : i = O[k - 1] + j
           T == {m \in 0 .. n : \A i \in 1 .. O[m] : Within(i, m)}
<1>1. n \in Nat /\ n \in 0 .. n /\ \A m \in 1 .. n : Len(parts[m]) \in Nat
  BY LenProperties
<1>2. O \in [0 .. n -> Nat] /\ O[0] = 0 /\ \A m \in 1 .. n : O[m] = O[m - 1] + Len(parts[m])
  BY OffsetsFacts
<1>3. C \in Seq(S) /\ Len(C) = O[n]
  <2>1. C = Joins(parts)[n]
    BY ConcatenatedIsJoined
  <2>2. Joins(parts)[n] \in Seq(S) /\ Len(Joins(parts)[n]) = O[n]
    BY <1>1, JoinsFacts, JoinsLengths
  <2> QED
    BY <2>1, <2>2
<1>4. \A k \in 1 .. n : \A j \in 1 .. Len(parts[k]) : C[O[k - 1] + j] = parts[k][j]
  <2> TAKE k \in 1 .. n
  <2>1. n \in k .. n
    BY <1>1
  <2> QED
    BY <2>1, PartAt, ConcatenatedIsJoined
<1> HIDE DEF n, C, O
<1>5. 0 \in T
  BY <1>1, <1>2
<1>6. ASSUME NEW m \in 1 .. n, m - 1 \in T
      PROVE  m \in T
  <2>1. m - 1 \in 0 .. n /\ m \in 0 .. n /\ m \in 1 .. m
    BY <1>1
  <2>2. O[m - 1] \in Nat /\ Len(parts[m]) \in Nat /\ O[m] = O[m - 1] + Len(parts[m])
    BY <1>1, <1>2, <2>1
  <2>3. ASSUME NEW i \in 1 .. O[m]
        PROVE  Within(i, m)
    <3>1. CASE i <= O[m - 1]
      <4>1. i \in 1 .. O[m - 1]
        BY <2>2, <3>1
      <4>2. PICK k \in 1 .. m - 1 : \E j \in 1 .. Len(parts[k]) : i = O[k - 1] + j
        BY <1>6, <4>1
      <4>3. k \in 1 .. m
        BY <2>1
      <4> QED
        BY <4>2, <4>3
    <3>2. CASE ~(i <= O[m - 1])
      <4>1. i - O[m - 1] \in 1 .. Len(parts[m]) /\ i = O[m - 1] + (i - O[m - 1])
        BY <2>2, <3>2
      <4> QED
        BY <2>1, <4>1
    <3> QED
      BY <3>1, <3>2
  <2> QED
    BY <2>1, <2>3
<1>7. \A m \in 0 .. n : m \in T
  <2> HIDE DEF T
  <2> QED
    BY <1>1, <1>5, <1>6, AllReached
<1>8. ASSUME NEW i \in 1 .. Len(C)
      PROVE  \E k \in 1 .. n : \E j \in 1 .. Len(parts[k]) : i = O[k - 1] + j /\ C[i] = parts[k][j]
  <2>1. Within(i, n)
    BY <1>1, <1>3, <1>7
  <2>2. PICK k \in 1 .. n : \E j \in 1 .. Len(parts[k]) : i = O[k - 1] + j
    BY <2>1
  <2>3. PICK j \in 1 .. Len(parts[k]) : i = O[k - 1] + j
    BY <2>2
  <2> QED
    BY <1>4, <2>3
<1> QED
  BY <1>3, <1>8 DEF n, C, O

(* Parts of one length but for the last: where each begins. *)
LEMMA EvenOffsets ==
    ASSUME NEW S, NEW parts \in Seq(Seq(S)), NEW w \in Nat,
           \A k \in 1 .. Len(parts) - 1 : Len(parts[k]) = w
    PROVE  \A k \in 0 .. Len(parts) - 1 : Offsets(parts)[k] = w * k
<1> DEFINE n == Len(parts)
           m == n - 1
           O == Offsets(parts)
           T == {k \in 0 .. m : O[k] = w * k}
<1>1. n \in Nat
  BY LenProperties
<1>2. O[0] = 0 /\ \A k \in 1 .. n : O[k] = O[k - 1] + Len(parts[k])
  BY OffsetsFacts
<1>3. \A k \in 1 .. m : Len(parts[k]) = w
  OBVIOUS
<1> HIDE DEF n, O
<1>4. CASE n = 0
  BY <1>4 DEF n
<1>5. CASE n # 0
  <2>1. m \in Nat /\ 0 \in 0 .. m /\ \A k \in 1 .. m : k \in 1 .. n
    BY <1>1, <1>5
  <2> HIDE DEF m
  <2>2. 0 \in T
    BY <1>2, <2>1
  <2>3. ASSUME NEW k \in 1 .. m, k - 1 \in T
        PROVE  k \in T
    <3>1. O[k] = w * (k - 1) + w
      BY <1>2, <1>3, <2>1, <2>3
    <3>2. w * (k - 1) + w = w * k /\ k \in 0 .. m
      BY <2>1
    <3> QED
      BY <3>1, <3>2
  <2>4. \A k \in 0 .. m : k \in T
    <3> HIDE DEF T
    <3> QED
      BY <2>1, <2>2, <2>3, AllReached
  <2> QED
    BY <2>4 DEF m, n, O
<1> QED
  BY <1>4, <1>5
-----------------------------------------------------------------------------
(* Words, groups and blocks.                                                 *)
LEMMA CeilDivFacts ==
    ASSUME NEW n \in Int, n >= 1, NEW m \in Int, m >= 1
    PROVE  /\ CeilDiv(n, m) \in Int /\ CeilDiv(n, m) >= 1
           /\ n - 1 = m * (CeilDiv(n, m) - 1) + ((n - 1) % m)
           /\ (n - 1) % m \in Int /\ 0 <= (n - 1) % m /\ (n - 1) % m < m
<1>1. CeilDiv(n, m) = BlocksFor(n, m)
  BY DEF CeilDiv, BlocksFor
<1> QED
  BY <1>1, BlocksForFacts

LEMMA CeilDivUnique ==
    ASSUME NEW n \in Int, NEW m \in Int, m >= 1, NEW p \in Int, NEW r \in Int,
           n - 1 = m * (p - 1) + r, 0 <= r, r < m
    PROVE  CeilDiv(n, m) = p /\ (n - 1) % m = r
<1>1. CeilDiv(n, m) = BlocksFor(n, m)
  BY DEF CeilDiv, BlocksFor
<1> QED
  BY <1>1, BlocksForUnique

LEMMA CeilDivOrder ==
    ASSUME NEW n \in Int, NEW m \in Int, m >= 1, NEW i \in 1 .. n
    PROVE  CeilDiv(i, m) \in 1 .. CeilDiv(n, m)
<1> DEFINE p == CeilDiv(i, m)
           q == CeilDiv(n, m)
           r == (i - 1) % m
           s == (n - 1) % m
<1>1. i \in Int /\ i >= 1 /\ i <= n /\ n >= 1
  OBVIOUS
<1>2. p \in Int /\ p >= 1 /\ i - 1 = m * (p - 1) + r /\ r \in Int /\ 0 <= r
  BY <1>1, CeilDivFacts
<1>3. q \in Int /\ q >= 1 /\ n - 1 = m * (q - 1) + s /\ s \in Int /\ s < m
  BY <1>1, CeilDivFacts
<1> HIDE DEF p, q, r, s
<1>4. p <= q
  <2>1. SUFFICES ASSUME p - 1 >= q PROVE FALSE
    BY <1>2, <1>3
  <2> DEFINE e == m * (p - 1)
             f == m * q
             g == m * (q - 1)
  <2>2. e \in Int /\ f \in Int /\ g \in Int /\ e >= f /\ f = g + m
    BY <1>2, <1>3, <2>1
  <2>3. i - 1 = e + r /\ n - 1 = g + s
    BY <1>2, <1>3
  <2> HIDE DEF e, f, g
  <2> QED
    BY <1>1, <1>2, <1>3, <2>2, <2>3
<1> QED
  BY <1>2, <1>3, <1>4 DEF p, q

LEMMA PackedFacts ==
    ASSUME NEW C, NEW codes \in Seq(C), Len(codes) >= 1, NEW m \in Int, m >= 1
    PROVE  /\ Packed(codes, m) \in Seq([1 .. m -> C \cup {Pad}])
           /\ Len(Packed(codes, m)) = CeilDiv(Len(codes), m)
           /\ \A w \in 1 .. CeilDiv(Len(codes), m) : \A i \in 1 .. m :
                 (w - 1) * m + i <= Len(codes) => Packed(codes, m)[w][i] = codes[(w - 1) * m + i]
<1> DEFINE n == Len(codes)
           W == CeilDiv(n, m)
           P == Packed(codes, m)
           At(w, i) == IF (w - 1) * m + i <= n THEN codes[(w - 1) * m + i] ELSE Pad
<1>1. n \in Int /\ n >= 1 /\ DOMAIN codes = 1 .. n /\ \A i \in 1 .. n : codes[i] \in C
  BY LenProperties
<1>2. W \in Int /\ W >= 1
  BY <1>1, CeilDivFacts
<1>3. P = [w \in 1 .. W |-> [i \in 1 .. m |-> At(w, i)]]
  BY DEF Packed
<1> HIDE DEF n, W, P
<1>4. ASSUME NEW w \in 1 .. W, NEW i \in 1 .. m
      PROVE  At(w, i) \in C \cup {Pad}
  <2> DEFINE a == (w - 1) * m
  <2>1. a \in Int /\ a >= 0
    BY <1>2
  <2> HIDE DEF a
  <2>2. a + i <= n => a + i \in 1 .. n
    BY <1>1, <2>1
  <2>3. a + i <= n => codes[a + i] \in C
    BY <1>1, <2>2
  <2> QED
    BY <2>3 DEF a
<1>5. P \in [1 .. W -> [1 .. m -> C \cup {Pad}]] /\ \A w \in 1 .. W : \A i \in 1 .. m : P[w][i] = At(w, i)
  <2> HIDE DEF At
  <2> QED
    BY <1>3, <1>4
<1>6. P \in Seq([1 .. m -> C \cup {Pad}]) /\ Len(P) = W
  BY <1>2, <1>5, FunctionIsSeq
<1> QED
  BY <1>5, <1>6 DEF n, W, P

LEMMA UnpackedFacts ==
    ASSUME NEW C, NEW codes \in Seq(C), Len(codes) >= 1, NEW m \in Int, m >= 1, NEW i \in 1 .. Len(codes)
    PROVE  Packed(codes, m)[CeilDiv(i, m)][((i - 1) % m) + 1] = codes[i]
<1> DEFINE n == Len(codes)
           w == CeilDiv(i, m)
           r == (i - 1) % m
           a == (w - 1) * m
<1>1. n \in Int /\ i \in Int /\ i >= 1 /\ i <= n
  BY LenProperties
<1>2. w \in Int /\ w >= 1 /\ i - 1 = m * (w - 1) + r /\ r \in Int /\ 0 <= r /\ r < m
  BY <1>1, CeilDivFacts
<1>3. w \in 1 .. CeilDiv(n, m)
  BY <1>1, CeilDivOrder
<1> HIDE DEF w, r
<1>4. a \in Int /\ a = m * (w - 1)
  BY <1>2
<1>5. r + 1 \in 1 .. m /\ a + (r + 1) = i
  <2> HIDE DEF a
  <2> QED
    BY <1>1, <1>2, <1>4
<1>6. a + (r + 1) <= n
  BY <1>1, <1>5
<1> DEFINE P == Packed(codes, m)
           W == CeilDiv(n, m)
<1>7. \A v \in 1 .. W : \A j \in 1 .. m : (v - 1) * m + j <= n => P[v][j] = codes[(v - 1) * m + j]
  BY PackedFacts
<1> HIDE DEF P, W, n
<1>8. w \in 1 .. W
  BY <1>3 DEF W
<1>9. P[w][r + 1] = codes[a + (r + 1)]
  BY <1>5, <1>6, <1>7, <1>8
<1> QED
  BY <1>5, <1>9 DEF w, r, P

Members(codes, m, g) == {codes[i] : i \in {j \in DOMAIN codes : CeilDiv(j, m) = g}}

LEMMA ScalesFacts ==
    ASSUME NEW C, NEW codes \in Seq(C), Len(codes) >= 1, NEW m \in Int, m >= 1
    PROVE  /\ Scales(codes, m) \in Seq(SUBSET C) /\ Len(Scales(codes, m)) = CeilDiv(Len(codes), m)
           /\ \A g \in 1 .. CeilDiv(Len(codes), m) : Scales(codes, m)[g] = Members(codes, m, g)
<1> DEFINE W == CeilDiv(Len(codes), m)
           P == Scales(codes, m)
<1>1. Len(codes) \in Int /\ \A i \in DOMAIN codes : codes[i] \in C
  BY LenProperties
<1>2. W \in Int /\ W >= 1
  BY <1>1, CeilDivFacts
<1>3. P = [g \in 1 .. W |-> Members(codes, m, g)]
  BY DEF Scales, Members
<1>4. \A g \in 1 .. W : Members(codes, m, g) \in SUBSET C
  BY <1>1 DEF Members
<1> HIDE DEF W, P
<1>5. P \in [1 .. W -> SUBSET C] /\ \A g \in 1 .. W : P[g] = Members(codes, m, g)
  BY <1>3, <1>4
<1>6. P \in Seq(SUBSET C) /\ Len(P) = W
  BY <1>2, <1>5, FunctionIsSeq
<1> QED
  BY <1>5, <1>6 DEF W, P

(* The code at an index that is counted in heads, tokens and dimensions.      *)
Counted(shape, first, t, h, k, d) ==
    /\ shape \in [heads : Nat \ {0}, tokens : Nat \ {0}, dim : Nat \ {0}]
    /\ first \in Int /\ t \in Int /\ t >= 1
    /\ h \in 0 .. shape.heads - 1 /\ k \in 0 .. t - 1 /\ d \in 0 .. shape.dim - 1

Found(shape, first, t, h, k, d) ==
    /\ (h * t + k) * shape.dim + d + 1 \in 1 .. (shape.heads * t * shape.dim)
    /\ Element(shape, first, t, (h * t + k) * shape.dim + d) =
          [head |-> h, token |-> first + k, dim |-> d]

LEMMA ElementAt ==
    ASSUME NEW shape, NEW first, NEW t, NEW h, NEW k, NEW d, Counted(shape, first, t, h, k, d)
    PROVE  Found(shape, first, t, h, k, d)
<1> DEFINE H == shape.heads
           D == shape.dim
           M == t * D
           o == k * D
           i == (h * t + k) * D + d
<1>1. H \in Int /\ H >= 1 /\ D \in Int /\ D >= 1 /\ h \in Int /\ 0 <= h /\ h + 1 <= H
      /\ k \in Int /\ 0 <= k /\ k + 1 <= t /\ d \in Int /\ 0 <= d /\ d < D
      /\ first \in Int /\ t \in Int /\ t >= 1
  BY DEF Counted
<1> HIDE DEF H, D
<1>2. M \in Int /\ M >= 1 /\ o \in Int /\ 0 <= o /\ o + D <= M
  <2>1. (k + 1) * D <= t * D /\ (k + 1) * D = o + D
    BY <1>1
  <2>2. M >= D
    BY <1>1
  <2> QED
    BY <1>1, <2>1, <2>2
<1>3. i \in Int /\ i = M * h + (o + d) /\ i = D * (h * t + k) + d
  BY <1>1
<1>4. M * h \in Int /\ M * h >= 0 /\ M * h + M <= M * H
  <2>1. M * (h + 1) <= M * H /\ M * (h + 1) = M * h + M
    <3> HIDE DEF M
    <3> QED
      BY <1>1, <1>2
  <2> HIDE DEF M
  <2> QED
    BY <1>1, <1>2, <2>1
<1>5. H * t * D = M * H
  BY <1>1
<1>6. i + 1 \in 1 .. (H * t * D)
  <2> DEFINE x == M * h
             y == M * H
  <2>1. y \in Int /\ x \in Int /\ x >= 0 /\ x + M <= y /\ i = x + (o + d)
    <3> HIDE DEF M, o, i
    <3> QED
      BY <1>1, <1>2, <1>3, <1>4
  <2> HIDE DEF x, M, o, i
  <2>2. i + 1 \in 1 .. y
    <3> HIDE DEF y
    <3> QED
      BY <1>1, <1>2, <2>1
  <2> QED
    BY <1>5, <2>2
<1>7. i \div M = h /\ i % M = o + d
  <2> HIDE DEF M, o, i
  <2> QED
    BY <1>1, <1>2, <1>3, EuclidUnique
<1>8. i % D = d
  <2> DEFINE z == h * t + k
  <2>1. z \in Int /\ i = D * z + d
    BY <1>1, <1>3
  <2> HIDE DEF z, i
  <2> QED
    BY <1>1, <1>3, <2>1, EuclidUnique
<1>9. (o + d) \div D = k
  <2> DEFINE z == o + d
  <2>1. z \in Int /\ z = D * k + d
    BY <1>1
  <2> HIDE DEF z
  <2>2. z \div D = k
    BY <1>1, <2>1, EuclidUnique
  <2> QED
    BY <2>2 DEF z
<1>10. Element(shape, first, t, i) =
         [head |-> i \div M, token |-> first + ((i % M) \div D), dim |-> i % D]
  BY DEF Element, M, D
<1>11. Element(shape, first, t, i) = [head |-> h, token |-> first + k, dim |-> d]
  <2> HIDE DEF M, o, i
  <2> QED
    BY <1>7, <1>8, <1>9, <1>10
<1> QED
  BY <1>6, <1>11 DEF i, H, D, Found
-----------------------------------------------------------------------------
(* What the store keeps, field by field.                                     *)
Tensors == [heads : Nat \ {0}, tokens : Nat \ {0}, dim : Nat \ {0}]

BlocksIn(c) == [b \in 1 .. c.numBlocks |-> BlockElements(c.shape, c.blockSize, b - 1)]
WordsIn(c) == [b \in 1 .. c.numBlocks |-> Packed(BlocksIn(c)[b], c.perWord)]
ScalesIn(c) == [b \in 1 .. c.numBlocks |-> Scales(BlocksIn(c)[b], c.group)]

LaidOut(c) ==
    /\ c.shape \in Tensors
    /\ c.blockSize \in Nat \ {0} /\ c.perWord \in Nat \ {0} /\ c.group \in Nat \ {0}
    /\ c.numBlocks = NumBlocks(c.shape, c.blockSize)
    /\ c.packed = Concatenated(WordsIn(c)) /\ c.packedOffsets = Offsets(WordsIn(c))
    /\ c.scales = Concatenated(ScalesIn(c)) /\ c.scaleOffsets = Offsets(ScalesIn(c))
    /\ c.values = [b \in 1 .. c.numBlocks |-> Len(BlocksIn(c)[b])]

LEMMA NumBlocksFacts ==
    ASSUME NEW shape \in Tensors, NEW blockSize \in Nat \ {0}
    PROVE  /\ NumBlocks(shape, blockSize) = CeilDiv(shape.tokens, blockSize)
           /\ NumBlocks(shape, blockSize) \in Int /\ NumBlocks(shape, blockSize) >= 1
<1> DEFINE n == CeilDiv(shape.tokens, blockSize)
<1>1. n \in Int /\ n >= 1
  <2>1. shape.tokens \in Int /\ shape.tokens >= 1 /\ blockSize \in Int /\ blockSize >= 1
    BY DEF Tensors
  <2> QED
    BY <2>1, CeilDivFacts
<1>2. Max({1, n}) = n
  <2> HIDE DEF n
  <2>1. n \in Int /\ 1 \in Int /\ 1 <= n
    BY <1>1
  <2> QED
    BY <2>1, GreaterOfTwo
<1> QED
  BY <1>1, <1>2 DEF NumBlocks

LEMMA StoredIsLaidOut ==
    ASSUME NEW shape \in Tensors, NEW blockSize \in Nat \ {0}, NEW perWord \in Nat \ {0},
           NEW group \in Nat \ {0}, NEW signs
    PROVE  LaidOut(Stored(shape, blockSize, perWord, group, signs))
<1> DEFINE c == Stored(shape, blockSize, perWord, group, signs)
           n == NumBlocks(shape, blockSize)
           blocks == [b \in 1 .. n |-> BlockElements(shape, blockSize, b - 1)]
           words == [b \in 1 .. n |-> Packed(blocks[b], perWord)]
           scales == [b \in 1 .. n |-> Scales(blocks[b], group)]
<1>1. n \in Nat
  BY NumBlocksFacts
<1>2. DOMAIN blocks = 1 .. n /\ Len(blocks) = n
  <2>1. DOMAIN blocks = 1 .. n
    OBVIOUS
  <2>2. blocks \in [1 .. n -> Range(blocks)]
    BY DEF Range
  <2> HIDE DEF blocks, n
  <2> QED
    BY <1>1, <2>1, <2>2, FunctionIsSeq
<1>3. c = [shape |-> shape, blockSize |-> blockSize, perWord |-> perWord, group |-> group,
           signs |-> signs, numBlocks |-> Len(blocks),
           packed |-> Concatenated([b \in DOMAIN blocks |-> Packed(blocks[b], perWord)]),
           scales |-> Concatenated([b \in DOMAIN blocks |-> Scales(blocks[b], group)]),
           packedOffsets |-> Offsets([b \in DOMAIN blocks |-> Packed(blocks[b], perWord)]),
           scaleOffsets |-> Offsets([b \in DOMAIN blocks |-> Scales(blocks[b], group)]),
           values |-> [b \in DOMAIN blocks |-> Len(blocks[b])]]
  BY DEF Stored
<1> HIDE DEF c
<1>4. /\ c.shape = shape /\ c.blockSize = blockSize /\ c.perWord = perWord /\ c.group = group
      /\ c.numBlocks = n
  <2> HIDE DEF blocks, n
  <2> QED
    BY <1>2, <1>3
<1>5. BlocksIn(c) = blocks /\ WordsIn(c) = words /\ ScalesIn(c) = scales
  <2> HIDE DEF n
  <2>1. BlocksIn(c) = blocks
    BY <1>4 DEF BlocksIn
  <2> QED
    BY <1>4, <2>1 DEF WordsIn, ScalesIn
<1>6. /\ c.packed = Concatenated(words) /\ c.packedOffsets = Offsets(words)
      /\ c.scales = Concatenated(scales) /\ c.scaleOffsets = Offsets(scales)
      /\ c.values = [b \in 1 .. n |-> Len(blocks[b])]
  <2> HIDE DEF blocks, n
  <2> QED
    BY <1>2, <1>3
<1> QED
  BY <1>4, <1>5, <1>6 DEF LaidOut, c

LEMMA BlockShape ==
    ASSUME LaidOut(cache), NEW b \in 0 .. cache.numBlocks - 1
    PROVE  /\ BlockTokens(b) \in 1 .. cache.blockSize
           /\ b # cache.numBlocks - 1 => BlockTokens(b) = cache.blockSize
           /\ b * cache.blockSize + BlockTokens(b) <= cache.shape.tokens
           /\ b = cache.numBlocks - 1 => b * cache.blockSize + BlockTokens(b) = cache.shape.tokens
<1> DEFINE T == cache.shape.tokens
           s == cache.blockSize
           N == cache.numBlocks
           r == (T - 1) % s
           x == b * s
<1>1. T \in Int /\ T >= 1 /\ s \in Int /\ s >= 1 /\ N = CeilDiv(T, s) /\ N \in Int /\ N >= 1
  BY NumBlocksFacts DEF LaidOut, Tensors
<1>2. T - 1 = s * (N - 1) + r /\ r \in Int /\ 0 <= r /\ r < s
  BY <1>1, CeilDivFacts
<1>3. BlockTokens(b) = Min({(b + 1) * s, T}) - x
  BY DEF BlockTokens, BlockEnd
<1> HIDE DEF T, s, r
<1>4. b \in Int /\ 0 <= b /\ b <= N - 1
  BY <1>1
<1> HIDE DEF N
<1>5. x \in Int /\ (b + 1) * s = x + s /\ x + s \in Int
  BY <1>1, <1>4
<1>6. CASE b = N - 1
  <2>1. T = x + r + 1
    BY <1>1, <1>2, <1>4, <1>6
  <2> HIDE DEF x
  <2>2. Min({x + s, T}) = T
    <3>1. T <= x + s
      BY <1>1, <1>2, <1>5, <2>1
    <3> QED
      BY <1>1, <1>5, <3>1, SmallerOfTwo
  <2>3. BlockTokens(b) = T - x
    BY <1>3, <1>5, <2>2
  <2>4. BlockTokens(b) \in 1 .. s /\ x + BlockTokens(b) = T
    BY <1>1, <1>2, <1>5, <2>1, <2>3
  <2> QED
    BY <1>1, <1>6, <2>4 DEF x, T, s, N
<1>7. CASE b # N - 1
  <2>1. x + s <= s * (N - 1)
    <3>1. b + 1 <= N - 1
      BY <1>1, <1>4, <1>7
    <3>2. s * (b + 1) <= s * (N - 1)
      BY <1>1, <1>4, <3>1
    <3> QED
      BY <1>1, <1>4, <3>2
  <2> DEFINE y == s * (N - 1)
  <2>2. y \in Int /\ x + s <= y /\ T - 1 = y + r
    BY <1>1, <1>2, <2>1
  <2> HIDE DEF x, y
  <2>3. x + s <= T
    BY <1>1, <1>2, <1>5, <2>2
  <2>4. Min({x + s, T}) = x + s
    BY <1>1, <1>5, <2>3, SmallerOfTwo
  <2>5. BlockTokens(b) = s
    BY <1>1, <1>3, <1>5, <2>4
  <2>6. BlockTokens(b) \in 1 .. s /\ x + BlockTokens(b) <= T
    BY <1>1, <2>3, <2>5
  <2> QED
    BY <1>7, <2>5, <2>6 DEF x, T, s, N
<1> QED
  BY <1>6, <1>7
-----------------------------------------------------------------------------
Codes == [head : Int, token : Int, dim : Int]

(* The elements of a block, in the order its codes are in.                   *)
BlockCodes(b) == BlocksIn(cache)[b + 1]

LEMMA BlockCodesFacts ==
    ASSUME LaidOut(cache), NEW b \in 0 .. cache.numBlocks - 1
    PROVE  /\ BlockCodes(b) = BlockElements(cache.shape, cache.blockSize, b)
           /\ BlockCodes(b) \in Seq(Codes)
           /\ Len(BlockCodes(b)) = cache.shape.heads * BlockTokens(b) * cache.shape.dim
           /\ Len(BlockCodes(b)) >= 1
           /\ \A i \in 1 .. Len(BlockCodes(b)) :
                 BlockCodes(b)[i] = Element(cache.shape, b * cache.blockSize, BlockTokens(b), i - 1)
<1> DEFINE t == BlockTokens(b)
           n == cache.shape.heads * t * cache.shape.dim
           B == BlockCodes(b)
           first == b * cache.blockSize
           shape == cache.shape
<1>1. /\ t \in Nat /\ t >= 1 /\ cache.blockSize \in Nat /\ cache.shape \in Tensors
      /\ cache.numBlocks \in Int
  <2>1. t \in 1 .. cache.blockSize /\ cache.blockSize \in Nat
    BY BlockShape DEF LaidOut
  <2> HIDE DEF t
  <2> QED
    BY <2>1, NumBlocksFacts DEF LaidOut
<1>2. n \in Nat /\ n >= 1
  <2> DEFINE h == cache.shape.heads
             d == cache.shape.dim
  <2>1. h \in Nat /\ h >= 1 /\ d \in Nat /\ d >= 1
    BY <1>1 DEF Tensors
  <2> HIDE DEF h, d, t
  <2>2. h * t \in Nat /\ h * t >= 1
    BY <1>1, <2>1
  <2> DEFINE x == h * t
  <2> HIDE DEF x
  <2>3. x * d \in Nat /\ x * d >= 1
    BY <2>1, <2>2 DEF x
  <2> QED
    BY <2>3 DEF x, h, d
<1>3. first \in Int
  BY <1>1
<1>4. B = BlockElements(cache.shape, cache.blockSize, b)
  <2>1. b + 1 \in 1 .. cache.numBlocks /\ (b + 1) - 1 = b
    BY <1>1
  <2> QED
    BY <2>1 DEF BlockCodes, BlocksIn
<1>5. B = [i \in 1 .. n |-> Element(shape, first, t, i - 1)]
  BY <1>4 DEF BlockElements, Elements, BlockTokens
<1>6. ASSUME NEW i \in 1 .. n
      PROVE  Element(shape, first, t, i - 1) \in Codes
  <2> DEFINE m == t * shape.dim
             j == i - 1
  <2>1. j \in Int /\ shape.dim \in Int /\ shape.dim > 0 /\ t \in Int /\ t > 0
    <3>1. shape.dim \in Nat \ {0}
      BY <1>1 DEF Tensors
    <3> HIDE DEF t, n
    <3> QED
      BY <1>1, <1>2, <3>1
  <2>2. m \in Int /\ m > 0
    <3> HIDE DEF t
    <3> QED
      BY <2>1
  <2>3. j \div m \in Int /\ j % m \in Int /\ j % shape.dim \in Int
    <3> HIDE DEF j, m
    <3> QED
      BY <2>1, <2>2, Euclid
  <2>4. (j % m) \div shape.dim \in Int
    <3> DEFINE k == j % m
    <3>1. k \in Int
      BY <2>3
    <3> HIDE DEF k
    <3> QED
      BY <2>1, <3>1, Euclid
  <2>5. Element(shape, first, t, j) =
          [head |-> j \div m, token |-> first + ((j % m) \div shape.dim), dim |-> j % shape.dim]
    BY DEF Element
  <2> HIDE DEF j, m, t, first, shape
  <2> QED
    BY <1>3, <2>3, <2>4, <2>5 DEF Codes, j
<1>7. B \in [1 .. n -> Codes] /\ \A i \in 1 .. n : B[i] = Element(shape, first, t, i - 1)
  <2> HIDE DEF B, n, shape, first, t
  <2> QED
    BY <1>5, <1>6
<1>8. B \in Seq(Codes) /\ Len(B) = n
  <2> HIDE DEF B, n
  <2> QED
    BY <1>2, <1>7, FunctionIsSeq
<1> HIDE DEF n, t, B, first, shape
<1> QED
  BY <1>2, <1>4, <1>7, <1>8 DEF n, t, B, first, shape

Words == [1 .. cache.perWord -> Codes \cup {Pad}]

(* The parts of the two buffers.                                             *)
LEMMA PartsFacts ==
    ASSUME LaidOut(cache)
    PROVE  /\ WordsIn(cache) \in Seq(Seq(Words)) /\ Len(WordsIn(cache)) = cache.numBlocks
           /\ ScalesIn(cache) \in Seq(Seq(SUBSET Codes)) /\ Len(ScalesIn(cache)) = cache.numBlocks
           /\ \A b \in 0 .. cache.numBlocks - 1 :
                 /\ WordsIn(cache)[b + 1] = Packed(BlockCodes(b), cache.perWord)
                 /\ ScalesIn(cache)[b + 1] = Scales(BlockCodes(b), cache.group)
                 /\ cache.values[b + 1] = Len(BlockCodes(b))
<1> DEFINE N == cache.numBlocks
<1>1. N \in Nat /\ N >= 1
  BY NumBlocksFacts DEF LaidOut
<1>2. cache.perWord \in Int /\ cache.perWord >= 1 /\ cache.group \in Int /\ cache.group >= 1
  BY DEF LaidOut
<1>3. ASSUME NEW b \in 0 .. N - 1
      PROVE  /\ WordsIn(cache)[b + 1] = Packed(BlockCodes(b), cache.perWord)
             /\ ScalesIn(cache)[b + 1] = Scales(BlockCodes(b), cache.group)
             /\ cache.values[b + 1] = Len(BlockCodes(b))
             /\ Packed(BlockCodes(b), cache.perWord) \in Seq(Words)
             /\ Scales(BlockCodes(b), cache.group) \in Seq(SUBSET Codes)
  <2>1. b + 1 \in 1 .. N
    BY <1>1
  <2>2. cache.values = [x \in 1 .. N |-> Len(BlocksIn(cache)[x])]
    BY DEF LaidOut
  <2>3. BlockCodes(b) \in Seq(Codes) /\ Len(BlockCodes(b)) >= 1
    BY BlockCodesFacts
  <2>4. Packed(BlockCodes(b), cache.perWord) \in Seq(Words)
    BY <1>2, <2>3, PackedFacts DEF Words
  <2>5. Scales(BlockCodes(b), cache.group) \in Seq(SUBSET Codes)
    BY <1>2, <2>3, ScalesFacts
  <2> QED
    BY <2>1, <2>2, <2>4, <2>5 DEF WordsIn, ScalesIn, BlockCodes
<1>4. \A x \in 1 .. N : x - 1 \in 0 .. N - 1 /\ (x - 1) + 1 = x
  BY <1>1
<1>5. WordsIn(cache) \in [1 .. N -> Seq(Words)]
  <2>1. WordsIn(cache) = [b \in 1 .. N |-> WordsIn(cache)[b]]
    BY DEF WordsIn
  <2>2. \A x \in 1 .. N : WordsIn(cache)[x] \in Seq(Words)
    BY <1>3, <1>4
  <2> QED
    BY <2>1, <2>2
<1>6. ScalesIn(cache) \in [1 .. N -> Seq(SUBSET Codes)]
  <2>1. ScalesIn(cache) = [b \in 1 .. N |-> ScalesIn(cache)[b]]
    BY DEF ScalesIn
  <2>2. \A x \in 1 .. N : ScalesIn(cache)[x] \in Seq(SUBSET Codes)
    BY <1>3, <1>4
  <2> QED
    BY <2>1, <2>2
<1>7. WordsIn(cache) \in Seq(Seq(Words)) /\ Len(WordsIn(cache)) = N
  BY <1>1, <1>5, FunctionIsSeq
<1>8. ScalesIn(cache) \in Seq(Seq(SUBSET Codes)) /\ Len(ScalesIn(cache)) = N
  BY <1>1, <1>6, FunctionIsSeq
<1> QED
  BY <1>3, <1>7, <1>8

(* A code of a block with the scale of its group.                            *)
ReadOf(b, i) ==
    [code |-> BlockCodes(b)[i], scale |-> Scales(BlockCodes(b), cache.group)[CeilDiv(i, cache.group)]]

LEMMA ReadOfFacts ==
    ASSUME LaidOut(cache), NEW b \in 0 .. cache.numBlocks - 1, NEW i \in 1 .. Len(BlockCodes(b))
    PROVE  ReadOf(b, i).code \in ReadOf(b, i).scale /\ OneGroup(ReadOf(b, i).scale)
<1> DEFINE B == BlockCodes(b)
           m == cache.group
           g == CeilDiv(i, m)
           members == {B[j] : j \in {k \in DOMAIN B : CeilDiv(k, m) = g}}
<1>1. m \in Int /\ m >= 1
  BY DEF LaidOut
<1>2. B \in Seq(Codes) /\ Len(B) >= 1 /\ Len(B) \in Nat /\ DOMAIN B = 1 .. Len(B)
      /\ B = BlockElements(cache.shape, cache.blockSize, b)
  BY BlockCodesFacts, LenProperties
<1>3. i \in 1 .. Len(B)
  OBVIOUS
<1> HIDE DEF B, m
<1>4. g \in 1 .. CeilDiv(Len(B), m)
  <2> DEFINE n == Len(B)
  <2>1. n \in Int /\ i \in 1 .. n
    BY <1>2, <1>3
  <2> HIDE DEF n
  <2>2. CeilDiv(i, m) \in 1 .. CeilDiv(n, m)
    BY <1>1, <2>1, CeilDivOrder
  <2> QED
    BY <2>2 DEF n
<1>5. Scales(B, m)[g] = members
  <2>1. B \in Seq(Codes) /\ Len(B) >= 1 /\ m \in Int /\ m >= 1
    BY <1>1, <1>2
  <2> HIDE DEF g, members
  <2>2. Scales(B, m)[g] = Members(B, m, g)
    BY <1>4, <2>1, ScalesFacts
  <2> QED
    BY <2>2 DEF Members, members
<1>6. ReadOf(b, i) = [code |-> B[i], scale |-> members]
  BY <1>5 DEF ReadOf, B, m
<1>7. B[i] \in members
  BY <1>2, <1>3
<1>8. OneGroup(members)
  <2> HIDE DEF g
  <2> QED
    BY <1>2, <1>4 DEF OneGroup, m
<1> QED
  BY <1>6, <1>7, <1>8

(* A block is read back as it was, whichever route reads it.                 *)
LEMMA BlockRead ==
    ASSUME LaidOut(cache), NEW b \in 0 .. cache.numBlocks - 1, NEW route
    PROVE  Block(b, route) = [i \in 1 .. Len(BlockCodes(b)) |-> ReadOf(b, i)]
<1> DEFINE B == BlockCodes(b)
           n == Len(B)
           w == Packed(B, cache.perWord)
           s == Scales(B, cache.group)
<1>1. cache.perWord \in Int /\ cache.perWord >= 1 /\ cache.group \in Int /\ cache.group >= 1
      /\ cache.numBlocks \in Int
  BY NumBlocksFacts DEF LaidOut
<1>2. B \in Seq(Codes) /\ n >= 1 /\ n \in Nat
  BY BlockCodesFacts, LenProperties
<1>3. SubSeq(cache.packed, cache.packedOffsets[b] + 1, cache.packedOffsets[b + 1]) = w
  <2> DEFINE parts == WordsIn(cache)
             k == b + 1
  <2>1. parts \in Seq(Seq(Words)) /\ k \in 1 .. Len(parts) /\ parts[k] = w /\ k - 1 = b
    BY <1>1, PartsFacts
  <2>2. cache.packed = Concatenated(parts) /\ cache.packedOffsets = Offsets(parts)
    BY DEF LaidOut
  <2> HIDE DEF parts, k
  <2>3. SubSeq(Concatenated(parts), Offsets(parts)[k - 1] + 1, Offsets(parts)[k]) = parts[k]
    BY <2>1, PartCutOut
  <2> QED
    BY <2>1, <2>2, <2>3 DEF k
<1>4. SubSeq(cache.scales, cache.scaleOffsets[b] + 1, cache.scaleOffsets[b + 1]) = s
  <2> DEFINE parts == ScalesIn(cache)
             k == b + 1
  <2>1. parts \in Seq(Seq(SUBSET Codes)) /\ k \in 1 .. Len(parts) /\ parts[k] = s /\ k - 1 = b
    BY <1>1, PartsFacts
  <2>2. cache.scales = Concatenated(parts) /\ cache.scaleOffsets = Offsets(parts)
    BY DEF LaidOut
  <2> HIDE DEF parts, k
  <2>3. SubSeq(Concatenated(parts), Offsets(parts)[k - 1] + 1, Offsets(parts)[k]) = parts[k]
    BY <2>1, PartCutOut
  <2> QED
    BY <2>1, <2>2, <2>3 DEF k
<1>5. cache.values[b + 1] = n
  BY PartsFacts
<1>6. Block(b, route) = Reconstructed(w, s, n, route)
  BY <1>3, <1>4, <1>5 DEF Block
<1>7. Len(w) = CeilDiv(n, cache.perWord) /\ Len(s) = CeilDiv(n, cache.group)
  <2> DEFINE m == cache.perWord
             g == cache.group
  <2>1. B \in Seq(Codes) /\ Len(B) >= 1 /\ m \in Int /\ m >= 1 /\ g \in Int /\ g >= 1
    BY <1>1, <1>2
  <2> HIDE DEF B, m, g
  <2>2. Len(Packed(B, m)) = CeilDiv(Len(B), m)
    BY <2>1, PackedFacts
  <2>3. Len(Scales(B, g)) = CeilDiv(Len(B), g)
    BY <2>1, ScalesFacts
  <2> QED
    BY <2>2, <2>3 DEF B, m, g
<1>8. FitsReference(w, s, n) /\ FitsKernel(w, s, n)
  <2>1. CeilDiv(n, cache.perWord) \in Int /\ CeilDiv(n, cache.group) \in Int
    <3> DEFINE p == cache.perWord
               g == cache.group
    <3>1. n \in Int /\ n >= 1 /\ p \in Int /\ p >= 1 /\ g \in Int /\ g >= 1
      BY <1>1, <1>2
    <3> HIDE DEF n, p, g
    <3>2. CeilDiv(n, p) \in Int
      BY <3>1, CeilDivFacts
    <3>3. CeilDiv(n, g) \in Int
      BY <3>1, CeilDivFacts
    <3> QED
      BY <3>2, <3>3 DEF p, g
  <2> HIDE DEF w, s, n
  <2> QED
    BY <1>7, <2>1 DEF FitsReference, FitsKernel
<1>9. Block(b, route) = [i \in 1 .. n |->
          [code |-> Unpacked(w, n, cache.perWord)[i], scale |-> s[CeilDiv(i, cache.group)]]]
  <2> HIDE DEF w, s, n
  <2> QED
    BY <1>6, <1>8 DEF Reconstructed
<1>10. ASSUME NEW i \in 1 .. n
       PROVE  Unpacked(w, n, cache.perWord)[i] = B[i]
  <2>1. Unpacked(w, n, cache.perWord)[i] = w[CeilDiv(i, cache.perWord)][((i - 1) % cache.perWord) + 1]
    <3> HIDE DEF w, n
    <3> QED
      BY DEF Unpacked
  <2> HIDE DEF B
  <2>2. w[CeilDiv(i, cache.perWord)][((i - 1) % cache.perWord) + 1] = B[i]
    BY <1>1, <1>2, UnpackedFacts
  <2> QED
    BY <2>1, <2>2
<1>11. \A i \in 1 .. n :
          [code |-> Unpacked(w, n, cache.perWord)[i], scale |-> s[CeilDiv(i, cache.group)]] = ReadOf(b, i)
  <2> HIDE DEF n, w
  <2> QED
    BY <1>10 DEF ReadOf
<1> HIDE DEF n, w, s
<1> QED
  BY <1>9, <1>11 DEF n
-----------------------------------------------------------------------------
(* What is put together from selected blocks.                                *)
Selection(blks) == blks \in Seq(0 .. cache.numBlocks - 1) /\ Len(blks) >= 1

TokenSpots == [blk : 0 .. cache.numBlocks - 1, token : Nat]

TokenParts(blks) ==
    [i \in DOMAIN blks |-> [t \in 1 .. BlockTokens(blks[i]) |-> [blk |-> blks[i], token |-> t - 1]]]

LEMMA TokenPartsFacts ==
    ASSUME LaidOut(cache), NEW blks, Selection(blks)
    PROVE  /\ TokensOf(blks) = Concatenated(TokenParts(blks))
           /\ TokenParts(blks) \in Seq(Seq(TokenSpots)) /\ Len(TokenParts(blks)) = Len(blks)
           /\ \A k \in 1 .. Len(blks) :
                 /\ blks[k] \in 0 .. cache.numBlocks - 1
                 /\ BlockTokens(blks[k]) \in Nat /\ BlockTokens(blks[k]) >= 1
                 /\ Len(TokenParts(blks)[k]) = BlockTokens(blks[k])
                 /\ \A j \in 1 .. BlockTokens(blks[k]) :
                       TokenParts(blks)[k][j] = [blk |-> blks[k], token |-> j - 1]
<1> DEFINE n == Len(blks)
           P == TokenParts(blks)
<1>1. n \in Nat /\ DOMAIN blks = 1 .. n /\ \A k \in 1 .. n : blks[k] \in 0 .. cache.numBlocks - 1
  BY LenProperties DEF Selection
<1>2. TokensOf(blks) = Concatenated(P)
  BY DEF TokensOf, TokenParts
<1> HIDE DEF n, P
<1>3. ASSUME NEW k \in 1 .. n
      PROVE  /\ BlockTokens(blks[k]) \in Nat /\ BlockTokens(blks[k]) >= 1
             /\ P[k] \in Seq(TokenSpots) /\ Len(P[k]) = BlockTokens(blks[k])
             /\ \A j \in 1 .. BlockTokens(blks[k]) : P[k][j] = [blk |-> blks[k], token |-> j - 1]
  <2> DEFINE b == blks[k]
             t == BlockTokens(b)
             p == [j \in 1 .. t |-> [blk |-> b, token |-> j - 1]]
  <2>1. b \in 0 .. cache.numBlocks - 1
    BY <1>1
  <2>2. cache.blockSize \in Nat /\ t \in 1 .. cache.blockSize
    BY <2>1, BlockShape DEF LaidOut
  <2>3. P[k] = p
    BY <1>1 DEF P, TokenParts
  <2> HIDE DEF b, t
  <2>4. t \in Nat /\ t >= 1
    BY <2>2
  <2>5. p \in [1 .. t -> TokenSpots]
    BY <2>1, <2>4 DEF TokenSpots
  <2>6. p \in Seq(TokenSpots) /\ Len(p) = t
    <3> HIDE DEF p
    <3> QED
      BY <2>4, <2>5, FunctionIsSeq
  <2> QED
    BY <2>3, <2>4, <2>6 DEF b, t
<1>4. P \in [1 .. n -> Seq(TokenSpots)]
  <2>1. P = [k \in 1 .. n |-> P[k]]
    BY <1>1 DEF P, TokenParts
  <2> QED
    BY <1>3, <2>1
<1>5. P \in Seq(Seq(TokenSpots)) /\ Len(P) = n
  BY <1>1, <1>4, FunctionIsSeq
<1> QED
  BY <1>1, <1>2, <1>3, <1>5 DEF n, P

(* Every token of the selection is one of a block of it.                     *)
LEMMA TokenSpotsFacts ==
    ASSUME LaidOut(cache), NEW blks, Selection(blks)
    PROVE  /\ Len(TokensOf(blks)) \in Nat /\ Len(TokensOf(blks)) >= 1
           /\ Len(TokensOf(blks)) = Offsets(TokenParts(blks))[Len(blks)]
           /\ \A p \in 1 .. Len(TokensOf(blks)) :
                 \E k \in 1 .. Len(blks) : \E j \in 1 .. BlockTokens(blks[k]) :
                    /\ p = Offsets(TokenParts(blks))[k - 1] + j
                    /\ TokensOf(blks)[p] = [blk |-> blks[k], token |-> j - 1]
<1> DEFINE n == Len(blks)
           P == TokenParts(blks)
           C == TokensOf(blks)
           O == Offsets(P)
<1>1. n \in Nat /\ n >= 1
  BY LenProperties DEF Selection
<1>2. C = Concatenated(P) /\ P \in Seq(Seq(TokenSpots)) /\ Len(P) = n
  BY TokenPartsFacts
<1>3. \A k \in 1 .. n :
         /\ BlockTokens(blks[k]) \in Nat /\ BlockTokens(blks[k]) >= 1
         /\ Len(P[k]) = BlockTokens(blks[k])
         /\ \A j \in 1 .. BlockTokens(blks[k]) : P[k][j] = [blk |-> blks[k], token |-> j - 1]
  BY TokenPartsFacts
<1> HIDE DEF n, P, C
<1>4. /\ C \in Seq(TokenSpots) /\ Len(C) = O[n]
      /\ \A p \in 1 .. Len(C) : \E k \in 1 .. n : \E j \in 1 .. Len(P[k]) : p = O[k - 1] + j /\ C[p] = P[k][j]
  <2>1. /\ Concatenated(P) \in Seq(TokenSpots) /\ Len(Concatenated(P)) = O[Len(P)]
        /\ \A p \in 1 .. Len(Concatenated(P)) : \E k \in 1 .. Len(P) : \E j \in 1 .. Len(P[k]) :
              p = O[k - 1] + j /\ Concatenated(P)[p] = P[k][j]
    BY <1>2, PlaceInPart
  <2> HIDE DEF O
  <2> QED
    BY <1>2, <2>1
<1>5. O \in [0 .. n -> Nat] /\ \A k \in 1 .. n : O[k] = O[k - 1] + Len(P[k])
  BY <1>2, OffsetsFacts
<1> HIDE DEF O
<1>6. O[n] >= 1
  <2>1. n \in 1 .. n /\ n - 1 \in 0 .. n
    BY <1>1
  <2>2. O[n - 1] \in Nat /\ O[n] = O[n - 1] + Len(P[n]) /\ Len(P[n]) \in Nat /\ Len(P[n]) >= 1
    BY <1>3, <1>5, <2>1
  <2> QED
    BY <2>2
<1>7. Len(C) \in Nat
  BY <1>4, LenProperties
<1>8. ASSUME NEW p \in 1 .. Len(C)
      PROVE  \E k \in 1 .. n : \E j \in 1 .. BlockTokens(blks[k]) :
                p = O[k - 1] + j /\ C[p] = [blk |-> blks[k], token |-> j - 1]
  <2>1. PICK k \in 1 .. n : \E j \in 1 .. Len(P[k]) : p = O[k - 1] + j /\ C[p] = P[k][j]
    BY <1>4
  <2>2. PICK j \in 1 .. Len(P[k]) : p = O[k - 1] + j /\ C[p] = P[k][j]
    BY <2>1
  <2> QED
    BY <1>3, <2>2
<1> QED
  BY <1>4, <1>6, <1>7, <1>8 DEF n, P, C, O

(* The element that belongs at a place of a tensor put together from blks.    *)
Home(blks, e) ==
    LET at == TokensOf(blks)[e.token + 1] IN
    [e EXCEPT !.token = at.blk * cache.blockSize + at.token]

RightCode(r, blks, e) == r.code = Home(blks, e) /\ Home(blks, e) \in r.scale /\ OneGroup(r.scale)

RightCodes(tensor, blks) ==
    /\ DOMAIN tensor = Places(Len(TokensOf(blks)))
    /\ \A e \in DOMAIN tensor : RightCode(tensor[e], blks, e)

LEMMA PlacesFacts ==
    ASSUME LaidOut(cache), NEW n \in Nat, n >= 1
    PROVE  /\ Places(n) # {}
           /\ \A f : DOMAIN f = Places(n) => f # Raised
<1>1. [head |-> 0, token |-> 0, dim |-> 0] \in Places(n)
  <2>1. cache.shape.heads \in Nat \ {0} /\ cache.shape.dim \in Nat \ {0}
    BY DEF LaidOut, Tensors
  <2>2. 0 \in 0 .. cache.shape.heads - 1 /\ 0 \in 0 .. cache.shape.dim - 1 /\ 0 \in 0 .. n - 1
    BY <2>1
  <2> QED
    BY <2>2 DEF Places
<1>2. DOMAIN Raised = {}
  BY DEF Raised
<1> QED
  BY <1>1, <1>2

LEMMA JoinedFacts ==
    ASSUME LaidOut(cache), NEW blks, Selection(blks), NEW route
    PROVE  ~BlocksRaise(blks, route) /\ RightCodes(Joined(blks, route), blks)
<1> DEFINE C == TokensOf(blks)
           n == Len(blks)
           H == cache.shape.heads
           D == cache.shape.dim
           blockAt == [b \in ToSet(blks) |-> Block(b, route)]
           J == Joined(blks, route)
<1>0. DOMAIN blks = 1 .. n /\ \A k \in 1 .. n : blks[k] \in 0 .. cache.numBlocks - 1
  BY LenProperties DEF Selection
<1>1. \A b \in ToSet(blks) : b \in 0 .. cache.numBlocks - 1
  BY <1>0 DEF ToSet
<1>2. ~BlocksRaise(blks, route)
  <2>1. ASSUME NEW b \in 0 .. cache.numBlocks - 1
        PROVE  Block(b, route) # Raised
    <3>1. 1 \in 1 .. Len(BlockCodes(b))
      <4>1. Len(BlockCodes(b)) \in Int /\ Len(BlockCodes(b)) >= 1
        BY BlockCodesFacts, LenProperties
      <4> QED
        BY <4>1
    <3>2. DOMAIN Block(b, route) = 1 .. Len(BlockCodes(b))
      BY BlockRead
    <3>3. DOMAIN Raised = {}
      BY DEF Raised
    <3> QED
      BY <3>1, <3>2, <3>3
  <2> QED
    BY <1>1, <2>1 DEF BlocksRaise
<1>3. J = [e \in Places(Len(C)) |->
             LET at == C[e.token + 1] IN
             blockAt[at.blk][(e.head * BlockTokens(at.blk) + at.token) * cache.shape.dim + e.dim + 1]]
  BY DEF Joined
<1>4. Len(C) \in Nat
  BY TokenSpotsFacts
<1>5. ASSUME NEW e \in Places(Len(C))
      PROVE  RightCode(J[e], blks, e)
  <2>1. /\ e.head \in 0 .. H - 1 /\ e.dim \in 0 .. D - 1 /\ e.token + 1 \in 1 .. Len(C)
        /\ e = [head |-> e.head, token |-> e.token, dim |-> e.dim]
    <3>1. e \in [head : 0 .. H - 1, token : 0 .. Len(C) - 1, dim : 0 .. D - 1]
      BY DEF Places
    <3> HIDE DEF C, H, D
    <3> QED
      BY <1>4, <3>1
  <2>2. PICK k \in 1 .. n : \E j \in 1 .. BlockTokens(blks[k]) :
           C[e.token + 1] = [blk |-> blks[k], token |-> j - 1]
    BY <2>1, TokenSpotsFacts
  <2>3. PICK j \in 1 .. BlockTokens(blks[k]) : C[e.token + 1] = [blk |-> blks[k], token |-> j - 1]
    BY <2>2
  <2> DEFINE b == blks[k]
             t == BlockTokens(b)
             i == (e.head * t + (j - 1)) * D + e.dim + 1
             at == C[e.token + 1]
  <2>4. at.blk = b /\ at.token = j - 1
    BY <2>3
  <2>5. b \in 0 .. cache.numBlocks - 1 /\ b \in ToSet(blks)
    BY <1>0 DEF ToSet
  <2>6. J[e] = Block(b, route)[i]
    <3>1. J[e] = blockAt[at.blk][(e.head * BlockTokens(at.blk) + at.token) * D + e.dim + 1]
      BY <1>3
    <3> HIDE DEF J, at, b
    <3> QED
      BY <2>4, <2>5, <3>1
  <2>7. t \in Nat /\ t >= 1 /\ j - 1 \in 0 .. t - 1
    <3>1. t \in Nat /\ t >= 1
      BY TokenPartsFacts
    <3> HIDE DEF t
    <3>2. j \in 1 .. t
      BY DEF t
    <3> QED
      BY <3>1, <3>2
  <2>8. /\ i \in 1 .. H * t * D
        /\ Element(cache.shape, b * cache.blockSize, t, i - 1) =
              [head |-> e.head, token |-> b * cache.blockSize + (j - 1), dim |-> e.dim]
    <3> DEFINE first == b * cache.blockSize
               x == (e.head * t + (j - 1)) * D + e.dim
               y == j - 1
    <3>1. first \in Int /\ cache.shape \in [heads : Nat \ {0}, tokens : Nat \ {0}, dim : Nat \ {0}]
      BY <2>5 DEF LaidOut, Tensors
    <3>2. x + 1 \in 1 .. H * t * D /\ Element(cache.shape, first, t, x) =
              [head |-> e.head, token |-> first + y, dim |-> e.dim]
      <4> DEFINE shape == cache.shape
                 h == e.head
                 d == e.dim
      <4>1. h \in 0 .. shape.heads - 1 /\ d \in 0 .. shape.dim - 1 /\ y \in 0 .. t - 1
        BY <2>1, <2>7
      <4>2. /\ t \in Int /\ t >= 1 /\ first \in Int
            /\ shape \in [heads : Nat \ {0}, tokens : Nat \ {0}, dim : Nat \ {0}]
        BY <2>7, <3>1
      <4> HIDE DEF first, t, y, shape, h, d
      <4>3. Counted(shape, first, t, h, y, d)
        BY <4>1, <4>2 DEF Counted
      <4>4. Found(shape, first, t, h, y, d)
        BY <4>3, ElementAt
      <4>5. /\ (h * t + y) * shape.dim + d + 1 \in 1 .. (shape.heads * t * shape.dim)
            /\ Element(shape, first, t, (h * t + y) * shape.dim + d) =
                  [head |-> h, token |-> first + y, dim |-> d]
        BY <4>4 DEF Found
      <4> QED
        BY <4>5 DEF shape, h, d, y
    <3>3. x \in Int /\ i = x + 1
      <4>1. e.head \in Int /\ e.dim \in Int /\ D \in Int
        BY <2>1, <3>1
      <4> HIDE DEF t, D
      <4> QED
        BY <2>7, <4>1
    <3>4. i - 1 = x
      <4> HIDE DEF x, i
      <4> QED
        BY <3>3
    <3> HIDE DEF x, i
    <3> QED
      BY <3>2, <3>3, <3>4
  <2> HIDE DEF i, J
  <2>9. Len(BlockCodes(b)) = H * t * D /\ BlockCodes(b)[i] = Element(cache.shape, b * cache.blockSize, t, i - 1)
    <3> HIDE DEF b
    <3> QED
      BY <2>5, <2>8, BlockCodesFacts DEF t
  <2>10. i \in 1 .. Len(BlockCodes(b))
    BY <2>8, <2>9
  <2>11. J[e] = ReadOf(b, i)
    <3> HIDE DEF b
    <3> QED
      BY <2>5, <2>6, <2>10, BlockRead
  <2>12. Home(blks, e) = [head |-> e.head, token |-> b * cache.blockSize + (j - 1), dim |-> e.dim]
    <3>1. Home(blks, e) = [e EXCEPT !.token = at.blk * cache.blockSize + at.token]
      BY DEF Home
    <3> HIDE DEF at, b
    <3> QED
      BY <2>1, <2>4, <3>1
  <2>13. ReadOf(b, i).code = Home(blks, e)
    <3>1. ReadOf(b, i).code = BlockCodes(b)[i]
      BY DEF ReadOf
    <3> QED
      BY <2>8, <2>9, <2>12, <3>1
  <2> QED
    <3> HIDE DEF b
    <3> QED
      BY <2>5, <2>10, <2>11, <2>13, ReadOfFacts DEF RightCode
<1>6. DOMAIN J = Places(Len(C))
  BY <1>3
<1> QED
  BY <1>2, <1>5, <1>6 DEF RightCodes
-----------------------------------------------------------------------------
(* The first blocks hold the first tokens.                                   *)
LEMMA PrefixFacts ==
    ASSUME LaidOut(cache), NEW blks, Selection(blks), IsPrefix0(blks)
    PROVE  /\ Len(TokensOf(blks)) <= cache.shape.tokens
           /\ Len(blks) = cache.numBlocks => Len(TokensOf(blks)) = cache.shape.tokens
           /\ \A p \in 1 .. Len(TokensOf(blks)) :
                 TokensOf(blks)[p].blk * cache.blockSize + TokensOf(blks)[p].token = p - 1
<1> DEFINE n == Len(blks)
           P == TokenParts(blks)
           C == TokensOf(blks)
           O == Offsets(P)
           s == cache.blockSize
           N == cache.numBlocks
           T == cache.shape.tokens
<1>1. /\ n \in Nat /\ n >= 1 /\ N \in Int /\ s \in Nat /\ s >= 1 /\ T \in Int
      /\ \A k \in 1 .. n : blks[k] \in 0 .. N - 1 /\ blks[k] = k - 1
  <2>1. N \in Int /\ s \in Nat /\ s >= 1 /\ T \in Int
    BY NumBlocksFacts DEF LaidOut, Tensors
  <2>2. blks \in Seq(0 .. N - 1) /\ n >= 1 /\ \A k \in DOMAIN blks : blks[k] = k - 1
    BY DEF Selection, IsPrefix0
  <2> HIDE DEF N
  <2>3. n \in Nat /\ DOMAIN blks = 1 .. n /\ \A k \in 1 .. n : blks[k] \in 0 .. N - 1
    BY <2>2, LenProperties
  <2> QED
    BY <2>1, <2>2, <2>3
<1>2. P \in Seq(Seq(TokenSpots)) /\ Len(P) = n
  BY TokenPartsFacts
<1>3. ASSUME NEW k \in 1 .. n
      PROVE  /\ Len(P[k]) = BlockTokens(k - 1) /\ k - 1 \in 0 .. N - 1 /\ k <= N
             /\ BlockTokens(k - 1) \in Nat
  <2>1. Len(P[k]) = BlockTokens(blks[k]) /\ BlockTokens(blks[k]) \in Nat
    BY TokenPartsFacts
  <2> QED
    BY <1>1, <2>1
<1> HIDE DEF n, P, C, s, N, T
<1>4. \A k \in 0 .. n - 1 : O[k] = s * k
  <2>1. ASSUME NEW k \in 1 .. n - 1
        PROVE  Len(P[k]) = s
    <3>1. k \in 1 .. n /\ k + 1 \in 1 .. n
      BY <1>1
    <3>2. k - 1 # N - 1 /\ k - 1 \in 0 .. N - 1
      BY <1>1, <1>3, <3>1
    <3>3. BlockTokens(k - 1) = s
      BY <3>2, BlockShape DEF s, N
    <3> QED
      BY <1>3, <3>1, <3>3
  <2>2. \A k \in 1 .. Len(P) - 1 : Len(P[k]) = s
    BY <1>2, <2>1
  <2>3. \A k \in 0 .. Len(P) - 1 : O[k] = s * k
    <3> HIDE DEF O
    <3> QED
      BY <1>1, <1>2, <2>2, EvenOffsets DEF O
  <2> QED
    BY <1>2, <2>3
<1>5. O[n] = O[n - 1] + Len(P[n])
  <2>1. n \in 1 .. Len(P)
    BY <1>1, <1>2
  <2> QED
    BY <1>2, <2>1, OffsetsFacts
<1>6. Len(C) = O[n]
  BY TokenSpotsFacts DEF C, P, n
<1>7. \A p \in 1 .. Len(C) : \E k \in 1 .. n : \E j \in 1 .. BlockTokens(blks[k]) :
         p = O[k - 1] + j /\ C[p] = [blk |-> blks[k], token |-> j - 1]
  BY TokenSpotsFacts DEF C, P, n
<1> HIDE DEF O
<1>8. Len(C) = s * (n - 1) + BlockTokens(n - 1)
  <2>1. n \in 1 .. n /\ n - 1 \in 0 .. n - 1
    BY <1>1
  <2> QED
    BY <1>3, <1>4, <1>5, <1>6, <2>1
<1>9. Len(C) <= T /\ (n = N => Len(C) = T)
  <2> DEFINE b == n - 1
  <2>1. b \in 0 .. N - 1 /\ (n = N <=> b = N - 1)
    <3>1. n \in 1 .. n
      BY <1>1
    <3> QED
      BY <1>1, <1>3, <3>1
  <2>2. b * s + BlockTokens(b) <= T /\ (b = N - 1 => b * s + BlockTokens(b) = T)
    <3> HIDE DEF b
    <3> QED
      BY <2>1, BlockShape DEF s, N, T
  <2>3. s * b = b * s
    BY <1>1
  <2> HIDE DEF b
  <2>4. Len(C) = b * s + BlockTokens(b)
    BY <1>8, <2>3 DEF b
  <2> QED
    BY <2>1, <2>2, <2>4
<1>10. ASSUME NEW p \in 1 .. Len(C)
       PROVE  C[p].blk * s + C[p].token = p - 1
  <2>1. PICK k \in 1 .. n : \E j \in 1 .. BlockTokens(blks[k]) :
           p = O[k - 1] + j /\ C[p] = [blk |-> blks[k], token |-> j - 1]
    BY <1>7
  <2>2. PICK j \in 1 .. BlockTokens(blks[k]) : p = O[k - 1] + j /\ C[p] = [blk |-> blks[k], token |-> j - 1]
    BY <2>1
  <2>3. C[p].blk = k - 1 /\ C[p].token = j - 1
    BY <1>1, <2>2
  <2>4. p = s * (k - 1) + j
    <3>1. k - 1 \in 0 .. n - 1
      BY <1>1
    <3> QED
      BY <1>4, <2>2, <3>1
  <2>5. s * (k - 1) = (k - 1) * s /\ s * (k - 1) \in Int
    BY <1>1
  <2>6. j \in Int
    BY <1>1, <1>3
  <2> QED
    BY <2>3, <2>4, <2>5, <2>6
<1> QED
  BY <1>9, <1>10 DEF n, C, s, N, T

LEMMA HomeOfPrefix ==
    ASSUME LaidOut(cache), NEW blks, Selection(blks), IsPrefix0(blks),
           NEW e \in Places(Len(TokensOf(blks)))
    PROVE  Home(blks, e) = e
<1> DEFINE n == Len(TokensOf(blks))
           at == TokensOf(blks)[e.token + 1]
<1>1. n \in Nat
  BY TokenSpotsFacts
<1>2. e \in [head : 0 .. cache.shape.heads - 1, token : 0 .. n - 1, dim : 0 .. cache.shape.dim - 1]
  BY DEF Places
<1>3. e = [head |-> e.head, token |-> e.token, dim |-> e.dim] /\ e.token \in Int /\ e.token + 1 \in 1 .. n
  <2> HIDE DEF n
  <2> QED
    BY <1>1, <1>2
<1>4. at.blk * cache.blockSize + at.token = e.token + 1 - 1
  BY <1>3, PrefixFacts
<1>5. Home(blks, e) = [e EXCEPT !.token = at.blk * cache.blockSize + at.token]
  BY DEF Home
<1> HIDE DEF at
<1>6. Home(blks, e) = [e EXCEPT !.token = e.token]
  BY <1>3, <1>4, <1>5
<1> QED
  BY <1>3, <1>6

RightSigns(tensor, blks) ==
    \A e \in DOMAIN tensor :
        tensor[e].sign = IF cache.signs THEN FlatIndex(cache.shape, Home(blks, e)) ELSE None

LEMMA AllBlocksFacts ==
    ASSUME LaidOut(cache)
    PROVE  /\ Selection(AllBlocks) /\ IsPrefix0(AllBlocks) /\ Len(AllBlocks) = cache.numBlocks
           /\ Len(TokensOf(AllBlocks)) = cache.shape.tokens
<1> DEFINE N == cache.numBlocks
<1>1. N \in Nat /\ N >= 1
  BY NumBlocksFacts DEF LaidOut
<1>2. AllBlocks = [i \in 1 .. N |-> i - 1]
  BY DEF AllBlocks
<1> HIDE DEF N
<1>3. AllBlocks \in [1 .. N -> 0 .. N - 1]
  BY <1>1, <1>2
<1>4. AllBlocks \in Seq(0 .. N - 1) /\ Len(AllBlocks) = N
  BY <1>1, <1>3, FunctionIsSeq
<1>5. Selection(AllBlocks) /\ IsPrefix0(AllBlocks)
  BY <1>1, <1>2, <1>4 DEF Selection, IsPrefix0, N
<1> QED
  BY <1>4, <1>5, PrefixFacts DEF N

LEMMA RetrievedFacts ==
    ASSUME LaidOut(cache), NEW route
    PROVE  /\ Retrieved(route) # Raised
           /\ RightCodes(Retrieved(route), AllBlocks) /\ RightSigns(Retrieved(route), AllBlocks)
<1> DEFINE J == Joined(AllBlocks, route)
           R == Retrieved(route)
           S == Places(Len(TokensOf(AllBlocks)))
<1>1. Selection(AllBlocks) /\ IsPrefix0(AllBlocks)
  BY AllBlocksFacts
<1>2. ~BlocksRaise(AllBlocks, route) /\ RightCodes(J, AllBlocks)
  BY <1>1, JoinedFacts
<1>3. DOMAIN J = S
  BY <1>2 DEF RightCodes
<1>4. R = [e \in S |-> [code |-> J[e].code, scale |-> J[e].scale,
                        sign |-> IF cache.signs THEN FlatIndex(cache.shape, e) ELSE None]]
  BY <1>2, <1>3 DEF Retrieved, Signed
<1> HIDE DEF J, R
<1>5. RightCodes(R, AllBlocks)
  <2>1. \A e \in S : RightCode(J[e], AllBlocks, e)
    BY <1>2, <1>3 DEF RightCodes
  <2>2. \A e \in S : R[e].code = J[e].code /\ R[e].scale = J[e].scale
    BY <1>4
  <2>3. \A e \in S : RightCode(R[e], AllBlocks, e)
    BY <2>1, <2>2 DEF RightCode
  <2> QED
    BY <1>4, <2>3 DEF RightCodes
<1>6. RightSigns(R, AllBlocks)
  <2>1. \A e \in S : Home(AllBlocks, e) = e
    BY <1>1, HomeOfPrefix
  <2>2. \A e \in S : R[e].sign = IF cache.signs THEN FlatIndex(cache.shape, e) ELSE None
    BY <1>4
  <2>3. DOMAIN R = S
    BY <1>4
  <2> HIDE DEF S
  <2> QED
    BY <2>1, <2>2, <2>3 DEF RightSigns
<1>7. R # Raised
  <2>1. Len(TokensOf(AllBlocks)) \in Nat /\ Len(TokensOf(AllBlocks)) >= 1
    BY <1>1, TokenSpotsFacts
  <2> QED
    BY <1>4, <2>1, PlacesFacts
<1> QED
  BY <1>5, <1>6, <1>7 DEF R

LEMMA RetrievedBlocksFacts ==
    ASSUME LaidOut(cache), NEW blks, Selection(blks), NEW route
    PROVE  /\ RetrievedBlocks(blks, route) # Raised
           /\ RightCodes(RetrievedBlocks(blks, route), blks)
           /\ route # "metal" \/ IsPrefix0(blks) => RightSigns(RetrievedBlocks(blks, route), blks)
<1> DEFINE R == RetrievedBlocks(blks, route)
           L == Len(TokensOf(blks))
           S == Places(L)
<1>1. L \in Nat /\ L >= 1
  BY TokenSpotsFacts
<1>2. CASE IsPrefix0(blks)
  <2> DEFINE A == Retrieved(route)
             T == Len(TokensOf(AllBlocks))
  <2>1. A # Raised /\ RightCodes(A, AllBlocks) /\ RightSigns(A, AllBlocks)
    BY RetrievedFacts
  <2>2. R = Restrict(A, {e \in DOMAIN A : e.token < L})
    BY <1>2, <2>1 DEF RetrievedBlocks
  <2>3. DOMAIN A = Places(T)
    BY <2>1 DEF RightCodes
  <2>4. L <= T /\ T \in Int
    BY <1>2, PrefixFacts, AllBlocksFacts DEF LaidOut, Tensors
  <2> HIDE DEF A, L, T, R
  <2>5. {e \in DOMAIN A : e.token < L} = S /\ S \subseteq Places(T)
    <3>1. \A e : e \in S <=> e \in Places(T) /\ e.token < L
      BY <1>1, <2>4 DEF Places
    <3> QED
      BY <2>3, <3>1
  <2>6. R = [e \in S |-> A[e]]
    BY <2>2, <2>5 DEF Restrict
  <2>7. \A e \in S : Home(blks, e) = e /\ Home(AllBlocks, e) = e
    BY <1>2, <2>5, AllBlocksFacts, HomeOfPrefix DEF L, T
  <2>8. RightCodes(R, blks)
    <3>1. \A e \in S : RightCode(A[e], AllBlocks, e)
      BY <2>1, <2>3, <2>5 DEF RightCodes
    <3>2. \A e \in S : RightCode(A[e], blks, e)
      BY <2>7, <3>1 DEF RightCode
    <3> QED
      BY <2>6, <3>2 DEF RightCodes, L
  <2>9. RightSigns(R, blks)
    <3> HIDE DEF S
    <3> QED
      BY <2>1, <2>3, <2>5, <2>6, <2>7 DEF RightSigns
  <2>10. R # Raised
    BY <1>1, <2>6, PlacesFacts
  <2> QED
    BY <2>8, <2>9, <2>10 DEF R
<1>3. CASE ~IsPrefix0(blks)
  <2> DEFINE J == Joined(blks, route)
  <2>1. ~BlocksRaise(blks, route) /\ RightCodes(J, blks)
    BY JoinedFacts
  <2>2. DOMAIN J = S
    BY <2>1 DEF RightCodes
  <2>3. R = [e \in S |-> [code |-> J[e].code, scale |-> J[e].scale,
                          sign |-> IF cache.signs THEN SelectedIndex(blks, e, route) ELSE None]]
    BY <1>3, <2>1, <2>2 DEF RetrievedBlocks, Signed
  <2> HIDE DEF J, R
  <2>4. RightCodes(R, blks)
    <3>1. \A e \in S : RightCode(J[e], blks, e)
      BY <2>1, <2>2 DEF RightCodes
    <3>2. \A e \in S : R[e].code = J[e].code /\ R[e].scale = J[e].scale
      BY <2>3
    <3>3. \A e \in S : RightCode(R[e], blks, e)
      BY <3>1, <3>2 DEF RightCode
    <3> QED
      BY <2>3, <3>3 DEF RightCodes
  <2>5. ASSUME route # "metal"
        PROVE  RightSigns(R, blks)
    <3>1. \A e \in S : SelectedIndex(blks, e, route) = FlatIndex(cache.shape, Home(blks, e))
      BY <2>5 DEF SelectedIndex, Home
    <3>2. \A e \in S : R[e].sign = IF cache.signs THEN SelectedIndex(blks, e, route) ELSE None
      BY <2>3
    <3>3. DOMAIN R = S
      BY <2>3
    <3> HIDE DEF S
    <3> QED
      BY <3>1, <3>2, <3>3 DEF RightSigns
  <2>6. R # Raised
    BY <1>1, <2>3, PlacesFacts
  <2> QED
    BY <1>3, <2>4, <2>5, <2>6 DEF R
<1> QED
  BY <1>2, <1>3
-----------------------------------------------------------------------------
(* The buffers of all blocks read as one.                                    *)
LEMMA CeilDivShift ==
    ASSUME NEW m \in Int, m >= 1, NEW o \in Int, NEW i \in Int, i >= 1
    PROVE  CeilDiv(m * o + i, m) = o + CeilDiv(i, m) /\ (m * o + i - 1) % m = (i - 1) % m
<1> DEFINE p == CeilDiv(i, m)
           r == (i - 1) % m
           n == m * o + i
           q == o + p
<1>1. p \in Int /\ r \in Int /\ i - 1 = m * (p - 1) + r /\ 0 <= r /\ r < m
  BY CeilDivFacts
<1> HIDE DEF p, r
<1>2. n \in Int /\ q \in Int /\ n - 1 = m * (q - 1) + r
  <2>1. m * (q - 1) = m * o + m * (p - 1)
    BY <1>1
  <2> DEFINE x == m * o
             y == m * (p - 1)
             z == m * (q - 1)
  <2>2. x \in Int /\ y \in Int /\ z = x + y /\ n = x + i /\ i - 1 = y + r
    BY <1>1, <2>1
  <2> HIDE DEF x, y, z, n
  <2>3. n \in Int /\ n - 1 = z + r
    BY <1>1, <2>2
  <2> QED
    BY <1>1, <2>3 DEF z
<1> HIDE DEF n, q
<1>3. CeilDiv(n, m) = q /\ (n - 1) % m = r
  BY <1>1, <1>2, CeilDivUnique
<1> QED
  BY <1>3 DEF n, q, p, r

LEMMA JoinedAt ==
    ASSUME NEW S, NEW parts \in Seq(Seq(S)), NEW k \in 1 .. Len(parts)
    PROVE  \A j \in 1 .. Len(parts[k]) : Concatenated(parts)[Offsets(parts)[k - 1] + j] = parts[k][j]
<1>1. Len(parts) \in k .. Len(parts)
  BY LenProperties
<1> QED
  BY <1>1, PartAt, ConcatenatedIsJoined

(* How many codes a block that is not the last has.                          *)
Full == Len(BlockCodes(0))

LEMMA FullFacts ==
    ASSUME LaidOut(cache)
    PROVE  /\ Full \in Nat /\ Full >= 1 /\ cache.values[1] = Full
           /\ cache.numBlocks = 1 => Full = cache.shape.heads * cache.shape.tokens * cache.shape.dim
           /\ cache.numBlocks # 1 => Full = cache.shape.heads * cache.blockSize * cache.shape.dim
           /\ \A b \in 0 .. cache.numBlocks - 1 :
                 b # cache.numBlocks - 1 => Len(BlockCodes(b)) = Full
<1> DEFINE N == cache.numBlocks
           L(t) == cache.shape.heads * t * cache.shape.dim
<1>1. N \in Int /\ N >= 1 /\ 0 \in 0 .. N - 1
  <2>1. N \in Int /\ N >= 1
    BY NumBlocksFacts DEF LaidOut
  <2> HIDE DEF N
  <2> QED
    BY <2>1
<1>2. Full \in Nat /\ Full >= 1
  BY <1>1, BlockCodesFacts, LenProperties DEF Full
<1>3. cache.values[1] = Full
  <2>1. cache.values[0 + 1] = Len(BlockCodes(0))
    BY <1>1, PartsFacts
  <2> QED
    BY <2>1 DEF Full
<1>4. Full = L(BlockTokens(0))
  BY <1>1, BlockCodesFacts DEF Full
<1>5. \A b \in 0 .. N - 1 : Len(BlockCodes(b)) = L(BlockTokens(b))
  BY BlockCodesFacts
<1>6. \A b \in 0 .. N - 1 : b # N - 1 => BlockTokens(b) = cache.blockSize
  BY BlockShape
<1>7. N = 1 => BlockTokens(0) = cache.shape.tokens
  <2>1. SUFFICES ASSUME N = 1 PROVE BlockTokens(0) = cache.shape.tokens
    OBVIOUS
  <2>2. 0 * cache.blockSize + BlockTokens(0) = cache.shape.tokens
    BY <1>1, <2>1, BlockShape
  <2>3. cache.blockSize \in Int /\ BlockTokens(0) \in Int
    BY <1>1, BlockShape DEF LaidOut
  <2> QED
    BY <2>2, <2>3
<1> HIDE DEF N, L
<1>8. N # 1 => 0 # N - 1
  BY <1>1
<1>9. (N # 1 => Full = L(cache.blockSize)) /\ (N = 1 => Full = L(cache.shape.tokens))
  BY <1>1, <1>4, <1>6, <1>7, <1>8
<1>10. \A b \in 0 .. N - 1 : b # N - 1 => Len(BlockCodes(b)) = Full
  <2>1. ASSUME NEW b \in 0 .. N - 1, b # N - 1
        PROVE  N # 1
    BY <1>1, <2>1
  <2> QED
    BY <1>5, <1>6, <1>9, <2>1
<1> QED
  BY <1>2, <1>3, <1>9, <1>10 DEF N, L

(* Where every block but the last fills its words, or groups, no code is      *)
(* shifted.                                                                  *)
Fills(parts, m) ==
    /\ m \in Int /\ m >= 1 /\ Len(parts) = cache.numBlocks
    /\ \A b \in 0 .. cache.numBlocks - 1 : Len(parts[b + 1]) = CeilDiv(Len(BlockCodes(b)), m)
    /\ cache.numBlocks = 1 \/ cache.values[1] % m = 0

LEMMA FilledOffsets ==
    ASSUME LaidOut(cache), NEW S, NEW parts \in Seq(Seq(S)), NEW m, Fills(parts, m),
           NEW b \in 0 .. cache.numBlocks - 1
    PROVE  Offsets(parts)[b] \in Nat /\ m * Offsets(parts)[b] = Full * b
<1> DEFINE N == cache.numBlocks
           V == Full
           O == Offsets(parts)
<1>1. N \in Int /\ N >= 1
  BY NumBlocksFacts DEF LaidOut
<1>2. /\ m \in Int /\ m >= 1 /\ Len(parts) = N
      /\ \A k \in 0 .. N - 1 : Len(parts[k + 1]) = CeilDiv(Len(BlockCodes(k)), m)
      /\ N = 1 \/ V % m = 0
  BY FullFacts DEF Fills
<1>3. V \in Nat /\ V >= 1 /\ \A k \in 0 .. N - 1 : k # N - 1 => Len(BlockCodes(k)) = V
  BY FullFacts
<1>4. O \in [0 .. N -> Nat] /\ O[0] = 0
  BY <1>2, OffsetsFacts
<1>5. O[b] \in Nat
  <2>1. b \in 0 .. N
    BY <1>1
  <2> QED
    BY <1>4, <2>1
<1>6. CASE N = 1
  <2>1. b = 0
    BY <1>6
  <2>2. m * 0 = V * 0
    BY <1>2, <1>3
  <2> QED
    BY <1>4, <2>1, <2>2
<1>7. CASE N # 1
  <2> DEFINE w == V \div m
             r == m - 1
  <2>1. w \in Int /\ V = m * w
    <3>1. V \in Int /\ m > 0 /\ V % m = 0
      BY <1>2, <1>3, <1>7
    <3> HIDE DEF V
    <3>2. w \in Int /\ V = m * w + (V % m)
      BY <1>2, <3>1, Euclid
    <3> HIDE DEF w
    <3>3. m * w \in Int
      BY <1>2, <3>2
    <3> QED
      BY <3>1, <3>2, <3>3
  <2> HIDE DEF w, V
  <2>2. w \in Nat
    <3>1. SUFFICES ASSUME w <= 0 - 1 PROVE FALSE
      BY <2>1
    <3>2. m * w <= m * (0 - 1)
      BY <1>2, <2>1, <3>1
    <3>3. m * (0 - 1) = 0 - m
      BY <1>2
    <3> QED
      BY <1>2, <1>3, <2>1, <3>2, <3>3
  <2>3. CeilDiv(V, m) = w
    <3>1. V - 1 = m * (w - 1) + r
      <4>1. m * (w - 1) = m * w - m
        BY <1>2, <2>1
      <4> DEFINE x == m * w
                 y == m * (w - 1)
      <4>2. x \in Int /\ V = x /\ y = x - m
        BY <1>2, <2>1, <4>1
      <4> HIDE DEF x, y
      <4>3. V - 1 = y + r
        BY <1>2, <4>2
      <4> QED
        BY <4>3 DEF y
    <3>2. r \in Int /\ 0 <= r /\ r < m /\ V \in Int
      BY <1>2, <1>3
    <3> HIDE DEF r
    <3> QED
      BY <1>2, <2>1, <3>1, <3>2, CeilDivUnique
  <2>4. \A k \in 1 .. Len(parts) - 1 : Len(parts[k]) = w
    <3>1. ASSUME NEW k \in 1 .. N - 1
          PROVE  Len(parts[k]) = w
      <4>1. k - 1 \in 0 .. N - 1 /\ k - 1 # N - 1 /\ (k - 1) + 1 = k
        BY <1>1
      <4>2. Len(parts[(k - 1) + 1]) = CeilDiv(Len(BlockCodes(k - 1)), m)
        BY <1>2, <4>1
      <4>3. Len(BlockCodes(k - 1)) = V
        BY <1>3, <4>1
      <4> QED
        BY <2>3, <4>1, <4>2, <4>3
    <3> QED
      BY <1>2, <3>1
  <2>5. O[b] = w * b
    <3>1. \A k \in 0 .. Len(parts) - 1 : Offsets(parts)[k] = w * k
      BY <2>2, <2>4, EvenOffsets
    <3> QED
      BY <1>2, <3>1
  <2>6. m * (w * b) = (m * w) * b
    BY <1>1, <1>2, <2>1
  <2> QED
    BY <1>5, <2>1, <2>5, <2>6 DEF V
<1> QED
  BY <1>5, <1>6, <1>7

(* The part a code of a block is in, found from the code's place among all.   *)
LEMMA FilledAt ==
    ASSUME LaidOut(cache), NEW S, NEW parts \in Seq(Seq(S)), NEW m, Fills(parts, m),
           NEW b \in 0 .. cache.numBlocks - 1, NEW i \in 1 .. Len(BlockCodes(b))
    PROVE  /\ Concatenated(parts)[CeilDiv(Full * b + i, m)] = parts[b + 1][CeilDiv(i, m)]
           /\ (Full * b + i - 1) % m = (i - 1) % m
<1> DEFINE o == Offsets(parts)[b]
           n == Len(BlockCodes(b))
           j == CeilDiv(i, m)
           k == b + 1
<1>1. o \in Nat /\ m * o = Full * b /\ m \in Int /\ m >= 1
  BY FilledOffsets DEF Fills
<1>2. n \in Nat /\ i \in 1 .. n /\ i \in Int /\ i >= 1
  <2>1. n \in Nat
    BY BlockCodesFacts, LenProperties
  <2> QED
    BY <2>1
<1>3. cache.numBlocks \in Int
  BY NumBlocksFacts DEF LaidOut
<1>4. k \in 1 .. Len(parts) /\ k - 1 = b /\ Len(parts[k]) = CeilDiv(n, m)
  BY <1>3 DEF Fills
<1> HIDE DEF o, n, k
<1>5. j \in 1 .. CeilDiv(n, m)
  BY <1>1, <1>2, CeilDivOrder
<1>6. CeilDiv(m * o + i, m) = o + j /\ (m * o + i - 1) % m = (i - 1) % m
  <2>1. m \in Int /\ m >= 1 /\ o \in Int /\ i \in Int /\ i >= 1
    BY <1>1, <1>2
  <2>2. CeilDiv(m * o + i, m) = o + CeilDiv(i, m) /\ (m * o + i - 1) % m = (i - 1) % m
    BY ONLY <2>1, CeilDivShift
  <2> QED
    BY <2>2
<1> HIDE DEF j
<1>7. Concatenated(parts)[Offsets(parts)[k - 1] + j] = parts[k][j]
  BY <1>4, <1>5, JoinedAt
<1>8. Concatenated(parts)[o + j] = parts[k][j]
  BY <1>4, <1>7 DEF o
<1> QED
  BY <1>1, <1>6, <1>8 DEF k, j

(* All the codes of all the blocks.                                          *)
CodeCount == cache.shape.heads * cache.shape.tokens * cache.shape.dim

OneOrder == cache.numBlocks = 1 \/ cache.shape.heads = 1

LEMMA CodeCountFacts ==
    ASSUME LaidOut(cache), OneOrder
    PROVE  CodeCount = Full * (cache.numBlocks - 1) + Len(BlockCodes(cache.numBlocks - 1))
<1> DEFINE N == cache.numBlocks
           b == N - 1
           T == cache.shape.tokens
           H == cache.shape.heads
           D == cache.shape.dim
           s == cache.blockSize
           t == BlockTokens(b)
           F == Full
           l == Len(BlockCodes(b))
<1>1. /\ N \in Int /\ N >= 1 /\ T \in Int /\ T >= 1 /\ H \in Int /\ H >= 1 /\ D \in Int /\ D >= 1
      /\ s \in Int /\ s >= 1
  BY NumBlocksFacts DEF LaidOut, Tensors
<1>2. b \in 0 .. N - 1
  <2> HIDE DEF N
  <2> QED
    BY <1>1
<1>3. t \in Int /\ b * s + t = T /\ l = H * t * D
  <2>1. t \in 1 .. s /\ b * s + t = T
    BY <1>2, BlockShape
  <2>2. l = H * t * D
    BY <1>2, BlockCodesFacts
  <2> HIDE DEF t
  <2> QED
    BY <1>1, <2>1, <2>2
<1>4. F \in Int /\ (N = 1 => F = H * T * D) /\ (N # 1 => F = H * s * D)
  BY FullFacts
<1>5. N = 1 \/ H = 1
  BY DEF OneOrder
<1>6. H * T * D = F * b + l
  <2>0. b \in Int
    BY <1>1
  <2> HIDE DEF N, b, T, H, D, s, t, F, l
  <2>1. CASE N = 1
    <3>1. b = 0
      BY <2>1 DEF b
    <3>2. b * s = 0 /\ F * b = 0
      BY <1>1, <1>4, <3>1
    <3>3. t = T
      BY <1>3, <3>2
    <3>4. l \in Int
      BY <1>1, <1>3
    <3> QED
      BY <1>3, <3>2, <3>3, <3>4
  <2>2. CASE N # 1
    <3>1. H = 1 /\ F = H * s * D
      BY <1>4, <1>5, <2>2
    <3>2. F = s * D /\ l = t * D /\ H * T * D = T * D
      BY <1>1, <1>3, <3>1
    <3>3. T * D = (b * s) * D + t * D
      BY <1>1, <1>3, <2>0
    <3>4. (b * s) * D = (s * D) * b
      BY <1>1, <2>0
    <3> QED
      BY <3>2, <3>3, <3>4
  <2> QED
    BY <2>1, <2>2
<1> QED
  BY <1>6 DEF CodeCount
-----------------------------------------------------------------------------
(* Where an element's code is among all the codes.                           *)
PlacedAt(e, b, i) == FlatIndex(cache.shape, e) + 1 = Full * b + i /\ BlockCodes(b)[i] = e

LEMMA TokenInBlock ==
    ASSUME LaidOut(cache), NEW p \in 0 .. cache.shape.tokens - 1
    PROVE  \E b \in 0 .. cache.numBlocks - 1 : \E t \in 0 .. BlockTokens(b) - 1 :
              p = cache.blockSize * b + t
<1> DEFINE N == cache.numBlocks
           T == cache.shape.tokens
           s == cache.blockSize
           q == p + 1
           b == CeilDiv(q, s) - 1
           t == (q - 1) % s
<1>1. N \in Int /\ N >= 1 /\ T \in Int /\ T >= 1 /\ s \in Int /\ s >= 1 /\ N = CeilDiv(T, s)
  BY NumBlocksFacts DEF LaidOut, Tensors
<1>2. p \in Int /\ 0 <= p /\ p <= T - 1 /\ q \in 1 .. T /\ q \in Int /\ q >= 1
  BY <1>1
<1> HIDE DEF N, T, s, q
<1>3. CeilDiv(q, s) \in 1 .. N /\ CeilDiv(q, s) \in Int
  BY <1>1, <1>2, CeilDivOrder
<1>4. q - 1 = s * b + t /\ t \in Int /\ 0 <= t /\ t < s
  BY <1>1, <1>2, CeilDivFacts
<1>5. b \in 0 .. N - 1
  BY <1>1, <1>3
<1> HIDE DEF b, t
<1>6. p = s * b + t
  BY <1>2, <1>4 DEF q
<1>7. t < BlockTokens(b) /\ BlockTokens(b) \in Int
  <2> DEFINE B == BlockTokens(b)
  <2>1. B \in 1 .. s /\ (b # N - 1 => B = s) /\ (b = N - 1 => b * s + B = T)
    BY <1>5, BlockShape DEF N, s, T
  <2> HIDE DEF B
  <2>2. CASE b # N - 1
    BY <1>1, <1>4, <2>1, <2>2 DEF B
  <2>3. CASE b = N - 1
    <3> DEFINE x == b * s
    <3>1. x \in Int /\ s * b = x
      BY <1>1, <1>5
    <3> HIDE DEF x
    <3>2. x + B = T /\ B \in Int /\ p = x + t
      BY <1>1, <1>6, <2>1, <2>3, <3>1 DEF x
    <3> QED
      BY <1>1, <1>2, <1>4, <3>1, <3>2 DEF B
  <2> QED
    BY <1>1, <2>1, <2>2, <2>3 DEF B
<1>8. t \in 0 .. BlockTokens(b) - 1
  BY <1>4, <1>7
<1> QED
  BY <1>5, <1>6, <1>8 DEF N, s

LEMMA PlaceOf ==
    ASSUME LaidOut(cache), OneOrder, NEW e \in Places(cache.shape.tokens)
    PROVE  \E b \in 0 .. cache.numBlocks - 1 : \E i \in 1 .. Len(BlockCodes(b)) : PlacedAt(e, b, i)
<1> DEFINE N == cache.numBlocks
           T == cache.shape.tokens
           H == cache.shape.heads
           D == cache.shape.dim
           s == cache.blockSize
           F == Full
           h == e.head
           p == e.token
           d == e.dim
<1>1. /\ N \in Int /\ N >= 1 /\ T \in Int /\ T >= 1 /\ H \in Int /\ H >= 1 /\ D \in Int /\ D >= 1
      /\ s \in Int /\ s >= 1
      /\ cache.shape \in [heads : Nat \ {0}, tokens : Nat \ {0}, dim : Nat \ {0}]
  BY NumBlocksFacts DEF LaidOut, Tensors
<1>2. /\ h \in 0 .. H - 1 /\ p \in 0 .. T - 1 /\ d \in 0 .. D - 1
      /\ e = [head |-> h, token |-> p, dim |-> d]
  BY DEF Places
<1>3. h \in Int /\ p \in Int /\ d \in Int
  <2> HIDE DEF h, p, d, H, T, D
  <2> QED
    BY <1>1, <1>2
<1>4. PICK b \in 0 .. N - 1 : \E t \in 0 .. BlockTokens(b) - 1 : p = s * b + t
  BY <1>2, TokenInBlock
<1>5. PICK t \in 0 .. BlockTokens(b) - 1 : p = s * b + t
  BY <1>4
<1> DEFINE B == BlockTokens(b)
           x == (h * B + t) * D + d
           first == b * s
<1>6. B \in Int /\ B >= 1 /\ t \in Int /\ b \in Int
  <2>1. B \in 1 .. s
    BY BlockShape
  <2> HIDE DEF B, s
  <2>2. B \in Int /\ B >= 1
    BY <1>1, <2>1
  <2> QED
    BY <2>2 DEF B
<1>7. x + 1 \in 1 .. H * B * D /\ Element(cache.shape, first, B, x) = e
  <2> DEFINE shape == cache.shape
  <2>1. Counted(shape, first, B, h, t, d)
    <3>1. first \in Int
      BY <1>1, <1>6
    <3> HIDE DEF first, B
    <3> QED
      BY <1>1, <1>2, <1>5, <1>6, <3>1 DEF Counted, B
  <2>2. Found(shape, first, B, h, t, d)
    <3> HIDE DEF shape, first, B, h, d
    <3> QED
      BY <2>1, ElementAt
  <2>3. (h * B + t) * D + d + 1 \in 1 .. H * B * D
    <3> HIDE DEF B, h, d, first
    <3> QED
      BY <2>2 DEF Found
  <2>4. Element(cache.shape, first, B, x) = [head |-> h, token |-> first + t, dim |-> d]
    <3> HIDE DEF B, h, d, first
    <3> QED
      BY <2>2 DEF Found
  <2>5. first + t = p
    <3>1. first = s * b
      BY <1>1, <1>6
    <3> HIDE DEF first
    <3> QED
      BY <1>5, <3>1
  <2> QED
    <3> HIDE DEF first, B, h, d, p, D
    <3>1. x + 1 \in 1 .. H * B * D
      BY <2>3
    <3>2. [head |-> h, token |-> first + t, dim |-> d] = e
      BY <1>2, <2>5
    <3>3. Element(cache.shape, first, B, x) = e
      BY <2>4, <3>2
    <3> QED
      BY <3>1, <3>3
<1> HIDE DEF B, x
<1>8. /\ Len(BlockCodes(b)) = H * B * D
      /\ \A i \in 1 .. Len(BlockCodes(b)) : BlockCodes(b)[i] = Element(cache.shape, first, B, i - 1)
  BY BlockCodesFacts DEF B
<1> DEFINE i == x + 1
<1>9. x \in Int /\ x = (h * B + t) * D + d
  BY <1>1, <1>3, <1>6 DEF x
<1>10. i \in 1 .. Len(BlockCodes(b)) /\ i - 1 = x
  BY <1>7, <1>8, <1>9
<1>11. BlockCodes(b)[i] = e
  <2> HIDE DEF i
  <2> QED
    BY <1>7, <1>8, <1>10
<1>12. F \in Int /\ (N = 1 => F = H * T * D) /\ (N # 1 => F = H * s * D) /\ (N = 1 \/ H = 1)
  BY FullFacts DEF OneOrder
<1>13. FlatIndex(cache.shape, e) = (h * T + p) * D + d
  BY DEF FlatIndex
<1>14. (h * T + p) * D + d = F * b + x
  <2>1. N = 1 => b = 0 /\ b * s + B = T
    <3>1. SUFFICES ASSUME N = 1 PROVE b = 0 /\ b * s + B = T
      OBVIOUS
    <3>2. b = 0
      BY <3>1
    <3>3. b * s + B = T
      BY <3>1, <3>2, BlockShape DEF B
    <3> QED
      BY <3>2, <3>3
  <2> HIDE DEF N, T, H, D, s, F, h, p, d, first
  <2>2. CASE N = 1
    <3>1. b = 0 /\ B = T
      BY <1>1, <1>6, <2>1, <2>2
    <3>2. F * b = 0 /\ p = t
      BY <1>1, <1>5, <1>6, <1>12, <3>1
    <3> QED
      BY <1>9, <3>1, <3>2
  <2>3. CASE N # 1
    <3>1. H = 1 /\ F = s * D
      BY <1>1, <1>12, <2>3
    <3>2. h = 0
      BY <1>2, <1>3, <3>1
    <3>3. (h * T + p) * D + d = p * D + d /\ x = t * D + d
      BY <1>1, <1>3, <1>6, <1>9, <3>2
    <3>4. p * D = (s * b) * D + t * D
      BY <1>1, <1>5, <1>6
    <3>5. (s * b) * D = (s * D) * b
      BY <1>1, <1>6
    <3>6. t * D \in Int /\ (s * D) * b \in Int
      BY <1>1, <1>6
    <3> QED
      BY <1>3, <3>1, <3>3, <3>4, <3>5, <3>6
  <2> QED
    BY <2>2, <2>3
<1>15. FlatIndex(cache.shape, e) + 1 = F * b + i
  <2>1. F * b \in Int
    BY <1>6, <1>12
  <2> HIDE DEF F, h, p, d, D, T
  <2> DEFINE y == F * b
  <2>2. FlatIndex(cache.shape, e) = y + x
    BY <1>13, <1>14
  <2> HIDE DEF y
  <2>3. y + x + 1 = y + (x + 1)
    BY <1>9, <2>1 DEF y
  <2> QED
    BY <2>2, <2>3 DEF y
<1> HIDE DEF i, F
<1>16. PlacedAt(e, b, i)
  BY <1>11, <1>15 DEF PlacedAt, F
<1> QED
  BY <1>10, <1>16
-----------------------------------------------------------------------------
Aligned ==
    \/ cache.numBlocks = 1
    \/ /\ cache.shape.heads = 1
       /\ cache.values[1] % cache.perWord = 0 /\ cache.values[1] % cache.group = 0

(* What the reader of all buffers as one asks of them.                       *)
LEMMA BuffersFill ==
    ASSUME LaidOut(cache), Aligned
    PROVE  /\ OneOrder /\ CodeCount \in Nat /\ CodeCount >= 1
           /\ Fills(WordsIn(cache), cache.perWord) /\ Fills(ScalesIn(cache), cache.group)
           /\ Len(cache.packed) = CeilDiv(CodeCount, cache.perWord)
           /\ Len(cache.scales) = CeilDiv(CodeCount, cache.group)
<1> DEFINE N == cache.numBlocks
           b == N - 1
           n == Len(BlockCodes(b))
           p == cache.perWord
           g == cache.group
<1>1. N \in Int /\ N >= 1 /\ p \in Int /\ p >= 1 /\ g \in Int /\ g >= 1
  BY NumBlocksFacts DEF LaidOut
<1>2. b \in 0 .. N - 1 /\ b + 1 = N
  <2> HIDE DEF N
  <2> QED
    BY <1>1
<1>3. OneOrder
  BY DEF OneOrder, Aligned
<1>4. CodeCount = Full * b + n
  BY <1>3, CodeCountFacts
<1>5. Full \in Nat /\ Full >= 1 /\ n \in Nat /\ n >= 1
  BY <1>2, FullFacts, BlockCodesFacts, LenProperties
<1>6. CodeCount \in Nat /\ CodeCount >= 1
  <2> DEFINE x == Full * b
  <2>1. x \in Nat
    <3> HIDE DEF b, N
    <3> QED
      BY <1>1, <1>2, <1>5
  <2> HIDE DEF x, n
  <2> QED
    BY <1>4, <1>5, <2>1 DEF x
<1>7. /\ \A k \in 0 .. N - 1 : BlockCodes(k) \in Seq(Codes) /\ Len(BlockCodes(k)) >= 1
      /\ \A k \in 0 .. N - 1 : WordsIn(cache)[k + 1] = Packed(BlockCodes(k), p)
      /\ \A k \in 0 .. N - 1 : ScalesIn(cache)[k + 1] = Scales(BlockCodes(k), g)
      /\ Len(WordsIn(cache)) = N /\ Len(ScalesIn(cache)) = N
  BY BlockCodesFacts, PartsFacts
<1>8. Fills(WordsIn(cache), p)
  <2>1. ASSUME NEW k \in 0 .. N - 1
        PROVE  Len(WordsIn(cache)[k + 1]) = CeilDiv(Len(BlockCodes(k)), p)
    <3> DEFINE B == BlockCodes(k)
    <3>1. B \in Seq(Codes) /\ Len(B) >= 1 /\ WordsIn(cache)[k + 1] = Packed(B, p)
      BY <1>7
    <3> HIDE DEF B, p
    <3>2. Len(Packed(B, p)) = CeilDiv(Len(B), p)
      BY <1>1, <3>1, PackedFacts
    <3> QED
      BY <3>1, <3>2 DEF B
  <2> QED
    BY <1>1, <1>7, <2>1 DEF Fills, Aligned
<1>9. Fills(ScalesIn(cache), g)
  <2>1. ASSUME NEW k \in 0 .. N - 1
        PROVE  Len(ScalesIn(cache)[k + 1]) = CeilDiv(Len(BlockCodes(k)), g)
    <3> DEFINE B == BlockCodes(k)
    <3>1. B \in Seq(Codes) /\ Len(B) >= 1 /\ ScalesIn(cache)[k + 1] = Scales(B, g)
      BY <1>7
    <3> HIDE DEF B, g
    <3>2. Len(Scales(B, g)) = CeilDiv(Len(B), g)
      BY <1>1, <3>1, ScalesFacts
    <3> QED
      BY <3>1, <3>2 DEF B
  <2> QED
    BY <1>1, <1>7, <2>1 DEF Fills, Aligned
<1>10. ASSUME NEW S, NEW parts \in Seq(Seq(S)), NEW m, Fills(parts, m)
       PROVE  Len(Concatenated(parts)) = CeilDiv(CodeCount, m)
  <2> DEFINE o == Offsets(parts)[b]
  <2>1. o \in Nat /\ m * o = Full * b
    BY <1>2, <1>10, FilledOffsets
  <2>2. Len(parts) = N /\ Len(parts[b + 1]) = CeilDiv(n, m) /\ m \in Int /\ m >= 1
    BY <1>2, <1>10 DEF Fills
  <2>3. Len(Concatenated(parts)) = Offsets(parts)[N]
    BY <2>2, PlaceInPart
  <2>4. Offsets(parts)[N] = Offsets(parts)[N - 1] + Len(parts[N])
    <3>1. N \in 1 .. Len(parts)
      BY <1>1, <2>2
    <3> QED
      BY <3>1, OffsetsFacts
  <2>5. Len(Concatenated(parts)) = o + CeilDiv(n, m)
    BY <1>2, <2>2, <2>3, <2>4
  <2> HIDE DEF o, n
  <2>6. CeilDiv(m * o + n, m) = o + CeilDiv(n, m)
    <3>1. m \in Int /\ m >= 1 /\ o \in Int /\ n \in Int /\ n >= 1
      BY <1>5, <2>1, <2>2
    <3> QED
      BY ONLY <3>1, CeilDivShift
  <2> QED
    BY <1>4, <2>1, <2>5, <2>6
<1>11. Len(Concatenated(WordsIn(cache))) = CeilDiv(CodeCount, p)
  BY <1>8, <1>10, PartsFacts
<1>12. Len(Concatenated(ScalesIn(cache))) = CeilDiv(CodeCount, g)
  BY <1>9, <1>10, PartsFacts
<1> QED
  BY <1>3, <1>6, <1>8, <1>9, <1>11, <1>12 DEF LaidOut

FlatRead(route) == Reconstructed(cache.packed, cache.scales, CodeCount, route)

LEMMA FlatReadFacts ==
    ASSUME LaidOut(cache), Aligned, NEW route
    PROVE  /\ FlatRead(route) # Raised
           /\ \A b \in 0 .. cache.numBlocks - 1 : \A i \in 1 .. Len(BlockCodes(b)) :
                 Full * b + i \in 1 .. CodeCount => FlatRead(route)[Full * b + i] = ReadOf(b, i)
<1> DEFINE p == cache.perWord
           g == cache.group
           w == cache.packed
           s == cache.scales
           n == CodeCount
           F == FlatRead(route)
<1>1. /\ n \in Nat /\ n >= 1 /\ Fills(WordsIn(cache), p) /\ Fills(ScalesIn(cache), g)
      /\ Len(w) = CeilDiv(n, p) /\ Len(s) = CeilDiv(n, g)
  BY BuffersFill
<1>2. p \in Int /\ p >= 1 /\ g \in Int /\ g >= 1
  BY DEF LaidOut
<1> HIDE DEF n
<1>3. FitsReference(w, s, n) /\ FitsKernel(w, s, n)
  <2>1. CeilDiv(n, p) \in Int
    <3> HIDE DEF p
    <3> QED
      BY <1>1, <1>2, CeilDivFacts
  <2>2. CeilDiv(n, g) \in Int
    <3> HIDE DEF g
    <3> QED
      BY <1>1, <1>2, CeilDivFacts
  <2> HIDE DEF w, s
  <2> QED
    BY <1>1, <2>1, <2>2 DEF FitsReference, FitsKernel
<1>4. F = [i \in 1 .. n |-> [code |-> Unpacked(w, n, p)[i], scale |-> s[CeilDiv(i, g)]]]
  <2>1. F = Reconstructed(w, s, n, route)
    BY DEF FlatRead, n
  <2> HIDE DEF w, s, F
  <2> QED
    BY <1>3, <2>1 DEF Reconstructed
<1>5. F # Raised
  <2>1. 1 \in DOMAIN F
    <3> HIDE DEF F
    <3> QED
      BY <1>1, <1>4
  <2>2. DOMAIN Raised = {}
    BY DEF Raised
  <2> QED
    BY <2>1, <2>2
<1>6. ASSUME NEW b \in 0 .. cache.numBlocks - 1, NEW i \in 1 .. Len(BlockCodes(b)),
             Full * b + i \in 1 .. n
      PROVE  F[Full * b + i] = ReadOf(b, i)
  <2> DEFINE I == Full * b + i
             B == BlockCodes(b)
  <2>0. /\ B \in Seq(Codes) /\ Len(B) >= 1 /\ i \in 1 .. Len(B) /\ b + 1 \in 1 .. cache.numBlocks
        /\ WordsIn(cache)[b + 1] = Packed(B, p) /\ ScalesIn(cache)[b + 1] = Scales(B, g)
    BY BlockCodesFacts, PartsFacts
  <2>1. /\ w[CeilDiv(I, p)] = WordsIn(cache)[b + 1][CeilDiv(i, p)]
        /\ (I - 1) % p = (i - 1) % p
    <3>1. Concatenated(WordsIn(cache)) = w /\ WordsIn(cache) \in Seq(Seq(Words))
      BY PartsFacts DEF LaidOut
    <3> DEFINE parts == WordsIn(cache)
    <3>2. Fills(parts, p) /\ parts \in Seq(Seq(Words)) /\ w = Concatenated(parts)
      BY <1>1, <3>1
    <3> HIDE DEF w, p, parts
    <3>3. /\ Concatenated(parts)[CeilDiv(Full * b + i, p)] = parts[b + 1][CeilDiv(i, p)]
          /\ (Full * b + i - 1) % p = (i - 1) % p
      BY <3>2, FilledAt
    <3>4. /\ Concatenated(parts)[CeilDiv(I, p)] = parts[b + 1][CeilDiv(i, p)]
          /\ (I - 1) % p = (i - 1) % p
      <4> DEFINE x == Full * b
      <4>1. x \in Int /\ i \in Int
        <5>1. Full \in Int /\ b \in Int
          BY FullFacts, NumBlocksFacts DEF LaidOut
        <5>2. Len(B) \in Int
          BY <2>0, LenProperties
        <5> QED
          BY <2>0, <5>1, <5>2
      <4>2. (x + i) - 1 = x + (i - 1)
        <5> HIDE DEF x
        <5> QED
          BY <4>1
      <4>3. /\ Concatenated(parts)[CeilDiv(x + i, p)] = parts[b + 1][CeilDiv(i, p)]
            /\ (x + (i - 1)) % p = (i - 1) % p
        BY <3>3
      <4> HIDE DEF x
      <4> QED
        BY <4>2, <4>3 DEF I, x
    <3> HIDE DEF I
    <3> QED
      BY <3>2, <3>4 DEF parts
  <2>2. s[CeilDiv(I, g)] = ScalesIn(cache)[b + 1][CeilDiv(i, g)]
    <3>1. Concatenated(ScalesIn(cache)) = s /\ ScalesIn(cache) \in Seq(Seq(SUBSET Codes))
      BY PartsFacts DEF LaidOut
    <3> HIDE DEF s, g
    <3> QED
      BY <1>1, <3>1, FilledAt
  <2> HIDE DEF I, w, s, p, g, F, B
  <2>3. Packed(B, p)[CeilDiv(i, p)][((i - 1) % p) + 1] = B[i]
    BY <1>2, <2>0, UnpackedFacts
  <2>4. I \in 1 .. n
    BY <1>6 DEF I
  <2>5. Unpacked(w, n, p)[I] = B[i]
    <3>1. Unpacked(w, n, p)[I] = w[CeilDiv(I, p)][((I - 1) % p) + 1]
      BY <2>4 DEF Unpacked
    <3> QED
      BY <2>0, <2>1, <2>3, <3>1
  <2>6. F[I] = [code |-> B[i], scale |-> Scales(B, g)[CeilDiv(i, g)]]
    BY <1>4, <2>0, <2>2, <2>4, <2>5
  <2> QED
    BY <2>6 DEF I, ReadOf, B, g
<1> QED
  BY <1>5, <1>6 DEF n

(* The places of a tensor are those of its elements in row-major order.       *)
LEMMA ElementsArePlaces ==
    ASSUME LaidOut(cache)
    PROVE  /\ ToSet(Elements(cache.shape, 0, cache.shape.tokens)) = Places(cache.shape.tokens)
           /\ \A e \in Places(cache.shape.tokens) : FlatIndex(cache.shape, e) + 1 \in 1 .. CodeCount
<1> DEFINE H == cache.shape.heads
           T == cache.shape.tokens
           D == cache.shape.dim
           shape == cache.shape
           E == Elements(shape, 0, T)
           m == T * D
           n == CodeCount
<1>1. /\ H \in Int /\ H >= 1 /\ T \in Int /\ T >= 1 /\ D \in Int /\ D >= 1
      /\ shape \in [heads : Nat \ {0}, tokens : Nat \ {0}, dim : Nat \ {0}]
  BY DEF LaidOut, Tensors
<1>2. m \in Int /\ m >= 1 /\ n = m * H /\ n \in Int
  <2>1. n = H * T * D
    BY DEF CodeCount
  <2> HIDE DEF H, T, D, n
  <2>2. T * D \in Int /\ T * D >= 1
    BY <1>1
  <2>3. H * T * D = (T * D) * H
    BY <1>1
  <2>4. (T * D) * H \in Int
    BY <1>1, <2>2
  <2> QED
    BY <2>1, <2>2, <2>3, <2>4
<1>3. E = [i \in 1 .. n |-> Element(shape, 0, T, i - 1)]
  BY DEF Elements, CodeCount
<1>4. ASSUME NEW i \in 1 .. n
      PROVE  Element(shape, 0, T, i - 1) \in Places(T)
  <2> DEFINE j == i - 1
             h == j \div m
             r == j % m
             k == r \div D
             d == j % D
             z == r % D
  <2>1. j \in Int /\ 0 <= j /\ j < m * H
    <3> HIDE DEF m, n
    <3>1. i \in Int /\ 1 <= i /\ i <= n
      BY <1>2
    <3> QED
      BY <1>2, <3>1
  <2> HIDE DEF j, H, T, D, shape
  <2>2. h \in Int /\ r \in Int /\ j = m * h + r /\ 0 <= r /\ r < m
    <3> HIDE DEF m
    <3> QED
      BY <1>2, <2>1, Euclid
  <2>3. d \in Int /\ 0 <= d /\ d < D
    BY <1>1, <2>1, Euclid
  <2> HIDE DEF h, r, d
  <2>4. k \in Int /\ z \in Int /\ r = D * k + z /\ 0 <= z /\ z < D
    BY <1>1, <2>2, Euclid
  <2> HIDE DEF k, z
  <2>5. 0 <= h /\ h <= H - 1
    <3> HIDE DEF m
    <3>1. h >= 0
      <4>1. SUFFICES ASSUME h <= 0 - 1 PROVE FALSE
        BY <2>2
      <4>2. m * h <= m * (0 - 1)
        BY <1>2, <2>2, <4>1
      <4>3. m * (0 - 1) = 0 - m
        BY <1>2
      <4> DEFINE x == m * h
      <4>4. x \in Int /\ x <= 0 - m /\ j = x + r
        BY <1>2, <2>2, <4>2, <4>3
      <4> HIDE DEF x
      <4> QED
        BY <1>2, <2>1, <2>2, <4>4
    <3>2. h <= H - 1
      <4>1. SUFFICES ASSUME h >= H PROVE FALSE
        BY <1>1, <2>2
      <4>2. m * h >= m * H
        BY <1>1, <1>2, <2>2, <4>1
      <4> DEFINE x == m * h
                 y == m * H
      <4>3. x \in Int /\ y \in Int /\ x >= y /\ j = x + r /\ j < y
        BY <1>1, <1>2, <2>1, <2>2, <4>2
      <4> HIDE DEF x, y
      <4> QED
        BY <2>1, <2>2, <4>3
    <3> QED
      BY <3>1, <3>2
  <2>6. 0 <= k /\ k <= T - 1
    <3>0. r < D * T
      <4>1. m = D * T
        BY <1>1
      <4> HIDE DEF m
      <4> QED
        BY <2>2, <4>1
    <3>1. k >= 0
      <4>1. SUFFICES ASSUME k <= 0 - 1 PROVE FALSE
        BY <2>4
      <4>2. D * k <= D * (0 - 1)
        BY <1>1, <2>4, <4>1
      <4>3. D * (0 - 1) = 0 - D
        BY <1>1
      <4> DEFINE x == D * k
      <4>4. x \in Int /\ x <= 0 - D /\ r = x + z
        BY <1>1, <2>4, <4>2, <4>3
      <4> HIDE DEF x
      <4> QED
        BY <1>1, <2>2, <2>4, <4>4
    <3>2. k <= T - 1
      <4>1. SUFFICES ASSUME k >= T PROVE FALSE
        BY <1>1, <2>4
      <4>2. D * k >= D * T
        BY <1>1, <2>4, <4>1
      <4> DEFINE x == D * k
                 y == D * T
      <4>3. x \in Int /\ y \in Int /\ x >= y /\ r = x + z /\ r < y
        BY <1>1, <2>4, <3>0, <4>2
      <4> HIDE DEF x, y
      <4> QED
        BY <2>2, <2>4, <4>3
    <3> QED
      BY <3>1, <3>2
  <2>7. Element(shape, 0, T, j) = [head |-> h, token |-> 0 + k, dim |-> d]
    <3>1. Element(shape, 0, T, j) =
             [head |-> j \div (T * shape.dim), token |-> 0 + ((j % (T * shape.dim)) \div shape.dim),
              dim |-> j % shape.dim]
      BY DEF Element
    <3>2. T * shape.dim = m /\ shape.dim = D
      BY DEF D, shape
    <3> QED
      BY <3>1, <3>2 DEF h, r, k, d
  <2>8. 0 + k = k
    BY <2>4
  <2>9. h \in 0 .. H - 1 /\ k \in 0 .. T - 1 /\ d \in 0 .. D - 1
    BY <1>1, <2>2, <2>3, <2>4, <2>5, <2>6
  <2> QED
    BY <2>7, <2>8, <2>9 DEF Places, j, H, D
<1>5. ASSUME NEW e \in Places(T)
      PROVE  FlatIndex(shape, e) + 1 \in 1 .. n /\ E[FlatIndex(shape, e) + 1] = e
  <2> DEFINE h == e.head
             k == e.token
             d == e.dim
             x == (h * T + k) * D + d
  <2>1. /\ h \in 0 .. H - 1 /\ k \in 0 .. T - 1 /\ d \in 0 .. D - 1
        /\ e = [head |-> h, token |-> k, dim |-> d]
    BY DEF Places
  <2>2. FlatIndex(shape, e) = x
    BY DEF FlatIndex
  <2>3. Counted(shape, 0, T, h, k, d)
    <3> HIDE DEF h, k, d, T
    <3> QED
      BY <1>1, <2>1 DEF Counted
  <2>4. Found(shape, 0, T, h, k, d)
    <3> HIDE DEF h, k, d, T, shape
    <3> QED
      BY <2>3, ElementAt
  <2>5. x + 1 \in 1 .. n /\ Element(shape, 0, T, x) = [head |-> h, token |-> 0 + k, dim |-> d]
    <3>1. n = H * T * D
      BY DEF CodeCount
    <3> HIDE DEF h, k, d, T, n
    <3> QED
      BY <2>4, <3>1 DEF Found
  <2>6. k \in Int /\ 0 + k = k
    <3> HIDE DEF k, T
    <3> QED
      BY <1>1, <2>1
  <2>7. x \in Int /\ x + 1 - 1 = x
    <3>1. h \in Int /\ d \in Int
      <4> HIDE DEF h, d, H, D
      <4> QED
        BY <1>1, <2>1
    <3> HIDE DEF h, k, d, T, D
    <3> QED
      BY <1>1, <2>6, <3>1
  <2> HIDE DEF x, E, n, h, k, d
  <2>8. E[x + 1] = e
    <3> DEFINE y == x + 1
    <3>1. E[y] = Element(shape, 0, T, y - 1)
      <4>1. y \in 1 .. n
        BY <2>5
      <4> HIDE DEF y, T
      <4> QED
        BY <1>3, <4>1
    <3> QED
      BY <2>1, <2>5, <2>6, <2>7, <3>1
  <2> QED
    BY <2>2, <2>5, <2>8
<1> HIDE DEF E, n, T
<1>6. ToSet(E) = Places(T)
  <2>1. ToSet(E) = {E[i] : i \in 1 .. n}
    BY <1>3 DEF ToSet
  <2>2. \A i \in 1 .. n : E[i] \in Places(T)
    BY <1>3, <1>4
  <2> QED
    BY <1>5, <2>1, <2>2
<1> QED
  BY <1>5, <1>6 DEF E, T, n

LEMMA SketchFacts ==
    ASSUME LaidOut(cache), Aligned, NEW route
    PROVE  /\ SketchBase(route) # Raised
           /\ RightCodes(SketchBase(route), AllBlocks) /\ RightSigns(SketchBase(route), AllBlocks)
<1> DEFINE F == FlatRead(route)
           R == SketchBase(route)
           shape == cache.shape
           T == shape.tokens
           S == Places(T)
<1>1. F # Raised
  BY FlatReadFacts
<1>2. ToSet(Elements(shape, 0, T)) = S /\ \A e \in S : FlatIndex(shape, e) + 1 \in 1 .. CodeCount
  BY ElementsArePlaces
<1>3. /\ Selection(AllBlocks) /\ IsPrefix0(AllBlocks) /\ Len(TokensOf(AllBlocks)) = T
      /\ T \in Nat /\ T >= 1
  BY AllBlocksFacts, TokenSpotsFacts
<1> HIDE DEF F
<1>4. R = [e \in S |-> [code |-> F[FlatIndex(shape, e) + 1].code,
                        scale |-> F[FlatIndex(shape, e) + 1].scale,
                        sign |-> IF cache.signs THEN FlatIndex(shape, e) ELSE None]]
  <2>1. F = Reconstructed(cache.packed, cache.scales, shape.heads * shape.tokens * shape.dim, route)
    BY DEF F, FlatRead, CodeCount
  <2> QED
    BY <1>1, <1>2, <2>1 DEF SketchBase, Signed
<1> HIDE DEF R
<1>5. ASSUME NEW e \in S
      PROVE  RightCode(R[e], AllBlocks, e)
  <2>1. PICK b \in 0 .. cache.numBlocks - 1 : \E i \in 1 .. Len(BlockCodes(b)) : PlacedAt(e, b, i)
    BY BuffersFill, PlaceOf
  <2>2. PICK i \in 1 .. Len(BlockCodes(b)) : PlacedAt(e, b, i)
    BY <2>1
  <2>3. F[FlatIndex(shape, e) + 1] = ReadOf(b, i)
    BY <1>2, <2>2, FlatReadFacts DEF PlacedAt, F
  <2>4. ReadOf(b, i).code = e
    BY <2>2 DEF ReadOf, PlacedAt
  <2>5. ReadOf(b, i).code \in ReadOf(b, i).scale /\ OneGroup(ReadOf(b, i).scale)
    BY ReadOfFacts
  <2>6. R[e].code = ReadOf(b, i).code /\ R[e].scale = ReadOf(b, i).scale
    BY <1>4, <2>3
  <2>7. Home(AllBlocks, e) = e
    BY <1>3, HomeOfPrefix
  <2> QED
    BY <2>4, <2>5, <2>6, <2>7 DEF RightCode
<1>6. RightCodes(R, AllBlocks)
  BY <1>3, <1>4, <1>5 DEF RightCodes
<1>7. RightSigns(R, AllBlocks)
  <2>1. \A e \in S : Home(AllBlocks, e) = e
    BY <1>3, HomeOfPrefix
  <2>2. DOMAIN R = S
    BY <1>4
  <2>3. \A e \in S : R[e].sign = IF cache.signs THEN FlatIndex(shape, e) ELSE None
    BY <1>4
  <2> HIDE DEF S
  <2> QED
    BY <2>1, <2>2, <2>3 DEF RightSigns
<1>8. R # Raised
  BY <1>3, <1>4, PlacesFacts
<1> QED
  BY <1>6, <1>7, <1>8 DEF R
-----------------------------------------------------------------------------
(* What a read of a tensor gives, and when it is right.                      *)
Right(r) ==
    /\ r.result # Raised /\ RightCodes(r.result, r.blks)
    /\ \/ r.route = "metal" /\ r.call = "retrieve_blocks" /\ ~IsPrefix0(r.blks)
       \/ RightSigns(r.result, r.blks)

CodecInv ==
    /\ cache = None => read = None
    /\ cache # None => LaidOut(cache)
    /\ ReadsExact

LEMMA SameCache ==
    ASSUME cache' = cache
    PROVE  /\ \A blks : TokensOf(blks)' = TokensOf(blks)
           /\ \A n : Places(n)' = Places(n)
           /\ \A codes : OneGroup(codes)' <=> OneGroup(codes)
<1>1. \A b : BlockTokens(b)' = BlockTokens(b)
  BY DEF BlockTokens
<1>2. ASSUME NEW blks
      PROVE  TokensOf(blks)' = TokensOf(blks)
  BY <1>1 DEF TokensOf
<1>3. \A n : Places(n)' = Places(n)
  BY DEF Places
<1>4. \A codes : OneGroup(codes)' <=> OneGroup(codes)
  BY DEF OneGroup
<1> QED
  BY <1>2, <1>3, <1>4

LEMMA AlignedUnlessMisread ==
    ASSUME LaidOut(cache), cache' = cache, read'.call = "sketch", ~Misreads'
    PROVE  Aligned
<1>1. cache.numBlocks \in Int /\ cache.numBlocks >= 1 /\ cache.shape.heads \in Int /\ cache.shape.heads >= 1
  BY NumBlocksFacts DEF LaidOut, Tensors
<1> QED
  BY <1>1 DEF Misreads, Aligned

LEMMA RightIsExact ==
    ASSUME cache' = cache, NEW r, read' = r, ~Misreads' => Right(r)
    PROVE  ReadsExact'
<1> SUFFICES ASSUME ~Misreads'
             PROVE  /\ r.result # Raised
                    /\ DOMAIN r.result = Places(Len(TokensOf(r.blks)))'
                    /\ \A e \in DOMAIN r.result :
                        /\ r.result[e].code = Belongs(e)'
                        /\ Belongs(e)' \in r.result[e].scale /\ OneGroup(r.result[e].scale)'
                        /\ MisSigns' \/ RightSign(e)'
  BY SameCache DEF ReadsExact
<1>1. Right(r)
  OBVIOUS
<1>2. Places(Len(TokensOf(r.blks)))' = Places(Len(TokensOf(r.blks)))
  BY SameCache
<1>3. \A e : Belongs(e)' = Home(r.blks, e)
  BY SameCache DEF Belongs, Home
<1>4. MisSigns' <=> r.route = "metal" /\ r.call = "retrieve_blocks" /\ ~IsPrefix0(r.blks)
  BY DEF MisSigns
<1>5. ASSUME NEW e \in DOMAIN r.result, RightSigns(r.result, r.blks)
      PROVE  RightSign(e)'
  <2>1. r.result[e].sign = IF cache.signs THEN FlatIndex(cache.shape, Home(r.blks, e)) ELSE None
    BY <1>5 DEF RightSigns
  <2> QED
    BY <1>3, <2>1 DEF RightSign
<1>6. ASSUME NEW e \in DOMAIN r.result
      PROVE  /\ r.result[e].code = Belongs(e)'
             /\ Belongs(e)' \in r.result[e].scale /\ OneGroup(r.result[e].scale)'
  <2>1. RightCode(r.result[e], r.blks, e)
    BY <1>1 DEF Right, RightCodes
  <2>2. OneGroup(r.result[e].scale)' <=> OneGroup(r.result[e].scale)
    BY SameCache
  <2> QED
    BY <1>3, <2>1, <2>2 DEF RightCode
<1> QED
  BY <1>1, <1>2, <1>4, <1>5, <1>6 DEF Right, RightCodes

LEMMA CodecInitial == CodecInit => CodecInv
BY DEF CodecInit, CodecInv, ReadsExact

LEMMA StoreStep ==
    ASSUME CodecInv, NEW shape \in Shapes, NEW blockSize \in BlockSizes, NEW perWord \in CodesPerWord,
           NEW group \in GroupSizes, NEW signs \in BOOLEAN, Store(shape, blockSize, perWord, group, signs)
    PROVE  CodecInv'
<1>1. read' = None /\ cache' = Stored(shape, blockSize, perWord, group, signs)
  BY DEF Store, CodecInv
<1>2. LaidOut(cache')
  <2>1. shape \in Tensors /\ blockSize \in Nat \ {0} /\ perWord \in Nat \ {0} /\ group \in Nat \ {0}
    BY CodecAssumption DEF Tensors
  <2>2. LaidOut(Stored(shape, blockSize, perWord, group, signs))
    BY <2>1, StoredIsLaidOut
  <2> QED
    BY <1>1, <2>2
<1> QED
  BY <1>1, <1>2 DEF CodecInv, ReadsExact

LEMMA ReadingStep ==
    ASSUME CodecInv, cache # None, cache' = cache, NEW r, read' = r, ~Misreads' => Right(r)
    PROVE  CodecInv'
<1>1. ReadsExact'
  BY RightIsExact
<1> QED
  BY <1>1 DEF CodecInv

LEMMA RetrieveStep ==
    ASSUME CodecInv, Retrieve
    PROVE  CodecInv'
<1>1. PICK route \in Routes :
        read' = [call |-> "retrieve", route |-> route, blks |-> AllBlocks, result |-> Retrieved(route)]
  BY DEF Retrieve
<1> DEFINE r == [call |-> "retrieve", route |-> route, blks |-> AllBlocks, result |-> Retrieved(route)]
<1>2. cache # None /\ cache' = cache /\ LaidOut(cache)
  BY DEF Retrieve, CodecInv
<1>3. Right(r)
  BY <1>2, RetrievedFacts DEF Right
<1> HIDE DEF r
<1> QED
  BY <1>1, <1>2, <1>3, ReadingStep DEF r

LEMMA AscendingIsSelection ==
    ASSUME LaidOut(cache), NEW blocks, blocks # {}, blocks \subseteq 0 .. cache.numBlocks - 1,
           NEW blks \in Ascending(blocks)
    PROVE  Selection(blks)
<1> DEFINE n == Cardinality(blocks)
<1>1. cache.numBlocks \in Int
  BY NumBlocksFacts DEF LaidOut
<1>2. n \in Nat /\ n # 0
  <2>1. IsFiniteSet(0 .. cache.numBlocks - 1)
    BY <1>1, FS_Interval
  <2>2. IsFiniteSet(blocks)
    BY <2>1, FS_Subset
  <2> QED
    BY <2>2, FS_CardinalityType, FS_EmptySet
<1>3. blks \in [1 .. n -> 0 .. cache.numBlocks - 1]
  BY DEF Ascending
<1> HIDE DEF n
<1>4. blks \in Seq(0 .. cache.numBlocks - 1) /\ Len(blks) = n
  BY <1>2, <1>3, FunctionIsSeq
<1> QED
  BY <1>2, <1>4 DEF Selection

LEMMA RetrieveBlocksStep ==
    ASSUME CodecInv, NEW blocks, RetrieveBlocks(blocks)
    PROVE  CodecInv'
<1>1. PICK route \in Routes, blks \in Ascending(blocks) :
        read' = [call |-> "retrieve_blocks", route |-> route, blks |-> blks,
                 result |-> RetrievedBlocks(blks, route)]
  BY DEF RetrieveBlocks
<1> DEFINE r == [call |-> "retrieve_blocks", route |-> route, blks |-> blks,
                 result |-> RetrievedBlocks(blks, route)]
<1>2. cache # None /\ cache' = cache /\ LaidOut(cache)
  BY DEF RetrieveBlocks, CodecInv
<1>3. Selection(blks)
  BY <1>2, AscendingIsSelection DEF RetrieveBlocks
<1>4. Right(r)
  BY <1>2, <1>3, RetrievedBlocksFacts DEF Right
<1> HIDE DEF r
<1> QED
  BY <1>1, <1>2, <1>4, ReadingStep DEF r

LEMMA SketchStep ==
    ASSUME CodecInv, Sketch
    PROVE  CodecInv'
<1>1. PICK route \in Routes :
        read' = [call |-> "sketch", route |-> route, blks |-> AllBlocks, result |-> SketchBase(route)]
  BY DEF Sketch
<1> DEFINE r == [call |-> "sketch", route |-> route, blks |-> AllBlocks, result |-> SketchBase(route)]
<1>2. cache # None /\ cache' = cache /\ LaidOut(cache)
  BY DEF Sketch, CodecInv
<1>3. ASSUME ~Misreads'
      PROVE  Right(r)
  <2>1. Aligned
    BY <1>1, <1>2, <1>3, AlignedUnlessMisread
  <2> QED
    BY <1>2, <2>1, SketchFacts DEF Right
<1> HIDE DEF r
<1> QED
  BY <1>1, <1>2, <1>3, ReadingStep DEF r

LEMMA CodecUnchanged ==
    ASSUME CodecInv, UNCHANGED codecVars
    PROVE  CodecInv'
<1>1. cache' = cache /\ read' = read
  BY DEF codecVars
<1>2. ReadsExact' <=> ReadsExact
  <2>1. Misreads' <=> Misreads
    BY <1>1 DEF Misreads
  <2>2. Places(Len(TokensOf(read.blks)))' = Places(Len(TokensOf(read.blks)))
    BY <1>1, SameCache
  <2>3. \A e : Belongs(e)' = Belongs(e)
    BY <1>1, SameCache DEF Belongs
  <2>4. \A codes : OneGroup(codes)' <=> OneGroup(codes)
    BY <1>1, SameCache
  <2>5. MisSigns' <=> MisSigns
    BY <1>1 DEF MisSigns
  <2>6. \A e : RightSign(e)' <=> RightSign(e)
    BY <1>1, <2>3 DEF RightSign
  <2>7. \A e : OneGroup(read.result[e].scale)' <=> OneGroup(read.result[e].scale)
    BY <1>1, SameCache
  <2> QED
    BY <1>1, <2>1, <2>2, <2>3, <2>5, <2>6, <2>7 DEF ReadsExact
<1> QED
  BY <1>1, <1>2 DEF CodecInv

LEMMA CodecStep ==
    ASSUME CodecInv, [Next]_vars
    PROVE  CodecInv'
<1>1. ASSUME CodecNext
      PROVE  CodecInv'
  BY <1>1, StoreStep, RetrieveStep, RetrieveBlocksStep, SketchStep DEF CodecNext
<1>2. CASE Next
  BY <1>1, <1>2, CodecUnchanged DEF Next
<1>3. CASE UNCHANGED vars
  BY <1>3, CodecUnchanged DEF vars
<1> QED
  BY <1>2, <1>3

(* What a read returns is, at every place, the code of the element that       *)
(* belongs there with the scale of its group and the index of its sign: for   *)
(* every shape, block size, packing, group and selection, but for the two     *)
(* cases MisSigns and Misreads.                                              *)
THEOREM ReadsAreExact == Spec => []ReadsExact
<1>1. Init => CodecInv
  BY CodecInitial DEF Init
<1>2. CodecInv /\ [Next]_vars => CodecInv'
  BY CodecStep
<1>3. CodecInv => ReadsExact
  BY DEF CodecInv
<1> QED
  BY <1>1, <1>2, <1>3, PTL DEF Spec
==============================================================================
