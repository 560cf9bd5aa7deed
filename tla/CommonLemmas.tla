----------------------------- MODULE CommonLemmas -----------------------------
(***************************************************************************)
(* Facts the proofs of several components need: sums over finite sets, the   *)
(* states of a bounded loop, sequences joined one after the other.           *)
(*                                                                         *)
(* The community modules define a sum by a recursive function, which a proof *)
(* can use only once it is known to satisfy its equation.  An induction over *)
(* the subsets of a finite set, or over numbers, takes here the form of a    *)
(* smallest counterexample: the induction theorems of the library take the   *)
(* formula as a parameter.                                                   *)
(***************************************************************************)
EXTENDS Integers, SequencesExt, FiniteSetsExt, FiniteSetTheorems, SequenceTheorems,
        WellFoundedInduction, TLAPS

(* The sum of the weights of the elements of a set. *)
Total(w, S) == MapThenSumSet(LAMBDA i : w[i], S)

Some(S) == CHOOSE x \in S : TRUE

\* The equation of the recursive function under the sum.
Adds(g, w, U) ==
    g = [S \in SUBSET U |-> IF S = {} THEN 0 ELSE w[Some(S)] + g[S \ {Some(S)}]]

LEMMA TotalAsChoice ==
    ASSUME NEW w, NEW S
    PROVE  Total(w, S) = (CHOOSE g : Adds(g, w, S))[S]
BY DEF Total, MapThenSumSet, MapThenFoldSet, Adds, Some

(* Among sets of subsets of a finite set there is one without a proper       *)
(* subset among them.                                                       *)
LEMMA SmallestSet ==
    ASSUME NEW S, IsFiniteSet(S), NEW T, T \subseteq SUBSET S, T # {}
    PROVE  \E U \in T : \A V \in SUBSET U : V # U => V \notin T
<1>1. IsWellFoundedOn(StrictSubsetOrdering(S), SUBSET S)
  BY FS_StrictSubsetOrderingWellFounded, FS_FiniteSubsetsOfFinite
<1>2. \E U \in T : \A V \in T : ~(<<V, U>> \in StrictSubsetOrdering(S))
  BY <1>1, WFMin
<1> QED
  BY <1>2 DEF StrictSubsetOrdering

(* Two solutions agree where both are defined. *)
LEMMA AddsAgree ==
    ASSUME NEW w, NEW U, NEW V, NEW f, NEW g, Adds(f, w, U), Adds(g, w, V),
           NEW S, IsFiniteSet(S), S \subseteq U, S \subseteq V
    PROVE  f[S] = g[S]
<1> DEFINE T == {R \in SUBSET S : f[R] # g[R]}
<1>1. SUFFICES ASSUME T # {} PROVE FALSE
  OBVIOUS
<1>2. PICK R \in T : \A Q \in SUBSET R : Q # R => Q \notin T
  <2> HIDE DEF T
  <2>1. T \subseteq SUBSET S
    BY DEF T
  <2> QED
    BY <1>1, <2>1, SmallestSet
<1>3. R # {}
  BY <1>2 DEF Adds
<1>4. Some(R) \in R
  BY <1>3 DEF Some
<1>5. f[R \ {Some(R)}] = g[R \ {Some(R)}]
  BY <1>2, <1>4
<1>6. /\ f[R] = w[Some(R)] + f[R \ {Some(R)}]
      /\ g[R] = w[Some(R)] + g[R \ {Some(R)}]
  BY <1>2, <1>3 DEF Adds
<1> QED
  BY <1>2, <1>5, <1>6

(* A solution over every proper subset gives one over the whole set. *)
LEMMA AddsExtend ==
    ASSUME NEW w, NEW U, IsFiniteSet(U),
           \A V \in SUBSET U : V # U => \E g : Adds(g, w, V)
    PROVE  \E g : Adds(g, w, U)
<1> DEFINE G(V) == CHOOSE g : Adds(g, w, V)
           rest(S) == S \ {Some(S)}
           h == [S \in SUBSET U |-> IF S = {} THEN 0 ELSE w[Some(S)] + G(rest(S))[rest(S)]]
<1>1. ASSUME NEW V \in SUBSET U, V # U
      PROVE  Adds(G(V), w, V)
  BY <1>1
<1>2. ASSUME NEW S \in SUBSET U, S # {}
      PROVE  rest(S) \in SUBSET U /\ rest(S) # U /\ rest(S) \in SUBSET S
  BY <1>2 DEF Some
<1>3. ASSUME NEW V \in SUBSET U, V # U
      PROVE  h[V] = G(V)[V]
  <2>1. CASE V = {}
    BY <2>1, <1>1, <1>3 DEF Adds
  <2>2. CASE V # {}
    <3>1. G(V)[V] = w[Some(V)] + G(V)[rest(V)]
      <4> HIDE DEF G
      <4> QED
        BY <1>1, <1>3, <2>2 DEF Adds
    <3>2. IsFiniteSet(rest(V))
      BY FS_Subset, <1>2, <2>2
    <3>3. Adds(G(V), w, V) /\ Adds(G(rest(V)), w, rest(V))
      BY <1>1, <1>2, <1>3, <2>2
    <3>4. G(V)[rest(V)] = G(rest(V))[rest(V)]
      <4> HIDE DEF G, h
      <4> QED
        BY <3>2, <3>3, AddsAgree
    <3> QED
      BY <3>1, <3>4, <2>2
  <2> QED
    BY <2>1, <2>2
<1>4. ASSUME NEW S \in SUBSET U, S # {}
      PROVE  h[S] = w[Some(S)] + h[rest(S)]
  <2>1. h[rest(S)] = G(rest(S))[rest(S)]
    BY <1>2, <1>3, <1>4
  <2> QED
    BY <2>1, <1>4
<1>5. Adds(h, w, U)
  <2>1. h = [S \in SUBSET U |-> h[S]]
    OBVIOUS
  <2>2. h[{}] = 0
    OBVIOUS
  <2> HIDE DEF h
  <2>3. \A S \in SUBSET U : h[S] = IF S = {} THEN 0 ELSE w[Some(S)] + h[rest(S)]
    BY <1>4, <2>2
  <2> QED
    BY <2>1, <2>3 DEF Adds
<1> QED
  BY <1>5

LEMMA AddsExists ==
    ASSUME NEW w, NEW U, IsFiniteSet(U)
    PROVE  \E g : Adds(g, w, U)
<1> DEFINE T == {V \in SUBSET U : ~\E g : Adds(g, w, V)}
<1>1. SUFFICES ASSUME T # {} PROVE FALSE
  OBVIOUS
<1>2. PICK V \in T : \A Q \in SUBSET V : Q # V => Q \notin T
  <2> HIDE DEF T
  <2>1. T \subseteq SUBSET U
    BY DEF T
  <2> QED
    BY <1>1, <2>1, SmallestSet
<1>3. IsFiniteSet(V)
  BY FS_Subset
<1>4. \A Q \in SUBSET V : Q # V => \E g : Adds(g, w, Q)
  BY <1>2
<1> QED
  BY <1>2, <1>3, <1>4, AddsExtend

(* The sum meets its equation. *)
LEMMA TotalStep ==
    ASSUME NEW w, NEW S, IsFiniteSet(S)
    PROVE  Total(w, S) = IF S = {} THEN 0 ELSE w[Some(S)] + Total(w, S \ {Some(S)})
<1> DEFINE G(V) == CHOOSE g : Adds(g, w, V)
           R == S \ {Some(S)}
<1>1. IsFiniteSet(R)
  BY FS_Subset
<1>2. Adds(G(S), w, S) /\ Adds(G(R), w, R)
  BY <1>1, AddsExists
<1>3. Total(w, S) = G(S)[S] /\ Total(w, R) = G(R)[R]
  BY TotalAsChoice
<1>4. G(S)[R] = G(R)[R]
  <2> HIDE DEF G
  <2> QED
    BY <1>1, <1>2, AddsAgree
<1>5. G(S)[S] = IF S = {} THEN 0 ELSE w[Some(S)] + G(S)[R]
  <2> HIDE DEF G
  <2> QED
    BY <1>2 DEF Adds
<1> QED
  BY <1>3, <1>4, <1>5

LEMMA TotalOfNone == \A w : Total(w, {}) = 0
BY TotalStep, FS_EmptySet
-----------------------------------------------------------------------------
LEMMA TotalIsInt ==
    ASSUME NEW w, NEW S, IsFiniteSet(S), \A i \in S : w[i] \in Int
    PROVE  Total(w, S) \in Int
<1> DEFINE T == {R \in SUBSET S : Total(w, R) \notin Int}
<1>1. SUFFICES ASSUME T # {} PROVE FALSE
  OBVIOUS
<1>2. PICK R \in T : \A Q \in SUBSET R : Q # R => Q \notin T
  <2> HIDE DEF T
  <2>1. T \subseteq SUBSET S
    BY DEF T
  <2> QED
    BY <1>1, <2>1, SmallestSet
<1>3. R # {} /\ Some(R) \in R
  BY <1>2, TotalOfNone DEF Some
<1>4. Total(w, R \ {Some(R)}) \in Int
  BY <1>2, <1>3
<1>5. Total(w, R) = w[Some(R)] + Total(w, R \ {Some(R)})
  BY <1>3, TotalStep, FS_Subset
<1> QED
  BY <1>2, <1>3, <1>4, <1>5

(* A sum depends on the weights of its set alone. *)
LEMMA TotalSame ==
    ASSUME NEW v, NEW w, NEW S, IsFiniteSet(S), \A i \in S : v[i] = w[i]
    PROVE  Total(v, S) = Total(w, S)
<1> DEFINE T == {R \in SUBSET S : Total(v, R) # Total(w, R)}
<1>1. SUFFICES ASSUME T # {} PROVE FALSE
  OBVIOUS
<1>2. PICK R \in T : \A Q \in SUBSET R : Q # R => Q \notin T
  <2> HIDE DEF T
  <2>1. T \subseteq SUBSET S
    BY DEF T
  <2> QED
    BY <1>1, <2>1, SmallestSet
<1>3. R # {} /\ Some(R) \in R
  BY <1>2, TotalOfNone DEF Some
<1>4. Total(v, R \ {Some(R)}) = Total(w, R \ {Some(R)})
  BY <1>2, <1>3
<1>5. /\ Total(v, R) = v[Some(R)] + Total(v, R \ {Some(R)})
      /\ Total(w, R) = w[Some(R)] + Total(w, R \ {Some(R)})
  BY <1>3, TotalStep, FS_Subset
<1> QED
  BY <1>2, <1>3, <1>4, <1>5

(* Any element can be taken out first. *)
LEMMA TotalWithout ==
    ASSUME NEW w, NEW S, IsFiniteSet(S), \A i \in S : w[i] \in Int, NEW x \in S
    PROVE  Total(w, S) = w[x] + Total(w, S \ {x})
<1> DEFINE T == {R \in SUBSET S : \E z \in R : Total(w, R) # w[z] + Total(w, R \ {z})}
<1>1. SUFFICES ASSUME T # {} PROVE FALSE
  OBVIOUS
<1>2. PICK R \in T : \A Q \in SUBSET R : Q # R => Q \notin T
  <2> HIDE DEF T
  <2>1. T \subseteq SUBSET S
    BY DEF T
  <2> QED
    BY <1>1, <2>1, SmallestSet
<1>3. PICK z \in R : Total(w, R) # w[z] + Total(w, R \ {z})
  BY <1>2
<1> DEFINE y == Some(R)
<1>4. y \in R /\ Total(w, R) = w[y] + Total(w, R \ {y})
  BY <1>3, TotalStep, FS_Subset DEF Some
<1>5. y # z
  BY <1>3, <1>4
<1>6. ASSUME NEW a \in R, NEW b \in R \ {a}
      PROVE  Total(w, R \ {a}) = w[b] + Total(w, R \ {a, b})
  <2>1. (R \ {a}) \ {b} = R \ {a, b} /\ R \ {a} \in SUBSET S /\ R \ {a} # R
    OBVIOUS
  <2> QED
    BY <1>2, <2>1
<1>7. /\ Total(w, R \ {y}) = w[z] + Total(w, R \ {y, z})
      /\ Total(w, R \ {z}) = w[y] + Total(w, R \ {y, z})
  BY <1>4, <1>5, <1>6
<1>8. w[y] \in Int /\ w[z] \in Int /\ Total(w, R \ {y, z}) \in Int
  <2>1. IsFiniteSet(R \ {y, z})
    BY FS_Subset
  <2> QED
    BY <1>4, <2>1, TotalIsInt
<1> QED
  BY <1>3, <1>4, <1>7, <1>8

LEMMA TotalWith ==
    ASSUME NEW w, NEW S, IsFiniteSet(S), NEW x, x \notin S, \A i \in S \cup {x} : w[i] \in Int
    PROVE  Total(w, S \cup {x}) = w[x] + Total(w, S)
<1>1. (S \cup {x}) \ {x} = S /\ IsFiniteSet(S \cup {x})
  BY FS_AddElement
<1> QED
  BY <1>1, TotalWithout

(* Two sets apart add up. *)
LEMMA TotalApart ==
    ASSUME NEW w, NEW A, NEW B, IsFiniteSet(A), IsFiniteSet(B), A \cap B = {},
           \A i \in A \cup B : w[i] \in Int
    PROVE  Total(w, A \cup B) = Total(w, A) + Total(w, B)
<1> DEFINE T == {R \in SUBSET A : Total(w, R \cup B) # Total(w, R) + Total(w, B)}
<1>1. SUFFICES ASSUME T # {} PROVE FALSE
  OBVIOUS
<1>2. PICK R \in T : \A Q \in SUBSET R : Q # R => Q \notin T
  <2> HIDE DEF T
  <2>1. T \subseteq SUBSET A
    BY DEF T
  <2> QED
    BY <1>1, <2>1, SmallestSet
<1>3. Total(w, B) \in Int
  BY TotalIsInt
<1>4. PICK x : x \in R
  <2>1. R # {}
    <3>1. {} \cup B = B
      OBVIOUS
    <3>2. Total(w, {}) = 0
      BY TotalOfNone
    <3>3. Total(w, {} \cup B) = Total(w, {}) + Total(w, B)
      BY <1>3, <3>1, <3>2
    <3> QED
      BY <1>2, <3>3
  <2> QED
    BY <2>1
<1> DEFINE Q == R \ {x}
<1>5. IsFiniteSet(R) /\ IsFiniteSet(Q) /\ IsFiniteSet(R \cup B) /\ (R \cup B) \ {x} = Q \cup B
  BY <1>4, FS_Subset, FS_Union
<1>6. Total(w, Q \cup B) = Total(w, Q) + Total(w, B)
  BY <1>2, <1>4
<1>7. /\ Total(w, R \cup B) = w[x] + Total(w, Q \cup B)
      /\ Total(w, R) = w[x] + Total(w, Q)
  BY <1>4, <1>5, TotalWithout
<1>8. w[x] \in Int /\ Total(w, Q) \in Int
  BY <1>4, <1>5, TotalIsInt
<1> QED
  BY <1>2, <1>3, <1>6, <1>7, <1>8

LEMMA TotalIsNat ==
    ASSUME NEW w, NEW S, IsFiniteSet(S), \A i \in S : w[i] \in Nat
    PROVE  Total(w, S) \in Nat
<1> DEFINE T == {R \in SUBSET S : Total(w, R) \notin Nat}
<1>1. SUFFICES ASSUME T # {} PROVE FALSE
  OBVIOUS
<1>2. PICK R \in T : \A Q \in SUBSET R : Q # R => Q \notin T
  <2> HIDE DEF T
  <2>1. T \subseteq SUBSET S
    BY DEF T
  <2> QED
    BY <1>1, <2>1, SmallestSet
<1>3. R # {} /\ Some(R) \in R
  <2>1. Total(w, {}) \in Nat
    BY TotalOfNone
  <2>2. R # {}
    BY <1>2, <2>1
  <2> QED
    BY <2>2 DEF Some
<1>4. Total(w, R \ {Some(R)}) \in Nat
  BY <1>2, <1>3
<1>5. Total(w, R) = w[Some(R)] + Total(w, R \ {Some(R)})
  BY <1>3, TotalStep, FS_Subset
<1> QED
  BY <1>2, <1>3, <1>4, <1>5

(* A part of a set of weights that are not negative adds up to no more.     *)
LEMMA TotalOfPart ==
    ASSUME NEW w, NEW S, IsFiniteSet(S), \A i \in S : w[i] \in Nat, NEW R \in SUBSET S
    PROVE  Total(w, R) \in Nat /\ Total(w, R) <= Total(w, S)
<1>1. IsFiniteSet(R) /\ IsFiniteSet(S \ R) /\ R \cup (S \ R) = S
  BY FS_Subset
<1>2. Total(w, S) = Total(w, R) + Total(w, S \ R)
  BY <1>1, TotalApart
<1>3. Total(w, R) \in Nat /\ Total(w, S \ R) \in Nat
  BY <1>1, TotalIsNat
<1> QED
  BY <1>2, <1>3

(* A bound on every weight bounds the sum. *)
LEMMA TotalBounded ==
    ASSUME NEW w, NEW S, IsFiniteSet(S), NEW bound \in Int,
           \A i \in S : w[i] \in Int /\ w[i] <= bound
    PROVE  Total(w, S) <= bound * Cardinality(S)
<1> DEFINE T == {R \in SUBSET S : ~(Total(w, R) <= bound * Cardinality(R))}
<1>1. SUFFICES ASSUME T # {} PROVE FALSE
  OBVIOUS
<1>2. PICK R \in T : \A Q \in SUBSET R : Q # R => Q \notin T
  <2> HIDE DEF T
  <2>1. T \subseteq SUBSET S
    BY DEF T
  <2> QED
    BY <1>1, <2>1, SmallestSet
<1>3. R # {} /\ Some(R) \in R
  <2>1. Total(w, {}) <= bound * Cardinality({})
    BY TotalOfNone, FS_EmptySet
  <2>2. R # {}
    BY <1>2, <2>1
  <2> QED
    BY <2>2 DEF Some
<1> DEFINE Q == R \ {Some(R)}
<1>4. /\ IsFiniteSet(R) /\ IsFiniteSet(Q)
      /\ Cardinality(Q) \in Nat /\ Cardinality(R) = Cardinality(Q) + 1
  <2>1. IsFiniteSet(R) /\ IsFiniteSet(Q) /\ Cardinality(Q) = Cardinality(R) - 1
    BY <1>3, FS_Subset, FS_RemoveElement
  <2> QED
    BY <2>1, FS_CardinalityType
<1>5. Total(w, Q) <= bound * Cardinality(Q)
  BY <1>2, <1>3
<1>6. Total(w, R) = w[Some(R)] + Total(w, Q)
  BY <1>3, <1>4, TotalStep
<1>7. Total(w, Q) \in Int /\ w[Some(R)] \in Int /\ w[Some(R)] <= bound
  BY <1>3, <1>4, TotalIsInt
<1>8. bound * Cardinality(R) = bound * Cardinality(Q) + bound
  BY <1>4
<1>9. bound * Cardinality(Q) \in Int
  BY <1>4
<1> HIDE DEF Q
<1>10. Total(w, R) <= bound * Cardinality(R)
  BY <1>5, <1>6, <1>7, <1>8, <1>9
<1> QED
  BY <1>2, <1>10
-----------------------------------------------------------------------------
(* The smallest number of a set.                                             *)
LEMMA SmallestNumber ==
    ASSUME NEW T, T \subseteq Nat, T # {}
    PROVE  \E n \in T : \A m \in T : n <= m
<1> DEFINE less == {pair \in Nat \X Nat : pair[1] < pair[2]}
<1>1. IsWellFoundedOn(less, Nat)
  BY NatLessThanWellFounded DEF OpToRel
<1>2. PICK n \in T : \A m \in T : ~(<<m, n>> \in less)
  <2> HIDE DEF less
  <2> QED
    BY <1>1, WFMin
<1>3. ASSUME NEW m \in T
      PROVE  n <= m
  <2>1. ~(<<m, n>> \in less) /\ m \in Nat /\ n \in Nat
    BY <1>2
  <2> QED
    BY <2>1
<1> QED
  BY <1>3

(* A function on 1 .. n is a sequence.                                       *)
LEMMA FunctionIsSeq ==
    ASSUME NEW n \in Nat, NEW S, NEW f \in [1 .. n -> S]
    PROVE  f \in Seq(S) /\ Len(f) = n
<1>1. f \in Seq(S)
  BY SeqDef
<1>2. Len(f) \in Nat /\ DOMAIN f = 1 .. Len(f) /\ DOMAIN f = 1 .. n
  BY <1>1, LenProperties
<1> QED
  BY <1>1, <1>2

(* Induction over a set of numbers; the states of a loop of n turns.         *)
LEMMA AllReached ==
    ASSUME NEW n \in Nat, NEW T, 0 \in T, \A k \in 1 .. n : k - 1 \in T => k \in T
    PROVE  \A k \in 0 .. n : k \in T
<1> DEFINE U == {k \in 0 .. n : k \notin T}
<1>1. SUFFICES ASSUME U # {} PROVE FALSE
  OBVIOUS
<1>2. PICK k \in U : \A m \in U : k <= m
  <2>1. U \subseteq Nat
    OBVIOUS
  <2> HIDE DEF U
  <2> QED
    BY <1>1, <2>1, SmallestNumber
<1>3. k \in 1 .. n /\ k - 1 \in 0 .. n
  OBVIOUS
<1>4. k - 1 \notin U
  <2>1. k \in Int /\ ~(k <= k - 1)
    BY <1>3
  <2> HIDE DEF U
  <2> QED
    BY <1>2, <2>1
<1> QED
  BY <1>3, <1>4

Loop(n, V, v, turn) == n \in Nat /\ v \in V /\ turn \in [1 .. n -> [V -> V]]

LoopRun(f, n, V, v, turn) ==
    f \in [0 .. n -> V] /\ f[0] = v /\ \A k \in 1 .. n : f[k] = turn[k][f[k - 1]]

LEMMA LoopRuns ==
    ASSUME NEW n, NEW V, NEW v, NEW turn, Loop(n, V, v, turn)
    PROVE  \E f : LoopRun(f, n, V, v, turn)
<1>0. n \in Nat /\ v \in V /\ turn \in [1 .. n -> [V -> V]]
  BY DEF Loop
<1> DEFINE Run(f, k) == f \in [0 .. k -> V] /\ f[0] = v /\ \A m \in 1 .. k : f[m] = turn[m][f[m - 1]]
           T == {k \in 0 .. n : \E f : Run(f, k)}
<1>1. 0 \in T
  <2>1. Run([m \in 0 .. 0 |-> v], 0)
    BY <1>0
  <2> HIDE DEF Run
  <2> QED
    BY <1>0, <2>1
<1>2. ASSUME NEW k \in 1 .. n, k - 1 \in T
      PROVE  k \in T
  <2>1. PICK f : Run(f, k - 1)
    BY <1>2
  <2> DEFINE g == [m \in 0 .. k |-> IF m = k THEN turn[k][f[k - 1]] ELSE f[m]]
  <2>2. turn[k][f[k - 1]] \in V
    <3>1. f[k - 1] \in V
      BY <2>1
    <3>2. turn[k] \in [V -> V]
      BY <1>0
    <3> QED
      BY <3>1, <3>2
  <2>3. g \in [0 .. k -> V]
    <3>1. \A m \in 0 .. k : m # k => f[m] \in V
      BY <2>1
    <3> QED
      BY <2>2, <3>1
  <2>4. g[0] = v
    BY <2>1
  <2>5. ASSUME NEW m \in 1 .. k
        PROVE  g[m] = turn[m][g[m - 1]]
    <3>1. m \in 0 .. k /\ m - 1 \in 0 .. k /\ m - 1 # k
      OBVIOUS
    <3>2. g[m - 1] = f[m - 1]
      BY <3>1
    <3>3. CASE m = k
      BY <3>1, <3>2, <3>3
    <3>4. CASE m # k
      <4>1. m \in 1 .. k - 1
        BY <3>4
      <4>2. g[m] = f[m]
        BY <3>1, <3>4
      <4> QED
        BY <2>1, <3>2, <4>1, <4>2
    <3> QED
      BY <3>3, <3>4
  <2>6. Run(g, k)
    BY <2>3, <2>4, <2>5
  <2> HIDE DEF Run, g
  <2> QED
    BY <2>6
<1>3. n \in T
  <2>1. n \in 0 .. n /\ n \in Nat
    BY <1>0
  <2> HIDE DEF T
  <2> QED
    BY <1>1, <1>2, <2>1, AllReached
<1>4. PICK f : Run(f, n)
  <2> HIDE DEF Run
  <2> QED
    BY <1>3
<1> QED
  BY <1>4 DEF LoopRun
-----------------------------------------------------------------------------
(* Parts one after the other.                                                *)
Joins(parts) ==
    CHOOSE joined : joined = [b \in 0 .. Len(parts) |-> IF b = 0 THEN <<>> ELSE joined[b - 1] \o parts[b]]

LEMMA JoinsFacts ==
    ASSUME NEW S, NEW parts \in Seq(Seq(S))
    PROVE  /\ Joins(parts) \in [0 .. Len(parts) -> Seq(S)] /\ Joins(parts)[0] = <<>>
           /\ \A k \in 1 .. Len(parts) : Joins(parts)[k] = Joins(parts)[k - 1] \o parts[k]
<1> DEFINE n == Len(parts)
           Solves0(o) == o = [b \in 0 .. n |-> IF b = 0 THEN <<>> ELSE o[b - 1] \o parts[b]]
           turn == [k \in 1 .. n |-> [x \in Seq(S) |-> x \o parts[k]]]
<1>1. n \in Nat /\ (\A k \in 1 .. n : parts[k] \in Seq(S)) /\ <<>> \in Seq(S)
  BY LenProperties
<1>2. Joins(parts) = CHOOSE o : Solves0(o)
  BY DEF Joins
<1> HIDE DEF n
<1>3. turn \in [1 .. n -> [Seq(S) -> Seq(S)]]
  <2>1. \A k \in 1 .. n : \A x \in Seq(S) : x \o parts[k] \in Seq(S)
    BY <1>1, ConcatProperties
  <2> QED
    BY <2>1
<1>4. \A k \in 1 .. n : \A x \in Seq(S) : turn[k][x] = x \o parts[k]
  OBVIOUS
<1>5. PICK f \in [0 .. n -> Seq(S)] : f[0] = <<>> /\ \A k \in 1 .. n : f[k] = turn[k][f[k - 1]]
  <2> HIDE DEF turn
  <2>1. Loop(n, Seq(S), <<>>, turn)
    BY <1>1, <1>3 DEF Loop
  <2> QED
    BY <2>1, LoopRuns DEF LoopRun
<1> HIDE DEF turn
<1>6. \A k \in 1 .. n : f[k] = f[k - 1] \o parts[k]
  <2>1. \A k \in 1 .. n : k - 1 \in 0 .. n
    BY <1>1
  <2> QED
    BY <1>4, <1>5, <2>1
<1>7. Solves0(f)
  <2>1. \A k \in 0 .. n : k # 0 => k \in 1 .. n
    BY <1>1
  <2> QED
    BY <1>5, <1>6, <2>1
<1>8. Solves0(Joins(parts))
  <2> HIDE DEF Solves0
  <2> QED
    BY <1>2, <1>7
<1> DEFINE o == Joins(parts)
<1> HIDE DEF o
<1>9. o = [b \in 0 .. n |-> IF b = 0 THEN <<>> ELSE o[b - 1] \o parts[b]]
  BY <1>8 DEF o
<1> HIDE DEF Solves0
<1>10. 0 \in 0 .. n /\ \A k \in 1 .. n : k \in 0 .. n /\ k # 0 /\ k - 1 \in 0 .. n
  BY <1>1
<1>11. DOMAIN o = 0 .. n /\ o[0] = <<>> /\ \A k \in 1 .. n : o[k] = o[k - 1] \o parts[k]
  BY <1>9, <1>10
<1> DEFINE T == {k \in 0 .. n : o[k] \in Seq(S)}
<1>12. \A k \in 0 .. n : k \in T
  <2>1. 0 \in T
    BY <1>1, <1>10, <1>11
  <2>2. ASSUME NEW k \in 1 .. n, k - 1 \in T
        PROVE  k \in T
    <3>1. o[k - 1] \in Seq(S) /\ parts[k] \in Seq(S) /\ o[k] = o[k - 1] \o parts[k]
      BY <1>1, <1>11, <2>2
    <3>2. o[k] \in Seq(S)
      BY <3>1, ConcatProperties
    <3> QED
      BY <1>10, <3>2
  <2> HIDE DEF T
  <2> QED
    BY <1>1, <2>1, <2>2, AllReached
<1>13. o \in [0 .. n -> Seq(S)]
  BY <1>9, <1>12
<1> QED
  BY <1>11, <1>13 DEF o, n
-----------------------------------------------------------------------------
(* The library's flattening joins the parts.                                 *)
LEMMA FlattenIsJoined ==
    ASSUME NEW S, NEW parts \in Seq(Seq(S))
    PROVE  FlattenSeq(parts) = Joins(parts)[Len(parts)]
<1> DEFINE n == Len(parts)
           Solves(g) == g = [i \in 1 .. n |-> IF i = 1 THEN parts[i] ELSE g[i - 1] \o parts[i]]
           J == Joins(parts)
<1>1. n \in Nat /\ \A k \in 1 .. n : parts[k] \in Seq(S)
  BY LenProperties
<1>2. J \in [0 .. n -> Seq(S)] /\ J[0] = <<>> /\ \A k \in 1 .. n : J[k] = J[k - 1] \o parts[k]
  BY JoinsFacts
<1>3. CASE n = 0
  <2>1. parts = <<>>
    BY <1>3, EmptySeq
  <2> QED
    BY <1>2, <1>3, <2>1 DEF FlattenSeq
<1>4. CASE n # 0
  <2>1. FlattenSeq(parts) = (CHOOSE g : Solves(g))[n]
    BY <1>4 DEF FlattenSeq
  <2> HIDE DEF n, J
  <2>2. Solves([i \in 1 .. n |-> J[i]])
    <3>1. 1 \in 1 .. n /\ J[1] = parts[1]
      <4>1. 1 \in 1 .. n /\ 1 - 1 = 0
        BY <1>1, <1>4
      <4>2. J[1] = J[1 - 1] \o parts[1] /\ parts[1] \in Seq(S)
        BY <1>1, <1>2, <4>1
      <4>3. J[1] = <<>> \o parts[1]
        BY <1>2, <4>1, <4>2
      <4> QED
        BY <4>1, <4>2, <4>3, ConcatEmptySeq
    <3>2. \A i \in 1 .. n : i # 1 => i - 1 \in 1 .. n
      BY <1>1
    <3> QED
      BY <1>2, <3>1, <3>2
  <2> DEFINE g == CHOOSE g : Solves(g)
  <2>3. Solves(g)
    <3> HIDE DEF Solves
    <3> QED
      BY <2>2
  <2> HIDE DEF g
  <2> DEFINE T == {k \in 0 .. n : k # 0 => g[k] = J[k]}
  <2>4. 0 \in T
    BY <1>1
  <2>5. ASSUME NEW k \in 1 .. n, k - 1 \in T
        PROVE  k \in T
    <3>1. g[k] = IF k = 1 THEN parts[k] ELSE g[k - 1] \o parts[k]
      BY <2>3
    <3>2. J[k] = J[k - 1] \o parts[k]
      BY <1>2
    <3>3. CASE k = 1
      <4>1. J[1] = parts[1]
        <5>1. 1 \in 1 .. n /\ 1 - 1 = 0
          BY <3>3
        <5>2. J[1] = J[1 - 1] \o parts[1] /\ parts[1] \in Seq(S)
          BY <1>1, <1>2, <5>1
        <5>3. J[1] = <<>> \o parts[1]
          BY <1>2, <5>1, <5>2
        <5> QED
          BY <5>2, <5>3, ConcatEmptySeq
      <4> QED
        BY <1>1, <3>1, <3>3, <4>1
    <3>4. CASE k # 1
      <4>1. k - 1 # 0
        BY <1>1, <3>4
      <4>2. g[k - 1] = J[k - 1]
        BY <2>5, <4>1
      <4>3. g[k] = J[k]
        BY <3>1, <3>2, <3>4, <4>2
      <4>4. k \in 0 .. n
        BY <1>1
      <4> QED
        BY <4>3, <4>4
    <3> QED
      BY <3>3, <3>4
  <2>6. n \in T
    <3>1. n \in 0 .. n
      BY <1>1
    <3> HIDE DEF T
    <3> QED
      BY <1>1, <2>4, <2>5, <3>1, AllReached
  <2> QED
    BY <1>4, <2>1, <2>6 DEF g, n, J
<1> QED
  BY <1>3, <1>4

LEMMA ConcatMembers ==
    ASSUME NEW S, NEW s \in Seq(S), NEW t \in Seq(S)
    PROVE  ToSet(s \o t) = ToSet(s) \cup ToSet(t)
<1>1. /\ s \o t \in Seq(S) /\ Len(s) \in Nat /\ Len(t) \in Nat
      /\ DOMAIN s = 1 .. Len(s) /\ DOMAIN t = 1 .. Len(t) /\ DOMAIN (s \o t) = 1 .. Len(s) + Len(t)
      /\ \A i \in 1 .. Len(s) + Len(t) : (s \o t)[i] = IF i <= Len(s) THEN s[i] ELSE t[i - Len(s)]
  BY ConcatProperties, LenProperties
<1> DEFINE a == Len(s)
           b == Len(t)
           c == s \o t
<1> HIDE DEF a, b, c
<1>2. /\ a \in Nat /\ b \in Nat /\ DOMAIN s = 1 .. a /\ DOMAIN t = 1 .. b /\ DOMAIN c = 1 .. a + b
      /\ \A i \in 1 .. a + b : c[i] = IF i <= a THEN s[i] ELSE t[i - a]
  BY <1>1 DEF a, b, c
<1>3. ASSUME NEW i \in 1 .. a + b
      PROVE  c[i] \in ToSet(s) \cup ToSet(t)
  <2>1. i <= a => i \in 1 .. a
    BY <1>2
  <2>2. ~(i <= a) => i - a \in 1 .. b
    BY <1>2
  <2> QED
    BY <1>2, <2>1, <2>2 DEF ToSet
<1>4. ASSUME NEW i \in 1 .. a
      PROVE  s[i] \in ToSet(c)
  <2>1. i \in 1 .. a + b /\ i <= a
    BY <1>2
  <2> QED
    BY <1>2, <2>1 DEF ToSet
<1>5. ASSUME NEW i \in 1 .. b
      PROVE  t[i] \in ToSet(c)
  <2>1. a + i \in 1 .. a + b /\ ~(a + i <= a) /\ (a + i) - a = i
    BY <1>2
  <2>2. c[a + i] = t[i]
    BY <1>2, <2>1
  <2> QED
    BY <1>2, <2>1, <2>2 DEF ToSet
<1>6. ToSet(c) = {c[i] : i \in 1 .. a + b} /\ ToSet(s) = {s[i] : i \in 1 .. a} /\ ToSet(t) = {t[i] : i \in 1 .. b}
  BY <1>2 DEF ToSet
<1> QED
  BY <1>3, <1>4, <1>5, <1>6 DEF c

LEMMA ConcatInjective ==
    ASSUME NEW S, NEW s \in Seq(S), NEW t \in Seq(S),
           IsInjective(s), IsInjective(t), ToSet(s) \cap ToSet(t) = {}
    PROVE  IsInjective(s \o t)
<1> DEFINE a == Len(s)
           b == Len(t)
           c == s \o t
<1>1. /\ a \in Nat /\ b \in Nat /\ DOMAIN s = 1 .. a /\ DOMAIN t = 1 .. b /\ DOMAIN c = 1 .. a + b
      /\ \A i \in 1 .. a + b : c[i] = IF i <= a THEN s[i] ELSE t[i - a]
  BY ConcatProperties, LenProperties
<1> HIDE DEF a, b, c
<1> SUFFICES ASSUME NEW i \in 1 .. a + b, NEW j \in 1 .. a + b, c[i] = c[j]
             PROVE  i = j
  BY <1>1 DEF IsInjective, c
<1>2. \A k \in 1 .. a + b : k <= a => k \in 1 .. a /\ c[k] = s[k] /\ c[k] \in ToSet(s)
  <2> TAKE k \in 1 .. a + b
  <2>1. k <= a => k \in 1 .. a
    BY <1>1
  <2> QED
    BY <1>1, <2>1 DEF ToSet
<1>3. \A k \in 1 .. a + b : ~(k <= a) => k - a \in 1 .. b /\ c[k] = t[k - a] /\ c[k] \in ToSet(t)
  <2> TAKE k \in 1 .. a + b
  <2>1. ~(k <= a) => k - a \in 1 .. b
    BY <1>1
  <2> QED
    BY <1>1, <2>1 DEF ToSet
<1>4. CASE i <= a /\ j <= a
  BY <1>1, <1>2, <1>4 DEF IsInjective
<1>5. CASE ~(i <= a) /\ ~(j <= a)
  <2>1. i - a = j - a
    BY <1>1, <1>3, <1>5 DEF IsInjective
  <2> QED
    BY <1>1, <2>1
<1>6. CASE (i <= a) # (j <= a)
  BY <1>2, <1>3, <1>6
<1> QED
  BY <1>4, <1>5, <1>6

(* What the parts hold is what their join holds, each once if each part       *)
(* holds it once and no two parts share anything.                            *)
LEMMA FlattenMembers ==
    ASSUME NEW S, NEW parts \in Seq(Seq(S))
    PROVE  /\ FlattenSeq(parts) \in Seq(S)
           /\ ToSet(FlattenSeq(parts)) = UNION {ToSet(parts[k]) : k \in 1 .. Len(parts)}
           /\ (\A k \in 1 .. Len(parts) : IsInjective(parts[k]))
              /\ (\A k, m \in 1 .. Len(parts) : k # m => ToSet(parts[k]) \cap ToSet(parts[m]) = {})
              => IsInjective(FlattenSeq(parts))
<1> DEFINE n == Len(parts)
           J == Joins(parts)
           Held(k) == UNION {ToSet(parts[m]) : m \in 1 .. k}
           Apart == \A k, m \in 1 .. n : k # m => ToSet(parts[k]) \cap ToSet(parts[m]) = {}
           Single == \A k \in 1 .. n : IsInjective(parts[k])
<1>1. n \in Nat /\ \A k \in 1 .. n : parts[k] \in Seq(S)
  BY LenProperties
<1>2. J \in [0 .. n -> Seq(S)] /\ J[0] = <<>> /\ \A k \in 1 .. n : J[k] = J[k - 1] \o parts[k]
  BY JoinsFacts
<1>3. FlattenSeq(parts) = J[n]
  BY FlattenIsJoined
<1> HIDE DEF n, J
<1> DEFINE T == {k \in 0 .. n : ToSet(J[k]) = Held(k)}
<1>4. 0 \in T
  <2>1. 0 \in 0 .. n /\ 1 .. 0 = {}
    BY <1>1
  <2> QED
    BY <1>2, <2>1 DEF ToSet
<1>5. ASSUME NEW k \in 1 .. n, k - 1 \in T
      PROVE  k \in T
  <2>1. J[k - 1] \in Seq(S) /\ parts[k] \in Seq(S) /\ k \in 0 .. n
    BY <1>1, <1>2, <1>5
  <2>2. ToSet(J[k]) = ToSet(J[k - 1]) \cup ToSet(parts[k])
    <3>1. J[k] = J[k - 1] \o parts[k]
      BY <1>2
    <3>2. ToSet(J[k - 1] \o parts[k]) = ToSet(J[k - 1]) \cup ToSet(parts[k])
      BY <2>1, ConcatMembers
    <3> QED
      BY <3>1, <3>2
  <2>3. 1 .. k = (1 .. k - 1) \cup {k}
    BY <1>1
  <2>4. Held(k) = Held(k - 1) \cup ToSet(parts[k])
    BY <2>3
  <2> QED
    BY <1>5, <2>1, <2>2, <2>4
<1>6. \A k \in 0 .. n : ToSet(J[k]) = Held(k)
  <2>1. \A k \in 0 .. n : k \in T
    <3> HIDE DEF T
    <3> QED
      BY <1>1, <1>4, <1>5, AllReached
  <2> QED
    BY <2>1
<1>7. ASSUME Single, Apart
      PROVE  IsInjective(J[n])
  <2> DEFINE U == {k \in 0 .. n : IsInjective(J[k])}
  <2>1. 0 \in U
    BY <1>1, <1>2 DEF IsInjective
  <2>2. ASSUME NEW k \in 1 .. n, k - 1 \in U
        PROVE  k \in U
    <3>1. J[k - 1] \in Seq(S) /\ parts[k] \in Seq(S) /\ k \in 0 .. n /\ k - 1 \in 0 .. n
      BY <1>1, <1>2, <2>2
    <3>2. ToSet(J[k - 1]) \cap ToSet(parts[k]) = {}
      <4>1. \A m \in 1 .. k - 1 : m \in 1 .. n /\ m # k
        BY <1>1
      <4>2. \A m \in 1 .. k - 1 : ToSet(parts[m]) \cap ToSet(parts[k]) = {}
        BY <1>7, <4>1
      <4>3. ToSet(J[k - 1]) = Held(k - 1)
        BY <1>6, <3>1
      <4>4. Held(k - 1) \cap ToSet(parts[k]) = {}
        BY <4>2
      <4> QED
        BY <4>3, <4>4
    <3>3. IsInjective(J[k - 1]) /\ IsInjective(parts[k])
      BY <1>7, <2>2
    <3>4. IsInjective(J[k])
      BY <1>2, <3>1, <3>2, <3>3, ConcatInjective
    <3> QED
      BY <3>1, <3>4
  <2>3. n \in U
    <3>1. n \in 0 .. n
      BY <1>1
    <3> HIDE DEF U
    <3> QED
      BY <1>1, <2>1, <2>2, <3>1, AllReached
  <2> QED
    BY <2>3
<1>8. n \in 0 .. n
  BY <1>1
<1> QED
  BY <1>2, <1>3, <1>6, <1>7, <1>8 DEF n
=============================================================================
