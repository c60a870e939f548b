---------------------------- MODULE LedgerSumProofs ----------------------------
(***************************************************************************)
(* The sum of finitely many integer weights is an integer, the sum of none *)
(* is 0, and each weight contributes once; so it is for the amounts of     *)
(* ledger rows.  The fold behind the sums is a function defined by         *)
(* recursion on the subsets of its argument: that such a function exists,  *)
(* and that it is unique, is proved here by taking a smallest              *)
(* counterexample.                                                         *)
(***************************************************************************)
EXTENDS LedgerSum, FiniteSetTheorems, WellFoundedInduction, TLAPS

Pick(S) == CHOOSE x \in S : TRUE

\* g computes the sum of w over every subset of L the way the fold does.
Sums(w, g, L) ==
  g = [S \in SUBSET L |-> IF S = {} THEN 0 ELSE w[Pick(S)] + g[S \ {Pick(S)}]]

\* Finitely many things with integer weights, and the sum of the weights.
Weights(w, L) == IsFiniteSet(L) /\ \A r \in L : w[r] \in Int
SumOver(w, L) == MapThenSumSet(LAMBDA r : w[r], L)

LEMMA PickIn == ASSUME NEW S, S # {} PROVE Pick(S) \in S
BY DEF Pick

\* Every non-empty set of subsets of a finite set has a smallest member.
LEMMA SmallestSubset ==
  ASSUME NEW L, IsFiniteSet(L), NEW B \in SUBSET (SUBSET L), B # {}
  PROVE  \E T \in B : \A U \in SUBSET T : U # T => U \notin B
<1>1. IsWellFoundedOn(StrictSubsetOrdering(L), SUBSET L)
  BY FS_StrictSubsetOrderingWellFounded, FS_FiniteSubsetsOfFinite
<1>2. PICK T \in B : \A U \in B : <<U, T>> \notin StrictSubsetOrdering(L)
  BY <1>1, WFMin
<1>3. QED
  BY <1>2 DEF StrictSubsetOrdering

LEMMA SumsAt ==
  ASSUME NEW L, NEW w, NEW g, Sums(w, g, L), NEW S \in SUBSET L
  PROVE  /\ S = {} => g[S] = 0
         /\ S # {} => /\ Pick(S) \in S
                      /\ S \ {Pick(S)} \in SUBSET S
                      /\ S \ {Pick(S)} # S
                      /\ g[S] = w[Pick(S)] + g[S \ {Pick(S)}]
<1>1. S # {} => Pick(S) \in S
  BY PickIn
<1>2. g[S] = IF S = {} THEN 0 ELSE w[Pick(S)] + g[S \ {Pick(S)}]
  BY DEF Sums
<1>3. QED
  BY <1>1, <1>2

\* Two such functions agree on the subsets they share, if the weights do, and
\* their values are integers.
LEMMA SumsUnique ==
  ASSUME NEW L, IsFiniteSet(L), NEW M \in SUBSET L, NEW w, NEW v, NEW g, NEW h,
         Sums(w, g, L), Sums(v, h, M), \A x \in M : w[x] = v[x]
  PROVE  \A S \in SUBSET M : g[S] = h[S]
<1> DEFINE B == {S \in SUBSET M : g[S] # h[S]}
<1>1. SUFFICES ASSUME B # {} PROVE FALSE
  OBVIOUS
<1>2. IsFiniteSet(M)
  BY FS_Subset
<1>3. PICK T \in B : \A U \in SUBSET T : U # T => U \notin B
  <2>1. B \in SUBSET (SUBSET M)
    OBVIOUS
  <2> HIDE DEF B
  <2>2. QED
    BY <1>1, <1>2, <2>1, SmallestSubset
<1>4. CASE T = {}
  <2>1. {} \in SUBSET L /\ {} \in SUBSET M
    OBVIOUS
  <2> HIDE DEF B
  <2>2. g[{}] = 0
    BY <2>1 DEF Sums
  <2>3. h[{}] = 0
    BY <2>1 DEF Sums
  <2>4. QED
    BY <2>2, <2>3, <1>4 DEF B
<1>5. CASE T # {}
  <2> DEFINE x == Pick(T)
  <2>1. /\ T \ {x} \in SUBSET T
        /\ T \ {x} # T
        /\ g[T] = w[x] + g[T \ {x}]
        /\ h[T] = v[x] + h[T \ {x}]
        /\ x \in M
    BY <1>5, SumsAt
  <2>2. g[T \ {x}] = h[T \ {x}]
    BY <2>1, <1>3
  <2>3. QED
    BY <2>1, <2>2, <1>3
<1>6. QED
  BY <1>4, <1>5

LEMMA SumsInt ==
  ASSUME NEW L, NEW w, Weights(w, L), NEW g, Sums(w, g, L)
  PROVE  \A S \in SUBSET L : g[S] \in Int
<1> DEFINE B == {S \in SUBSET L : g[S] \notin Int}
<1>1. SUFFICES ASSUME B # {} PROVE FALSE
  OBVIOUS
<1>2. PICK T \in B : \A U \in SUBSET T : U # T => U \notin B
  <2>1. B \in SUBSET (SUBSET L)
    OBVIOUS
  <2> HIDE DEF B
  <2>2. QED
    BY <1>1, <2>1, SmallestSubset DEF Weights
<1>3. CASE T = {}
  <2>0. {} \in SUBSET L
    OBVIOUS
  <2>1. g[{}] = 0
    BY <2>0 DEF Sums
  <2>2. QED
    BY <2>1, <1>3
<1>4. CASE T # {}
  <2> DEFINE x == Pick(T)
  <2>1. /\ x \in L
        /\ T \ {x} \in SUBSET T
        /\ T \ {x} # T
        /\ g[T] = w[x] + g[T \ {x}]
    BY <1>4, SumsAt
  <2>2. g[T \ {x}] \in Int /\ w[x] \in Int
    BY <2>1, <1>2 DEF Weights
  <2>3. QED
    BY <2>1, <2>2, <1>2
<1>5. QED
  BY <1>3, <1>4

\* The recursion defines a function: put together the values that the
\* functions of the smaller subsets agree on.
LEMMA SumsExists ==
  ASSUME NEW L, IsFiniteSet(L), NEW w
  PROVE  \E g : Sums(w, g, L)
<1> DEFINE B == {S \in SUBSET L : ~ \E g : Sums(w, g, S)}
<1>1. SUFFICES ASSUME B # {} PROVE FALSE
  OBVIOUS
<1>2. PICK T \in B : \A U \in SUBSET T : U # T => U \notin B
  <2>1. B \in SUBSET (SUBSET L)
    OBVIOUS
  <2> HIDE DEF B
  <2>2. QED
    BY <1>1, <2>1, SmallestSubset
<1> DEFINE G(U) == CHOOSE g : Sums(w, g, U)
           V(U) == IF U = {} THEN 0 ELSE w[Pick(U)] + G(U \ {Pick(U)})[U \ {Pick(U)}]
           f    == [U \in SUBSET T |-> V(U)]
<1>3. \A U \in SUBSET T : U # T => Sums(w, G(U), U)
  BY <1>2
<1>4. \A U \in SUBSET T : U # {} => V(U) = w[Pick(U)] + f[U \ {Pick(U)}]
  <2>1. SUFFICES ASSUME NEW U \in SUBSET T, U # {}
                 PROVE  G(U \ {Pick(U)})[U \ {Pick(U)}] = f[U \ {Pick(U)}]
    OBVIOUS
  <2> DEFINE W == U \ {Pick(U)}
  <2>2. W \in SUBSET T /\ W # T
    BY <2>1, PickIn
  <2>3. Sums(w, G(W), W)
    BY <2>2, <1>3
  <2>4. CASE W = {}
    <3>0. W \in SUBSET W
      OBVIOUS
    <3>1. G(W)[W] = 0
      BY <2>3, <2>4, <3>0, SumsAt
    <3>2. QED
      BY <3>1, <2>2, <2>4
  <2>5. CASE W # {}
    <3> DEFINE X == W \ {Pick(W)}
    <3>0. W \in SUBSET W
      OBVIOUS
    <3>1. G(W)[W] = w[Pick(W)] + G(W)[X]
      BY <3>0, <2>3, <2>5 DEF Sums
    <3>2. X \in SUBSET W /\ X \in SUBSET T /\ X # T
      BY <2>2
    <3>3. Sums(w, G(X), X)
      BY <3>2, <1>3
    <3>4. IsFiniteSet(W)
      BY <2>2, FS_Subset
    <3>5. G(W)[X] = G(X)[X]
      BY <3>2, <3>3, <3>4, <2>3, SumsUnique
    <3>6. QED
      BY <3>1, <3>5, <2>2, <2>5
  <2>6. QED
    BY <2>4, <2>5
<1>5. Sums(w, f, T)
  <2>1. \A U \in SUBSET T :
          V(U) = IF U = {} THEN 0 ELSE w[Pick(U)] + f[U \ {Pick(U)}]
    <3>1. SUFFICES ASSUME NEW U \in SUBSET T
                   PROVE  V(U) = IF U = {} THEN 0 ELSE w[Pick(U)] + f[U \ {Pick(U)}]
      OBVIOUS
    <3>2. V({}) = 0
      OBVIOUS
    <3> HIDE DEF V, f
    <3>3. QED
      BY <3>2, <1>4
  <2>2. f = [U \in SUBSET T |->
               IF U = {} THEN 0 ELSE w[Pick(U)] + f[U \ {Pick(U)}]]
    <3> HIDE DEF V
    <3>1. QED
      BY <2>1
  <2>3. QED
    BY <2>2 DEF Sums
<1>6. QED
  BY <1>5, <1>2

\* The sum over a subset, computed by a function for the whole set whose
\* weights agree.
LEMMA SumSums ==
  ASSUME NEW L, IsFiniteSet(L), NEW w, NEW v, NEW g, Sums(w, g, L),
         NEW M \in SUBSET L, \A x \in M : w[x] = v[x]
  PROVE  SumOver(v, M) = g[M]
<1> DEFINE h == CHOOSE f : Sums(v, f, M)
<1>1. IsFiniteSet(M)
  BY FS_Subset
<1>2. Sums(v, h, M)
  BY <1>1, SumsExists
<1>3. g[M] = h[M]
  BY <1>2, SumsUnique
<1>4. SumOver(v, M) = h[M]
  BY DEF SumOver, MapThenSumSet, MapThenFoldSet, Sums, Pick
<1>5. QED
  BY <1>3, <1>4

\* Only the weights of what is summed count.
LEMMA SumAgrees ==
  ASSUME NEW L, IsFiniteSet(L), NEW w, NEW v, \A x \in L : w[x] = v[x]
  PROVE  SumOver(w, L) = SumOver(v, L)
<1>1. PICK g : Sums(w, g, L)
  BY SumsExists
<1>2. SumOver(w, L) = g[L] /\ SumOver(v, L) = g[L]
  BY <1>1, SumSums
<1>3. QED
  BY <1>2

LEMMA SumEmpty == ASSUME NEW w PROVE SumOver(w, {}) = 0
<1>1. IsFiniteSet({})
  BY FS_EmptySet
<1>2. PICK g : Sums(w, g, {})
  BY <1>1, SumsExists
<1>3. g[{}] = 0
  BY <1>2, SumsAt
<1>4. SumOver(w, {}) = g[{}]
  BY <1>1, <1>2, SumSums
<1>5. QED
  BY <1>3, <1>4

LEMMA SumInt == ASSUME NEW L, NEW w, Weights(w, L) PROVE SumOver(w, L) \in Int
<1>1. PICK g : Sums(w, g, L)
  BY SumsExists DEF Weights
<1>2. SumOver(w, L) = g[L]
  BY <1>1, SumSums DEF Weights
<1>3. g[L] \in Int
  BY <1>1, SumsInt
<1>4. QED
  BY <1>2, <1>3

\* Whatever is set aside, the sum is its weight plus the sum of the rest.
LEMMA SumSplit ==
  ASSUME NEW L, NEW w, Weights(w, L), NEW x \in L
  PROVE  SumOver(w, L) = w[x] + SumOver(w, L \ {x})
<1>1. PICK g : Sums(w, g, L)
  BY SumsExists DEF Weights
<1> DEFINE B == {S \in SUBSET L : \E y \in S : g[S] # w[y] + g[S \ {y}]}
<1>2. B = {}
  <2>1. SUFFICES ASSUME B # {} PROVE FALSE
    OBVIOUS
  <2>2. PICK T \in B : \A U \in SUBSET T : U # T => U \notin B
    <3>1. B \in SUBSET (SUBSET L)
      OBVIOUS
    <3> HIDE DEF B
    <3>2. QED
      BY <2>1, <3>1, SmallestSubset DEF Weights
  <2>3. PICK y \in T : g[T] # w[y] + g[T \ {y}]
    BY <2>2
  <2> DEFINE z == Pick(T)
             R == (T \ {y}) \ {z}
  <2>4. z \in T /\ g[T] = w[z] + g[T \ {z}]
    BY <2>3, <1>1, SumsAt
  <2>5. y # z
    BY <2>3, <2>4
  <2>6. T \ {z} \notin B /\ T \ {y} \notin B
    BY <2>2, <2>3, <2>4
  <2>7. g[T \ {z}] = w[y] + g[R]
    <3>1. y \in T \ {z} /\ (T \ {z}) \ {y} = R
      BY <2>5
    <3>2. QED
      BY <3>1, <2>6
  <2>8. g[T \ {y}] = w[z] + g[R]
    <3>1. z \in T \ {y}
      BY <2>4, <2>5
    <3>2. QED
      BY <3>1, <2>6
  <2>9. w[y] \in Int /\ w[z] \in Int /\ g[R] \in Int
    BY <1>1, <2>4, SumsInt DEF Weights
  <2>10. g[T] = w[y] + g[T \ {y}]
    BY <2>4, <2>7, <2>8, <2>9
  <2>11. QED
    BY <2>3, <2>10
<1>3. g[L] = w[x] + g[L \ {x}]
  BY <1>2
<1>4. SumOver(w, L) = g[L] /\ SumOver(w, L \ {x}) = g[L \ {x}]
  BY <1>1, SumSums DEF Weights
<1>5. QED
  BY <1>3, <1>4

\* When one weight changes, the sum changes by as much.
LEMMA SumUpdate ==
  ASSUME NEW L, NEW w, NEW v, Weights(w, L), NEW x \in L, v[x] \in Int,
         \A y \in L \ {x} : v[y] = w[y]
  PROVE  SumOver(v, L) = SumOver(w, L) - w[x] + v[x]
<1>1. Weights(v, L) /\ Weights(w, L \ {x}) /\ IsFiniteSet(L \ {x})
  BY FS_Subset DEF Weights
<1>2. SumOver(v, L) = v[x] + SumOver(v, L \ {x})
  BY <1>1, SumSplit
<1>3. SumOver(w, L) = w[x] + SumOver(w, L \ {x})
  BY SumSplit
<1>4. SumOver(v, L \ {x}) = SumOver(w, L \ {x})
  BY <1>1, SumAgrees
<1>5. SumOver(w, L \ {x}) \in Int /\ w[x] \in Int
  BY <1>1, SumInt DEF Weights
<1>6. QED
  BY <1>2, <1>3, <1>4, <1>5

\* Things without weight do not count.
LEMMA SumZero ==
  ASSUME NEW L, IsFiniteSet(L), NEW w, \A x \in L : w[x] = 0
  PROVE  SumOver(w, L) = 0
<1>1. PICK g : Sums(w, g, L)
  BY SumsExists
<1> DEFINE B == {S \in SUBSET L : g[S] # 0}
<1>2. B = {}
  <2>1. SUFFICES ASSUME B # {} PROVE FALSE
    OBVIOUS
  <2>2. PICK T \in B : \A U \in SUBSET T : U # T => U \notin B
    <3>1. B \in SUBSET (SUBSET L)
      OBVIOUS
    <3> HIDE DEF B
    <3>2. QED
      BY <2>1, <3>1, SmallestSubset
  <2>3. T # {} /\ Pick(T) \in T /\ g[T] = w[Pick(T)] + g[T \ {Pick(T)}]
    BY <1>1, <2>2, SumsAt
  <2>4. g[T \ {Pick(T)}] = 0
    BY <2>2, <2>3
  <2>5. QED
    BY <2>2, <2>3, <2>4
<1>3. SumOver(w, L) = g[L]
  BY <1>1, SumSums
<1>4. QED
  BY <1>2, <1>3

(***************************************************************************)
(* The ledger.                                                             *)
(***************************************************************************)
LedgerRows(L) == IsFiniteSet(L) /\ \A r \in L : r.amount \in Int

\* The fold of Total adds up the same weights.
LEMMA TotalIsSum ==
  ASSUME NEW L, IsFiniteSet(L), NEW w, \A r \in L : w[r] = r.amount
  PROVE  Total(L) = SumOver(w, L)
<1> DEFINE Fold(g) == g = [S \in SUBSET L |-> IF S = {} THEN 0 ELSE Pick(S).amount + g[S \ {Pick(S)}]]
<1>1. \A S \in SUBSET L : S # {} => w[Pick(S)] = Pick(S).amount
  BY PickIn
<1>2. \A g : Fold(g) <=> Sums(w, g, L)
  <2>1. SUFFICES ASSUME NEW g PROVE Fold(g) <=> Sums(w, g, L)
    OBVIOUS
  <2>2. [S \in SUBSET L |-> IF S = {} THEN 0 ELSE Pick(S).amount + g[S \ {Pick(S)}]]
          = [S \in SUBSET L |-> IF S = {} THEN 0 ELSE w[Pick(S)] + g[S \ {Pick(S)}]]
    BY <1>1
  <2>3. QED
    BY <2>2 DEF Sums
<1> DEFINE h == CHOOSE g : Fold(g)
<1>3. Total(L) = h[L]
  BY DEF Total, MapThenSumSet, MapThenFoldSet, Pick
<1>4. PICK g : Sums(w, g, L)
  BY SumsExists
<1> HIDE DEF Fold
<1>5. Sums(w, h, L)
  BY <1>2, <1>4
<1>6. SumOver(w, L) = h[L]
  BY <1>5, SumSums
<1>7. QED
  BY <1>3, <1>6

\* An empty ledger sums to 0.
THEOREM TotalEmpty == Total({}) = 0
BY TotalIsSum, SumEmpty, FS_EmptySet

\* The sum of rows with integer amounts is an integer.
THEOREM TotalInt == ASSUME NEW L, LedgerRows(L) PROVE Total(L) \in Int
<1> DEFINE w == [r \in L |-> r.amount]
<1>1. Weights(w, L)
  BY DEF LedgerRows, Weights
<1>2. Total(L) = SumOver(w, L)
  BY TotalIsSum DEF LedgerRows
<1>3. QED
  BY <1>1, <1>2, SumInt

\* Whichever row is set aside, the sum is its amount plus the sum of the rest.
THEOREM TotalSplit ==
  ASSUME NEW L, LedgerRows(L), NEW x \in L
  PROVE  Total(L) = x.amount + Total(L \ {x})
<1> DEFINE w == [r \in L |-> r.amount]
<1>1. Weights(w, L) /\ IsFiniteSet(L) /\ IsFiniteSet(L \ {x})
  BY FS_Subset DEF LedgerRows, Weights
<1>2. Total(L) = SumOver(w, L)
  BY <1>1, TotalIsSum
<1>3. Total(L \ {x}) = SumOver(w, L \ {x})
  BY <1>1, TotalIsSum
<1>4. SumOver(w, L) = w[x] + SumOver(w, L \ {x})
  BY <1>1, SumSplit
<1>5. QED
  BY <1>2, <1>3, <1>4

=============================================================================
