---------------------------- MODULE SumTheorems -----------------------------
(***************************************************************************)
(* SumFunctionOnSet of the community modules is the sum: what it is for the *)
(* empty set, with one element more, for a subset, and for a sequence that  *)
(* loses its head.  It is defined by recursion over the subsets of the set; *)
(* the proof gives the function that solves the recursion, the number of    *)
(* cells when each element x has f[x] of them, and shows that no other does *)
(* (a smallest subset for which another differs leads to a contradiction).  *)
(***************************************************************************)
EXTENDS FiniteSetsExt, SequenceTheorems, FiniteSetTheorems, WellFoundedInduction, TLAPS

Cells(f, S) == UNION {{x} \X (1..f[x]) : x \in S}

LEMMA CellsAre ==
  ASSUME NEW f, NEW S
  PROVE  \A c : c \in Cells(f, S) <=> \E x \in S : \E k \in 1..f[x] : c = <<x, k>>
BY DEF Cells

LEMMA CellsOf ==
  ASSUME NEW x, NEW n \in Nat
  PROVE  IsFiniteSet({x} \X (1..n)) /\ Cardinality({x} \X (1..n)) = n
<1> DEFINE One == {x}
           Many == 1..n
<1>1. IsFiniteSet(One) /\ Cardinality(One) = 1
  BY FS_Singleton
<1>2. IsFiniteSet(Many) /\ Cardinality(Many) = n
  <2>1. 0 \in Int /\ 1 \in Int /\ n \in Int
    OBVIOUS
  <2>2. Cardinality(1..n) = IF 1 > n THEN 0 ELSE n - 1 + 1
    BY <2>1, FS_Interval
  <2> QED
    BY <2>1, <2>2, FS_Interval
<1> HIDE DEF One, Many
<1>3. IsFiniteSet(One \X Many) /\ Cardinality(One \X Many) = Cardinality(One) * Cardinality(Many)
  BY <1>1, <1>2, FS_Product
<1>4. Cardinality(One \X Many) = n
  BY <1>1, <1>2, <1>3
<1> QED
  BY <1>3, <1>4 DEF One, Many

LEMMA CellsFinite ==
  ASSUME NEW S, IsFiniteSet(S), NEW f, \A x \in S : f[x] \in Nat
  PROVE  IsFiniteSet(Cells(f, S)) /\ Cardinality(Cells(f, S)) \in Nat
<1> DEFINE block == [x \in S |-> {x} \X (1..f[x])]
           T == {block[x] : x \in S}
<1>1. block \in Surjection(S, T)
  BY DEF Surjection
<1>2. IsFiniteSet(T)
  BY <1>1, FS_Surjection
<1>3. \A B \in T : IsFiniteSet(B)
  <2> SUFFICES ASSUME NEW x \in S PROVE IsFiniteSet(block[x])
    OBVIOUS
  <2>1. f[x] \in Nat /\ block[x] = {x} \X (1..f[x])
    OBVIOUS
  <2>2. \A k \in Nat : IsFiniteSet({x} \X (1..k))
    BY CellsOf
  <2>3. IsFiniteSet({x} \X (1..f[x]))
    BY <2>1, <2>2
  <2> QED
    BY <2>1, <2>3
<1>4. T = {{x} \X (1..f[x]) : x \in S}
  OBVIOUS
<1>5. IsFiniteSet(UNION T)
  BY <1>2, <1>3, FS_UNION
<1>6. IsFiniteSet(Cells(f, S))
  BY <1>4, <1>5 DEF Cells
<1> QED
  BY <1>6, FS_CardinalityType

LEMMA CellsAdd ==
  ASSUME NEW S, IsFiniteSet(S), NEW x, x \notin S, NEW f, NEW g, g[x] \in Nat,
         \A y \in S : f[y] \in Nat /\ g[y] = f[y]
  PROVE  Cardinality(Cells(g, S \cup {x})) = Cardinality(Cells(f, S)) + g[x]
<1> DEFINE A == Cells(f, S)
           B == {x} \X (1..g[x])
<1>1. Cells(g, S \cup {x}) = A \cup B
  BY DEF Cells
<1>2. A \cap B = {}
  <2> SUFFICES ASSUME NEW c \in A, c \in B PROVE FALSE
    OBVIOUS
  <2>1. PICK y \in S : c \in {y} \X (1..f[y])
    BY DEF Cells
  <2>2. y = x
    BY <2>1
  <2> QED
    BY <2>2
<1>3. IsFiniteSet(A) /\ Cardinality(A) \in Nat
  BY CellsFinite
<1>4. IsFiniteSet(B) /\ Cardinality(B) = g[x]
  BY CellsOf
<1>5. Cardinality(A \cup B) = Cardinality(A) + Cardinality(B) - Cardinality(A \cap B)
  BY <1>3, <1>4, FS_Union
<1>6. Cardinality(A \cap B) = 0
  BY <1>2, FS_EmptySet
<1>7. Cardinality(A \cup B) = Cardinality(A) + g[x]
  <2> HIDE DEF A, B
  <2> QED
    BY <1>3, <1>4, <1>5, <1>6
<1> QED
  BY <1>1, <1>7

-----------------------------------------------------------------------------
(* The recursion, its solution, and that there is no other.                 *)

IsSum(g, f, S) ==
  g = [s \in SUBSET S |-> IF s = {} THEN 0
                          ELSE f[CHOOSE x \in s : TRUE] + g[s \ {CHOOSE x \in s : TRUE}]]

LEMMA SumIsChosen ==
  ASSUME NEW f, NEW S
  PROVE  SumFunctionOnSet(f, S) = (CHOOSE g : IsSum(g, f, S))[S]
BY DEF SumFunctionOnSet, FoldFunctionOnSet, MapThenFoldSet, IsSum

LEMMA SolutionOne ==
  ASSUME NEW S, IsFiniteSet(S), NEW f, \A x \in S : f[x] \in Nat
  PROVE  IsSum([s \in SUBSET S |-> Cardinality(Cells(f, s))], f, S)
<1> DEFINE g == [s \in SUBSET S |-> Cardinality(Cells(f, s))]
           first(s) == CHOOSE x \in s : TRUE
<1> SUFFICES ASSUME NEW s \in SUBSET S
             PROVE  g[s] = IF s = {} THEN 0 ELSE f[first(s)] + g[s \ {first(s)}]
  BY DEF IsSum
<1>1. CASE s = {}
  <2>1. Cells(f, {}) = {}
    BY DEF Cells
  <2> QED
    BY <1>1, <2>1, FS_EmptySet
<1>2. CASE s # {}
  <2> DEFINE x == first(s)
             r == s \ {x}
  <2>1. x \in s /\ x \notin r /\ r \cup {x} = s /\ r \in SUBSET S
    BY <1>2
  <2>2. IsFiniteSet(r) /\ f[x] \in Nat /\ \A y \in r : f[y] \in Nat /\ f[y] = f[y]
    BY <2>1, FS_Subset
  <2> HIDE DEF x, r
  <2>3. Cardinality(Cells(f, r \cup {x})) = Cardinality(Cells(f, r)) + f[x]
    BY <2>1, <2>2, CellsAdd
  <2>4. Cardinality(Cells(f, r)) \in Nat
    BY <2>2, CellsFinite
  <2>5. Cardinality(Cells(f, s)) = Cardinality(Cells(f, r)) + f[x]
    BY <2>1, <2>3
  <2>6. g[s] = f[x] + g[r]
    <3>1. g[s] = Cardinality(Cells(f, s)) /\ g[r] = Cardinality(Cells(f, r))
      BY <2>1
    <3> HIDE DEF g
    <3> QED
      BY <2>2, <2>4, <2>5, <3>1
  <2> QED
    BY <1>2, <2>6 DEF x, r
<1> QED
  BY <1>1, <1>2

LEMMA SolutionUnique ==
  ASSUME NEW S, IsFiniteSet(S), NEW f, NEW g, NEW h, IsSum(g, f, S), IsSum(h, f, S)
  PROVE  g[S] = h[S]
<1> DEFINE R == StrictSubsetOrdering(S)
           T == {s \in SUBSET S : g[s] # h[s]}
<1> SUFFICES ASSUME T # {} PROVE FALSE
  OBVIOUS
<1>1. IsWellFoundedOn(R, SUBSET S)
  BY FS_StrictSubsetOrderingWellFounded, FS_FiniteSubsetsOfFinite
<1>2. PICK s \in T : \A t \in T : ~ (<<t, s>> \in R)
  <2> HIDE DEF R
  <2>1. T \subseteq SUBSET S
    OBVIOUS
  <2> HIDE DEF T
  <2> QED
    BY <1>1, <2>1, WFMin
<1> DEFINE x == CHOOSE y \in s : TRUE
<1>3. /\ g[s] = IF s = {} THEN 0 ELSE f[x] + g[s \ {x}]
      /\ h[s] = IF s = {} THEN 0 ELSE f[x] + h[s \ {x}]
  BY DEF IsSum
<1>4. s # {}
  BY <1>3
<1>5. x \in s
  BY <1>4
<1>6. s \ {x} \in SUBSET S /\ <<s \ {x}, s>> \in R
  BY <1>5 DEF StrictSubsetOrdering
<1>7. g[s \ {x}] = h[s \ {x}]
  BY <1>2, <1>6
<1> QED
  BY <1>3, <1>4, <1>7

(* The sum is the number of cells.                                          *)
LEMMA SumIs ==
  ASSUME NEW S, IsFiniteSet(S), NEW f, \A x \in S : f[x] \in Nat
  PROVE  SumFunctionOnSet(f, S) = Cardinality(Cells(f, S)) /\ SumFunctionOnSet(f, S) \in Nat
<1> DEFINE g == [s \in SUBSET S |-> Cardinality(Cells(f, s))]
           h == CHOOSE k : IsSum(k, f, S)
<1>1. IsSum(g, f, S)
  BY SolutionOne
<1>2. IsSum(h, f, S)
  BY <1>1
<1>3. g[S] = h[S]
  <2> HIDE DEF g, h
  <2> QED
    BY <1>1, <1>2, SolutionUnique
<1> QED
  BY <1>3, SumIsChosen, CellsFinite

-----------------------------------------------------------------------------
(* What the proofs about the modules use.                                   *)

LEMMA SumEmpty ==
  ASSUME NEW f
  PROVE  SumFunctionOnSet(f, {}) = 0
<1>1. Cells(f, {}) = {}
  BY DEF Cells
<1> QED
  BY <1>1, SumIs, FS_EmptySet

LEMMA SumAdd ==
  ASSUME NEW S, IsFiniteSet(S), NEW x, x \notin S, NEW f, NEW g, g[x] \in Nat,
         \A y \in S : f[y] \in Nat /\ g[y] = f[y]
  PROVE  SumFunctionOnSet(g, S \cup {x}) = SumFunctionOnSet(f, S) + g[x]
<1>1. IsFiniteSet(S \cup {x}) /\ \A y \in S \cup {x} : g[y] \in Nat
  BY FS_AddElement
<1>2. SumFunctionOnSet(g, S \cup {x}) = Cardinality(Cells(g, S \cup {x}))
  BY <1>1, SumIs
<1>3. SumFunctionOnSet(f, S) = Cardinality(Cells(f, S))
  BY SumIs
<1> QED
  BY <1>2, <1>3, CellsAdd

LEMMA SumMore ==
  ASSUME NEW S, IsFiniteSet(S), NEW x, x \notin S, NEW f, f[x] \in Nat, \A y \in S : f[y] \in Nat
  PROVE  SumFunctionOnSet(f, S \cup {x}) = SumFunctionOnSet(f, S) + f[x]
<1>1. \A y \in S : f[y] \in Nat /\ f[y] = f[y]
  OBVIOUS
<1> QED
  BY <1>1, SumAdd

LEMMA SumSame ==
  ASSUME NEW S, IsFiniteSet(S), NEW f, NEW g, \A x \in S : f[x] \in Nat /\ g[x] = f[x]
  PROVE  SumFunctionOnSet(g, S) = SumFunctionOnSet(f, S)
<1>1. Cells(g, S) = Cells(f, S)
  BY DEF Cells
<1> QED
  BY <1>1, SumIs

LEMMA SumSubset ==
  ASSUME NEW S, IsFiniteSet(S), NEW f, \A x \in S : f[x] \in Nat, NEW T \in SUBSET S
  PROVE  SumFunctionOnSet(f, T) <= SumFunctionOnSet(f, S)
<1>1. Cells(f, T) \subseteq Cells(f, S)
  BY DEF Cells
<1>2. Cardinality(Cells(f, T)) <= Cardinality(Cells(f, S))
  BY <1>1, CellsFinite, FS_Subset
<1>3. IsFiniteSet(T)
  BY FS_Subset
<1> QED
  BY <1>2, <1>3, SumIs
LEMMA SumUnion ==
  ASSUME NEW S, IsFiniteSet(S), NEW T, IsFiniteSet(T), S \cap T = {},
         NEW f, \A x \in S \cup T : f[x] \in Nat
  PROVE  SumFunctionOnSet(f, S \cup T) = SumFunctionOnSet(f, S) + SumFunctionOnSet(f, T)
<1> DEFINE A == Cells(f, S)
           B == Cells(f, T)
<1>1. Cells(f, S \cup T) = A \cup B
  BY DEF Cells
<1>2. A \cap B = {}
  <2> SUFFICES ASSUME NEW c \in A, c \in B PROVE FALSE
    OBVIOUS
  <2>1. PICK x \in S : c \in {x} \X (1..f[x])
    BY DEF Cells
  <2>2. PICK y \in T : c \in {y} \X (1..f[y])
    BY DEF Cells
  <2>3. x = y
    BY <2>1, <2>2
  <2> QED
    BY <2>3
<1>3. /\ IsFiniteSet(A) /\ Cardinality(A) \in Nat /\ Cardinality(A) = SumFunctionOnSet(f, S)
      /\ IsFiniteSet(B) /\ Cardinality(B) \in Nat /\ Cardinality(B) = SumFunctionOnSet(f, T)
  BY CellsFinite, SumIs
<1>4. IsFiniteSet(S \cup T)
  BY FS_Union
<1>5. SumFunctionOnSet(f, S \cup T) = Cardinality(A \cup B)
  BY <1>1, <1>4, SumIs
<1>6. Cardinality(A \cup B) = Cardinality(A) + Cardinality(B)
  <2> HIDE DEF A, B
  <2>1. Cardinality(A \cup B) = Cardinality(A) + Cardinality(B) - Cardinality(A \cap B)
    BY <1>3, FS_Union
  <2>2. Cardinality(A \cap B) = 0
    BY <1>2, FS_EmptySet
  <2> QED
    BY <1>3, <2>1, <2>2
<1> QED
  BY <1>3, <1>5, <1>6

LEMMA SumConstant ==
  ASSUME NEW S, IsFiniteSet(S), NEW k \in Nat, NEW f, \A x \in S : f[x] = k
  PROVE  SumFunctionOnSet(f, S) = k * Cardinality(S) /\ Cardinality(S) \in Nat
<1> DEFINE Many == 1..k
<1>1. Cells(f, S) = S \X Many
  BY DEF Cells
<1>2. IsFiniteSet(Many) /\ Cardinality(Many) = k
  <2>1. 1 \in Int /\ k \in Int
    OBVIOUS
  <2>2. Cardinality(1..k) = IF 1 > k THEN 0 ELSE k - 1 + 1
    BY <2>1, FS_Interval
  <2> QED
    BY <2>1, <2>2, FS_Interval
<1> HIDE DEF Many
<1>3. Cardinality(S \X Many) = Cardinality(S) * Cardinality(Many) /\ Cardinality(S) \in Nat
  BY <1>2, FS_Product, FS_CardinalityType
<1>4. SumFunctionOnSet(f, S) = Cardinality(Cells(f, S))
  BY SumIs
<1> QED
  BY <1>1, <1>2, <1>3, <1>4

(* Renaming the elements does not change the sum.                           *)
LEMMA SumBijection ==
  ASSUME NEW S, IsFiniteSet(S), NEW T, NEW b \in Bijection(S, T), NEW f, NEW g,
         \A x \in S : f[x] \in Nat /\ g[b[x]] = f[x]
  PROVE  SumFunctionOnSet(g, T) = SumFunctionOnSet(f, S)
<1> DEFINE X == Cells(f, S)
           Y == Cells(g, T)
           m == [c \in X |-> <<b[c[1]], c[2]>>]
<1>0. /\ \A x \in S : b[x] \in T
      /\ \A x, y \in S : b[x] = b[y] => x = y
      /\ \A t \in T : \E x \in S : b[x] = t
  BY DEF Bijection, Injection, Surjection, IsInjective
<1>1. m \in Bijection(X, Y)
  <2>1. \A c \in X : c[1] \in S /\ c[2] \in 1..f[c[1]] /\ c = <<c[1], c[2]>>
    BY DEF Cells
  <2>2. \A c \in X : m[c] \in Y
    <3> SUFFICES ASSUME NEW c \in X PROVE m[c] \in Y
      OBVIOUS
    <3>1. b[c[1]] \in T /\ c[2] \in 1..g[b[c[1]]]
      BY <1>0, <2>1
    <3>2. <<b[c[1]], c[2]>> \in {b[c[1]]} \X (1..g[b[c[1]]])
      BY <3>1
    <3> QED
      BY <3>1, <3>2 DEF Cells
  <2>3. \A c \in X, d \in X : m[c] = m[d] => c = d
    <3> SUFFICES ASSUME NEW c \in X, NEW d \in X, m[c] = m[d] PROVE c = d
      OBVIOUS
    <3>1. b[c[1]] = b[d[1]] /\ c[2] = d[2]
      OBVIOUS
    <3>2. c[1] = d[1]
      BY <1>0, <2>1, <3>1
    <3> QED
      BY <2>1, <3>1, <3>2
  <2>4. \A d \in Y : \E c \in X : m[c] = d
    <3> SUFFICES ASSUME NEW d \in Y PROVE \E c \in X : m[c] = d
      OBVIOUS
    <3>1. PICK t \in T : d \in {t} \X (1..g[t])
      BY DEF Cells
    <3>2. PICK x \in S : b[x] = t
      BY <1>0
    <3>3. d[2] \in 1..f[x] /\ d = <<b[x], d[2]>>
      BY <3>1, <3>2
    <3>4. <<x, d[2]>> \in {x} \X (1..f[x])
      BY <3>3
    <3>5. <<x, d[2]>> \in X
      BY <3>4 DEF Cells
    <3>6. m[<<x, d[2]>>] = <<b[x], d[2]>>
      BY <3>5
    <3> QED
      BY <3>3, <3>5, <3>6
  <2> HIDE DEF m, X, Y
  <2>5. m \in [X -> Y]
    <3> USE DEF m
    <3> QED
      BY <2>2
  <2> QED
    BY <2>3, <2>4, <2>5 DEF Bijection, Injection, Surjection, IsInjective
<1>2. IsFiniteSet(T)
  BY FS_Bijection DEF ExistsBijection
<1>3. \A t \in T : g[t] \in Nat
  BY <1>0
<1>4. SumFunctionOnSet(f, S) = Cardinality(X) /\ IsFiniteSet(X)
  BY SumIs, CellsFinite
<1>5. SumFunctionOnSet(g, T) = Cardinality(Y)
  BY <1>2, <1>3, SumIs
<1>6. Cardinality(X) = Cardinality(Y)
  <2> HIDE DEF m, X, Y
  <2> QED
    BY <1>1, <1>4, FS_Bijection DEF ExistsBijection
<1> QED
  BY <1>4, <1>5, <1>6

(* A sequence that loses its head: the sum over the rest is the sum over    *)
(* all, less the head.                                                      *)
LEMMA SumTail ==
  ASSUME NEW n \in Nat, NEW f, NEW g, \A j \in 1..(n + 1) : f[j] \in Nat,
         \A j \in 1..n : g[j] = f[j + 1]
  PROVE  SumFunctionOnSet(f, 1..(n + 1)) = f[1] + SumFunctionOnSet(g, 1..n)
<1> DEFINE S == 1..n
           T == 2..(n + 1)
           b == [j \in S |-> j + 1]
<1>1. b \in Bijection(S, T)
  <2>1. \A t \in T : t - 1 \in S /\ t - 1 + 1 = t
    OBVIOUS
  <2>2. \A t \in T : \E j \in S : b[j] = t
    BY <2>1
  <2>3. b \in [S -> T]
    OBVIOUS
  <2>4. \A j, k \in S : b[j] = b[k] => j = k
    OBVIOUS
  <2> HIDE DEF b, S, T
  <2> QED
    BY <2>2, <2>3, <2>4 DEF Bijection, Injection, Surjection, IsInjective
<1>2. IsFiniteSet(S) /\ IsFiniteSet(T)
  BY FS_Interval
<1>3. \A j \in S : g[j] \in Nat /\ f[b[j]] = g[j]
  OBVIOUS
<1>4. f[1] \in Nat /\ 1 \notin T /\ \A j \in T : f[j] \in Nat
  OBVIOUS
<1>5. 1..(n + 1) = T \cup {1}
  OBVIOUS
<1> HIDE DEF T, b
<1>6. SumFunctionOnSet(f, T) = SumFunctionOnSet(g, S)
  <2> HIDE DEF S
  <2> QED
    BY <1>1, <1>2, <1>3, SumBijection
<1>7. SumFunctionOnSet(f, T \cup {1}) = SumFunctionOnSet(f, T) + f[1]
  BY <1>2, <1>4, SumMore
<1>8. SumFunctionOnSet(f, T) \in Nat
  BY <1>2, <1>4, SumIs
<1>9. SumFunctionOnSet(f, 1..(n + 1)) = SumFunctionOnSet(f, T) + f[1]
  BY <1>5, <1>7
<1>10. SumFunctionOnSet(f, 1..(n + 1)) = SumFunctionOnSet(g, 1..n) + f[1]
  BY <1>6, <1>9
<1>11. SumFunctionOnSet(g, 1..n) \in Nat
  BY <1>6, <1>8
<1> HIDE DEF S
<1> QED
  BY <1>4, <1>10, <1>11
=============================================================================
