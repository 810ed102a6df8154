---------------------------- MODULE MoePipeline_proofs ----------------------------
(***************************************************************************)
(* The mixture of experts, for any number of tokens, routes per token,     *)
(* experts and threads.  The sorts: no two routes are given one row, and   *)
(* a GEMM is launched on a permutation; the invariant follows the counts   *)
(* of an expert from the segment that clears them to the cursor they       *)
(* become, and a table of places, one for every route that was given a     *)
(* row.  The products: no cell is written twice; a tile is found from its  *)
(* number, and the invariant says which tiles are still to be written.     *)
(***************************************************************************)
EXTENDS MoePipeline, FiniteSetTheorems, WellFoundedInduction, TLAPS

-----------------------------------------------------------------------------
(* Induction over the natural numbers, by sets. *)

LEMMA WellOrder ==
  ASSUME NEW S, S \subseteq Nat, S # {}
  PROVE  \E m \in S : \A n \in S : m <= n
<1>1. PICK x \in S : \A y \in S : ~(<<y, x>> \in OpToRel(<, Nat))
  BY NatLessThanWellFounded, WFMin
<1>2. \A y \in S : y < x => <<y, x>> \in OpToRel(<, Nat)
  BY DEF OpToRel
<1>3. \A y \in S : ~(y < x) BY <1>1, <1>2, Zenon
<1>4. S \subseteq Nat OBVIOUS
<1> QED BY <1>3, <1>4

LEMMA SetInduction ==
  ASSUME NEW S, 0 \in S, \A n \in Nat : n \in S => n + 1 \in S
  PROVE  Nat \subseteq S
<1> SUFFICES ASSUME NEW k \in Nat, k \notin S PROVE FALSE OBVIOUS
<1> DEFINE B == {n \in Nat : n \notin S}
<1>1. PICK m \in B : \A n \in B : m <= n
  <2> B \subseteq Nat /\ B # {} OBVIOUS
  <2> HIDE DEF B
  <2> QED BY WellOrder
<1>2. m - 1 \in Nat /\ m - 1 \notin B BY <1>1
<1> QED BY <1>1, <1>2

(* Division with remainder. *)

LEMMA TimesMono ==
  ASSUME NEW m \in Nat, NEW p \in Nat, NEW q \in Nat, p <= q
  PROVE  m * p <= m * q /\ m * p \in Nat
OBVIOUS

LEMMA DivMod ==
  ASSUME NEW n \in Nat, NEW m \in Nat \ {0}
  PROVE  /\ n \div m \in Nat
         /\ n % m \in 0 .. m - 1
         /\ n = m * (n \div m) + (n % m)
OBVIOUS

LEMMA DivModUnique ==
  ASSUME NEW m \in Nat \ {0}, NEW q \in Nat, NEW r \in 0 .. m - 1
  PROVE  (m * q + r) \div m = q /\ (m * q + r) % m = r
<1> DEFINE n == m * q + r  p == n \div m  s == n % m
<1>0. m * q \in Nat /\ n \in Nat
  BY TimesMono
<1>1. p \in Nat /\ s \in 0 .. m - 1 /\ n = m * p + s
  <2> HIDE DEF n
  <2> QED BY <1>0, DivMod
<1>2. ~(p < q)
  <2> SUFFICES ASSUME p + 1 <= q PROVE FALSE BY <1>1
  <2>1. m * (p + 1) <= m * q BY <1>1, TimesMono
  <2>2. m * (p + 1) = m * p + m BY <1>1
  <2> QED BY <1>0, <1>1, <2>1, <2>2
<1>3. ~(q < p)
  <2> SUFFICES ASSUME q + 1 <= p PROVE FALSE BY <1>1
  <2>1. m * (q + 1) <= m * p BY <1>1, TimesMono
  <2>2. m * (q + 1) = m * q + m OBVIOUS
  <2> QED BY <1>0, <1>1, <2>1, <2>2
<1>4. p = q BY <1>1, <1>2, <1>3
<1> QED BY <1>0, <1>1, <1>4

LEMMA CeilDivBounds ==
  ASSUME NEW n \in Nat, NEW m \in Nat \ {0}
  PROVE  /\ CeilDiv(n, m) \in Nat
         /\ n <= CeilDiv(n, m) * m
         /\ CeilDiv(n, m) * m <= n + m - 1
         /\ CeilDiv(n, m) * m \in Nat
<1> DEFINE k == n + m - 1  q == k \div m
<1>1. k \in Nat OBVIOUS
<1>2. q \in Nat /\ k % m \in 0 .. m - 1 /\ k = m * q + (k % m)
  <2> HIDE DEF k
  <2> QED BY <1>1, DivMod
<1>3. m * q = q * m /\ m * q \in Nat BY <1>2, TimesMono
<1>4. CeilDiv(n, m) = q BY DEF CeilDiv
<1> QED BY <1>2, <1>3, <1>4

LEMMA CeilDivAbove ==
  ASSUME NEW n \in Nat, NEW m \in Nat \ {0}, NEW i \in Nat, m * i < n
  PROVE  i < CeilDiv(n, m)
<1> DEFINE q == CeilDiv(n, m)
<1>1. q \in Nat /\ n <= q * m BY CeilDivBounds
<1> HIDE DEF q
<1> SUFFICES ASSUME q <= i PROVE FALSE BY <1>1 DEF q
<1>2. m * q <= m * i BY <1>1, TimesMono
<1> QED BY <1>1, <1>2

LEMMA PadBounds ==
  ASSUME NEW n \in Nat
  PROVE  Pad(n) \in Nat /\ n <= Pad(n) /\ Pad(n) <= n + Alignment - 1
BY PermuteAssumption, CeilDivBounds DEF Pad

-----------------------------------------------------------------------------
(* Sums over finite sets. *)

Folding(sum, S, g) ==
  sum = [s \in SUBSET S |-> IF s = {} THEN 0
                            ELSE g[CHOOSE x \in s : TRUE] + sum[s \ {CHOOSE x \in s : TRUE}]]

LEMMA SmallerSet ==
  ASSUME NEW s, IsFiniteSet(s), s # {}, NEW n \in Nat, Cardinality(s) <= n + 1
  PROVE  /\ (CHOOSE x \in s : TRUE) \in s
         /\ \A x \in s : IsFiniteSet(s \ {x}) /\ Cardinality(s \ {x}) <= n
<1>1. (CHOOSE x \in s : TRUE) \in s
  OBVIOUS
<1>2. ASSUME NEW x \in s PROVE IsFiniteSet(s \ {x}) /\ Cardinality(s \ {x}) = Cardinality(s) - 1
  BY FS_RemoveElement
<1>3. Cardinality(s) \in Nat
  BY FS_CardinalityType
<1> QED BY <1>1, <1>2, <1>3

LEMMA FoldingExists ==
  ASSUME NEW S, IsFiniteSet(S), NEW g, \A x \in S : g[x] \in Int
  PROVE  \E sum \in [SUBSET S -> Int] : Folding(sum, S, g)
<1> DEFINE Upto(n) == {s \in SUBSET S : Cardinality(s) <= n}
           Next1(sum, s) == IF s = {} THEN 0
                            ELSE g[CHOOSE x \in s : TRUE] + sum[s \ {CHOOSE x \in s : TRUE}]
           Good(n) == \E sum \in [SUBSET S -> Int] : \A s \in Upto(n) : sum[s] = Next1(sum, s)
           N == {n \in Nat : Good(n)}
<1>f. \A s \in SUBSET S : IsFiniteSet(s) /\ Cardinality(s) \in Nat
  BY FS_Subset, FS_CardinalityType
<1>1. 0 \in N
  <2> DEFINE zero == [s \in SUBSET S |-> 0]
  <2>1. zero \in [SUBSET S -> Int] OBVIOUS
  <2>2. \A s \in Upto(0) : s = {} BY <1>f, FS_EmptySet
  <2>3. \A s \in Upto(0) : zero[s] = Next1(zero, s) BY <2>2
  <2> QED BY <2>1, <2>3
<1>2. ASSUME NEW n \in Nat, n \in N PROVE n + 1 \in N
  <2>1. PICK sum \in [SUBSET S -> Int] : \A s \in Upto(n) : sum[s] = Next1(sum, s)
    BY <1>2
  <2> DEFINE more == [s \in SUBSET S |-> Next1(sum, s)]
  <2>2. ASSUME NEW s \in SUBSET S, s # {}
        PROVE /\ (CHOOSE x \in s : TRUE) \in S
              /\ s \ {CHOOSE x \in s : TRUE} \in SUBSET S
              /\ \A m \in Nat : s \in Upto(m + 1) => s \ {CHOOSE x \in s : TRUE} \in Upto(m)
    <3>1. (CHOOSE x \in s : TRUE) \in s BY <2>2
    <3>2. ASSUME NEW m \in Nat, s \in Upto(m + 1) PROVE Cardinality(s \ {CHOOSE x \in s : TRUE}) <= m
      BY <3>1, <3>2, <2>2, <1>f, SmallerSet
    <3> QED BY <3>1, <3>2
  <2>3. more \in [SUBSET S -> Int]
    BY <2>2
  <2>4. ASSUME NEW s \in Upto(n + 1) PROVE more[s] = Next1(more, s)
    <3>1. CASE s = {} BY <3>1
    <3>2. CASE s # {}
      <4> DEFINE r == s \ {CHOOSE x \in s : TRUE}
      <4>1. r \in Upto(n) BY <2>2, <3>2
      <4>2. more[r] = Next1(sum, r) BY <4>1
      <4>3. sum[r] = Next1(sum, r) BY <4>1, <2>1
      <4>4. more[s] = Next1(sum, s) OBVIOUS
      <4> QED BY <4>2, <4>3, <4>4, <3>2
    <3> QED BY <3>1, <3>2
  <2>5. Good(n + 1)
    <3> HIDE DEF more, Next1, Upto
    <3> QED BY <2>3, <2>4
  <2> HIDE DEF Good
  <2> QED BY <2>5
<1>3. Nat \subseteq N
  <2> HIDE DEF N
  <2> QED BY <1>1, <1>2, SetInduction
<1>4. PICK k \in Nat : k = Cardinality(S) BY FS_CardinalityType
<1>5. PICK sum \in [SUBSET S -> Int] : \A s \in Upto(k) : sum[s] = Next1(sum, s)
  BY <1>3, <1>4
<1>6. \A s \in SUBSET S : s \in Upto(k)
  BY <1>4, FS_Subset
<1>7. sum = [s \in SUBSET S |-> Next1(sum, s)]
  BY <1>5, <1>6
<1>8. Folding(sum, S, g) BY <1>7 DEF Folding
<1> QED BY <1>8

LEMMA FoldingValue ==
  ASSUME NEW S, NEW g, NEW sum, Folding(sum, S, g), NEW s \in SUBSET S
  PROVE  sum[s] = IF s = {} THEN 0
                  ELSE g[CHOOSE x \in s : TRUE] + sum[s \ {CHOOSE x \in s : TRUE}]
<1> DEFINE F == [r \in SUBSET S |-> IF r = {} THEN 0
                            ELSE g[CHOOSE x \in r : TRUE] + sum[r \ {CHOOSE x \in r : TRUE}]]
<1>1. sum = F BY DEF Folding
<1>2. F[s] = IF s = {} THEN 0
                  ELSE g[CHOOSE x \in s : TRUE] + sum[s \ {CHOOSE x \in s : TRUE}]
  OBVIOUS
<1> HIDE DEF F
<1> QED BY <1>1, <1>2

LEMMA FoldingEmpty ==
  ASSUME NEW S, NEW g, NEW sum, Folding(sum, S, g)
  PROVE  sum[{}] = 0
<1>1. {} \in SUBSET S OBVIOUS
<1> QED BY <1>1, FoldingValue

LEMMA FoldingFirst ==
  ASSUME NEW S, NEW g, NEW sum, Folding(sum, S, g), NEW s \in SUBSET S, s # {}
  PROVE  sum[s] = g[CHOOSE x \in s : TRUE] + sum[s \ {CHOOSE x \in s : TRUE}]
<1>1. sum[s] = IF s = {} THEN 0 ELSE g[CHOOSE x \in s : TRUE] + sum[s \ {CHOOSE x \in s : TRUE}]
  BY FoldingValue
<1> QED BY <1>1

\* Two foldings of the same terms agree where both are defined.
LEMMA FoldingAgree ==
  ASSUME NEW S, NEW T, IsFiniteSet(S), NEW g,
         NEW sum, Folding(sum, S, g), NEW tum, Folding(tum, T, g), NEW s, s \subseteq S, s \subseteq T
  PROVE  sum[s] = tum[s]
<1> DEFINE N == {n \in Nat : \A r \in SUBSET (S \cap T) : Cardinality(r) <= n => sum[r] = tum[r]}
<1>f. \A r \in SUBSET (S \cap T) : IsFiniteSet(r) /\ Cardinality(r) \in Nat
  BY FS_Subset, FS_CardinalityType
<1>1. 0 \in N
  <2>1. \A r \in SUBSET (S \cap T) : Cardinality(r) <= 0 => r = {} BY <1>f, FS_EmptySet
  <2>2. sum[{}] = 0 /\ tum[{}] = 0 BY FoldingEmpty
  <2> QED BY <2>1, <2>2
<1>2. ASSUME NEW n \in Nat, n \in N PROVE n + 1 \in N
  <2> SUFFICES ASSUME NEW r \in SUBSET (S \cap T), Cardinality(r) <= n + 1 PROVE sum[r] = tum[r]
    OBVIOUS
  <2>1. CASE r = {}
    <3>2. sum[{}] = 0 /\ tum[{}] = 0 BY FoldingEmpty
    <3> QED BY <2>1, <3>2
  <2>2. CASE r # {}
    <3>1. PICK x : x = (CHOOSE y \in r : TRUE) OBVIOUS
    <3>2. x \in r /\ Cardinality(r \ {x}) <= n
      BY <2>2, <3>1, <1>f, SmallerSet
    <3>3. sum[r \ {x}] = tum[r \ {x}]
      <4>1. r \ {x} \in SUBSET (S \cap T) OBVIOUS
      <4> QED BY <1>2, <3>2, <4>1
    <3>4. sum[r] = g[x] + sum[r \ {x}]
      <4>1. r \in SUBSET S OBVIOUS
      <4>2. sum[r] = g[CHOOSE y \in r : TRUE] + sum[r \ {CHOOSE y \in r : TRUE}]
        BY <4>1, <2>2, FoldingFirst
      <4> QED BY <4>2, <3>1
    <3>5. tum[r] = g[x] + tum[r \ {x}]
      <4>1. r \in SUBSET T OBVIOUS
      <4>2. tum[r] = g[CHOOSE y \in r : TRUE] + tum[r \ {CHOOSE y \in r : TRUE}]
        BY <4>1, <2>2, FoldingFirst
      <4> QED BY <4>2, <3>1
    <3> QED BY <3>3, <3>4, <3>5
  <2> QED BY <2>1, <2>2
<1>3. Nat \subseteq N
  <2> HIDE DEF N
  <2> QED BY <1>1, <1>2, SetInduction
<1>4. s \in SUBSET (S \cap T) OBVIOUS
<1>5. Cardinality(s) \in N BY <1>f, <1>3, <1>4
<1> QED BY <1>4, <1>5, <1>f

\* The order in which the terms are added does not matter.
Additive(sum, S, g) ==
  \A s \in SUBSET S : sum[s] \in Int /\ \A x \in s : sum[s] = g[x] + sum[s \ {x}]

LEMMA FoldingAny ==
  ASSUME NEW S, IsFiniteSet(S), NEW g, \A x \in S : g[x] \in Int,
         NEW sum, Folding(sum, S, g)
  PROVE  Additive(sum, S, g)
<1> DEFINE P(r) == sum[r] \in Int /\ \A x \in r : sum[r] = g[x] + sum[r \ {x}]
           N == {n \in Nat : \A r \in SUBSET S : Cardinality(r) <= n => P(r)}
<1>f. \A r \in SUBSET S : IsFiniteSet(r) /\ Cardinality(r) \in Nat
  BY FS_Subset, FS_CardinalityType
<1>0. P({})
  BY FoldingEmpty
<1>1. 0 \in N
  <2>1. \A r \in SUBSET S : Cardinality(r) <= 0 => r = {} BY <1>f, FS_EmptySet
  <2> HIDE DEF P
  <2> QED BY <2>1, <1>0
<1>2. ASSUME NEW n \in Nat, n \in N PROVE n + 1 \in N
  <2> SUFFICES ASSUME NEW r \in SUBSET S, Cardinality(r) <= n + 1, r # {} PROVE P(r)
    <3> HIDE DEF P
    <3> QED BY <1>0
  <2>1. PICK y : y = (CHOOSE x \in r : TRUE) OBVIOUS
  <2>2. y \in r /\ Cardinality(r \ {y}) <= n
    BY <2>1, <1>f, SmallerSet
  <2>3. sum[r] = g[y] + sum[r \ {y}]
    <3>1. sum[r] = g[CHOOSE x \in r : TRUE] + sum[r \ {CHOOSE x \in r : TRUE}]
      BY FoldingFirst
    <3> QED BY <3>1, <2>1
  <2>4. P(r \ {y})
    <3>1. r \ {y} \in SUBSET S OBVIOUS
    <3> HIDE DEF P
    <3> QED BY <1>2, <2>2, <3>1
  <2>5. sum[r] \in Int
    BY <2>2, <2>3, <2>4
  <2>6. ASSUME NEW x \in r, x # y PROVE sum[r] = g[x] + sum[r \ {x}]
    <3>1. sum[r \ {y}] = g[x] + sum[(r \ {y}) \ {x}]
      BY <2>4, <2>6
    <3>2. Cardinality(r \ {x}) <= n
      BY <1>f, SmallerSet
    <3>3. P(r \ {x})
      <4>1. r \ {x} \in SUBSET S OBVIOUS
      <4> HIDE DEF P
      <4> QED BY <1>2, <3>2, <4>1
    <3>4. sum[r \ {x}] = g[y] + sum[(r \ {x}) \ {y}]
      BY <3>3, <2>2, <2>6
    <3>5. (r \ {x}) \ {y} = (r \ {y}) \ {x} OBVIOUS
    <3>6. P((r \ {x}) \ {y})
      <4>1. (r \ {x}) \ {y} \in SUBSET S OBVIOUS
      <4>2. Cardinality((r \ {x}) \ {y}) <= n
        <5>1. IsFiniteSet(r \ {x}) /\ Cardinality(r \ {x}) \in Nat
          BY <1>f
        <5>2. Cardinality((r \ {x}) \ {y}) = Cardinality(r \ {x}) - 1
          BY <5>1, <2>2, <2>6, FS_RemoveElement
        <5> QED BY <5>1, <5>2, <3>2
      <4> HIDE DEF P
      <4> QED BY <1>2, <4>1, <4>2
    <3>7. g[x] \in Int /\ g[y] \in Int BY <2>2
    <3>8. PICK z \in Int : z = sum[(r \ {x}) \ {y}] BY <3>6
    <3>9. sum[r] = g[y] + (g[x] + z) BY <2>3, <3>1, <3>5, <3>8
    <3>10. sum[r \ {x}] = g[y] + z BY <3>4, <3>8
    <3> QED BY <3>7, <3>9, <3>10
  <2> QED BY <2>3, <2>5, <2>6
<1>3. Nat \subseteq N
  <2> HIDE DEF N
  <2> QED BY <1>1, <1>2, SetInduction
<1>4. ASSUME NEW s \in SUBSET S PROVE P(s)
  <2>1. Cardinality(s) \in N BY <1>f, <1>3
  <2> HIDE DEF P
  <2> QED BY <2>1, <1>f
<1> QED BY <1>4 DEF Additive

LEMMA RegionFolding ==
  ASSUME NEW S, IsFiniteSet(S), NEW g, \A x \in S : g[x] \in Int /\ g[x] = RegionSize(x)
  PROVE  \E sum : Folding(sum, S, g) /\ MapThenSumSet(RegionSize, S) = sum[S]
<1> DEFINE Eq(sum) == sum = [s \in SUBSET S |->
                 IF s = {} THEN 0
                 ELSE RegionSize(CHOOSE x \in s : TRUE) + sum[s \ {CHOOSE x \in s : TRUE}]]
           it == CHOOSE sum : Eq(sum)
<1>1. ASSUME NEW sum PROVE Eq(sum) <=> Folding(sum, S, g)
  <2>1. \A s \in SUBSET S : s # {} => (CHOOSE x \in s : TRUE) \in S OBVIOUS
  <2>2. \A s \in SUBSET S : s # {} => g[CHOOSE x \in s : TRUE] = RegionSize(CHOOSE x \in s : TRUE)
    BY <2>1
  <2>3. [s \in SUBSET S |->
                 IF s = {} THEN 0
                 ELSE RegionSize(CHOOSE x \in s : TRUE) + sum[s \ {CHOOSE x \in s : TRUE}]]
        = [s \in SUBSET S |->
                 IF s = {} THEN 0
                 ELSE g[CHOOSE x \in s : TRUE] + sum[s \ {CHOOSE x \in s : TRUE}]]
    BY <2>2
  <2> QED BY <2>3 DEF Folding
<1>2. \E sum : Folding(sum, S, g) BY FoldingExists
<1>3. Eq(it)
  <2> HIDE DEF Eq
  <2> QED BY <1>1, <1>2
<1>4. MapThenSumSet(RegionSize, S) = it[S]
  BY DEF MapThenSumSet, MapThenFoldSet
<1> HIDE DEF it
<1> QED BY <1>1, <1>3, <1>4

ColumnOver(S, h, e) == MapThenSumSet(LAMBDA b : h[b][e], S)

LEMMA ColumnFolding ==
  ASSUME NEW S, IsFiniteSet(S), NEW h, NEW e, NEW g, \A x \in S : g[x] \in Int /\ g[x] = h[x][e]
  PROVE  \E sum : Folding(sum, S, g) /\ ColumnOver(S, h, e) = sum[S]
<1> DEFINE Eq(sum) == sum = [s \in SUBSET S |->
                 IF s = {} THEN 0
                 ELSE h[CHOOSE x \in s : TRUE][e] + sum[s \ {CHOOSE x \in s : TRUE}]]
           it == CHOOSE sum : Eq(sum)
<1>1. ASSUME NEW sum PROVE Eq(sum) <=> Folding(sum, S, g)
  <2>1. \A s \in SUBSET S : s # {} => (CHOOSE x \in s : TRUE) \in S OBVIOUS
  <2>2. \A s \in SUBSET S : s # {} => g[CHOOSE x \in s : TRUE] = h[CHOOSE x \in s : TRUE][e]
    BY <2>1
  <2>3. [s \in SUBSET S |->
                 IF s = {} THEN 0
                 ELSE h[CHOOSE x \in s : TRUE][e] + sum[s \ {CHOOSE x \in s : TRUE}]]
        = [s \in SUBSET S |->
                 IF s = {} THEN 0
                 ELSE g[CHOOSE x \in s : TRUE] + sum[s \ {CHOOSE x \in s : TRUE}]]
    BY <2>2
  <2> QED BY <2>3 DEF Folding
<1>2. \E sum : Folding(sum, S, g) BY FoldingExists
<1>3. Eq(it)
  <2> HIDE DEF Eq
  <2> QED BY <1>1, <1>2
<1>4. ColumnOver(S, h, e) = it[S]
  BY DEF ColumnOver, MapThenSumSet, MapThenFoldSet
<1> HIDE DEF it
<1> QED BY <1>1, <1>3, <1>4

LEMMA FirstNumbers ==
  ASSUME NEW n \in Nat
  PROVE  /\ IsFiniteSet(0 .. n - 1) /\ n \notin 0 .. n - 1
         /\ 0 .. (n + 1) - 1 = 0 .. n /\ IsFiniteSet(0 .. n) /\ (0 .. n) \ {n} = 0 .. n - 1
         /\ 0 .. 0 - 1 = {}
<1>1. IsFiniteSet(0 .. n - 1) /\ IsFiniteSet(0 .. n)
  BY FS_Interval
<1> QED BY <1>1

\* The first rows of the experts: no row for nothing, and one region after the other.
LEMMA RegionStartStep ==
  ASSUME NEW n \in Nat, \A e \in 0 .. n : RegionSize(e) \in Int
  PROVE  /\ RegionStart(0) = 0
         /\ RegionStart(n) \in Int
         /\ RegionStart(n + 1) = RegionStart(n) + RegionSize(n)
<1> DEFINE g == [e \in 0 .. n |-> RegionSize(e)]
<1>g. \A e \in 0 .. n : g[e] \in Int /\ g[e] = RegionSize(e)
  OBVIOUS
<1> HIDE DEF g
<1>1. RegionStart(0) = 0
  <2>1. IsFiniteSet({}) BY FS_EmptySet
  <2>2. \E sum : Folding(sum, {}, g) /\ MapThenSumSet(RegionSize, {}) = sum[{}]
    BY <2>1, RegionFolding
  <2>3. RegionStart(0) = MapThenSumSet(RegionSize, {})
    <3>1. 0 .. 0 - 1 = {} OBVIOUS
    <3>2. RegionStart(0) = MapThenSumSet(RegionSize, 0 .. 0 - 1) BY DEF RegionStart
    <3> HIDE DEF MapThenSumSet
    <3> QED BY <3>1, <3>2, Zenon
  <2> QED BY <2>2, <2>3, FoldingEmpty
<1>2. PICK sum : Folding(sum, 0 .. n - 1, g) /\ RegionStart(n) = sum[0 .. n - 1]
  <2>1. \A e \in 0 .. n - 1 : g[e] \in Int /\ g[e] = RegionSize(e) BY <1>g
  <2>2. \E sum : Folding(sum, 0 .. n - 1, g) /\ MapThenSumSet(RegionSize, 0 .. n - 1) = sum[0 .. n - 1]
    BY <2>1, FirstNumbers, RegionFolding
  <2> QED BY <2>2 DEF RegionStart
<1>3. PICK tum : Folding(tum, 0 .. n, g) /\ RegionStart(n + 1) = tum[0 .. n]
  <2>2. \E tum : Folding(tum, 0 .. n, g) /\ MapThenSumSet(RegionSize, 0 .. n) = tum[0 .. n]
    BY <1>g, FirstNumbers, RegionFolding
  <2>3. RegionStart(n + 1) = MapThenSumSet(RegionSize, 0 .. n)
    <3>1. 0 .. (n + 1) - 1 = 0 .. n OBVIOUS
    <3>2. RegionStart(n + 1) = MapThenSumSet(RegionSize, 0 .. (n + 1) - 1) BY DEF RegionStart
    <3> QED BY <3>1, <3>2, Zenon
  <2> QED BY <2>2, <2>3
<1>4. sum[0 .. n - 1] = tum[0 .. n - 1]
  <2>1. 0 .. n - 1 \subseteq 0 .. n OBVIOUS
  <2> QED BY <1>2, <1>3, <2>1, FirstNumbers, FoldingAgree
<1>5. tum[0 .. n] \in Int /\ tum[0 .. n] = g[n] + tum[0 .. n - 1] /\ tum[0 .. n - 1] \in Int
  <2>1. \A e \in 0 .. n : g[e] \in Int BY <1>g
  <2>2. 0 .. n \in SUBSET (0 .. n) /\ 0 .. n - 1 \in SUBSET (0 .. n) OBVIOUS
  <2>3. IsFiniteSet(0 .. n) /\ Folding(tum, 0 .. n, g) BY <1>3, FirstNumbers
  <2>4. n \in 0 .. n /\ (0 .. n) \ {n} = 0 .. n - 1 OBVIOUS
  <2>5. Additive(tum, 0 .. n, g) BY <2>1, <2>3, FoldingAny
  <2>6. tum[0 .. n] \in Int /\ \A x \in 0 .. n : tum[0 .. n] = g[x] + tum[(0 .. n) \ {x}]
    BY <2>2, <2>5 DEF Additive
  <2>7. tum[0 .. n - 1] \in Int BY <2>2, <2>5 DEF Additive
  <2>8. tum[0 .. n] = g[n] + tum[(0 .. n) \ {n}] BY <2>4, <2>6
  <2> QED BY <2>4, <2>6, <2>7, <2>8, Zenon
<1>6. g[n] = RegionSize(n) /\ g[n] \in Int BY <1>g
<1> QED BY <1>1, <1>2, <1>3, <1>4, <1>5, <1>6

\* The sum of a column of a table, over its first rows.
ColumnSum(n, h, e) == ColumnOver(0 .. n - 1, h, e)

LEMMA ColumnSumStep ==
  ASSUME NEW n \in Nat, NEW h, NEW e, \A b \in 0 .. n : h[b][e] \in Int
  PROVE  /\ ColumnSum(0, h, e) = 0
         /\ ColumnSum(n, h, e) \in Int
         /\ ColumnSum(n + 1, h, e) = ColumnSum(n, h, e) + h[n][e]
<1> DEFINE g == [b \in 0 .. n |-> h[b][e]]
<1>g. \A b \in 0 .. n : g[b] \in Int /\ g[b] = h[b][e]
  OBVIOUS
<1> HIDE DEF g
<1>1. ColumnSum(0, h, e) = 0
  <2>1. IsFiniteSet({}) BY FS_EmptySet
  <2>2. \E sum : Folding(sum, {}, g) /\ ColumnOver({}, h, e) = sum[{}]
    BY <2>1, ColumnFolding
  <2>3. ColumnSum(0, h, e) = ColumnOver({}, h, e)
    <3>1. 0 .. 0 - 1 = {} OBVIOUS
    <3>2. ColumnSum(0, h, e) = ColumnOver(0 .. 0 - 1, h, e) BY DEF ColumnSum
    <3> HIDE DEF MapThenSumSet
    <3> QED BY <3>1, <3>2, Zenon
  <2> QED BY <2>2, <2>3, FoldingEmpty
<1>2. PICK sum : Folding(sum, 0 .. n - 1, g) /\ ColumnSum(n, h, e) = sum[0 .. n - 1]
  <2>1. \A b \in 0 .. n - 1 : g[b] \in Int /\ g[b] = h[b][e] BY <1>g
  <2>3. IsFiniteSet(0 .. n - 1) BY FirstNumbers
  <2>2. \E sum : /\ Folding(sum, 0 .. n - 1, g)
                 /\ ColumnOver(0 .. n - 1, h, e) = sum[0 .. n - 1]
    BY <2>1, <2>3, ColumnFolding
  <2> QED BY <2>2 DEF ColumnSum
<1>3. PICK tum : Folding(tum, 0 .. n, g) /\ ColumnSum(n + 1, h, e) = tum[0 .. n]
  <2>1. IsFiniteSet(0 .. n) BY FirstNumbers
  <2>2. \E tum : Folding(tum, 0 .. n, g) /\ ColumnOver(0 .. n, h, e) = tum[0 .. n]
    BY <1>g, <2>1, ColumnFolding
  <2>3. ColumnSum(n + 1, h, e) = ColumnOver(0 .. n, h, e)
    <3>1. 0 .. (n + 1) - 1 = 0 .. n OBVIOUS
    <3>2. ColumnSum(n + 1, h, e) = ColumnOver(0 .. (n + 1) - 1, h, e) BY DEF ColumnSum
    <3> QED BY <3>1, <3>2, Zenon
  <2> QED BY <2>2, <2>3
<1>4. sum[0 .. n - 1] = tum[0 .. n - 1]
  <2>1. 0 .. n - 1 \subseteq 0 .. n OBVIOUS
  <2> QED BY <1>2, <1>3, <2>1, FirstNumbers, FoldingAgree
<1>5. tum[0 .. n] \in Int /\ tum[0 .. n] = g[n] + tum[0 .. n - 1] /\ tum[0 .. n - 1] \in Int
  <2>1. \A b \in 0 .. n : g[b] \in Int BY <1>g
  <2>2. 0 .. n \in SUBSET (0 .. n) /\ 0 .. n - 1 \in SUBSET (0 .. n) OBVIOUS
  <2>3. IsFiniteSet(0 .. n) /\ Folding(tum, 0 .. n, g) BY <1>3, FirstNumbers
  <2>4. n \in 0 .. n /\ (0 .. n) \ {n} = 0 .. n - 1 OBVIOUS
  <2>5. Additive(tum, 0 .. n, g) BY <2>1, <2>3, FoldingAny
  <2>6. tum[0 .. n] \in Int /\ \A x \in 0 .. n : tum[0 .. n] = g[x] + tum[(0 .. n) \ {x}]
    BY <2>2, <2>5 DEF Additive
  <2>7. tum[0 .. n - 1] \in Int BY <2>2, <2>5 DEF Additive
  <2>8. tum[0 .. n] = g[n] + tum[(0 .. n) \ {n}] BY <2>4, <2>6
  <2> QED BY <2>4, <2>6, <2>7, <2>8, Zenon
<1>6. g[n] = h[n][e] /\ g[n] \in Int BY <1>g
<1> QED BY <1>1, <1>2, <1>3, <1>4, <1>5, <1>6

(* Running sums. *)

Running(f, n, g) ==
  /\ f \in [0 .. n -> Int]
  /\ f[0] = 0
  /\ \A k \in 0 .. n - 1 : f[k + 1] = f[k] + g[k]

LEMMA RunningExists ==
  ASSUME NEW n \in Nat, NEW g, \A k \in 0 .. n - 1 : g[k] \in Int
  PROVE  \E f : Running(f, n, g)
<1> DEFINE N == {m \in Nat : m <= n => \E f : Running(f, m, g)}
<1>1. 0 \in N
  <2>1. Running([k \in 0 .. 0 |-> 0], 0, g) BY DEF Running
  <2> QED BY <2>1
<1>2. ASSUME NEW m \in Nat, m \in N PROVE m + 1 \in N
  <2> SUFFICES ASSUME m + 1 <= n PROVE \E f : Running(f, m + 1, g) OBVIOUS
  <2>1. PICK f : Running(f, m, g) BY <1>2
  <2> DEFINE h == [k \in 0 .. m + 1 |-> IF k = m + 1 THEN f[m] + g[m] ELSE f[k]]
  <2>2. f \in [0 .. m -> Int] /\ f[0] = 0 /\ \A k \in 0 .. m - 1 : f[k + 1] = f[k] + g[k]
    BY <2>1 DEF Running
  <2>3. f[m] + g[m] \in Int BY <2>2
  <2>4. h \in [0 .. m + 1 -> Int] BY <2>2, <2>3
  <2>5. h[0] = 0 BY <2>2
  <2>6. ASSUME NEW k \in 0 .. (m + 1) - 1 PROVE h[k + 1] = h[k] + g[k]
    <3>1. CASE k = m BY <3>1
    <3>2. CASE k # m BY <3>2, <2>2
    <3> QED BY <3>1, <3>2
  <2>7. Running(h, m + 1, g)
    <3> HIDE DEF h
    <3> QED BY <2>4, <2>5, <2>6 DEF Running
  <2> QED BY <2>7
<1>3. Nat \subseteq N
  <2> HIDE DEF N
  <2> QED BY <1>1, <1>2, SetInduction
<1> QED BY <1>3

RunsFrom(f, n, g) == f = [k \in 0 .. n |-> IF k = 0 THEN 0 ELSE f[k - 1] + g[k - 1]]

LEMMA RunningUnfold ==
  ASSUME NEW n \in Nat, NEW g, \A k \in 0 .. n - 1 : g[k] \in Int, NEW f
  PROVE  Running(f, n, g) <=> RunsFrom(f, n, g)
<1> DEFINE F == [k \in 0 .. n |-> IF k = 0 THEN 0 ELSE f[k - 1] + g[k - 1]]
<1>1. ASSUME Running(f, n, g) PROVE f = F
  <2>1. f \in [0 .. n -> Int] BY <1>1 DEF Running
  <2>2. ASSUME NEW k \in 0 .. n PROVE f[k] = F[k]
    <3>1. CASE k = 0 BY <3>1, <1>1 DEF Running
    <3>2. CASE k # 0
      <4>1. k - 1 \in 0 .. n - 1 /\ (k - 1) + 1 = k BY <3>2
      <4>2. f[(k - 1) + 1] = f[k - 1] + g[k - 1] BY <1>1, <4>1 DEF Running
      <4> QED BY <4>1, <4>2, <3>2
    <3> QED BY <3>1, <3>2
  <2> QED BY <2>1, <2>2
<1>2. ASSUME f = F PROVE Running(f, n, g)
  <2>1. \A k \in 0 .. n : f[k] = IF k = 0 THEN 0 ELSE f[k - 1] + g[k - 1]
    <3>1. \A k \in 0 .. n : F[k] = IF k = 0 THEN 0 ELSE f[k - 1] + g[k - 1] OBVIOUS
    <3> HIDE DEF F
    <3> QED BY <1>2, <3>1
  <2>2. f[0] = 0 BY <2>1
  <2>3. \A k \in 0 .. n - 1 : f[k + 1] = f[k] + g[k]
    <3> TAKE k \in 0 .. n - 1
    <3>1. k + 1 \in 0 .. n /\ k + 1 # 0 /\ (k + 1) - 1 = k OBVIOUS
    <3> QED BY <2>1, <3>1
  <2> DEFINE N == {k \in Nat : k <= n => f[k] \in Int}
  <2>4. 0 \in N BY <2>2
  <2>5. ASSUME NEW k \in Nat, k \in N PROVE k + 1 \in N
    BY <2>3, <2>5
  <2>6. Nat \subseteq N
    <3> HIDE DEF N
    <3> QED BY <2>4, <2>5, SetInduction
  <2>7. f \in [0 .. n -> Int]
    <3>1. \A k \in 0 .. n : f[k] \in Int BY <2>6
    <3>2. DOMAIN f = 0 .. n /\ f = [k \in 0 .. n |-> f[k]]
      <4>1. DOMAIN F = 0 .. n OBVIOUS
      <4>2. F = [k \in 0 .. n |-> F[k]] OBVIOUS
      <4> HIDE DEF F
      <4> QED BY <1>2, <4>1, <4>2
    <3> QED BY <3>1, <3>2
  <2> QED BY <2>2, <2>3, <2>7 DEF Running
<1> QED BY <1>1, <1>2 DEF RunsFrom

-----------------------------------------------------------------------------
(* The sums the kernels make. *)

LEMMA PrefixRuns ==
  ASSUME NEW g, \A e \in Experts : g[e] \in Int /\ g[e] = PhysicalSize(e)
  PROVE  Running(RunningSum(NumExperts, PhysicalSize), NumExperts, g)
<1> DEFINE Eq(f) == f = [k \in 0 .. NumExperts |-> IF k = 0 THEN 0 ELSE f[k - 1] + PhysicalSize(k - 1)]
           it == CHOOSE f : Eq(f)
<1>n. NumExperts \in Nat BY PermuteAssumption
<1>g. \A e \in 0 .. NumExperts - 1 : g[e] \in Int BY DEF Experts
<1>1. ASSUME NEW f PROVE Eq(f) <=> Running(f, NumExperts, g)
  <2>1. [k \in 0 .. NumExperts |-> IF k = 0 THEN 0 ELSE f[k - 1] + PhysicalSize(k - 1)]
        = [k \in 0 .. NumExperts |-> IF k = 0 THEN 0 ELSE f[k - 1] + g[k - 1]]
    <3>1. \A k \in 0 .. NumExperts : k # 0 => g[k - 1] = PhysicalSize(k - 1)
      BY <1>n DEF Experts
    <3> QED BY <3>1
  <2>2. Running(f, NumExperts, g) <=> RunsFrom(f, NumExperts, g)
    BY <1>n, <1>g, RunningUnfold
  <2> QED BY <2>1, <2>2 DEF RunsFrom
<1>2. \E f : Running(f, NumExperts, g) BY <1>n, <1>g, RunningExists
<1>3. Eq(it)
  <2> HIDE DEF Eq
  <2> QED BY <1>1, <1>2
<1>4. RunningSum(NumExperts, PhysicalSize) = it
  BY DEF RunningSum
<1> HIDE DEF it
<1> QED BY <1>1, <1>3, <1>4

\* The running sums of a column of a table, from its second row on.
ColumnRun(n, h, d) == RunningSum(n, LAMBDA k : h[k + 1][d])

LEMMA ColumnRuns ==
  ASSUME NEW n \in Nat, NEW h, NEW d, NEW g, \A k \in 0 .. n - 1 : g[k] \in Int /\ g[k] = h[k + 1][d]
  PROVE  Running(ColumnRun(n, h, d), n, g)
<1> DEFINE Eq(f) == f = [k \in 0 .. n |-> IF k = 0 THEN 0 ELSE f[k - 1] + h[(k - 1) + 1][d]]
           it == CHOOSE f : Eq(f)
<1>g. \A k \in 0 .. n - 1 : g[k] \in Int OBVIOUS
<1>1. ASSUME NEW f PROVE Eq(f) <=> Running(f, n, g)
  <2>1. [k \in 0 .. n |-> IF k = 0 THEN 0 ELSE f[k - 1] + h[(k - 1) + 1][d]]
        = [k \in 0 .. n |-> IF k = 0 THEN 0 ELSE f[k - 1] + g[k - 1]]
    <3>1. \A k \in 0 .. n : k # 0 => g[k - 1] = h[(k - 1) + 1][d]
      OBVIOUS
    <3> QED BY <3>1
  <2>2. Running(f, n, g) <=> RunsFrom(f, n, g)
    BY <1>g, RunningUnfold
  <2> QED BY <2>1, <2>2 DEF RunsFrom
<1>2. \E f : Running(f, n, g) BY <1>g, RunningExists
<1>3. Eq(it)
  <2> HIDE DEF Eq
  <2> QED BY <1>1, <1>2
<1>4. ColumnRun(n, h, d) = it
  BY DEF ColumnRun, RunningSum
<1> HIDE DEF it
<1> QED BY <1>1, <1>3, <1>4

PlainRun(n, g) == RunningSum(n, LAMBDA k : g[k])

LEMMA PlainRuns ==
  ASSUME NEW n \in Nat, NEW g, \A k \in 0 .. n - 1 : g[k] \in Int
  PROVE  Running(PlainRun(n, g), n, g)
<1> DEFINE Eq(f) == f = [k \in 0 .. n |-> IF k = 0 THEN 0 ELSE f[k - 1] + g[k - 1]]
           it == CHOOSE f : Eq(f)
<1>1. ASSUME NEW f PROVE Eq(f) <=> Running(f, n, g)
  <2>1. Running(f, n, g) <=> RunsFrom(f, n, g)
    BY RunningUnfold
  <2> QED BY <2>1 DEF RunsFrom
<1>2. \E f : Running(f, n, g) BY RunningExists
<1>3. Eq(it)
  <2> HIDE DEF Eq
  <2> QED BY <1>1, <1>2
<1>4. PlainRun(n, g) = it
  BY DEF PlainRun, RunningSum
<1> HIDE DEF it
<1> QED BY <1>1, <1>3, <1>4

LEMMA RunningIsUnique ==
  ASSUME NEW n \in Nat, NEW g, NEW f, Running(f, n, g), NEW h, Running(h, n, g)
  PROVE  f = h
<1> DEFINE N == {k \in Nat : k <= n => f[k] = h[k]}
<1>1. 0 \in N BY DEF Running
<1>2. ASSUME NEW k \in Nat, k \in N PROVE k + 1 \in N
  BY <1>2 DEF Running
<1>3. Nat \subseteq N
  <2> HIDE DEF N
  <2> QED BY <1>1, <1>2, SetInduction
<1> QED BY <1>3 DEF Running

(* Which thread has a route. *)

CaseInv ==
  /\ variant \in Variants /\ flat \in [Routes -> Experts]
  /\ variant = "align" => NumExperts <= 2 * WarpSize /\ \E n \in 0 .. WarpSize : Pow2[n] = WarpSize
  /\ variant = "parallel" => RoutesPerBlock % BlockThreads = 0

Home(idx) ==
  CASE variant = "parallel" ->
         BlockThreads * (idx \div RoutesPerBlock) + ((idx % RoutesPerBlock) % BlockThreads)
    [] variant = "small" -> (idx % Workers) + 1
    [] OTHER -> idx % (2 * WarpSize)

\* The row of the table a thread's routes are handed out from.
Table(t) == IF variant = "small" THEN t - 1 ELSE BlockIdx(t)
TableRow(idx) == Table(Home(idx))

LEMMA Positive ==
  /\ NumTokens \in Nat \ {0} /\ TopK \in Nat \ {0} /\ NumExperts \in Nat \ {0}
  /\ Alignment \in Nat \ {0} /\ BlockThreads \in Nat \ {0} /\ RoutesPerBlock \in Nat \ {0}
  /\ WarpSize \in Nat \ {0} /\ MinWorkers \in Nat \ {0}
BY PermuteAssumption

LEMMA NumelPositive == numel \in Nat \ {0}
<1>1. ASSUME NEW m \in Nat \ {0}, NEW n \in Nat \ {0} PROVE m * n \in Nat \ {0}
  OBVIOUS
<1> QED BY <1>1, Positive DEF numel

LEMMA RoundsOfBlock ==
  ASSUME RoutesPerBlock % BlockThreads = 0
  PROVE  \E q \in Nat : RoutesPerBlock = BlockThreads * q /\ CeilDiv(RoutesPerBlock, BlockThreads) = q
<1> DEFINE q == RoutesPerBlock \div BlockThreads
<1>1. q \in Nat /\ RoutesPerBlock = BlockThreads * q + (RoutesPerBlock % BlockThreads)
  BY Positive, DivMod
<1> HIDE DEF q
<1>3. BlockThreads * q \in Nat BY <1>1, Positive, TimesMono
<1>4. RoutesPerBlock = BlockThreads * q BY <1>1, <1>3
<1>5. CeilDiv(RoutesPerBlock, BlockThreads) = q
  <2>1. BlockThreads - 1 \in 0 .. BlockThreads - 1 BY Positive
  <2>2. (BlockThreads * q + (BlockThreads - 1)) \div BlockThreads = q
    BY <1>1, <2>1, Positive, DivModUnique
  <2>3. RoutesPerBlock + BlockThreads - 1 = BlockThreads * q + (BlockThreads - 1)
    BY <1>3, <1>4, Positive
  <2> QED BY <2>2, <2>3 DEF CeilDiv
<1> QED BY <1>1, <1>4, <1>5

LEMMA BlocksPositive == Blocks \in Nat \ {0} /\ numel <= RoutesPerBlock * Blocks
<1>1. Blocks \in Nat /\ numel <= Blocks * RoutesPerBlock
  BY NumelPositive, Positive, CeilDivBounds DEF Blocks
<1>2. 0 < Blocks
  <2>1. RoutesPerBlock * 0 < numel BY NumelPositive, Positive
  <2> QED BY <2>1, NumelPositive, Positive, CeilDivAbove DEF Blocks
<1>3. Blocks * RoutesPerBlock = RoutesPerBlock * Blocks BY <1>1, Positive
<1> QED BY <1>1, <1>2, <1>3

LEMMA ThreadCount ==
  ASSUME variant # "parallel", variant # "small"
  PROVE  Threads = 0 .. 2 * WarpSize - 1 /\ Cardinality(Threads) = 2 * WarpSize /\ 2 * WarpSize \in Nat \ {0}
<1>1. Threads = 0 .. 2 * WarpSize - 1 BY DEF Threads
<1>2. 0 \in Int /\ 2 * WarpSize - 1 \in Int /\ 0 <= 2 * WarpSize - 1 BY Positive
<1>3. Cardinality(0 .. 2 * WarpSize - 1) = (2 * WarpSize - 1) - 0 + 1 BY <1>2, FS_Interval
<1> QED BY <1>1, <1>3, Positive

\* Every route is in the loop of exactly one thread.
LEMMA HomeOfParallel ==
  ASSUME CaseInv, variant = "parallel"
  PROVE  /\ \A idx \in Routes : /\ Home(idx) \in Threads
                                /\ Home(idx) \div BlockThreads = idx \div RoutesPerBlock
                                /\ idx \div RoutesPerBlock \in 0 .. Blocks - 1
         /\ \A t \in Threads : RoutesOf(t) = {idx \in Routes : Home(idx) = t}
<1> DEFINE R == RoutesPerBlock
           B == BlockThreads
<1>1. PICK q \in Nat : R = B * q /\ CeilDiv(R, B) = q BY RoundsOfBlock DEF CaseInv
<1>p. R \in Nat \ {0} /\ B \in Nat \ {0} /\ Blocks \in Nat \ {0} /\ numel \in Nat \ {0} /\ numel <= R * Blocks
  BY Positive, BlocksPositive, NumelPositive
<1>T. Threads = 0 .. Blocks * B - 1 BY DEF Threads
<1>H. \A idx : Home(idx) = B * (idx \div R) + ((idx % R) % B) BY DEF Home
<1>O. \A t : RoutesOf(t) = {(t \div B) * R + i * B + (t % B) : i \in 0 .. q - 1} \cap Routes
  BY <1>1 DEF RoutesOf, BlockIdx
<1> HIDE DEF R, B
<1>2. ASSUME NEW idx \in Routes
      PROVE  /\ Home(idx) \in Threads /\ Home(idx) \div B = idx \div R
             /\ idx \in RoutesOf(Home(idx)) /\ idx \div R \in 0 .. Blocks - 1
  <2>1. PICK b \in Nat, r \in 0 .. R - 1 : b = idx \div R /\ r = idx % R /\ idx = R * b + r
    <3>1. idx \in Nat BY DEF Routes
    <3> QED BY <3>1, <1>p, DivMod
  <2>2. PICK i \in Nat, j \in 0 .. B - 1 : i = r \div B /\ j = r % B /\ r = B * i + j
    <3>1. r \in Nat BY <1>p
    <3> QED BY <3>1, <1>p, DivMod
  <2>3. Home(idx) = B * b + j BY <1>H, <2>1, <2>2
  <2>4. (B * b + j) \div B = b /\ (B * b + j) % B = j BY <1>p, DivModUnique
  <2>5. b < Blocks
    <3> SUFFICES ASSUME Blocks <= b PROVE FALSE BY <1>p
    <3>1. R * Blocks <= R * b /\ R * b \in Nat /\ R * Blocks \in Nat BY <1>p, TimesMono
    <3> QED BY <1>p, <2>1, <3>1 DEF Routes
  <2>6. i < q
    <3> SUFFICES ASSUME q <= i PROVE FALSE BY <1>1
    <3>1. B * q <= B * i /\ B * q \in Nat /\ B * i \in Nat BY <1>p, <1>1, TimesMono
    <3> QED BY <1>p, <1>1, <2>2, <3>1
  <2>7. Home(idx) \in Threads
    <3>1. B * (b + 1) <= B * Blocks BY <1>p, <2>5, TimesMono
    <3>2. B * (b + 1) = B * b + B BY <1>p
    <3>3. B * b \in Nat /\ Blocks * B = B * Blocks /\ Blocks * B \in Nat BY <1>p, TimesMono
    <3> QED BY <1>T, <1>p, <2>3, <3>1, <3>2, <3>3
  <2>8. idx \in RoutesOf(Home(idx))
    <3>1. idx = b * R + i * B + j
      <4>1. R * b = b * R /\ B * i = i * B /\ R * b \in Nat /\ B * i \in Nat BY <1>p, TimesMono
      <4> QED BY <2>1, <2>2, <4>1
    <3>2. Home(idx) \div B = b /\ Home(idx) % B = j BY <2>3, <2>4
    <3>3. i \in 0 .. q - 1 BY <2>6
    <3>4. idx \in {b * R + k * B + j : k \in 0 .. q - 1} BY <3>1, <3>3
    <3> QED BY <1>O, <3>2, <3>4
  <2>9. Home(idx) \div B = idx \div R BY <2>1, <2>3, <2>4, Zenon
  <2>10. idx \div R \in 0 .. Blocks - 1
    <3>1. b \in 0 .. Blocks - 1 BY <1>p, <2>5
    <3> QED BY <2>1, <3>1, Zenon
  <2> QED BY <2>7, <2>8, <2>9, <2>10, Zenon
<1>3. ASSUME NEW t \in Threads, NEW idx \in RoutesOf(t) PROVE idx \in Routes /\ Home(idx) = t
  <2>1. PICK b \in Nat, j \in 0 .. B - 1 : b = t \div B /\ j = t % B /\ t = B * b + j
    <3>1. t \in Nat BY <1>T, <1>p
    <3> QED BY <3>1, <1>p, DivMod
  <2>2. PICK i \in 0 .. q - 1 : idx = b * R + i * B + j
    BY <1>O, <2>1
  <2>3. idx \in Routes BY <1>O
  <2>4. B * i \in Nat /\ R * b \in Nat /\ b * R = R * b /\ i * B = B * i BY <1>p, TimesMono
  <2>5. B * i + j \in 0 .. R - 1
    <3>1. B * (i + 1) <= B * q BY <1>p, <1>1, TimesMono
    <3>2. B * (i + 1) = B * i + B BY <1>p
    <3> QED BY <1>p, <1>1, <2>4, <3>1, <3>2
  <2>6. idx = R * b + (B * i + j) BY <2>2, <2>4
  <2>7. idx \div R = b /\ idx % R = B * i + j
    <3>1. PICK r \in 0 .. R - 1 : r = B * i + j BY <2>5
    <3>2. (R * b + r) \div R = b /\ (R * b + r) % R = r BY <1>p, DivModUnique
    <3> QED BY <2>6, <3>1, <3>2
  <2>8. (B * i + j) % B = j BY <1>p, DivModUnique
  <2> QED BY <1>H, <2>1, <2>3, <2>7, <2>8
<1> QED BY <1>2, <1>3 DEF R, B

LEMMA HomeIs ==
  ASSUME CaseInv
  PROVE  /\ \A idx \in Routes : Home(idx) \in Threads
         /\ \A t \in Threads : RoutesOf(t) = {idx \in Routes : Home(idx) = t}
<1>1. CASE variant = "parallel" BY <1>1, HomeOfParallel
<1>2. CASE variant = "small"
  <2>1. Workers \in Nat \ {0} BY Positive DEF Workers
  <2>2. Threads = 0 .. Workers BY <1>2 DEF Threads
  <2>3. \A idx \in Routes : idx \in Nat /\ idx % Workers \in 0 .. Workers - 1 /\ Home(idx) = (idx % Workers) + 1
    BY <1>2, <2>1, DivMod DEF Routes, Home
  <2>4. ASSUME NEW t \in Threads PROVE RoutesOf(t) = {idx \in Routes : Home(idx) = t}
    <3>1. CASE t = 0
      <4>1. RoutesOf(t) = {} BY <1>2, <3>1 DEF RoutesOf
      <4> QED BY <2>1, <2>3, <3>1, <4>1
    <3>2. CASE t # 0
      <4>1. RoutesOf(t) = {k \in Routes : k % Workers = t - 1} BY <1>2, <3>2 DEF RoutesOf, Strided, Routes
      <4>2. t \in Int BY <2>1, <2>2
      <4> QED BY <2>1, <2>3, <4>1, <4>2
    <3> QED BY <3>1, <3>2
  <2> QED BY <2>1, <2>2, <2>3, <2>4
<1>3. CASE variant # "parallel" /\ variant # "small"
  <2>1. Threads = 0 .. 2 * WarpSize - 1 /\ Cardinality(Threads) = 2 * WarpSize /\ 2 * WarpSize \in Nat \ {0}
    BY <1>3, ThreadCount
  <2>2. \A idx \in Routes : idx \in Nat /\ Home(idx) = idx % (2 * WarpSize) BY <1>3 DEF Routes, Home
  <2>3. \A idx \in Routes : idx % (2 * WarpSize) \in 0 .. 2 * WarpSize - 1
    BY <2>1, <2>2, DivMod
  <2>4. \A t \in Threads : RoutesOf(t) = {k \in Routes : k % (2 * WarpSize) = t}
    BY <1>3, <2>1 DEF RoutesOf, Mine, Strided, Routes
  <2> QED BY <2>1, <2>2, <2>3, <2>4
<1> QED BY <1>1, <1>2, <1>3

-----------------------------------------------------------------------------
(* Counting routes. *)

LEMMA RoutesFinite ==
  ASSUME NEW S, S \subseteq Routes
  PROVE  IsFiniteSet(S) /\ Cardinality(S) \in Nat
<1>1. IsFiniteSet(Routes)
  BY NumelPositive, FS_Interval DEF Routes
<1> QED BY <1>1, FS_Subset, FS_CardinalityType

LEMMA CountUnion ==
  ASSUME NEW S, NEW T, S \subseteq Routes, T \subseteq Routes, S \cap T = {}
  PROVE  Cardinality(S \cup T) = Cardinality(S) + Cardinality(T)
<1>1. IsFiniteSet(S) /\ IsFiniteSet(T) /\ Cardinality(S) \in Nat /\ Cardinality(T) \in Nat BY RoutesFinite
<1>2. Cardinality(S \cup T) = Cardinality(S) + Cardinality(T) - Cardinality(S \cap T)
  BY <1>1, FS_Union
<1>3. Cardinality(S \cap T) = 0 BY FS_EmptySet
<1> QED BY <1>1, <1>2, <1>3

LEMMA CountSubset ==
  ASSUME NEW S, NEW T, S \subseteq T, T \subseteq Routes
  PROVE  Cardinality(S) <= Cardinality(T) /\ (S # T => Cardinality(S) < Cardinality(T))
BY RoutesFinite, FS_Subset

LEMMA CountAdd ==
  ASSUME NEW S, S \subseteq Routes, NEW i \in Routes, i \notin S
  PROVE  Cardinality(S \cup {i}) = Cardinality(S) + 1
BY RoutesFinite, FS_AddElement

LEMMA CountEmpty == Cardinality({}) = 0
BY FS_EmptySet

LEMMA CountRoutes == Cardinality(Routes) = numel
<1>1. Cardinality(0 .. numel - 1) = (numel - 1) - 0 + 1 BY NumelPositive, FS_Interval
<1> QED BY <1>1, NumelPositive DEF Routes

\* The routes of an expert below a row of the table, and those of the row.
Before(b, e) == {idx \in RoutesTo(e) : TableRow(idx) < b}
Share(b, e) == {idx \in RoutesTo(e) : TableRow(idx) = b}

TableRows == CASE variant = "parallel" -> 0 .. Blocks - 1
               [] variant = "small" -> 0 .. Workers
               [] OTHER -> {0}
LastRow == CASE variant = "parallel" -> Blocks
             [] variant = "small" -> Workers
             [] OTHER -> 1

LEMMA TableRowIs ==
  ASSUME CaseInv
  PROVE  \A idx \in Routes : TableRow(idx) \in 0 .. LastRow - 1
<1>1. CASE variant = "parallel"
  <2>1. \A idx \in Routes : TableRow(idx) = idx \div RoutesPerBlock
    BY <1>1, HomeOfParallel DEF TableRow, Table, BlockIdx
  <2> QED BY <1>1, <2>1, HomeOfParallel DEF LastRow
<1>2. CASE variant = "small"
  <2>1. \A idx \in Routes : TableRow(idx) = ((idx % Workers) + 1) - 1
    BY <1>2 DEF TableRow, Table, Home
  <2>2. Workers \in Nat \ {0} BY Positive DEF Workers
  <2>3. \A idx \in Routes : idx % Workers \in 0 .. Workers - 1
    BY <2>2, DivMod DEF Routes
  <2> QED BY <1>2, <2>1, <2>2, <2>3 DEF LastRow
<1>3. CASE variant # "parallel" /\ variant # "small"
  BY <1>3 DEF TableRow, Table, BlockIdx, LastRow
<1> QED BY <1>1, <1>2, <1>3

LEMMA RoutesToIs ==
  \A e : RoutesTo(e) \subseteq Routes /\ Cardinality(RoutesTo(e)) \in Nat
BY RoutesFinite DEF RoutesTo

LEMMA BeforeSteps ==
  ASSUME CaseInv, NEW e
  PROVE  /\ Before(0, e) = {}
         /\ \A b \in Nat : /\ Before(b, e) \subseteq Routes /\ Share(b, e) \subseteq Routes
                           /\ Before(b + 1, e) = Before(b, e) \cup Share(b, e)
                           /\ Before(b, e) \cap Share(b, e) = {}
                           /\ b >= LastRow => Before(b, e) = RoutesTo(e)
<1>1. \A idx \in RoutesTo(e) : TableRow(idx) \in Nat /\ TableRow(idx) < LastRow
  BY TableRowIs, RoutesToIs, Positive, BlocksPositive DEF LastRow, Workers
<1>2. LastRow \in Nat BY Positive, BlocksPositive DEF LastRow, Workers
<1> QED BY <1>1, <1>2, RoutesToIs DEF Before, Share

LEMMA BeforeCount ==
  ASSUME CaseInv, NEW e, NEW b \in Nat
  PROVE  /\ Cardinality(Before(b, e)) \in Nat /\ Cardinality(Share(b, e)) \in Nat
         /\ Cardinality(Before(b + 1, e)) = Cardinality(Before(b, e)) + Cardinality(Share(b, e))
         /\ Cardinality(Before(b, e)) <= Cardinality(RoutesTo(e))
         /\ Cardinality(Before(0, e)) = 0
<1>1. Before(b, e) \subseteq Routes /\ Share(b, e) \subseteq Routes
      /\ Before(b + 1, e) = Before(b, e) \cup Share(b, e) /\ Before(b, e) \cap Share(b, e) = {}
  BY BeforeSteps
<1>2. Before(0, e) = {} BY BeforeSteps
<1>3. Before(b, e) \subseteq RoutesTo(e) BY DEF Before
<1>4. Cardinality(Before(b, e)) \in Nat /\ Cardinality(Share(b, e)) \in Nat
  BY <1>1, RoutesFinite
<1>5. Cardinality(Before(b + 1, e)) = Cardinality(Before(b, e)) + Cardinality(Share(b, e))
  BY <1>1, CountUnion
<1>6. Cardinality(Before(b, e)) <= Cardinality(RoutesTo(e))
  BY <1>3, RoutesToIs, CountSubset
<1> QED BY <1>2, <1>4, <1>5, <1>6, CountEmpty

\* Row b of an expert's routes ends before row d begins.
LEMMA BeforeMonotone ==
  ASSUME CaseInv, NEW e, NEW b \in Nat, NEW d \in Nat, b < d
  PROVE  Cardinality(Before(b, e)) + Cardinality(Share(b, e)) <= Cardinality(Before(d, e))
<1>1. Before(b + 1, e) \subseteq Before(d, e)
  <2>1. \A idx \in RoutesTo(e) : TableRow(idx) \in Int
    BY TableRowIs, RoutesToIs
  <2> QED BY <2>1 DEF Before
<1>2. Before(d, e) \subseteq Routes BY BeforeSteps
<1>3. Cardinality(Before(b + 1, e)) <= Cardinality(Before(d, e)) BY <1>1, <1>2, CountSubset
<1> QED BY <1>3, BeforeCount

(* The regions of the experts. *)

LEMMA RegionSizeIs ==
  \A e : RegionSize(e) \in Nat /\ Cardinality(RoutesTo(e)) <= RegionSize(e)
         /\ (tight => RegionSize(e) = Cardinality(RoutesTo(e)))
         /\ (~tight => RegionSize(e) <= Cardinality(RoutesTo(e)) + Alignment - 1)
<1>1. \A e : Cardinality(RoutesTo(e)) \in Nat BY RoutesToIs
<1>2. \A n \in Nat : Pad(n) \in Nat /\ n <= Pad(n) /\ Pad(n) <= n + Alignment - 1
  BY PadBounds
<1> QED BY <1>1, <1>2 DEF RegionSize

LEMMA RegionStartIs ==
  ASSUME NEW n \in Nat
  PROVE  /\ RegionStart(0) = 0 /\ RegionStart(n) \in Nat
         /\ RegionStart(n + 1) = RegionStart(n) + RegionSize(n)
<1> DEFINE N == {k \in Nat : RegionStart(k) \in Nat}
<1>1. \A k \in Nat : /\ RegionStart(0) = 0
                     /\ RegionStart(k + 1) = RegionStart(k) + RegionSize(k)
  <2> TAKE k \in Nat
  <2>1. \A e \in 0 .. k : RegionSize(e) \in Int BY RegionSizeIs
  <2> QED BY <2>1, RegionStartStep
<1>2. 0 \in N BY <1>1
<1>3. ASSUME NEW k \in Nat, k \in N PROVE k + 1 \in N
  BY <1>1, <1>3, RegionSizeIs
<1>4. Nat \subseteq N
  <2> HIDE DEF N
  <2> QED BY <1>2, <1>3, SetInduction
<1> QED BY <1>1, <1>4

LEMMA RegionsInOrder ==
  ASSUME NEW m \in Nat, NEW n \in Nat, m <= n
  PROVE  RegionStart(m) <= RegionStart(n)
<1> DEFINE N == {k \in Nat : RegionStart(m) <= RegionStart(m + k)}
<1>1. 0 \in N BY RegionStartIs
<1>2. ASSUME NEW k \in Nat, k \in N PROVE k + 1 \in N
  <2>1. m + k \in Nat /\ (m + k) + 1 = m + (k + 1) OBVIOUS
  <2>2. RegionStart((m + k) + 1) = RegionStart(m + k) + RegionSize(m + k) /\ RegionStart(m + k) \in Nat
    BY <2>1, RegionStartIs
  <2>3. RegionStart(m) \in Nat BY RegionStartIs
  <2>4. RegionSize(m + k) \in Nat BY RegionSizeIs
  <2> QED BY <1>2, <2>1, <2>2, <2>3, <2>4
<1>3. Nat \subseteq N
  <2> HIDE DEF N
  <2> QED BY <1>1, <1>2, SetInduction
<1>4. n - m \in Nat /\ m + (n - m) = n OBVIOUS
<1> QED BY <1>3, <1>4

\* The regions fit into the rows.
LEMMA RegionsFit ==
  ASSUME CaseInv
  PROVE  /\ capacity \in Nat
         /\ RegionStart(NumExperts) <= capacity
         /\ tight => RegionStart(NumExperts) = numel
<1> DEFINE Below(n) == {idx \in Routes : flat[idx] < n}
           slack == IF tight THEN 0 ELSE Alignment - 1
           N == {n \in Nat : /\ RegionStart(n) <= Cardinality(Below(n)) + n * slack
                             /\ tight => RegionStart(n) = Cardinality(Below(n))}
<1>s. slack \in Nat BY Positive
<1>b. \A n \in Nat : Below(n) \subseteq Routes /\ Cardinality(Below(n)) \in Nat
  BY RoutesFinite
<1>f. \A idx \in Routes : flat[idx] \in Nat BY DEF CaseInv, Experts
<1>1. 0 \in N
  <2>1. Below(0) = {} BY <1>f
  <2>2. 0 * slack = 0 BY <1>s
  <2>3. RegionStart(0) = 0 BY RegionStartIs
  <2>4. Cardinality(Below(0)) = 0
    <3> HIDE DEF Below
    <3> QED BY <2>1, CountEmpty
  <2> HIDE DEF slack, Below
  <2> QED BY <2>2, <2>3, <2>4
<1>2. ASSUME NEW n \in Nat, n \in N PROVE n + 1 \in N
  <2>1. Below(n + 1) = Below(n) \cup RoutesTo(n) /\ Below(n) \cap RoutesTo(n) = {}
    BY <1>f DEF RoutesTo
  <2>2. Cardinality(Below(n + 1)) = Cardinality(Below(n)) + Cardinality(RoutesTo(n))
    <3>1. Below(n) \subseteq Routes OBVIOUS
    <3> HIDE DEF Below
    <3> QED BY <2>1, <3>1, RoutesToIs, CountUnion
  <2>3. (n + 1) * slack = n * slack + slack /\ n * slack \in Nat
    <3>1. slack * n \in Nat /\ n * slack = slack * n BY <1>s, TimesMono
    <3> HIDE DEF slack
    <3> QED BY <1>s, <3>1
  <2>4. RegionSize(n) <= Cardinality(RoutesTo(n)) + slack /\ (tight => RegionSize(n) = Cardinality(RoutesTo(n)))
        /\ RegionSize(n) \in Nat /\ Cardinality(RoutesTo(n)) \in Nat
    BY RegionSizeIs, RoutesToIs, Positive
  <2>5. RegionStart(n + 1) = RegionStart(n) + RegionSize(n) /\ RegionStart(n) \in Nat
    BY RegionStartIs
  <2>6. RegionStart(n) <= Cardinality(Below(n)) + n * slack /\ (tight => RegionStart(n) = Cardinality(Below(n)))
    BY <1>2
  <2>7. Cardinality(Below(n)) \in Nat BY <1>b
  <2> HIDE DEF slack, Below
  <2> QED BY <1>s, <2>2, <2>3, <2>4, <2>5, <2>6, <2>7
<1>3. Nat \subseteq N
  <2> HIDE DEF N
  <2> QED BY <1>1, <1>2, SetInduction
<1>4. Below(NumExperts) = Routes BY <1>f, Positive DEF CaseInv, Experts
<1>5. RegionStart(NumExperts) <= numel + NumExperts * slack /\ (tight => RegionStart(NumExperts) = numel)
  <2>1. NumExperts \in N BY <1>3, Positive
  <2> HIDE DEF slack
  <2> QED BY <2>1, <1>4, CountRoutes
<1>6. NumExperts * slack \in Nat /\ (tight => NumExperts * slack = 0)
  <2>1. slack * NumExperts \in Nat /\ NumExperts * slack = slack * NumExperts BY <1>s, Positive, TimesMono
  <2>2. NumExperts * 0 = 0 BY Positive
  <2> QED BY <2>1, <2>2
<1>7. ~tight => numel + NumExperts * slack <= capacity /\ capacity \in Nat
  <2> SUFFICES ASSUME ~tight PROVE numel + NumExperts * (Alignment - 1) <= capacity /\ capacity \in Nat
    OBVIOUS
  <2>1. (NumExperts + 1) * (Alignment - 1) = NumExperts * (Alignment - 1) + (Alignment - 1)
    BY Positive
  <2>2. PICK x \in Nat : x = NumExperts * (Alignment - 1) BY <1>6
  <2>3. variant = "aligned" => capacity = numel + x BY <2>2 DEF capacity, tight
  <2>4. variant # "aligned" => capacity = numel + (x + (Alignment - 1))
    BY <2>1, <2>2 DEF capacity
  <2>5. numel + x <= capacity /\ capacity \in Nat
    BY <2>3, <2>4, NumelPositive, Positive
  <2> QED BY <2>2, <2>5, Zenon
<1>8. tight => capacity = numel BY DEF capacity, tight
<1>9. RegionStart(NumExperts) \in Nat BY RegionStartIs, Positive
<1> QED BY <1>5, <1>6, <1>7, <1>8, <1>9, NumelPositive

-----------------------------------------------------------------------------
(* The invariant. *)

PrefixAt == IF variant = "parallel" THEN 4 ELSE 3
CursorAt == IF variant = "parallel" THEN 5 ELSE 4
PrefixThread == IF variant = "small" THEN 1 ELSE 0

\* What a thread clears, and what it turns into cursors.
Clears(t) == IF variant = "parallel" THEN Strided(t % BlockThreads, BlockThreads, NumExperts)
             ELSE Mine(t, NumExperts)

Memory == mem = [counts |-> mem.counts, vals |-> mem.vals, warp |-> mem.warp,
                 offsets |-> mem.offsets, metadata |-> mem.metadata, rows |-> mem.rows,
                 inverse |-> mem.inverse]

MemInv ==
  /\ Memory
  /\ mem.counts \in [TableRows -> [Experts -> Int]]
  /\ mem.vals \in [Threads \cup Experts -> Int]
  /\ mem.warp \in [0 .. 1 -> Int]
  /\ mem.offsets \in [0 .. NumExperts -> Int]
  /\ mem.rows \in [Rows -> Int]
  /\ mem.inverse \in [Routes -> Int]

TypeInv ==
  /\ CaseInv
  /\ at \in [Threads -> 1 .. Len(Program)]
  /\ MemInv
  /\ left \in [Threads -> SUBSET Routes]
  /\ slot_buf \in [Threads -> {Nothing} \cup (Routes \X Int)]
  /\ \A t \in Threads : left[t] \subseteq RoutesOf(t)
  /\ \A t \in Threads : slot_buf[t] # Nothing => slot_buf[t][1] \in left[t]

\* No thread is past a barrier another one has not reached.
BarrierInv ==
  \A t, u \in Threads, i \in 1 .. Len(Program) :
    at[t] > i /\ (variant = "parallel" /\ i = 2 => BlockIdx(t) = BlockIdx(u)) => at[u] >= i

\* The routes that have a row, and those that stand in it.
Claimed == {idx \in Routes : \/ idx \notin left[Home(idx)]
                             \/ slot_buf[Home(idx)] # Nothing /\ slot_buf[Home(idx)][1] = idx}
Stored == {idx \in Routes : idx \notin left[Home(idx)]}

ReadyAt == IF variant = "small" THEN 4 ELSE Len(Program)
ReadyInv == Claimed # {} => \A t \in Threads : at[t] >= ReadyAt

Atomic == variant \in {"tight", "parallel", "aligned"}

Cursored(e) == Atomic /\ \E t \in Threads : e \in Mine(t, NumExperts) /\ at[t] > CursorAt

Tallied(b, e) == {idx \in Share(b, e) : at[Home(idx)] > 2}
Held(b, e) == Share(b, e) \cap Claimed

CountInv ==
  variant # "small" => \A b \in TableRows, e \in Experts :
    (\E t \in Threads : e \in Clears(t) /\ BlockIdx(t) = b /\ at[t] > 1) /\ ~Cursored(e)
      => mem.counts[b][e] = Cardinality(Tallied(b, e))

TotalsInv ==
  variant = "parallel" => \A t \in Threads : at[t] > 3 =>
    \A e \in Mine(t, NumExperts) : mem.vals[e] = Cardinality(RoutesTo(e))

PrefixInv ==
  variant # "align" /\ at[PrefixThread] > PrefixAt =>
    \A e \in 0 .. NumExperts : mem.offsets[e] = RegionStart(e)

CursorInv ==
  Atomic => \A t \in Threads : at[t] > CursorAt =>
    \A e \in Mine(t, NumExperts), b \in TableRows :
      mem.counts[b][e] = RegionStart(e) + Cardinality(Before(b, e)) + Cardinality(Held(b, e))

WorkerInv ==
  variant = "small" => \A w \in 1 .. Workers, e \in Experts :
    at[w] > 1 /\ at[e + 1] <= 2 => mem.counts[w][e] = Cardinality(Share(w - 1, e))

ColumnInv ==
  variant = "small" => \A e \in Experts : at[e + 1] > 2 =>
    \A b \in 0 .. Workers : mem.counts[b][e] = Cardinality(Before(b, e)) + Cardinality(Held(b, e))

\* The scan: the rows of the experts below a thread, and the first thread of a warp.
Below(n) == RegionStart(IF n < NumExperts THEN n ELSE NumExperts)
Warp(t) == t \div WarpSize

ScanInv ==
  variant = "align" =>
    /\ \A t \in Threads :
         /\ at[t] = 4 => mem.vals[t] = Below(t + 1) - Below(t)
         /\ at[t] > 4 => mem.vals[t] = Below(t + 1) - Below(Warp(t) * WarpSize)
         /\ at[t] > 4 /\ at[0] <= 5 =>
              mem.warp[Warp(t)] = Below((Warp(t) + 1) * WarpSize) - Below(Warp(t) * WarpSize)
         /\ at[t] > 4 => \A u \in Threads : Warp(u) = Warp(t) => at[u] > 4
    /\ at[0] > 5 => mem.warp[0] = 0 /\ mem.warp[1] = Below(WarpSize)
    /\ \A e \in Experts : at[e] > 6 =>
         mem.offsets[e] = RegionStart(e) + Cardinality(Held(0, e))
    /\ at[NumExperts - 1] > 6 => mem.offsets[NumExperts] = RegionStart(NumExperts)

\* A row for every route that has claimed one, no row twice.
Places(place) ==
  /\ \A i, k \in Claimed : place[i] = place[k] => i = k
  /\ \A idx \in Claimed :
       LET e == flat[idx]
           b == TableRow(idx)
           first == RegionStart(e) + Cardinality(Before(b, e))
       IN place[idx] \in first .. first + Cardinality(Held(b, e)) - 1
  /\ \A t \in Threads : slot_buf[t] # Nothing => slot_buf[t][2] = place[slot_buf[t][1]]
  /\ \A idx \in Stored :
       IF variant \in {"align", "small"} THEN mem.rows[place[idx]] = idx
       ELSE mem.inverse[idx] = place[idx] /\ mem.rows[place[idx]] = idx \div TopK
  /\ \A r \in Rows : (\A idx \in Stored : place[idx] # r) => mem.rows[r] \in {Unset, Sentinel}
PlaceInv == \E place \in [Claimed -> Rows] : Places(place)

\* The rows a thread has blanked are no longer what they were.
Blanked(t, r) ==
  \/ variant = "aligned" /\ at[t] > 1 /\ r \in Mine(t, capacity)
  \/ variant = "align" /\ at[t] > 7 /\ r \in Mine(t, capacity)
  \/ variant = "small" /\ t = 0 /\ at[t] > 1
BlankInv == \A t \in Threads, r \in Rows : Blanked(t, r) => mem.rows[r] # Unset

SortInv == /\ TypeInv /\ BarrierInv /\ ReadyInv
           /\ CountInv /\ TotalsInv /\ PrefixInv /\ CursorInv
           /\ WorkerInv /\ ColumnInv /\ ScanInv /\ BlankInv

-----------------------------------------------------------------------------
(* Where a segment stands in the program of a variant. *)

Stands(s, n) ==
  /\ s = "zero" => n = 1 /\ variant # "small"
  /\ s = "count" => n = 2 /\ variant # "small"
  /\ s = "totals" => n = 3 /\ variant = "parallel"
  /\ s = "prefix" => n = PrefixAt /\ variant # "align"
  /\ s = "cursor" => n = CursorAt /\ Atomic
  /\ s = "vals" => n = 3 /\ variant = "align"
  /\ s = "warp_scan" => n = 4 /\ variant = "align"
  /\ s = "warp_excl" => n = 5 /\ variant = "align"
  /\ s = "cumsum" => n = 6 /\ variant = "align"
  /\ s = "finalize" => n = (IF variant = "align" THEN 7 ELSE 4) /\ variant \in {"align", "small"}
  /\ s = "fill_count" => n = 1 /\ variant = "small"
  /\ s = "column" => n = 2 /\ variant = "small"
  /\ s = "scatter" <=> n = Len(Program)

LEMMA ProgramIs ==
  ASSUME CaseInv
  PROVE  /\ Len(Program) = CASE variant = "parallel" -> 6 [] variant = "align" -> 8 [] OTHER -> 5
         /\ \A n \in 1 .. Len(Program) : Stands(Program[n], n)
<1>1. CASE variant = "tight"
  <2>1. Program = <<"zero", "count", "prefix", "cursor", "scatter">> BY <1>1 DEF Program
  <2>2. Len(Program) = 5 BY <2>1
  <2>3. \A n \in 1 .. 5 : n = 1 \/ n = 2 \/ n = 3 \/ n = 4 \/ n = 5 OBVIOUS
  <2> QED BY <1>1, <2>1, <2>2, <2>3 DEF Stands, PrefixAt, CursorAt, Atomic
<1>2. CASE variant = "parallel"
  <2>1. Program = <<"zero", "count", "totals", "prefix", "cursor", "scatter">> BY <1>2 DEF Program
  <2>2. Len(Program) = 6 BY <2>1
  <2>3. \A n \in 1 .. 6 : n = 1 \/ n = 2 \/ n = 3 \/ n = 4 \/ n = 5 \/ n = 6 OBVIOUS
  <2> QED BY <1>2, <2>1, <2>2, <2>3 DEF Stands, PrefixAt, CursorAt, Atomic
<1>3. CASE variant = "aligned"
  <2>1. Program = <<"zero", "count", "prefix", "cursor", "scatter">> BY <1>3 DEF Program
  <2>2. Len(Program) = 5 BY <2>1
  <2>3. \A n \in 1 .. 5 : n = 1 \/ n = 2 \/ n = 3 \/ n = 4 \/ n = 5 OBVIOUS
  <2> QED BY <1>3, <2>1, <2>2, <2>3 DEF Stands, PrefixAt, CursorAt, Atomic
<1>4. CASE variant = "align"
  <2>1. Program = <<"zero", "count", "vals", "warp_scan", "warp_excl", "cumsum", "finalize", "scatter">>
    BY <1>4 DEF Program
  <2>2. Len(Program) = 8 BY <2>1
  <2>3. \A n \in 1 .. 8 : n = 1 \/ n = 2 \/ n = 3 \/ n = 4 \/ n = 5 \/ n = 6 \/ n = 7 \/ n = 8 OBVIOUS
  <2> QED BY <1>4, <2>1, <2>2, <2>3 DEF Stands, PrefixAt, CursorAt, Atomic
<1>5. CASE variant = "small"
  <2>1. Program = <<"fill_count", "column", "prefix", "finalize", "scatter">> BY <1>5 DEF Program
  <2>2. Len(Program) = 5 BY <2>1
  <2>3. \A n \in 1 .. 5 : n = 1 \/ n = 2 \/ n = 3 \/ n = 4 \/ n = 5 OBVIOUS
  <2> QED BY <1>5, <2>1, <2>2, <2>3 DEF Stands, PrefixAt, CursorAt, Atomic
<1> QED BY <1>1, <1>2, <1>3, <1>4, <1>5 DEF CaseInv, Variants

(* What a step leaves as it is. *)

Same == variant' = variant /\ flat' = flat

LEMMA SameShape ==
  ASSUME Same
  PROVE  /\ Threads' = Threads /\ Program' = Program /\ Rows' = Rows /\ TableRows' = TableRows
         /\ tight' = tight /\ capacity' = capacity /\ PrefixAt' = PrefixAt /\ CursorAt' = CursorAt
         /\ PrefixThread' = PrefixThread /\ ReadyAt' = ReadyAt /\ Atomic' = Atomic
         /\ Sentinel' = Sentinel /\ CaseInv' = CaseInv
BY DEF Same, Threads, Program, Rows, TableRows, tight, capacity, PrefixAt, CursorAt,
       PrefixThread, ReadyAt, Atomic, Sentinel, CaseInv

LEMMA SameThread ==
  ASSUME Same
  PROVE  \A t : /\ RoutesOf(t)' = RoutesOf(t) /\ BlockIdx(t)' = BlockIdx(t)
                /\ Clears(t)' = Clears(t) /\ Table(t)' = Table(t)
BY DEF Same, Threads, RoutesOf, BlockIdx, Clears, Table, Mine

LEMMA SameMine ==
  ASSUME Same
  PROVE  \A t, n : Mine(t, n)' = Mine(t, n)
BY DEF Same, Threads, Mine

LEMMA SameRoute ==
  ASSUME Same
  PROVE  \A idx : Home(idx)' = Home(idx) /\ TableRow(idx)' = TableRow(idx)
BY DEF Same, Home, TableRow, Table, BlockIdx

LEMMA SameExpert ==
  ASSUME Same
  PROVE  \A e : /\ RoutesTo(e)' = RoutesTo(e) /\ RegionSize(e)' = RegionSize(e)
                /\ RegionStart(e)' = RegionStart(e) /\ Below(e)' = Below(e)
BY DEF Same, RoutesTo, RegionSize, RegionStart, MapThenSumSet, MapThenFoldSet, tight, Below

LEMMA SameShare ==
  ASSUME Same
  PROVE  \A b, e : Share(b, e)' = Share(b, e) /\ Before(b, e)' = Before(b, e)
BY SameRoute, SameExpert DEF Share, Before

LEMMA SameClaimed ==
  ASSUME Same, left' = left, slot_buf' = slot_buf
  PROVE  /\ Claimed' = Claimed /\ Stored' = Stored
         /\ \A b, e : Held(b, e)' = Held(b, e)
BY SameRoute, SameShare DEF Claimed, Stored, Held

(* The barriers. *)

\* A thread that is where its program says waits for the others.
LEMMA CaughtUp ==
  ASSUME TypeInv, NEW t \in Threads, NEW s, InSegment(t, s)
  PROVE  /\ at[t] \in 1 .. Len(Program) /\ Stands(s, at[t])
         /\ \A u \in Threads :
              (variant = "parallel" /\ at[t] = 2 => BlockIdx(t) = BlockIdx(u)) =>
                at[u] >= at[t] \/ (variant = "small" /\ at[t] = Len(Program))
<1>1. at[t] \in 1 .. Len(Program) /\ Program[at[t]] = s BY DEF TypeInv, InSegment
<1>2. Stands(s, at[t]) BY <1>1, ProgramIs DEF TypeInv
<1>3. ASSUME NEW u \in Threads, variant = "parallel" /\ at[t] = 2 => BlockIdx(t) = BlockIdx(u),
             ~(variant = "small" /\ at[t] = Len(Program))
      PROVE  at[u] >= at[t]
  <2>1. Awaits(t, u, s)
    BY <1>1, <1>2, <1>3, ProgramIs DEF Awaits, Stands, BlockIdx, TypeInv
  <2> QED BY <2>1 DEF InSegment
<1> QED BY <1>1, <1>2, <1>3

LEMMA SegmentMoves ==
  ASSUME TypeInv, BarrierInv, NEW t \in Threads, NEW s, s # "scatter", Segment(t, s)
  PROVE  /\ Same /\ left' = left /\ slot_buf' = slot_buf
         /\ at' = [at EXCEPT ![t] = at[t] + 1] /\ at[t] + 1 \in 1 .. Len(Program)
         /\ at' \in [Threads -> 1 .. Len(Program)]
         /\ BarrierInv'
<1>1. Same /\ left' = left /\ slot_buf' = slot_buf /\ at' = [at EXCEPT ![t] = at[t] + 1]
      /\ InSegment(t, s)
  BY DEF Segment, Same
<1>2. at \in [Threads -> 1 .. Len(Program)] /\ CaseInv BY DEF TypeInv
<1>3. at[t] \in 1 .. Len(Program) /\ Stands(s, at[t]) BY <1>1, CaughtUp
<1>4. Len(Program) \in Nat BY <1>2, ProgramIs
<1>5. at[t] # Len(Program) BY <1>3 DEF Stands
<1>6. at' \in [Threads -> 1 .. Len(Program)] /\ at[t] + 1 \in 1 .. Len(Program)
  BY <1>1, <1>2, <1>3, <1>4, <1>5
<1>7. \A u \in Threads : (variant = "parallel" /\ at[t] = 2 => BlockIdx(t) = BlockIdx(u)) => at[u] >= at[t]
  BY <1>1, <1>5, CaughtUp
<1>8. BarrierInv'
  <2> SUFFICES ASSUME NEW u \in Threads, NEW v \in Threads, NEW i \in 1 .. Len(Program),
                      at'[u] > i, variant = "parallel" /\ i = 2 => BlockIdx(u) = BlockIdx(v)
               PROVE  at'[v] >= i
    BY <1>1, SameShape, SameThread DEF BarrierInv, Same
  <2>1. at'[v] >= at[v] /\ at[v] \in Int BY <1>1, <1>2
  <2>2. CASE at[u] > i
    <3>1. at[v] >= i BY <2>2 DEF BarrierInv
    <3> QED BY <2>1, <3>1, <1>6
  <2>3. CASE ~(at[u] > i)
    <3>1. u = t /\ at[t] = i BY <1>1, <1>2, <2>3
    <3>2. at[v] >= i BY <1>7, <3>1
    <3> QED BY <2>1, <3>2, <1>6
  <2> QED BY <2>2, <2>3
<1> QED BY <1>1, <1>6, <1>8

-----------------------------------------------------------------------------
(* A segment leaves most of the invariant as it is. *)

\* What every segment does.
Moves(t, s) ==
  /\ SortInv /\ t \in Threads /\ s # "scatter" /\ Segment(t, s)

LEMMA MovesFacts ==
  ASSUME NEW t, NEW s, Moves(t, s)
  PROVE  /\ Same /\ left' = left /\ slot_buf' = slot_buf
         /\ t \in Threads /\ at \in [Threads -> 1 .. Len(Program)]
         /\ at' = [at EXCEPT ![t] = at[t] + 1] /\ at' \in [Threads -> 1 .. Len(Program)]
         /\ Stands(s, at[t]) /\ at[t] \in 1 .. Len(Program) /\ at[t] # Len(Program)
         /\ BarrierInv'
         /\ \A u \in Threads :
              (variant = "parallel" /\ at[t] = 2 => BlockIdx(t) = BlockIdx(u)) => at[u] >= at[t]
<1>1. TypeInv /\ BarrierInv /\ t \in Threads /\ s # "scatter" /\ Segment(t, s)
  BY DEF Moves, SortInv
<1>2. InSegment(t, s) BY <1>1 DEF Segment
<1>3. at[t] \in 1 .. Len(Program) /\ Stands(s, at[t])
      /\ \A u \in Threads :
              (variant = "parallel" /\ at[t] = 2 => BlockIdx(t) = BlockIdx(u)) =>
                at[u] >= at[t] \/ (variant = "small" /\ at[t] = Len(Program))
  BY <1>1, <1>2, CaughtUp
<1>4. at[t] # Len(Program) BY <1>1, <1>3 DEF Stands
<1>5. at \in [Threads -> 1 .. Len(Program)] BY <1>1 DEF TypeInv
<1> QED BY <1>1, <1>3, <1>4, <1>5, SegmentMoves

LEMMA MovesType ==
  ASSUME NEW t, NEW s, Moves(t, s),
         Memory', mem'.counts \in [TableRows -> [Experts -> Int]],
         mem'.vals \in [Threads \cup Experts -> Int], mem'.warp \in [0 .. 1 -> Int],
         mem'.offsets \in [0 .. NumExperts -> Int], mem'.rows \in [Rows -> Int],
         mem'.inverse \in [Routes -> Int]
  PROVE  TypeInv' /\ BarrierInv'
<1>1. Same /\ left' = left /\ slot_buf' = slot_buf /\ at' \in [Threads -> 1 .. Len(Program)] /\ BarrierInv'
  BY MovesFacts
<1>2. TypeInv BY DEF Moves, SortInv
<1>3. Threads' = Threads /\ Program' = Program /\ Rows' = Rows /\ TableRows' = TableRows /\ CaseInv' = CaseInv
  BY <1>1, SameShape
<1>4. \A u : RoutesOf(u)' = RoutesOf(u) BY <1>1, SameThread
<1>5. MemInv' BY <1>3 DEF MemInv
<1> QED BY <1>1, <1>2, <1>3, <1>4, <1>5 DEF TypeInv

LEMMA MovesReady ==
  ASSUME NEW t, NEW s, Moves(t, s)
  PROVE  ReadyInv'
<1>1. Same /\ left' = left /\ slot_buf' = slot_buf BY MovesFacts
<1>2. Claimed' = Claimed /\ ReadyAt' = ReadyAt /\ Threads' = Threads BY <1>1, SameClaimed, SameShape
<1>3. \A u \in Threads : at'[u] >= at[u] /\ at[u] \in Int /\ at'[u] \in Int BY MovesFacts
<1>4. ReadyInv BY DEF Moves, SortInv
<1>5. ReadyAt \in Int BY ProgramIs DEF ReadyAt, Moves, SortInv, TypeInv
<1> QED BY <1>2, <1>3, <1>4, <1>5 DEF ReadyInv

LEMMA QuietCount ==
  ASSUME NEW t, NEW s, Moves(t, s), s \notin {"zero", "count", "cursor"}, mem'.counts = mem.counts
  PROVE  CountInv'
<1> SUFFICES ASSUME variant # "small" PROVE CountInv'
  BY MovesFacts DEF CountInv, Same
<1>1. Same /\ left' = left /\ slot_buf' = slot_buf BY MovesFacts
<1>2. at[t] > 2 /\ (Atomic => at[t] # CursorAt)
  <2>1. Stands(s, at[t]) /\ at[t] \in 1 .. Len(Program) /\ at[t] # Len(Program) BY MovesFacts
  <2>2. at[t] # 1 /\ at[t] # 2 /\ (Atomic => at[t] # CursorAt)
    <3>1. Program[at[t]] = s BY DEF Moves, Segment, InSegment
    <3>2. CaseInv BY DEF Moves, SortInv, TypeInv
    <3>3. variant \in {"tight", "parallel", "aligned", "align"} BY <3>2 DEF CaseInv, Variants
    <3>4. Program[1] = "zero" /\ Program[2] = "count" /\ (Atomic => Program[CursorAt] = "cursor")
      BY <3>3 DEF Program, CursorAt, Atomic
    <3> QED BY <3>1, <3>4
  <2> QED BY <2>1, <2>2
<1>3. \A u \in Threads : /\ at'[u] > 1 <=> at[u] > 1
                         /\ at'[u] > 2 <=> at[u] > 2
                         /\ Atomic => (at'[u] > CursorAt <=> at[u] > CursorAt)
  BY <1>2, MovesFacts DEF CursorAt
<1>4. Threads' = Threads /\ TableRows' = TableRows /\ Atomic' = Atomic /\ CursorAt' = CursorAt
  BY <1>1, SameShape
<1>5. \A e : Cursored(e)' <=> Cursored(e)
  BY <1>1, <1>3, <1>4, SameMine DEF Cursored
<1>6. \A b, e : Tallied(b, e)' = Tallied(b, e)
  <2>1. \A idx \in Routes : Home(idx) \in Threads BY HomeIs DEF Moves, SortInv, TypeInv
  <2>2. \A b, e : Share(b, e) \subseteq Routes BY DEF Share, RoutesTo
  <2> QED BY <1>1, <1>3, <2>1, <2>2, SameShare, SameRoute DEF Tallied
<1>7. \A u : Clears(u)' = Clears(u) /\ BlockIdx(u)' = BlockIdx(u) BY <1>1, SameThread
<1>8. CountInv BY DEF Moves, SortInv
<1>9. ASSUME NEW b \in TableRows, NEW e \in Experts,
             NEW u \in Threads, e \in Clears(u), BlockIdx(u) = b, at'[u] > 1, ~Cursored(e)
      PROVE  mem'.counts[b][e] = Cardinality(Tallied(b, e))
  BY <1>3, <1>8, <1>9 DEF CountInv
<1> QED BY <1>1, <1>4, <1>5, <1>6, <1>7, <1>9 DEF CountInv, Same

LEMMA QuietTotals ==
  ASSUME NEW t, NEW s, Moves(t, s), s # "totals", mem'.vals = mem.vals
  PROVE  TotalsInv'
<1> SUFFICES ASSUME variant = "parallel" PROVE TotalsInv'
  BY MovesFacts DEF TotalsInv, Same
<1>1. Same BY MovesFacts
<1>2. at[t] # 3
  <2>1. Program[at[t]] = s BY DEF Moves, Segment, InSegment
  <2>2. Program[3] = "totals" BY DEF Program
  <2> QED BY <2>1, <2>2
<1>3. \A u \in Threads : at'[u] > 3 => at[u] > 3 BY <1>2, MovesFacts
<1>4. TotalsInv BY DEF Moves, SortInv
<1> QED BY <1>1, <1>3, <1>4, SameShape, SameMine, SameExpert DEF TotalsInv, Same

LEMMA ThreadsAre ==
  Threads \subseteq Nat /\ 0 \in Threads /\ PrefixThread \in Threads
<1>1. Blocks * BlockThreads \in Nat \ {0}
  <2>1. ASSUME NEW m \in Nat \ {0}, NEW n \in Nat \ {0} PROVE m * n \in Nat \ {0} OBVIOUS
  <2> QED BY <2>1, BlocksPositive, Positive
<1>2. Workers \in Nat \ {0} BY Positive DEF Workers
<1>3. CASE variant = "parallel" BY <1>1, <1>3 DEF Threads, PrefixThread
<1>4. CASE variant = "small" BY <1>2, <1>4 DEF Threads, PrefixThread
<1>5. CASE variant # "parallel" /\ variant # "small" BY <1>5, Positive DEF Threads, PrefixThread
<1> QED BY <1>3, <1>4, <1>5

LEMMA QuietPrefix ==
  ASSUME NEW t, NEW s, Moves(t, s), s # "prefix", variant # "align" => mem'.offsets = mem.offsets
  PROVE  PrefixInv'
<1> SUFFICES ASSUME variant # "align" PROVE PrefixInv'
  BY MovesFacts DEF PrefixInv, Same
<1>1. Same BY MovesFacts
<1>2. at[t] # PrefixAt
  <2>1. Program[at[t]] = s BY DEF Moves, Segment, InSegment
  <2>2. variant \in {"tight", "parallel", "aligned", "small"}
    BY DEF Moves, SortInv, TypeInv, CaseInv, Variants
  <2>3. Program[PrefixAt] = "prefix" BY <2>2 DEF Program, PrefixAt
  <2> QED BY <2>1, <2>3
<1>3. at'[PrefixThread] > PrefixAt => at[PrefixThread] > PrefixAt
  BY <1>2, MovesFacts, ThreadsAre DEF PrefixAt
<1>4. PrefixInv BY DEF Moves, SortInv
<1> QED BY <1>1, <1>3, <1>4, SameShape, SameExpert DEF PrefixInv, Same

LEMMA QuietCursor ==
  ASSUME NEW t, NEW s, Moves(t, s), s # "cursor",
         at[t] > 2 => mem'.counts = mem.counts
  PROVE  CursorInv'
<1> SUFFICES ASSUME Atomic PROVE CursorInv'
  BY MovesFacts, SameShape DEF CursorInv
<1>1. Same /\ left' = left /\ slot_buf' = slot_buf BY MovesFacts
<1>2. at[t] # CursorAt
  <2>1. Program[at[t]] = s BY DEF Moves, Segment, InSegment
  <2>3. Program[CursorAt] = "cursor" BY DEF Program, CursorAt, Atomic
  <2> QED BY <2>1, <2>3
<1>3. \A u \in Threads : at'[u] > CursorAt => at[u] > CursorAt BY <1>2, MovesFacts DEF CursorAt
<1>4. CursorInv BY DEF Moves, SortInv
<1>5. CASE at[t] > 2
  <2>1. Threads' = Threads /\ TableRows' = TableRows /\ CursorAt' = CursorAt /\ Atomic' = Atomic
    BY <1>1, SameShape
  <2>2. \A b, e : Held(b, e)' = Held(b, e) BY <1>1, SameClaimed
  <2>3. mem'.counts = mem.counts BY <1>5
  <2> QED BY <1>1, <1>3, <1>4, <2>1, <2>2, <2>3, SameMine, SameExpert, SameShare DEF CursorInv
<1>6. CASE ~(at[t] > 2)
  <2>1. \A u \in Threads : ~(at[u] > CursorAt)
    <3> SUFFICES ASSUME NEW u \in Threads, at[u] > CursorAt PROVE FALSE OBVIOUS
    <3>1. BarrierInv BY DEF Moves, SortInv
    <3>2. CursorAt \in 1 .. Len(Program) BY ProgramIs DEF CursorAt, Moves, SortInv, TypeInv, Atomic
    <3>3. at[t] >= CursorAt
      <4>1. ~(variant = "parallel" /\ CursorAt = 2) BY DEF CursorAt
      <4>2. t \in Threads BY MovesFacts
      <4> QED BY <3>1, <3>2, <4>1, <4>2 DEF BarrierInv
    <3> QED BY <1>6, <3>3, MovesFacts DEF CursorAt
  <2> QED BY <1>1, <1>3, <2>1, SameShape DEF CursorInv
<1> QED BY <1>5, <1>6

LEMMA QuietWorker ==
  ASSUME NEW t, NEW s, Moves(t, s), s \notin {"fill_count", "column"},
         variant = "small" => mem'.counts = mem.counts
  PROVE  WorkerInv' /\ ColumnInv'
<1> SUFFICES ASSUME variant = "small" PROVE WorkerInv' /\ ColumnInv'
  BY MovesFacts DEF WorkerInv, ColumnInv, Same
<1>1. Same /\ left' = left /\ slot_buf' = slot_buf BY MovesFacts
<1>2. at[t] > 2
  <2>1. Program[at[t]] = s BY DEF Moves, Segment, InSegment
  <2>2. Program[1] = "fill_count" /\ Program[2] = "column" BY DEF Program
  <2> QED BY <2>1, <2>2, MovesFacts
<1>3. \A u \in Threads : (at'[u] > 1 <=> at[u] > 1) /\ (at'[u] > 2 <=> at[u] > 2)
                         /\ (at'[u] <= 2 <=> at[u] <= 2)
  BY <1>2, MovesFacts
<1>4. Threads = 0 .. Workers /\ Experts \subseteq 0 .. Workers - 1 /\ Workers \in Nat
  BY Positive DEF Threads, Experts, Workers
<1>5. \A w \in 1 .. Workers : w \in Threads BY <1>4
<1>6. \A e \in Experts : e + 1 \in Threads BY <1>4
<1>7. WorkerInv /\ ColumnInv BY DEF Moves, SortInv
<1>8. \A b, e : Held(b, e)' = Held(b, e) BY <1>1, SameClaimed
<1>9. \A b, e : Share(b, e)' = Share(b, e) /\ Before(b, e)' = Before(b, e) BY <1>1, SameShare
<1>10. WorkerInv' BY <1>1, <1>3, <1>5, <1>6, <1>7, <1>9 DEF WorkerInv, Same
<1>11. ColumnInv' BY <1>1, <1>3, <1>6, <1>7, <1>8, <1>9 DEF ColumnInv, Same
<1> QED BY <1>10, <1>11

LEMMA QuietScan ==
  ASSUME NEW t, NEW s, Moves(t, s), s \notin {"vals", "warp_scan", "warp_excl", "cumsum"},
         variant = "align" => mem'.vals = mem.vals /\ mem'.warp = mem.warp /\ mem'.offsets = mem.offsets
  PROVE  ScanInv'
<1> SUFFICES ASSUME variant = "align" PROVE ScanInv'
  BY MovesFacts DEF ScanInv, Same
<1>1. Same /\ left' = left /\ slot_buf' = slot_buf BY MovesFacts
<1>2. at[t] \in {1, 2, 7}
  <2>1. Program[at[t]] = s BY DEF Moves, Segment, InSegment
  <2>2. Program[3] = "vals" /\ Program[4] = "warp_scan" /\ Program[5] = "warp_excl" /\ Program[6] = "cumsum"
        /\ Len(Program) = 8
    BY DEF Program
  <2> QED BY <2>1, <2>2, MovesFacts
<1>3. \A u \in Threads : /\ at'[u] = 4 <=> at[u] = 4
                         /\ at'[u] > 4 <=> at[u] > 4
                         /\ at'[u] > 5 <=> at[u] > 5
                         /\ at'[u] <= 5 <=> at[u] <= 5
                         /\ at'[u] > 6 <=> at[u] > 6
  BY <1>2, MovesFacts
<1>4. Experts \subseteq Threads /\ NumExperts - 1 \in Threads /\ 0 \in Threads
  <2>1. NumExperts <= 2 * WarpSize BY DEF Moves, SortInv, TypeInv, CaseInv
  <2> QED BY <2>1, Positive DEF Threads, Experts
<1>5. ScanInv BY DEF Moves, SortInv
<1>6. \A b, e : Held(b, e)' = Held(b, e) BY <1>1, SameClaimed
<1>7. \A e : RegionStart(e)' = RegionStart(e) /\ Below(e)' = Below(e) BY <1>1, SameExpert
<1>8. mem'.vals = mem.vals /\ mem'.warp = mem.warp /\ mem'.offsets = mem.offsets OBVIOUS
<1>9. Threads' = Threads BY <1>1, SameShape
<1>10. \A u : Warp(u)' = Warp(u) BY DEF Warp
<1> QED BY <1>1, <1>3, <1>4, <1>5, <1>6, <1>7, <1>8, <1>9, <1>10 DEF ScanInv, Same

LEMMA QuietBlank ==
  ASSUME NEW t, NEW s, Moves(t, s), mem'.rows = mem.rows,
         s = "zero" => variant # "aligned",
         s = "finalize" => variant # "align",
         s = "fill_count" => t # 0
  PROVE  BlankInv'
<1>1. Same BY MovesFacts
<1>2. BlankInv BY DEF Moves, SortInv
<1>3. Program[at[t]] = s BY DEF Moves, Segment, InSegment
<1>4. variant = "aligned" => Program[1] = "zero" BY DEF Program
<1>5. variant = "align" => Program[7] = "finalize" BY DEF Program
<1>6. variant = "small" => Program[1] = "fill_count" BY DEF Program
<1>7. \A u \in Threads : /\ variant = "aligned" /\ at'[u] > 1 => at[u] > 1
                         /\ variant = "align" /\ at'[u] > 7 => at[u] > 7
                         /\ variant = "small" /\ u = 0 /\ at'[u] > 1 => at[u] > 1
  BY <1>3, <1>4, <1>5, <1>6, MovesFacts
<1>8. Rows' = Rows /\ Threads' = Threads /\ capacity' = capacity BY <1>1, SameShape
<1>9. \A u, n : Mine(u, n)' = Mine(u, n) BY <1>1, SameMine
<1>10. ASSUME NEW u \in Threads, NEW r \in Rows, Blanked(u, r)' PROVE Blanked(u, r)
  BY <1>1, <1>7, <1>8, <1>9, <1>10 DEF Blanked, Same
<1> QED BY <1>2, <1>8, <1>10 DEF BlankInv

\* A segment places nothing, so that it may blank what no route stands in.
LEMMA MovesPlace ==
  ASSUME NEW t, NEW s, Moves(t, s), PlaceInv, mem'.inverse = mem.inverse,
         \/ mem'.rows = mem.rows
         \/ /\ Claimed = {}
            /\ \A r \in Rows : mem'.rows[r] \in {Unset, Sentinel} \/ mem'.rows[r] = mem.rows[r]
  PROVE  PlaceInv'
<1>1. Same /\ left' = left /\ slot_buf' = slot_buf BY MovesFacts
<1>2. Claimed' = Claimed /\ Stored' = Stored /\ (\A b, e : Held(b, e)' = Held(b, e))
  BY <1>1, SameClaimed
<1>3. Rows' = Rows /\ Threads' = Threads /\ Sentinel' = Sentinel BY <1>1, SameShape
<1>4. \A e : RegionStart(e)' = RegionStart(e) BY <1>1, SameExpert
<1>5. \A b, e : Before(b, e)' = Before(b, e) BY <1>1, SameShare
<1>6. \A idx : TableRow(idx)' = TableRow(idx) BY <1>1, SameRoute
<1>7. PICK place \in [Claimed -> Rows] : Places(place) BY DEF PlaceInv
<1>8. Stored \subseteq Claimed BY DEF Stored, Claimed
<1>9. CASE mem'.rows = mem.rows
  <2>1. Places(place)'
    BY <1>1, <1>2, <1>3, <1>4, <1>5, <1>6, <1>7, <1>9 DEF Places, Same
  <2> QED BY <1>2, <1>3, <1>7, <2>1 DEF PlaceInv
<1>10. CASE /\ Claimed = {}
            /\ \A r \in Rows : mem'.rows[r] \in {Unset, Sentinel} \/ mem'.rows[r] = mem.rows[r]
  <2>1. Stored = {} BY <1>8, <1>10
  <2>2. \A r \in Rows : mem'.rows[r] \in {Unset, Sentinel}
    BY <1>7, <1>10, <2>1 DEF Places
  <2>3. Places(place)'
    BY <1>1, <1>2, <1>3, <1>7, <1>10, <2>1, <2>2 DEF Places, Same
  <2> QED BY <1>2, <1>3, <1>7, <2>3 DEF PlaceInv
<1> QED BY <1>9, <1>10

-----------------------------------------------------------------------------
(* Clearing the counts. *)

LEMMA BlockIdxIs ==
  ASSUME variant # "small", NEW t \in Threads
  PROVE  BlockIdx(t) \in TableRows
<1>1. CASE variant = "parallel"
  <2>1. t \in Nat /\ t < Blocks * BlockThreads
    <3>1. PICK n \in Nat : n = Blocks * BlockThreads BY BlocksPositive, Positive, TimesMono
    <3>2. t \in 0 .. n - 1 BY <1>1, <3>1 DEF Threads
    <3>3. t \in Nat /\ t < n BY <3>1, <3>2
    <3> QED BY <3>1, <3>3, Zenon
  <2>2. PICK q \in Nat, r \in 0 .. BlockThreads - 1 :
          q = t \div BlockThreads /\ r = t % BlockThreads /\ t = BlockThreads * q + r
    <3>1. t \in Nat /\ BlockThreads \in Nat \ {0} BY <2>1, Positive
    <3> QED BY <3>1, DivMod
  <2>3. q < Blocks
    <3> SUFFICES ASSUME Blocks <= q PROVE FALSE BY BlocksPositive
    <3>1. BlockThreads * Blocks <= BlockThreads * q /\ BlockThreads * Blocks \in Nat
          /\ BlockThreads * q \in Nat
      BY <2>2, BlocksPositive, Positive, TimesMono
    <3>2. Blocks * BlockThreads = BlockThreads * Blocks BY BlocksPositive, Positive
    <3> QED BY <2>1, <2>2, <3>1, <3>2
  <2>4. q \in 0 .. Blocks - 1 BY <2>3, BlocksPositive
  <2> QED BY <1>1, <2>2, <2>4 DEF BlockIdx, TableRows
<1>2. CASE variant # "parallel" BY <1>2 DEF BlockIdx, TableRows
<1> QED BY <1>1, <1>2

LEMMA MovesMem ==
  ASSUME NEW t, NEW s, Moves(t, s)
  PROVE  CaseInv /\ Memory /\ MemInv
BY DEF Moves, SortInv, TypeInv, MemInv

LEMMA ZeroWrites ==
  ASSUME NEW t, SortInv, t \in Threads, Zero(t)
  PROVE  /\ Moves(t, "zero") /\ variant # "small" /\ at[t] = 1 /\ Memory'
         /\ mem'.counts = [mem.counts EXCEPT ![BlockIdx(t)] =
              [e \in Experts |-> IF e \in Clears(t) THEN 0 ELSE mem.counts[BlockIdx(t)][e]]]
         /\ mem'.vals = mem.vals /\ mem'.warp = mem.warp /\ mem'.offsets = mem.offsets
         /\ mem'.inverse = mem.inverse
         /\ mem'.rows = IF variant = "aligned"
                        THEN [r \in Rows |-> IF r \in Mine(t, capacity) THEN Sentinel ELSE mem.rows[r]]
                        ELSE mem.rows
<1>1. Moves(t, "zero") BY DEF Moves, Zero
<1>2. variant # "small" /\ at[t] = 1 BY <1>1, MovesFacts DEF Stands
<1>3. Memory /\ mem.counts \in [TableRows -> [Experts -> Int]] /\ mem.rows \in [Rows -> Int]
  BY <1>1, MovesMem DEF MemInv
<1>4. BlockIdx(t) \in TableRows BY <1>2, BlockIdxIs
<1>5. \A e : e \in Clears(t) <=> e \in (IF variant = "parallel"
                   THEN Strided(t % BlockThreads, BlockThreads, NumExperts)
                   ELSE Mine(t, NumExperts))
  BY DEF Clears
<1> DEFINE b == BlockIdx(t)
           row == [e \in Experts |-> IF e \in Clears(t) THEN 0 ELSE mem.counts[b][e]]
           cleared == [mem EXCEPT !.counts[b] = row]
           blanked == [cleared EXCEPT
                       !.rows = [r \in Rows |-> IF r \in Mine(t, capacity) THEN Sentinel ELSE mem.rows[r]],
                       !.metadata = Overlay(mem.metadata, Mine(t, capacity), LAMBDA r : NumExperts)]
<1>6. mem' = IF variant # "aligned" THEN cleared ELSE blanked
  BY <1>3, <1>4, <1>5 DEF Zero, Overlay, Clears, Memory
<1>7. CASE variant # "aligned"
  <2>1. mem' = cleared BY <1>6, <1>7
  <2> HIDE DEF row, b
  <2> QED BY <1>1, <1>2, <1>3, <1>7, <2>1 DEF Memory, row, b
<1>8. CASE variant = "aligned"
  <2>1. mem' = blanked BY <1>6, <1>8
  <2> QED BY <1>1, <1>2, <1>3, <1>8, <2>1 DEF Memory
<1> QED BY <1>7, <1>8

LEMMA MovesCursored ==
  ASSUME NEW t, NEW s, Moves(t, s), at[t] # CursorAt
  PROVE  \A e : Cursored(e)' <=> Cursored(e)
<1>1. Same BY MovesFacts
<1>2. \A u \in Threads : at'[u] > CursorAt <=> at[u] > CursorAt BY MovesFacts DEF CursorAt
<1>3. Threads' = Threads /\ Atomic' = Atomic /\ CursorAt' = CursorAt BY <1>1, SameShape
<1> QED BY <1>1, <1>2, <1>3, SameMine DEF Cursored

LEMMA SharesAreRoutes ==
  ASSUME CaseInv
  PROVE  \A b, e : /\ Share(b, e) \subseteq Routes
                   /\ \A idx \in Share(b, e) : /\ idx \in Routes /\ flat[idx] = e /\ TableRow(idx) = b
                                               /\ Home(idx) \in Threads /\ Table(Home(idx)) = b
                                               /\ idx \in RoutesOf(Home(idx))
<1>1. \A idx \in Routes : Home(idx) \in Threads BY HomeIs
<1>2. \A idx \in Routes : idx \in RoutesOf(Home(idx)) BY <1>1, HomeIs
<1> QED BY <1>1, <1>2 DEF Share, RoutesTo, TableRow

LEMMA MovesTallied ==
  ASSUME NEW t, NEW s, Moves(t, s), at[t] # 2
  PROVE  \A b, e : Tallied(b, e)' = Tallied(b, e)
<1>1. Same /\ CaseInv BY MovesFacts, MovesMem
<1>2. \A u \in Threads : at'[u] > 2 <=> at[u] > 2 BY MovesFacts
<1>3. \A b, e : Share(b, e)' = Share(b, e) BY <1>1, SameShare
<1>4. \A idx : Home(idx)' = Home(idx) BY <1>1, SameRoute
<1>5. \A b, e, idx : idx \in Share(b, e) => Home(idx) \in Threads BY <1>1, SharesAreRoutes
<1> QED BY <1>2, <1>3, <1>4, <1>5 DEF Tallied

LEMMA NotReady ==
  ASSUME SortInv, NEW t \in Threads, at[t] < ReadyAt
  PROVE  Claimed = {}
<1>1. at \in [Threads -> 1 .. Len(Program)] /\ ReadyInv BY DEF SortInv, TypeInv
<1>2. ReadyAt \in Int BY ProgramIs DEF ReadyAt, SortInv, TypeInv
<1>3. ~(at[t] >= ReadyAt) BY <1>1, <1>2
<1> QED BY <1>1, <1>3 DEF ReadyInv

LEMMA LenIs ==
  ASSUME CaseInv
  PROVE  Len(Program) \in Nat /\ Len(Program) >= 5
<1>1. Len(Program) = CASE variant = "parallel" -> 6 [] variant = "align" -> 8 [] OTHER -> 5
  BY ProgramIs
<1> QED BY <1>1

LEMMA ReadyAtIs ==
  ASSUME CaseInv
  PROVE  ReadyAt = CASE variant = "parallel" -> 6 [] variant = "align" -> 8
                     [] variant = "small" -> 4 [] OTHER -> 5
BY ProgramIs DEF ReadyAt

\* The thread that clears first has seen nobody count.
LEMMA ZeroCount ==
  ASSUME NEW t, SortInv, t \in Threads, Zero(t)
  PROVE  CountInv'
<1>1. Moves(t, "zero") /\ variant # "small" /\ at[t] = 1
      /\ mem'.counts = [mem.counts EXCEPT ![BlockIdx(t)] =
              [e \in Experts |-> IF e \in Clears(t) THEN 0 ELSE mem.counts[BlockIdx(t)][e]]]
  BY ZeroWrites
<1>2. Same /\ CaseInv BY <1>1, MovesFacts, MovesMem
<1>3. at[t] # CursorAt BY <1>1 DEF CursorAt
<1>4. \A e : Cursored(e)' <=> Cursored(e) BY <1>1, <1>3, MovesCursored
<1>5. \A b, e : Tallied(b, e)' = Tallied(b, e) BY <1>1, MovesTallied
<1>6. Threads' = Threads /\ TableRows' = TableRows BY <1>2, SameShape
<1>7. \A u : Clears(u)' = Clears(u) /\ BlockIdx(u)' = BlockIdx(u) BY <1>2, SameThread
<1>8. mem.counts \in [TableRows -> [Experts -> Int]] BY <1>1, MovesMem DEF MemInv
<1>9. CountInv /\ BarrierInv BY DEF SortInv
<1>10. ASSUME NEW b \in TableRows, NEW e \in Experts, NEW u \in Threads,
              e \in Clears(u), BlockIdx(u) = b, at'[u] > 1, ~Cursored(e)
       PROVE  mem'.counts[b][e] = Cardinality(Tallied(b, e))
  <2>1. CASE e \in Clears(t) /\ b = BlockIdx(t)
    <3>1. mem'.counts[b][e] = 0 BY <1>1, <1>8, <2>1
    <3>2. Tallied(b, e) = {}
      <4> SUFFICES ASSUME NEW idx \in Share(b, e), at[Home(idx)] > 2 PROVE FALSE BY DEF Tallied
      <4>1. Home(idx) \in Threads /\ Table(Home(idx)) = b BY <1>2, SharesAreRoutes
      <4>2. BlockIdx(Home(idx)) = BlockIdx(t) BY <1>1, <2>1, <4>1 DEF Table
      <4>3. 2 \in 1 .. Len(Program) BY <1>2, LenIs
      <4>4. at[t] >= 2 BY <1>9, <4>1, <4>2, <4>3 DEF BarrierInv
      <4> QED BY <1>1, <4>4
    <3> QED BY <3>1, <3>2, CountEmpty
  <2>2. CASE ~(e \in Clears(t) /\ b = BlockIdx(t))
    <3>1. u # t BY <1>10, <2>2
    <3>2. at[u] > 1 BY <1>1, <1>10, <3>1, MovesFacts
    <3>3. mem'.counts[b][e] = mem.counts[b][e] BY <1>1, <1>8, <2>2
    <3> QED BY <1>1, <1>9, <1>10, <3>2, <3>3 DEF CountInv
  <2> QED BY <2>1, <2>2
<1> QED BY <1>2, <1>4, <1>5, <1>6, <1>7, <1>10 DEF CountInv, Same

LEMMA ZeroStep ==
  ASSUME NEW t, SortInv, PlaceInv, t \in Threads, Zero(t)
  PROVE  SortInv' /\ PlaceInv'
<1>1. Moves(t, "zero") /\ variant # "small" /\ at[t] = 1 BY ZeroWrites
<1>2. MemInv /\ CaseInv BY <1>1, MovesMem
<1>3. mem'.vals = mem.vals /\ mem'.warp = mem.warp /\ mem'.offsets = mem.offsets
      /\ mem'.inverse = mem.inverse /\ Memory'
  BY ZeroWrites
<1>4. mem'.rows = IF variant = "aligned"
                  THEN [r \in Rows |-> IF r \in Mine(t, capacity) THEN Sentinel ELSE mem.rows[r]]
                  ELSE mem.rows
  BY ZeroWrites
<1>5. mem'.counts \in [TableRows -> [Experts -> Int]]
  <2>1. BlockIdx(t) \in TableRows /\ mem.counts \in [TableRows -> [Experts -> Int]]
    BY <1>1, <1>2, BlockIdxIs DEF MemInv
  <2>2. [e \in Experts |-> IF e \in Clears(t) THEN 0 ELSE mem.counts[BlockIdx(t)][e]] \in [Experts -> Int]
    BY <2>1
  <2>3. mem'.counts = [mem.counts EXCEPT ![BlockIdx(t)] =
              [e \in Experts |-> IF e \in Clears(t) THEN 0 ELSE mem.counts[BlockIdx(t)][e]]]
    BY ZeroWrites
  <2> QED BY <2>1, <2>2, <2>3
<1>6. Sentinel \in Nat BY NumelPositive, Positive DEF Sentinel
<1>7. mem'.rows \in [Rows -> Int] BY <1>2, <1>4, <1>6 DEF MemInv
<1>8. TypeInv' /\ BarrierInv'
  BY <1>1, <1>2, <1>3, <1>5, <1>7, MovesType DEF MemInv
<1>9. ReadyInv' BY <1>1, MovesReady
<1>10. CountInv' BY ZeroCount
<1>11. TotalsInv' BY <1>1, <1>3, QuietTotals
<1>12. PrefixInv' BY <1>1, <1>3, QuietPrefix
<1>13. CursorInv' BY <1>1, QuietCursor
<1>14. WorkerInv' /\ ColumnInv' BY <1>1, QuietWorker
<1>15. ScanInv' BY <1>1, <1>3, QuietScan
<1>16. BlankInv'
  <2>1. CASE variant # "aligned"
    <3>1. mem'.rows = mem.rows BY <1>4, <2>1
    <3>2. Moves(t, "zero") BY <1>1
    <3> QED BY <2>1, <3>1, <3>2, QuietBlank
  <2>2. CASE variant = "aligned"
    <3>1. Same BY <1>1, MovesFacts
    <3>2. Rows' = Rows /\ Threads' = Threads /\ capacity' = capacity BY <3>1, SameShape
    <3>3. \A u, n : Mine(u, n)' = Mine(u, n) BY <3>1, SameMine
    <3>4. BlankInv BY DEF SortInv
    <3>5. ASSUME NEW u \in Threads, NEW r \in Rows, at'[u] > 1, r \in Mine(u, capacity)
          PROVE  mem'.rows[r] # Unset
      <4>1. CASE r \in Mine(t, capacity)
        <5>1. mem'.rows[r] = Sentinel BY <1>4, <2>2, <3>5, <4>1
        <5> QED BY <1>6, <5>1 DEF Unset
      <4>2. CASE r \notin Mine(t, capacity)
        <5>1. at[u] > 1 BY <1>1, <3>5, <4>2, MovesFacts
        <5>2. mem'.rows[r] = mem.rows[r] BY <1>4, <2>2, <3>5, <4>2
        <5> QED BY <2>2, <3>4, <3>5, <5>1, <5>2 DEF BlankInv, Blanked
      <4> QED BY <4>1, <4>2
    <3> QED BY <2>2, <3>1, <3>2, <3>3, <3>5 DEF BlankInv, Blanked, Same
  <2> QED BY <2>1, <2>2
<1>17. PlaceInv'
  <2>1. at[t] < ReadyAt BY <1>1, <1>2, ReadyAtIs
  <2>2. Claimed = {} BY <1>1, <2>1, NotReady
  <2>3. \A r \in Rows : mem'.rows[r] \in {Unset, Sentinel} \/ mem'.rows[r] = mem.rows[r] BY <1>4
  <2> QED BY <1>1, <1>3, <2>2, <2>3, MovesPlace
<1> QED BY <1>8, <1>9, <1>10, <1>11, <1>12, <1>13, <1>14, <1>15, <1>16, <1>17 DEF SortInv

-----------------------------------------------------------------------------
(* Counting. *)

\* A segment that leaves the rows alone leaves the places alone.
LEMMA QuietPlace ==
  ASSUME NEW t, NEW s, Moves(t, s), PlaceInv, mem'.inverse = mem.inverse, mem'.rows = mem.rows
  PROVE  PlaceInv'
BY MovesPlace

LEMMA MovesAt ==
  ASSUME NEW t, NEW s, Moves(t, s)
  PROVE  /\ \A u \in Threads : /\ at[u] \in Int /\ at'[u] \in Int /\ at'[u] >= at[u]
                               /\ u # t => at'[u] = at[u]
         /\ at'[t] = at[t] + 1
BY MovesFacts

LEMMA CountWrites ==
  ASSUME NEW t, SortInv, t \in Threads, Count(t)
  PROVE  /\ Moves(t, "count") /\ variant # "small" /\ at[t] = 2 /\ Memory'
         /\ BlockIdx(t) \in TableRows
         /\ mem'.counts = [mem.counts EXCEPT ![BlockIdx(t)] =
              [e \in Experts |-> mem.counts[BlockIdx(t)][e] + Tally(t, e)]]
         /\ mem'.vals = mem.vals /\ mem'.warp = mem.warp /\ mem'.offsets = mem.offsets
         /\ mem'.inverse = mem.inverse /\ mem'.rows = mem.rows
<1>1. Moves(t, "count") BY DEF Moves, Count
<1>2. variant # "small" /\ at[t] = 2 BY <1>1, MovesFacts DEF Stands
<1>3. Memory /\ mem.counts \in [TableRows -> [Experts -> Int]]
  BY <1>1, MovesMem DEF MemInv
<1>4. BlockIdx(t) \in TableRows BY <1>2, BlockIdxIs
<1> DEFINE b == BlockIdx(t)
           row == [e \in Experts |-> mem.counts[b][e] + Tally(t, e)]
<1>5. mem' = [mem EXCEPT !.counts[b] = row] BY <1>3, <1>4 DEF Count, Memory
<1> HIDE DEF row, b
<1> QED BY <1>1, <1>2, <1>3, <1>4, <1>5 DEF Memory, row, b

\* The routes a thread counts come to those the threads of its block have counted.
LEMMA CountTallied ==
  ASSUME NEW t, SortInv, t \in Threads, Count(t), NEW b, NEW e \in Experts
  PROVE  /\ Tallied(b, e) \subseteq Routes
         /\ b = BlockIdx(t) => Cardinality(Tallied(b, e)') = Cardinality(Tallied(b, e)) + Tally(t, e)
         /\ b # BlockIdx(t) => Tallied(b, e)' = Tallied(b, e)
<1>1. Moves(t, "count") /\ variant # "small" /\ at[t] = 2 BY CountWrites
<1>2. Same /\ CaseInv BY <1>1, MovesFacts, MovesMem
<1>3. \A u \in Threads : at'[u] > 2 <=> at[u] > 2 \/ u = t BY <1>1, MovesFacts
<1>4. Share(b, e)' = Share(b, e) BY <1>2, SameShare
<1>5. \A idx : Home(idx)' = Home(idx) BY <1>2, SameRoute
<1>6. /\ Share(b, e) \subseteq Routes
      /\ \A idx \in Share(b, e) : /\ idx \in Routes /\ flat[idx] = e /\ Home(idx) \in Threads
                                  /\ Table(Home(idx)) = b
                                  /\ idx \in RoutesOf(Home(idx))
  BY <1>2, SharesAreRoutes
<1> DEFINE own == {idx \in RoutesOf(t) : flat[idx] = e}
<1>7. \A u : Table(u) = BlockIdx(u) BY <1>1 DEF Table
<1>8. ASSUME b = BlockIdx(t) PROVE own = {idx \in Share(b, e) : Home(idx) = t}
  <2>1. RoutesOf(t) = {idx \in Routes : Home(idx) = t} BY <1>2, HomeIs
  <2> QED BY <1>6, <1>7, <1>8, <2>1 DEF Share, RoutesTo, TableRow
<1>9. Tallied(b, e)' = Tallied(b, e) \cup {idx \in Share(b, e) : Home(idx) = t}
  BY <1>3, <1>4, <1>5, <1>6 DEF Tallied
<1>10. Tallied(b, e) \cap {idx \in Share(b, e) : Home(idx) = t} = {} BY <1>1 DEF Tallied
<1>11. Tallied(b, e) \subseteq Routes BY <1>6 DEF Tallied
<1>12. CASE b = BlockIdx(t)
  <2>1. own \subseteq Routes BY <1>6, <1>8, <1>12
  <2>2. Tallied(b, e)' = Tallied(b, e) \cup own /\ Tallied(b, e) \cap own = {}
    BY <1>8, <1>9, <1>10, <1>12
  <2> HIDE DEF own
  <2>3. Cardinality(Tallied(b, e)') = Cardinality(Tallied(b, e)) + Cardinality(own)
    BY <1>11, <2>1, <2>2, CountUnion
  <2>4. Tally(t, e) = Cardinality(own) BY DEF Tally, own
  <2> QED BY <1>11, <1>12, <2>3, <2>4
<1>13. CASE b # BlockIdx(t)
  <2>1. {idx \in Share(b, e) : Home(idx) = t} = {} BY <1>6, <1>7, <1>13
  <2> QED BY <1>9, <1>11, <1>13, <2>1
<1> QED BY <1>12, <1>13

LEMMA CountCount ==
  ASSUME NEW t, SortInv, t \in Threads, Count(t)
  PROVE  CountInv'
<1>1. Moves(t, "count") /\ variant # "small" /\ at[t] = 2 /\ BlockIdx(t) \in TableRows
      /\ mem'.counts = [mem.counts EXCEPT ![BlockIdx(t)] =
              [e \in Experts |-> mem.counts[BlockIdx(t)][e] + Tally(t, e)]]
  BY CountWrites
<1>2. Same /\ CaseInv BY <1>1, MovesFacts, MovesMem
<1>3. at[t] # CursorAt BY <1>1 DEF CursorAt
<1>4. \A e : Cursored(e)' <=> Cursored(e) BY <1>1, <1>3, MovesCursored
<1>5. Threads' = Threads /\ TableRows' = TableRows BY <1>2, SameShape
<1>6. \A u : Clears(u)' = Clears(u) /\ BlockIdx(u)' = BlockIdx(u) BY <1>2, SameThread
<1>7. mem.counts \in [TableRows -> [Experts -> Int]] BY <1>1, MovesMem DEF MemInv
<1>8. CountInv BY DEF SortInv
<1>9. \A u \in Threads : at'[u] > 1 => at[u] > 1 BY <1>1, MovesFacts
<1>10. ASSUME NEW b \in TableRows, NEW e \in Experts, NEW u \in Threads,
              e \in Clears(u), BlockIdx(u) = b, at'[u] > 1, ~Cursored(e)
       PROVE  mem'.counts[b][e] = Cardinality(Tallied(b, e)')
  <2>1. at[u] > 1 BY <1>9, <1>10
  <2>2. mem.counts[b][e] = Cardinality(Tallied(b, e)) BY <1>1, <1>8, <1>10, <2>1 DEF CountInv
  <2>3. CASE b = BlockIdx(t)
    <3>1. mem'.counts[b][e] = mem.counts[b][e] + Tally(t, e) BY <1>1, <1>7, <2>3
    <3>2. Cardinality(Tallied(b, e)') = Cardinality(Tallied(b, e)) + Tally(t, e)
      BY <2>3, CountTallied
    <3> QED BY <2>2, <3>1, <3>2
  <2>4. CASE b # BlockIdx(t)
    <3>1. mem'.counts[b][e] = mem.counts[b][e] BY <1>1, <1>7, <2>4
    <3>2. Tallied(b, e)' = Tallied(b, e) BY <2>4, CountTallied
    <3> QED BY <2>2, <3>1, <3>2
  <2> QED BY <2>3, <2>4
<1> QED BY <1>2, <1>4, <1>5, <1>6, <1>10 DEF CountInv, Same

LEMMA CountStep ==
  ASSUME NEW t, SortInv, PlaceInv, t \in Threads, Count(t)
  PROVE  SortInv' /\ PlaceInv'
<1>1. Moves(t, "count") /\ variant # "small" /\ at[t] = 2 /\ Memory' /\ BlockIdx(t) \in TableRows
  BY CountWrites
<1>2. MemInv /\ CaseInv BY <1>1, MovesMem
<1>3. mem'.vals = mem.vals /\ mem'.warp = mem.warp /\ mem'.offsets = mem.offsets
      /\ mem'.inverse = mem.inverse /\ mem'.rows = mem.rows
  BY CountWrites
<1>4. mem'.counts \in [TableRows -> [Experts -> Int]]
  <2>1. mem.counts \in [TableRows -> [Experts -> Int]] BY <1>2 DEF MemInv
  <2>2. \A e : Tally(t, e) \in Int
    <3>1. RoutesOf(t) \subseteq Routes BY <1>1, <1>2, HomeIs
    <3>2. \A e : {idx \in RoutesOf(t) : flat[idx] = e} \subseteq Routes BY <3>1
    <3> QED BY <3>2, RoutesFinite DEF Tally
  <2>3. [e \in Experts |-> mem.counts[BlockIdx(t)][e] + Tally(t, e)] \in [Experts -> Int]
    BY <1>1, <2>1, <2>2
  <2>4. mem'.counts = [mem.counts EXCEPT ![BlockIdx(t)] =
              [e \in Experts |-> mem.counts[BlockIdx(t)][e] + Tally(t, e)]]
    BY CountWrites
  <2> QED BY <1>1, <2>1, <2>3, <2>4
<1>5. TypeInv' /\ BarrierInv' BY <1>1, <1>2, <1>3, <1>4, MovesType DEF MemInv
<1>6. ReadyInv' BY <1>1, MovesReady
<1>7. CountInv' BY CountCount
<1>8. TotalsInv' BY <1>1, <1>3, QuietTotals
<1>9. PrefixInv' BY <1>1, <1>3, QuietPrefix
<1>10. CursorInv' BY <1>1, QuietCursor
<1>11. WorkerInv' /\ ColumnInv' BY <1>1, QuietWorker
<1>12. ScanInv' BY <1>1, <1>3, QuietScan
<1>13. BlankInv' BY <1>1, <1>3, QuietBlank
<1>14. PlaceInv' BY <1>1, <1>3, QuietPlace
<1> QED BY <1>5, <1>6, <1>7, <1>8, <1>9, <1>10, <1>11, <1>12, <1>13, <1>14 DEF SortInv

\* Every count has a thread that clears it.
LEMMA SomebodyClears ==
  ASSUME variant # "small", NEW b \in TableRows, NEW e \in Experts
  PROVE  \E u \in Threads : e \in Clears(u) /\ BlockIdx(u) = b
<1>1. e \in Nat /\ e \in 0 .. NumExperts - 1 BY Positive DEF Experts
<1>2. CASE variant = "parallel"
  <2>1. b \in Nat /\ b < Blocks /\ Blocks \in Nat BY <1>2, BlocksPositive DEF TableRows
  <2>2. BlockThreads \in Nat \ {0} BY Positive
  <2>3. PICK r \in 0 .. BlockThreads - 1 : r = e % BlockThreads
    BY <1>1, <2>2, DivMod
  <2>4. PICK u : u = BlockThreads * b + r OBVIOUS
  <2>5. u \div BlockThreads = b /\ u % BlockThreads = r BY <2>1, <2>2, <2>3, <2>4, DivModUnique
  <2>6. u \in 0 .. Blocks * BlockThreads - 1
    <3>1. BlockThreads * b \in Nat BY <2>1, <2>2, TimesMono
    <3>2. BlockThreads * (b + 1) <= BlockThreads * Blocks /\ BlockThreads * (b + 1) \in Nat
          /\ BlockThreads * Blocks \in Nat
      BY <2>1, <2>2, TimesMono
    <3>3. BlockThreads * (b + 1) = BlockThreads * b + BlockThreads BY <2>1, <2>2
    <3>4. Blocks * BlockThreads = BlockThreads * Blocks BY <2>1, <2>2
    <3>5. u < BlockThreads * b + BlockThreads /\ u \in Nat BY <2>2, <2>3, <2>4, <3>1
    <3> HIDE <2>4
    <3> QED BY <3>1, <3>2, <3>3, <3>4, <3>5
  <2>7. u \in Threads BY <1>2, <2>6 DEF Threads
  <2>8. Clears(u) = {k \in 0 .. NumExperts - 1 : k % BlockThreads = u % BlockThreads}
    BY <1>2 DEF Clears, Strided
  <2>9. e \in Clears(u) BY <1>1, <2>3, <2>5, <2>8
  <2>10. BlockIdx(u) = b BY <1>2, <2>5 DEF BlockIdx
  <2> QED BY <2>7, <2>9, <2>10
<1>3. CASE variant # "parallel"
  <2>1. Threads = 0 .. 2 * WarpSize - 1 /\ Cardinality(Threads) = 2 * WarpSize /\ 2 * WarpSize \in Nat \ {0}
    BY <1>3, ThreadCount
  <2>2. PICK u \in Threads : u = e % (2 * WarpSize) BY <1>1, <2>1, DivMod
  <2>3. Clears(u) = {k \in 0 .. NumExperts - 1 : k % Cardinality(Threads) = u}
    BY <1>3 DEF Clears, Strided, Mine
  <2>4. e \in Clears(u) BY <1>1, <2>1, <2>2, <2>3
  <2>5. BlockIdx(u) = b BY <1>3 DEF BlockIdx, TableRows
  <2> QED BY <2>4, <2>5
<1> QED BY <1>2, <1>3

\* Once all have counted, and before the counts become cursors.
LEMMA FullCount ==
  ASSUME SortInv, variant # "small", \A u \in Threads : at[u] > 2,
         NEW b \in TableRows, NEW e \in Experts, ~Cursored(e)
  PROVE  mem.counts[b][e] = Cardinality(Share(b, e))
<1>1. CaseInv /\ CountInv BY DEF SortInv, TypeInv
<1>2. Tallied(b, e) = Share(b, e) BY <1>1, SharesAreRoutes DEF Tallied
<1>3. PICK u \in Threads : e \in Clears(u) /\ BlockIdx(u) = b BY SomebodyClears
<1>4. at[u] > 1
  <2>1. at[u] \in Int BY DEF SortInv, TypeInv
  <2>2. at[u] > 2 OBVIOUS
  <2> QED BY <2>1, <2>2
<1> QED BY <1>1, <1>2, <1>3, <1>4 DEF CountInv

LEMMA ColumnCount ==
  ASSUME CaseInv, NEW n \in Nat, NEW h, NEW e,
         \A b \in 0 .. n - 1 : h[b][e] = Cardinality(Share(b, e))
  PROVE  ColumnSum(n, h, e) = Cardinality(Before(n, e))
<1> DEFINE N == {k \in Nat : k <= n => ColumnSum(k, h, e) = Cardinality(Before(k, e))}
<1>1. 0 \in N
  <2>1. ColumnSum(0, h, e) = 0
    <3>1. ColumnSum(0, h, e) = ColumnOver({}, h, e) BY FirstNumbers DEF ColumnSum
    <3>2. IsFiniteSet({}) /\ \A g : \A x \in {} : g[x] \in Int /\ g[x] = h[x][e] BY FS_EmptySet
    <3>3. PICK sum : Folding(sum, {}, <<>>) /\ ColumnOver({}, h, e) = sum[{}] BY <3>2, ColumnFolding
    <3>4. sum[{}] = 0 BY <3>3, FoldingEmpty
    <3> QED BY <3>1, <3>3, <3>4
  <2> QED BY <2>1, BeforeCount
<1>2. ASSUME NEW k \in Nat, k \in N PROVE k + 1 \in N
  <2> SUFFICES ASSUME k + 1 <= n PROVE ColumnSum(k + 1, h, e) = Cardinality(Before(k + 1, e)) OBVIOUS
  <2>1. \A b \in 0 .. k : b \in 0 .. n - 1 /\ b \in Nat OBVIOUS
  <2>2. \A b \in 0 .. k : h[b][e] \in Int BY <2>1, BeforeCount
  <2>3. ColumnSum(k + 1, h, e) = ColumnSum(k, h, e) + h[k][e] BY <2>2, ColumnSumStep
  <2>4. h[k][e] = Cardinality(Share(k, e)) BY <2>1
  <2>5. Cardinality(Before(k + 1, e)) = Cardinality(Before(k, e)) + Cardinality(Share(k, e)) BY BeforeCount
  <2>6. ColumnSum(k, h, e) = Cardinality(Before(k, e)) BY <1>2
  <2> QED BY <2>3, <2>4, <2>5, <2>6
<1> HIDE DEF N
<1>3. n \in N BY <1>1, <1>2, SetInduction
<1> QED BY <1>3 DEF N

LEMMA AllCount ==
  ASSUME CaseInv, NEW e
  PROVE  Cardinality(Before(LastRow, e)) = Cardinality(RoutesTo(e)) /\ LastRow \in Nat
<1>1. LastRow \in Nat /\ LastRow >= LastRow BY BlocksPositive, Positive DEF LastRow, Workers
<1> QED BY <1>1, BeforeSteps

-----------------------------------------------------------------------------
(* The totals of the parallel variant. *)

LEMMA FullSum ==
  ASSUME SortInv, variant # "small", \A u \in Threads : at[u] > 2, NEW e \in Experts, ~Cursored(e),
         NEW n \in Nat, n <= LastRow
  PROVE  ColumnSum(n, mem.counts, e) = Cardinality(Before(n, e))
<1>1. CaseInv BY DEF SortInv, TypeInv
<1>2. TableRows = 0 .. LastRow - 1
  <2>1. CASE variant = "parallel" BY <2>1 DEF TableRows, LastRow
  <2>2. CASE variant # "parallel"
    <3>1. TableRows = {0} /\ LastRow = 1 BY <2>2 DEF TableRows, LastRow
    <3>2. 0 .. 1 - 1 = {0} OBVIOUS
    <3> QED BY <3>1, <3>2
  <2> QED BY <2>1, <2>2
<1>3. LastRow \in Nat BY <1>1, AllCount
<1>4. \A b \in 0 .. n - 1 : b \in TableRows BY <1>2, <1>3
<1>5. \A b \in 0 .. n - 1 : mem.counts[b][e] = Cardinality(Share(b, e)) BY <1>4, FullCount
<1> QED BY <1>1, <1>5, ColumnCount

\* Nobody has a cursor before everybody is past the prefix sums.
LEMMA NotCursored ==
  ASSUME SortInv, NEW t \in Threads, at[t] < CursorAt
  PROVE  \A u \in Threads : ~(at[u] > CursorAt)
<1> SUFFICES ASSUME NEW u \in Threads, at[u] > CursorAt, Len(Program) \in Nat, Len(Program) >= 5 PROVE FALSE
  BY LenIs DEF SortInv, TypeInv
<1>1. BarrierInv /\ at \in [Threads -> 1 .. Len(Program)] BY DEF SortInv, TypeInv
<1>2. CursorAt \in 1 .. Len(Program) BY <1>1 DEF CursorAt
<1>3. CursorAt # 2 BY DEF CursorAt
<1>4. at[t] >= CursorAt BY <1>1, <1>2, <1>3 DEF BarrierInv
<1> QED BY <1>1, <1>2, <1>4

LEMMA TotalsWrites ==
  ASSUME NEW t, SortInv, t \in Threads, Totals(t)
  PROVE  /\ Moves(t, "totals") /\ variant = "parallel" /\ at[t] = 3 /\ Memory'
         /\ mem'.vals = [x \in Threads \cup Experts |->
                           IF x \in Mine(t, NumExperts) THEN ColumnSum(Blocks, mem.counts, x) ELSE mem.vals[x]]
         /\ mem'.counts = mem.counts /\ mem'.warp = mem.warp /\ mem'.offsets = mem.offsets
         /\ mem'.inverse = mem.inverse /\ mem'.rows = mem.rows
<1>1. Moves(t, "totals") BY DEF Moves, Totals
<1>2. variant = "parallel" /\ at[t] = 3 BY <1>1, MovesFacts DEF Stands
<1>3. Memory /\ mem.vals \in [Threads \cup Experts -> Int] BY <1>1, MovesMem DEF MemInv
<1> DEFINE new == Overlay(mem.vals, Mine(t, NumExperts), LAMBDA e : ColumnSum(Blocks, mem.counts, e))
<1>4. mem' = [mem EXCEPT !.vals = new] BY DEF Totals, ColumnSum, ColumnOver
<1>5. new = [x \in Threads \cup Experts |->
                IF x \in Mine(t, NumExperts) THEN ColumnSum(Blocks, mem.counts, x) ELSE mem.vals[x]]
  BY <1>3 DEF Overlay
<1> HIDE DEF new
<1> QED BY <1>1, <1>2, <1>3, <1>4, <1>5 DEF Memory

LEMMA MineIs ==
  ASSUME NEW t, NEW n
  PROVE  Mine(t, n) \subseteq 0 .. n - 1
BY DEF Mine, Strided

LEMMA TotalsSum ==
  ASSUME NEW t, SortInv, t \in Threads, Totals(t), NEW e \in Mine(t, NumExperts)
  PROVE  mem'.vals[e] = Cardinality(RoutesTo(e)) /\ e \in Experts
<1>1. Moves(t, "totals") /\ variant = "parallel" /\ at[t] = 3 BY TotalsWrites
<1>2. e \in Experts BY MineIs DEF Experts
<1>3. CaseInv BY <1>1, MovesMem
<1>4. \A u \in Threads : at[u] > 2
  <2>1. \A u \in Threads : at[u] >= 3 /\ at[u] \in Int BY <1>1, MovesFacts
  <2> QED BY <2>1
<1>5. ~Cursored(e)
  <2>1. at[t] < CursorAt BY <1>1 DEF CursorAt
  <2> QED BY <2>1, NotCursored DEF Cursored
<1>6. LastRow = Blocks /\ Blocks \in Nat BY <1>1, BlocksPositive DEF LastRow
<1>7. Blocks <= LastRow BY <1>6
<1>8. ColumnSum(Blocks, mem.counts, e) = Cardinality(Before(Blocks, e))
  BY <1>1, <1>2, <1>4, <1>5, <1>6, <1>7, FullSum
<1>9. Cardinality(Before(LastRow, e)) = Cardinality(RoutesTo(e)) BY <1>3, AllCount
<1>10. mem'.vals[e] = ColumnSum(Blocks, mem.counts, e) BY <1>2, TotalsWrites
<1> QED BY <1>2, <1>6, <1>8, <1>9, <1>10

LEMMA TotalsStep ==
  ASSUME NEW t, SortInv, PlaceInv, t \in Threads, Totals(t)
  PROVE  SortInv' /\ PlaceInv'
<1>1. Moves(t, "totals") /\ variant = "parallel" /\ at[t] = 3 /\ Memory' BY TotalsWrites
<1>2. MemInv /\ CaseInv /\ Same BY <1>1, MovesMem, MovesFacts
<1>3. mem'.counts = mem.counts /\ mem'.warp = mem.warp /\ mem'.offsets = mem.offsets
      /\ mem'.inverse = mem.inverse /\ mem'.rows = mem.rows
  BY TotalsWrites
<1>4. mem'.vals = [x \in Threads \cup Experts |->
                IF x \in Mine(t, NumExperts) THEN ColumnSum(Blocks, mem.counts, x) ELSE mem.vals[x]]
  BY TotalsWrites
<1>5. mem'.vals \in [Threads \cup Experts -> Int]
  <2>1. mem.vals \in [Threads \cup Experts -> Int] BY <1>2 DEF MemInv
  <2>2. ASSUME NEW x \in Threads \cup Experts PROVE mem'.vals[x] \in Int
    <3>1. CASE x \in Mine(t, NumExperts) BY <3>1, TotalsSum, RoutesToIs
    <3>2. CASE x \notin Mine(t, NumExperts) BY <1>4, <2>1, <3>2
    <3> QED BY <3>1, <3>2
  <2> QED BY <1>4, <2>2
<1>6. TypeInv' /\ BarrierInv' BY <1>1, <1>2, <1>3, <1>5, MovesType DEF MemInv
<1>7. ReadyInv' BY <1>1, MovesReady
<1>8. CountInv' BY <1>1, <1>3, QuietCount
<1>9. TotalsInv'
  <2>1. Threads' = Threads BY <1>2, SameShape
  <2>2. \A u, n : Mine(u, n)' = Mine(u, n) BY <1>2, SameMine
  <2>3. \A e : RoutesTo(e)' = RoutesTo(e) BY <1>2, SameExpert
  <2>4. ASSUME NEW u \in Threads, at'[u] > 3, NEW e \in Mine(u, NumExperts)
        PROVE  mem'.vals[e] = Cardinality(RoutesTo(e))
    <3>1. CASE e \in Mine(t, NumExperts) BY <3>1, TotalsSum
    <3>2. CASE e \notin Mine(t, NumExperts)
      <4>1. u # t BY <2>4, <3>2
      <4>2. at[u] > 3 BY <1>1, <2>4, <4>1, MovesFacts
      <4>3. TotalsInv BY DEF SortInv
      <4>4. mem.vals[e] = Cardinality(RoutesTo(e)) BY <1>1, <2>4, <4>2, <4>3 DEF TotalsInv
      <4>5. e \in Experts BY <2>4, MineIs DEF Experts
      <4>6. mem'.vals[e] = mem.vals[e] BY <1>4, <3>2, <4>5
      <4> QED BY <4>4, <4>6
    <3> QED BY <3>1, <3>2
  <2> QED BY <2>1, <2>2, <2>3, <2>4 DEF TotalsInv
<1>10. PrefixInv' BY <1>1, <1>3, QuietPrefix
<1>11. CursorInv' BY <1>1, <1>3, QuietCursor
<1>12. WorkerInv' /\ ColumnInv' BY <1>1, QuietWorker
<1>13. ScanInv' BY <1>1, QuietScan
<1>14. BlankInv' BY <1>1, <1>3, QuietBlank
<1>15. PlaceInv' BY <1>1, <1>3, QuietPlace
<1> QED BY <1>6, <1>7, <1>8, <1>9, <1>10, <1>11, <1>12, <1>13, <1>14, <1>15 DEF SortInv

-----------------------------------------------------------------------------
(* The prefix sum. *)

LEMMA ThreadsUpTo ==
  \E m \in Nat \ {0} : Threads = 0 .. m - 1 /\ Cardinality(Threads) = m
<1>1. \E m \in Nat \ {0} : Threads = 0 .. m - 1
  <2>1. CASE variant = "parallel"
    <3>1. Blocks * BlockThreads \in Nat \ {0}
      <4>1. ASSUME NEW m \in Nat \ {0}, NEW n \in Nat \ {0} PROVE m * n \in Nat \ {0} OBVIOUS
      <4> QED BY <4>1, BlocksPositive, Positive
    <3> QED BY <2>1, <3>1 DEF Threads
  <2>2. CASE variant = "small"
    <3>1. Workers + 1 \in Nat \ {0} /\ Workers = (Workers + 1) - 1 BY Positive DEF Workers
    <3>2. Threads = 0 .. (Workers + 1) - 1 BY <2>2, <3>1 DEF Threads
    <3> QED BY <3>1, <3>2
  <2>3. CASE variant # "parallel" /\ variant # "small" BY <2>3, ThreadCount
  <2> QED BY <2>1, <2>2, <2>3
<1>2. PICK m \in Nat \ {0} : Threads = 0 .. m - 1 BY <1>1
<1>3. Cardinality(0 .. m - 1) = m
  <2>1. 0 \in Int /\ m - 1 \in Int /\ 0 <= m - 1 /\ (m - 1) - 0 + 1 = m OBVIOUS
  <2> QED BY <2>1, FS_Interval
<1> QED BY <1>2, <1>3

LEMMA SomebodyVisits ==
  ASSUME NEW n \in Nat, NEW k \in 0 .. n - 1
  PROVE  \E u \in Threads : k \in Mine(u, n)
<1>1. PICK m \in Nat \ {0} : Threads = 0 .. m - 1 /\ Cardinality(Threads) = m BY ThreadsUpTo
<1>2. k % m \in 0 .. m - 1
  <2>1. k \in Nat OBVIOUS
  <2> QED BY <2>1, DivMod
<1>3. PICK u \in Threads : u = k % m BY <1>1, <1>2
<1> QED BY <1>1, <1>3 DEF Mine, Strided

LEMMA OneRowCount ==
  ASSUME CaseInv, variant # "parallel", variant # "small", NEW e
  PROVE  Cardinality(Share(0, e)) = Cardinality(RoutesTo(e))
<1>1. LastRow = 1 BY DEF LastRow
<1>2. Cardinality(Before(1, e)) = Cardinality(RoutesTo(e)) BY <1>1, AllCount
<1>3. Cardinality(Before(0 + 1, e)) = Cardinality(Before(0, e)) + Cardinality(Share(0, e))
      /\ Cardinality(Before(0, e)) = 0 /\ Cardinality(Share(0, e)) \in Nat
  BY BeforeCount
<1>4. 0 + 1 = 1 OBVIOUS
<1> QED BY <1>2, <1>3, <1>4

LEMMA HeldIs ==
  ASSUME SortInv, NEW t \in Threads, at[t] < ReadyAt
  PROVE  \A b, e : Cardinality(Held(b, e)) = 0
<1>1. Claimed = {} BY NotReady
<1>2. \A b, e : Held(b, e) = {} BY <1>1 DEF Held
<1> QED BY <1>2, CountEmpty

LEMMA PrefixWrites ==
  ASSUME NEW t, SortInv, t \in Threads, Prefix(t)
  PROVE  /\ Moves(t, "prefix") /\ variant # "align" /\ at[t] = PrefixAt /\ Memory'
         /\ mem'.offsets = IF t = PrefixThread THEN RunningSum(NumExperts, PhysicalSize) ELSE mem.offsets
         /\ mem'.counts = mem.counts /\ mem'.warp = mem.warp /\ mem'.vals = mem.vals
         /\ mem'.inverse = mem.inverse /\ mem'.rows = mem.rows
<1>1. Moves(t, "prefix") BY DEF Moves, Prefix
<1>2. variant # "align" /\ at[t] = PrefixAt BY <1>1, MovesFacts DEF Stands
<1>3. Memory BY <1>1, MovesMem
<1> DEFINE new == RunningSum(NumExperts, PhysicalSize)
<1>4. mem' = IF t = PrefixThread THEN [mem EXCEPT !.offsets = new] ELSE mem
  BY DEF Prefix, PrefixThread
<1> HIDE DEF new
<1>5. CASE t = PrefixThread BY <1>1, <1>2, <1>3, <1>4, <1>5 DEF Memory, new
<1>6. CASE t # PrefixThread
  <2>1. mem' = mem BY <1>4, <1>6
  <2>2. Memory' BY <1>3, <2>1 DEF Memory
  <2> QED BY <1>1, <1>2, <1>6, <2>1, <2>2
<1> QED BY <1>5, <1>6

LEMMA AllPast ==
  ASSUME NEW t, NEW s, Moves(t, s), ~(variant = "parallel" /\ at[t] = 2)
  PROVE  \A u \in Threads : at[u] >= at[t] /\ at[u] \in Int
BY MovesFacts

LEMMA PrefixSizes ==
  ASSUME NEW t, SortInv, t \in Threads, Prefix(t), NEW e \in Experts
  PROVE  PhysicalSize(e) = RegionSize(e)
<1>1. Moves(t, "prefix") /\ variant # "align" /\ at[t] = PrefixAt BY PrefixWrites
<1>2. CaseInv BY <1>1, MovesMem
<1>3. \A u \in Threads : at[u] >= PrefixAt /\ at[u] \in Int
  <2>1. ~(variant = "parallel" /\ at[t] = 2) BY <1>1 DEF PrefixAt
  <2> QED BY <1>1, <2>1, AllPast
<1>4. \A u \in Threads : at[u] > 2 BY <1>3 DEF PrefixAt
<1>5. Atomic => ~Cursored(e)
  <2>1. at[t] < CursorAt BY <1>1 DEF CursorAt, PrefixAt
  <2> QED BY <2>1, NotCursored DEF Cursored
<1>6. variant \in {"tight", "parallel", "aligned", "small"} BY <1>1, <1>2 DEF CaseInv, Variants
<1>7. CASE variant \in {"tight", "aligned"}
  <2>1. 0 \in TableRows /\ ~Cursored(e) /\ variant # "small" BY <1>5, <1>7 DEF TableRows, Atomic
  <2>2. mem.counts[0][e] = Cardinality(Share(0, e)) BY <1>4, <2>1, FullCount
  <2>3. mem.counts[0][e] = Cardinality(RoutesTo(e)) BY <1>2, <1>7, <2>2, OneRowCount
  <2> QED BY <1>7, <2>3 DEF PhysicalSize, RegionSize, tight
<1>8. CASE variant = "parallel"
  <2>1. PICK u \in Threads : e \in Mine(u, NumExperts) BY Positive, SomebodyVisits DEF Experts
  <2>2. at[u] > 3 BY <1>3, <1>8 DEF PrefixAt
  <2>3. TotalsInv BY DEF SortInv
  <2>4. mem.vals[e] = Cardinality(RoutesTo(e)) BY <1>8, <2>1, <2>2, <2>3 DEF TotalsInv
  <2> QED BY <1>8, <2>4 DEF PhysicalSize, RegionSize, tight
<1>9. CASE variant = "small"
  <2>1. at[t] < ReadyAt BY <1>1, <1>9 DEF PrefixAt, ReadyAt
  <2>2. Cardinality(Held(Workers, e)) = 0 BY <2>1, HeldIs
  <2>3. LastRow = Workers BY <1>9 DEF LastRow
  <2>4. Cardinality(Before(Workers, e)) = Cardinality(RoutesTo(e)) /\ Workers \in Nat
    BY <1>2, <2>3, AllCount
  <2>5. e + 1 \in Threads BY <1>9, Positive DEF Threads, Experts, Workers
  <2>6. ColumnInv BY DEF SortInv
  <2>7. Workers \in 0 .. Workers BY <2>4
  <2>8. mem.counts[Workers][e] = Cardinality(Before(Workers, e)) + Cardinality(Held(Workers, e))
    BY <1>4, <1>9, <2>5, <2>6, <2>7 DEF ColumnInv
  <2>9. mem.counts[Workers][e] = Cardinality(RoutesTo(e)) BY <2>2, <2>4, <2>8, RoutesToIs
  <2> QED BY <1>9, <2>9 DEF PhysicalSize, RegionSize, tight
<1> QED BY <1>6, <1>7, <1>8, <1>9

LEMMA PrefixSums ==
  ASSUME NEW t, SortInv, t \in Threads, Prefix(t)
  PROVE  RunningSum(NumExperts, PhysicalSize) = [e \in 0 .. NumExperts |-> RegionStart(e)]
<1> DEFINE g == [e \in Experts |-> RegionSize(e)]
           f == [e \in 0 .. NumExperts |-> RegionStart(e)]
<1>1. \A e \in Experts : g[e] \in Int /\ g[e] = PhysicalSize(e)
  <2> TAKE e \in Experts
  <2> QED BY PrefixSizes, RegionSizeIs
<1>2. Running(RunningSum(NumExperts, PhysicalSize), NumExperts, g) BY <1>1, PrefixRuns
<1>3. Running(f, NumExperts, g)
  <2>1. f \in [0 .. NumExperts -> Int] BY Positive, RegionStartIs
  <2>2. f[0] = 0 BY Positive, RegionStartIs
  <2>3. ASSUME NEW k \in 0 .. NumExperts - 1 PROVE f[k + 1] = f[k] + g[k]
    <3>1. k \in Nat /\ k + 1 \in 0 .. NumExperts /\ k \in 0 .. NumExperts /\ k \in Experts
      BY Positive DEF Experts
    <3>2. RegionStart(k + 1) = RegionStart(k) + RegionSize(k) BY <3>1, RegionStartIs
    <3> QED BY <3>1, <3>2
  <2> HIDE DEF f, g
  <2> QED BY <2>1, <2>2, <2>3 DEF Running
<1> HIDE DEF f, g
<1>4. RunningSum(NumExperts, PhysicalSize) = f BY <1>2, <1>3, Positive, RunningIsUnique
<1> QED BY <1>4 DEF f

LEMMA PrefixStep ==
  ASSUME NEW t, SortInv, PlaceInv, t \in Threads, Prefix(t)
  PROVE  SortInv' /\ PlaceInv'
<1>1. Moves(t, "prefix") /\ variant # "align" /\ at[t] = PrefixAt /\ Memory' BY PrefixWrites
<1>2. MemInv /\ CaseInv /\ Same BY <1>1, MovesMem, MovesFacts
<1>3. mem'.counts = mem.counts /\ mem'.warp = mem.warp /\ mem'.vals = mem.vals
      /\ mem'.inverse = mem.inverse /\ mem'.rows = mem.rows
  BY PrefixWrites
<1>4. mem'.offsets = IF t = PrefixThread THEN [e \in 0 .. NumExperts |-> RegionStart(e)] ELSE mem.offsets
  BY PrefixWrites, PrefixSums
<1>5. mem'.offsets \in [0 .. NumExperts -> Int]
  <2>1. \A e \in 0 .. NumExperts : RegionStart(e) \in Int BY Positive, RegionStartIs
  <2>2. mem.offsets \in [0 .. NumExperts -> Int] BY <1>2 DEF MemInv
  <2> QED BY <1>4, <2>1, <2>2
<1>6. TypeInv' /\ BarrierInv' BY <1>1, <1>2, <1>3, <1>5, MovesType DEF MemInv
<1>7. ReadyInv' BY <1>1, MovesReady
<1>8. CountInv' BY <1>1, <1>3, QuietCount
<1>9. TotalsInv' BY <1>1, <1>3, QuietTotals
<1>10. PrefixInv'
  <2>1. PrefixThread' = PrefixThread /\ PrefixAt' = PrefixAt BY <1>2, SameShape
  <2>2. \A e : RegionStart(e)' = RegionStart(e) BY <1>2, SameExpert
  <2>3. ASSUME at'[PrefixThread] > PrefixAt, NEW e \in 0 .. NumExperts
        PROVE  mem'.offsets[e] = RegionStart(e)
    <3>1. CASE t = PrefixThread BY <1>4, <3>1
    <3>2. CASE t # PrefixThread
      <4>1. at[PrefixThread] > PrefixAt
        <5>1. at'[PrefixThread] = at[PrefixThread] BY <1>1, <3>2, MovesFacts, ThreadsAre
        <5> QED BY <2>3, <5>1
      <4>2. PrefixInv BY DEF SortInv
      <4> QED BY <1>1, <1>4, <3>2, <4>1, <4>2 DEF PrefixInv
    <3> QED BY <3>1, <3>2
  <2> QED BY <2>1, <2>2, <2>3 DEF PrefixInv
<1>11. CursorInv' BY <1>1, <1>3, QuietCursor
<1>12. WorkerInv' /\ ColumnInv' BY <1>1, <1>3, QuietWorker
<1>13. ScanInv' BY <1>1, QuietScan
<1>14. BlankInv' BY <1>1, <1>3, QuietBlank
<1>15. PlaceInv' BY <1>1, <1>3, QuietPlace
<1> QED BY <1>6, <1>7, <1>8, <1>9, <1>10, <1>11, <1>12, <1>13, <1>14, <1>15 DEF SortInv

-----------------------------------------------------------------------------
(* The cursors. *)

LEMMA CursorWrites ==
  ASSUME NEW t, SortInv, t \in Threads, Cursor(t)
  PROVE  /\ Moves(t, "cursor") /\ Atomic /\ at[t] = CursorAt /\ Memory'
         /\ mem'.counts = [b \in TableRows |-> [e \in Experts |->
              IF e \in Mine(t, NumExperts) THEN mem.offsets[e] + ColumnSum(b, mem.counts, e)
              ELSE mem.counts[b][e]]]
         /\ mem'.offsets = mem.offsets /\ mem'.warp = mem.warp /\ mem'.vals = mem.vals
         /\ mem'.inverse = mem.inverse /\ mem'.rows = mem.rows
<1>1. Moves(t, "cursor") BY DEF Moves, Cursor
<1>2. Atomic /\ at[t] = CursorAt BY <1>1, MovesFacts DEF Stands
<1>3. Memory /\ mem.counts \in [TableRows -> [Experts -> Int]] BY <1>1, MovesMem DEF MemInv
<1> DEFINE new == [b \in DOMAIN mem.counts |->
             Overlay(mem.counts[b], Mine(t, NumExperts), LAMBDA e : mem.offsets[e] + ColumnSum(b, mem.counts, e))]
           meta == IF variant = "aligned" THEN Overlay(mem.metadata, Mine(t, capacity), Owner)
                   ELSE Overlay(mem.metadata, Mine(t, NumExperts), LAMBDA e : mem.offsets[e + 1])
<1>4. mem' = [mem EXCEPT !.counts = new, !.metadata = meta] BY DEF Cursor, ColumnSum, ColumnOver
<1>5. new = [b \in TableRows |-> [e \in Experts |->
              IF e \in Mine(t, NumExperts) THEN mem.offsets[e] + ColumnSum(b, mem.counts, e)
              ELSE mem.counts[b][e]]]
  BY <1>3 DEF Overlay
<1> HIDE DEF new, meta
<1> QED BY <1>1, <1>2, <1>3, <1>4, <1>5 DEF Memory

LEMMA MineOnce ==
  ASSUME NEW n, NEW t, NEW u, NEW e \in Mine(t, n), e \in Mine(u, n)
  PROVE  t = u
BY DEF Mine, Strided

LEMMA AtomicIs ==
  ASSUME CaseInv
  PROVE  Atomic <=> variant # "small" /\ variant # "align"
BY DEF Atomic, CaseInv, Variants

LEMMA CursorFacts ==
  ASSUME NEW t, SortInv, t \in Threads, Cursor(t)
  PROVE  /\ \A u \in Threads : at[u] > 2
         /\ \A e \in 0 .. NumExperts : mem.offsets[e] = RegionStart(e)
         /\ \A b, e : Cardinality(Held(b, e)) = 0
         /\ \A e \in Mine(t, NumExperts) : e \in Experts /\ ~Cursored(e)
<1>1. Moves(t, "cursor") /\ Atomic /\ at[t] = CursorAt BY CursorWrites
<1>2. CaseInv BY <1>1, MovesMem
<1>3. \A u \in Threads : at[u] >= CursorAt /\ at[u] \in Int
  <2>1. ~(variant = "parallel" /\ at[t] = 2) BY <1>1 DEF CursorAt
  <2> QED BY <1>1, <2>1, AllPast
<1>4. \A u \in Threads : at[u] > 2 BY <1>3 DEF CursorAt
<1>5. \A e \in 0 .. NumExperts : mem.offsets[e] = RegionStart(e)
  <2>1. at[PrefixThread] > PrefixAt
    <3>1. at[PrefixThread] >= CursorAt /\ at[PrefixThread] \in Int BY <1>3, ThreadsAre
    <3> QED BY <3>1 DEF CursorAt, PrefixAt
  <2>2. variant # "align" /\ PrefixInv BY <1>1 DEF SortInv, Atomic
  <2> QED BY <2>1, <2>2 DEF PrefixInv
<1>6. \A b, e : Cardinality(Held(b, e)) = 0
  <2>1. at[t] < ReadyAt
    <3>1. ReadyAt = CASE variant = "parallel" -> 6 [] variant = "align" -> 8
                     [] variant = "small" -> 4 [] OTHER -> 5
      BY <1>2, ReadyAtIs
    <3> QED BY <1>1, <1>2, <3>1 DEF CursorAt, Atomic
  <2> QED BY <1>1, <2>1, MovesFacts, HeldIs
<1>7. ASSUME NEW e \in Mine(t, NumExperts) PROVE e \in Experts /\ ~Cursored(e)
  <2>1. e \in Experts BY MineIs DEF Experts
  <2>2. ASSUME NEW u \in Threads, e \in Mine(u, NumExperts) PROVE ~(at[u] > CursorAt)
    <3>1. u = t BY <2>2, MineOnce
    <3> QED BY <1>1, <3>1 DEF CursorAt
  <2> QED BY <2>1, <2>2 DEF Cursored
<1> QED BY <1>4, <1>5, <1>6, <1>7

\* The cursor of an expert in a row of the table starts at the routes of the rows before.
LEMMA CursorStarts ==
  ASSUME NEW t, SortInv, t \in Threads, Cursor(t), NEW e \in Mine(t, NumExperts), NEW b \in TableRows
  PROVE  mem'.counts[b][e] = RegionStart(e) + Cardinality(Before(b, e)) + Cardinality(Held(b, e))
<1>1. Moves(t, "cursor") /\ Atomic BY CursorWrites
<1>2. CaseInv /\ variant # "small" BY <1>1, MovesMem DEF Atomic
<1>3. e \in Experts /\ ~Cursored(e) BY CursorFacts
<1>4. b \in Nat /\ b <= LastRow
  <2>1. CASE variant = "parallel" BY <2>1, BlocksPositive DEF TableRows, LastRow
  <2>2. CASE variant # "parallel" BY <1>2, <2>2 DEF TableRows, LastRow
  <2> QED BY <2>1, <2>2
<1>5. ColumnSum(b, mem.counts, e) = Cardinality(Before(b, e))
  <2>1. \A u \in Threads : at[u] > 2 BY CursorFacts
  <2> QED BY <1>2, <1>3, <1>4, <2>1, FullSum
<1>6. mem'.counts[b][e] = mem.offsets[e] + ColumnSum(b, mem.counts, e)
  <2>1. mem'.counts = [d \in TableRows |-> [k \in Experts |->
              IF k \in Mine(t, NumExperts) THEN mem.offsets[k] + ColumnSum(d, mem.counts, k)
              ELSE mem.counts[d][k]]]
    BY CursorWrites
  <2> QED BY <1>3, <2>1
<1>7. mem.offsets[e] = RegionStart(e)
  <2>1. e \in 0 .. NumExperts BY <1>3, Positive DEF Experts
  <2> QED BY <2>1, CursorFacts
<1>8. Cardinality(Held(b, e)) = 0 BY CursorFacts
<1>9. RegionStart(e) \in Nat BY <1>3, RegionStartIs DEF Experts
<1>10. Cardinality(Before(b, e)) \in Nat BY <1>2, <1>4, BeforeCount
<1> QED BY <1>5, <1>6, <1>7, <1>8, <1>9, <1>10

LEMMA CursorStep ==
  ASSUME NEW t, SortInv, PlaceInv, t \in Threads, Cursor(t)
  PROVE  SortInv' /\ PlaceInv'
<1>1. Moves(t, "cursor") /\ Atomic /\ at[t] = CursorAt /\ Memory' BY CursorWrites
<1>2. MemInv /\ CaseInv /\ Same /\ left' = left /\ slot_buf' = slot_buf BY <1>1, MovesMem, MovesFacts
<1>3. mem'.offsets = mem.offsets /\ mem'.warp = mem.warp /\ mem'.vals = mem.vals
      /\ mem'.inverse = mem.inverse /\ mem'.rows = mem.rows
  BY CursorWrites
<1>4. mem'.counts = [b \in TableRows |-> [e \in Experts |->
              IF e \in Mine(t, NumExperts) THEN mem.offsets[e] + ColumnSum(b, mem.counts, e)
              ELSE mem.counts[b][e]]]
  BY CursorWrites
<1>5. \A b \in TableRows, e \in Experts : e \notin Mine(t, NumExperts) => mem'.counts[b][e] = mem.counts[b][e]
  BY <1>4
<1>6. mem'.counts \in [TableRows -> [Experts -> Int]]
  <2>1. mem.counts \in [TableRows -> [Experts -> Int]] BY <1>2 DEF MemInv
  <2>2. ASSUME NEW b \in TableRows, NEW e \in Experts PROVE mem'.counts[b][e] \in Int
    <3>1. CASE e \in Mine(t, NumExperts)
      <4>1. mem'.counts[b][e] = RegionStart(e) + Cardinality(Before(b, e)) + Cardinality(Held(b, e))
        BY <3>1, CursorStarts
      <4>2. RegionStart(e) \in Nat BY RegionStartIs DEF Experts
      <4>3. b \in Nat BY BlocksPositive DEF TableRows
      <4>4. Cardinality(Before(b, e)) \in Nat BY <1>2, <4>3, BeforeCount
      <4>5. Cardinality(Held(b, e)) = 0 BY CursorFacts
      <4> QED BY <4>1, <4>2, <4>4, <4>5
    <3>2. CASE e \notin Mine(t, NumExperts)
      <4>1. mem'.counts[b][e] = mem.counts[b][e] BY <1>5, <3>2
      <4> QED BY <2>1, <4>1
    <3> QED BY <3>1, <3>2
  <2> QED BY <1>4, <2>2
<1>7. TypeInv' /\ BarrierInv' BY <1>1, <1>2, <1>3, <1>6, MovesType DEF MemInv
<1>8. ReadyInv' BY <1>1, MovesReady
<1>9. Threads' = Threads /\ TableRows' = TableRows /\ Atomic' = Atomic /\ CursorAt' = CursorAt
  BY <1>2, SameShape
<1>10. \A u, n : Mine(u, n)' = Mine(u, n) BY <1>2, SameMine
<1>11. CountInv'
  <2>1. \A u : Clears(u)' = Clears(u) /\ BlockIdx(u)' = BlockIdx(u) BY <1>2, SameThread
  <2>2. \A b, e : Tallied(b, e)' = Tallied(b, e)
    <3>1. at[t] # 2 BY <1>1 DEF CursorAt
    <3> QED BY <1>1, <3>1, MovesTallied
  <2>3. ASSUME NEW e, ~Cursored(e)' PROVE ~Cursored(e) /\ e \notin Mine(t, NumExperts)
    <3>1. \A u \in Threads : at[u] > CursorAt => at'[u] > CursorAt BY <1>1, MovesFacts DEF CursorAt
    <3>2. at'[t] > CursorAt /\ t \in Threads BY <1>1, MovesFacts DEF CursorAt
    <3> QED BY <1>1, <1>9, <1>10, <2>3, <3>1, <3>2 DEF Cursored
  <2>4. CountInv /\ variant # "small" BY <1>1 DEF SortInv, Atomic
  <2>5. \A u \in Threads : at'[u] > 1 => at[u] > 1 BY <1>1, MovesFacts DEF CursorAt
  <2>6. ASSUME NEW b \in TableRows, NEW e \in Experts, NEW u \in Threads,
              e \in Clears(u), BlockIdx(u) = b, at'[u] > 1, ~Cursored(e)'
        PROVE  mem'.counts[b][e] = Cardinality(Tallied(b, e))
    <3>1. ~Cursored(e) /\ e \notin Mine(t, NumExperts) BY <2>3, <2>6
    <3>2. mem'.counts[b][e] = mem.counts[b][e] BY <1>5, <3>1
    <3>3. mem.counts[b][e] = Cardinality(Tallied(b, e)) BY <2>4, <2>5, <2>6, <3>1 DEF CountInv
    <3> QED BY <3>2, <3>3
  <2> QED BY <1>9, <2>1, <2>2, <2>6 DEF CountInv
<1>12. TotalsInv' BY <1>1, <1>3, QuietTotals
<1>13. PrefixInv' BY <1>1, <1>3, QuietPrefix
<1>14. CursorInv'
  <2>1. \A b, e : Held(b, e)' = Held(b, e) BY <1>2, SameClaimed
  <2>2. \A b, e : Before(b, e)' = Before(b, e) BY <1>2, SameShare
  <2>3. \A e : RegionStart(e)' = RegionStart(e) BY <1>2, SameExpert
  <2>4. CursorInv BY DEF SortInv
  <2>5. ASSUME NEW u \in Threads, at'[u] > CursorAt, NEW e \in Mine(u, NumExperts), NEW b \in TableRows
        PROVE  mem'.counts[b][e] = RegionStart(e) + Cardinality(Before(b, e)) + Cardinality(Held(b, e))
    <3>1. CASE e \in Mine(t, NumExperts) BY <3>1, CursorStarts
    <3>2. CASE e \notin Mine(t, NumExperts)
      <4>1. u # t BY <2>5, <3>2
      <4>2. at[u] > CursorAt
        <5>1. at'[u] = at[u] BY <1>1, <4>1, MovesFacts
        <5> QED BY <2>5, <5>1
      <4>3. e \in Experts BY <2>5, MineIs DEF Experts
      <4>4. mem'.counts[b][e] = mem.counts[b][e] BY <1>5, <3>2, <4>3
      <4>5. mem.counts[b][e] = RegionStart(e) + Cardinality(Before(b, e)) + Cardinality(Held(b, e))
        BY <1>1, <2>4, <2>5, <4>2 DEF CursorInv
      <4> QED BY <4>4, <4>5
    <3> QED BY <3>1, <3>2
  <2> QED BY <1>9, <1>10, <2>1, <2>2, <2>3, <2>5 DEF CursorInv
<1>15. WorkerInv' /\ ColumnInv'
  <2>1. variant # "small" BY <1>1 DEF Atomic
  <2> QED BY <1>1, <2>1, QuietWorker
<1>16. ScanInv' BY <1>1, <1>3, QuietScan
<1>17. BlankInv' BY <1>1, <1>3, QuietBlank
<1>18. PlaceInv' BY <1>1, <1>3, QuietPlace
<1> QED BY <1>7, <1>8, <1>11, <1>12, <1>13, <1>14, <1>15, <1>16, <1>17, <1>18 DEF SortInv

-----------------------------------------------------------------------------
(* The workers of the small kernel. *)

LEMMA SmallThreads ==
  ASSUME variant = "small"
  PROVE  /\ Threads = 0 .. Workers /\ Workers \in Nat \ {0} /\ Experts \subseteq 0 .. Workers - 1
         /\ TableRows = 0 .. Workers
         /\ ~Atomic /\ variant # "parallel" /\ variant # "align" /\ variant # "aligned"
BY Positive DEF Threads, Workers, Experts, TableRows, Atomic

LEMMA FillWrites ==
  ASSUME NEW t, SortInv, t \in Threads, FillCount(t)
  PROVE  /\ Moves(t, "fill_count") /\ variant = "small" /\ at[t] = 1 /\ Memory'
         /\ t = 0 => mem'.counts = mem.counts /\ mem'.rows = [r \in Rows |-> Sentinel]
         /\ t # 0 => /\ mem'.counts = [mem.counts EXCEPT ![t] = [e \in Experts |-> Tally(t, e)]]
                     /\ mem'.rows = mem.rows
         /\ mem'.offsets = mem.offsets /\ mem'.warp = mem.warp /\ mem'.vals = mem.vals
         /\ mem'.inverse = mem.inverse
<1>1. Moves(t, "fill_count") BY DEF Moves, FillCount
<1>2. variant = "small" /\ at[t] = 1 BY <1>1, MovesFacts DEF Stands
<1>3. Memory BY <1>1, MovesMem
<1> DEFINE row == [e \in Experts |-> Tally(t, e)]
           blank == [r \in Rows |-> Sentinel]
<1>4. mem' = IF t = 0 THEN [mem EXCEPT !.rows = blank] ELSE [mem EXCEPT !.counts[t] = row]
  BY DEF FillCount
<1> HIDE DEF row, blank
<1>5. CASE t = 0 BY <1>1, <1>2, <1>3, <1>4, <1>5 DEF Memory, blank
<1>6. CASE t # 0 BY <1>1, <1>2, <1>3, <1>4, <1>6 DEF Memory, row
<1> QED BY <1>5, <1>6

LEMMA TallyOfWorker ==
  ASSUME CaseInv, variant = "small", NEW t \in Threads, t # 0, NEW e
  PROVE  Tally(t, e) = Cardinality(Share(t - 1, e)) /\ Tally(t, e) \in Nat
<1>1. t \in Nat BY SmallThreads
<1>2. RoutesOf(t) = {idx \in Routes : Home(idx) = t} BY HomeIs
<1>3. \A idx \in Routes : Home(idx) \in Nat BY HomeIs, SmallThreads
<1>4. \A idx \in Routes : TableRow(idx) = t - 1 <=> Home(idx) = t
  BY <1>1, <1>3 DEF TableRow, Table
<1>5. {idx \in RoutesOf(t) : flat[idx] = e} = Share(t - 1, e) BY <1>2, <1>4 DEF Share, RoutesTo
<1>6. Share(t - 1, e) \subseteq Routes BY DEF Share, RoutesTo
<1> QED BY <1>5, <1>6, RoutesFinite DEF Tally

LEMMA FillStep ==
  ASSUME NEW t, SortInv, PlaceInv, t \in Threads, FillCount(t)
  PROVE  SortInv' /\ PlaceInv'
<1>1. Moves(t, "fill_count") /\ variant = "small" /\ at[t] = 1 /\ Memory' BY FillWrites
<1>2. MemInv /\ CaseInv /\ Same /\ left' = left /\ slot_buf' = slot_buf BY <1>1, MovesMem, MovesFacts
<1>3. mem'.offsets = mem.offsets /\ mem'.warp = mem.warp /\ mem'.vals = mem.vals
      /\ mem'.inverse = mem.inverse
  BY FillWrites
<1>4. mem'.counts = IF t = 0 THEN mem.counts
                    ELSE [mem.counts EXCEPT ![t] = [e \in Experts |-> Tally(t, e)]]
  BY FillWrites
<1>5. mem'.rows = IF t = 0 THEN [r \in Rows |-> Sentinel] ELSE mem.rows
  BY FillWrites
<1>6. Sentinel \in Nat BY NumelPositive, Positive DEF Sentinel
<1>7. mem.counts \in [TableRows -> [Experts -> Int]] BY <1>2 DEF MemInv
<1>8. mem'.counts \in [TableRows -> [Experts -> Int]]
  <2>1. CASE t = 0 BY <1>4, <1>7, <2>1
  <2>2. CASE t # 0
    <3>1. [e \in Experts |-> Tally(t, e)] \in [Experts -> Int] BY <1>1, <1>2, <2>2, TallyOfWorker
    <3> QED BY <1>4, <1>7, <2>2, <3>1
  <2> QED BY <2>1, <2>2
<1>9. mem'.rows \in [Rows -> Int]
  <2>1. mem.rows \in [Rows -> Int] BY <1>2 DEF MemInv
  <2> QED BY <1>5, <1>6, <2>1
<1>10. TypeInv' /\ BarrierInv' BY <1>1, <1>2, <1>3, <1>8, <1>9, MovesType DEF MemInv
<1>11. ReadyInv' BY <1>1, MovesReady
<1>12. CountInv' BY <1>1, <1>2 DEF CountInv, Same
<1>13. TotalsInv' BY <1>1, <1>3, QuietTotals
<1>14. PrefixInv' BY <1>1, <1>3, QuietPrefix
<1>15. CursorInv' BY <1>1, QuietCursor
<1>16. Threads = 0 .. Workers /\ Workers \in Nat \ {0} /\ Experts \subseteq 0 .. Workers - 1
  BY <1>1, SmallThreads
<1>17. WorkerInv'
  <2>1. WorkerInv BY DEF SortInv
  <2>2. \A b, e : Share(b, e)' = Share(b, e) BY <1>2, SameShare
  <2>3. ASSUME NEW w \in 1 .. Workers, NEW e \in Experts, at'[w] > 1, at'[e + 1] <= 2
        PROVE  mem'.counts[w][e] = Cardinality(Share(w - 1, e))
    <3>1. w \in Threads /\ e + 1 \in Threads /\ w # 0 BY <1>16
    <3>2. CASE w = t
      <4>1. mem'.counts[w][e] = Tally(t, e) BY <1>4, <1>7, <3>1, <3>2, <1>1, SmallThreads
      <4> QED BY <1>1, <1>2, <3>1, <3>2, <4>1, TallyOfWorker
    <3>3. CASE w # t
      <4>1. at[w] > 1
        <5>1. at'[w] = at[w] BY <1>1, <3>1, <3>3, MovesFacts
        <5> QED BY <2>3, <5>1
      <4>2. at[e + 1] <= 2
        <5>1. \A u \in Threads : at'[u] >= at[u] /\ at'[u] \in Int /\ at[u] \in Int
          BY <1>1, MovesAt
        <5>2. at'[e + 1] >= at[e + 1] /\ at'[e + 1] \in Int /\ at[e + 1] \in Int
          BY <3>1, <5>1
        <5> QED BY <2>3, <5>2
      <4>3. mem'.counts[w] = mem.counts[w] BY <1>4, <1>7, <3>3
      <4> QED BY <1>1, <2>1, <2>3, <4>1, <4>2, <4>3 DEF WorkerInv
    <3> QED BY <3>2, <3>3
  <2> QED BY <2>2, <2>3 DEF WorkerInv
<1>18. ColumnInv'
  <2> SUFFICES ASSUME NEW u \in Threads, at'[u] > 2 PROVE FALSE
    <3>1. \A e \in Experts : e + 1 \in Threads BY <1>16
    <3> QED BY <3>1 DEF ColumnInv
  <2>1. u # t /\ at[u] > 2 BY <1>1, MovesFacts
  <2>2. BarrierInv BY DEF SortInv
  <2>3. 2 \in 1 .. Len(Program) BY <1>2, LenIs
  <2>4. at[t] >= 2 BY <1>1, <2>1, <2>2, <2>3, SmallThreads DEF BarrierInv
  <2> QED BY <1>1, <2>4
<1>19. ScanInv'
  <2>1. variant # "align" BY <1>1
  <2> QED BY <1>1, <2>1, QuietScan
<1>20. BlankInv'
  <2>1. CASE t = 0
    <3>1. Rows' = Rows BY <1>2, SameShape
    <3>2. \A r \in Rows : mem'.rows[r] # Unset BY <1>5, <1>6, <2>1 DEF Unset
    <3> QED BY <3>1, <3>2 DEF BlankInv
  <2>2. CASE t # 0
    <3>1. mem'.rows = mem.rows BY <1>5, <2>2
    <3> QED BY <1>1, <2>2, <3>1, QuietBlank
  <2> QED BY <2>1, <2>2
<1>21. PlaceInv'
  <2>1. at[t] < ReadyAt BY <1>1 DEF ReadyAt
  <2>2. Claimed = {} BY <1>1, <2>1, NotReady
  <2>3. \A r \in Rows : mem'.rows[r] \in {Unset, Sentinel} \/ mem'.rows[r] = mem.rows[r] BY <1>5
  <2> QED BY <1>1, <1>3, <2>2, <2>3, MovesPlace
<1> QED BY <1>10, <1>11, <1>12, <1>13, <1>14, <1>15, <1>17, <1>18, <1>19, <1>20, <1>21 DEF SortInv

-----------------------------------------------------------------------------
(* The columns of the small kernel's table. *)

LEMMA ColumnWrites ==
  ASSUME NEW t, SortInv, t \in Threads, Column(t)
  PROVE  /\ Moves(t, "column") /\ variant = "small" /\ at[t] = 2 /\ Memory'
         /\ mem'.counts = IF t - 1 \notin Experts THEN mem.counts
                          ELSE [k \in TableRows |-> [mem.counts[k] EXCEPT ![t - 1] =
                                                       ColumnRun(Workers, mem.counts, t - 1)[k]]]
         /\ mem'.rows = mem.rows
         /\ mem'.offsets = mem.offsets /\ mem'.warp = mem.warp /\ mem'.vals = mem.vals
         /\ mem'.inverse = mem.inverse
<1>1. Moves(t, "column") BY DEF Moves, Column
<1>2. variant = "small" /\ at[t] = 2 BY <1>1, MovesFacts DEF Stands
<1>3. Memory /\ mem.counts \in [TableRows -> [Experts -> Int]] BY <1>1, MovesMem DEF MemInv
<1> DEFINE new == [k \in TableRows |-> [mem.counts[k] EXCEPT ![t - 1] =
                                          ColumnRun(Workers, mem.counts, t - 1)[k]]]
<1>4. mem' = IF t - 1 \notin Experts THEN mem ELSE [mem EXCEPT !.counts = new] BY <1>3 DEF Column, ColumnRun
<1> HIDE DEF new
<1>5. CASE t - 1 \notin Experts
  <2>1. mem' = mem BY <1>4, <1>5
  <2>2. Memory' BY <1>3, <2>1 DEF Memory
  <2> QED BY <1>1, <1>2, <1>5, <2>1, <2>2
<1>6. CASE t - 1 \in Experts BY <1>1, <1>2, <1>3, <1>4, <1>6 DEF Memory, new
<1> QED BY <1>5, <1>6

LEMMA ColumnSums ==
  ASSUME NEW t, SortInv, t \in Threads, Column(t), t - 1 \in Experts
  PROVE  \A k \in TableRows : /\ mem'.counts[k][t - 1] = Cardinality(Before(k, t - 1))
                                 /\ Cardinality(Held(k, t - 1)) = 0
                                 /\ Cardinality(Before(k, t - 1)) \in Nat
<1>1. Moves(t, "column") /\ variant = "small" /\ at[t] = 2 BY ColumnWrites
<1>2. CaseInv /\ mem.counts \in [TableRows -> [Experts -> Int]] BY <1>1, MovesMem DEF MemInv
<1>3. Threads = 0 .. Workers /\ Workers \in Nat \ {0} /\ Experts \subseteq 0 .. Workers - 1
      /\ TableRows = 0 .. Workers
  BY <1>1, SmallThreads
<1>4. PICK d \in Experts : d = t - 1 /\ t = d + 1 BY <1>3
<1> DEFINE g == [k \in 0 .. Workers - 1 |-> Cardinality(Share(k, d))]
           f == [k \in 0 .. Workers |-> Cardinality(Before(k, d))]
<1>5. \A u \in Threads : at[u] > 1
  <2>1. ~(variant = "parallel" /\ at[t] = 2) BY <1>1
  <2>2. \A u \in Threads : at[u] >= at[t] /\ at[u] \in Int BY <1>1, <2>1, AllPast
  <2> QED BY <1>1, <2>2
<1>6. \A k \in 0 .. Workers - 1 : g[k] \in Int /\ g[k] = mem.counts[k + 1][d]
  <2> TAKE k \in 0 .. Workers - 1
  <2>1. k \in Nat /\ k + 1 \in 1 .. Workers /\ k + 1 \in Threads /\ (k + 1) - 1 = k BY <1>3
  <2>2. WorkerInv BY DEF SortInv
  <2>3. at[k + 1] > 1 /\ at[d + 1] <= 2 BY <1>1, <1>4, <1>5, <2>1
  <2>4. mem.counts[k + 1][d] = Cardinality(Share((k + 1) - 1, d))
    BY <1>1, <2>1, <2>2, <2>3 DEF WorkerInv
  <2>5. Cardinality(Share(k, d)) \in Nat BY <1>2, <2>1, BeforeCount
  <2> QED BY <2>1, <2>4, <2>5
<1>7. Running(f, Workers, g)
  <2>1. \A k \in Nat : Cardinality(Before(k, d)) \in Nat BY <1>2, BeforeCount
  <2>2. f \in [0 .. Workers -> Int] BY <1>3, <2>1
  <2>3. f[0] = 0 BY <1>2, <1>3, BeforeCount
  <2>4. ASSUME NEW k \in 0 .. Workers - 1 PROVE f[k + 1] = f[k] + g[k]
    <3>1. k \in Nat /\ k + 1 \in 0 .. Workers /\ k \in 0 .. Workers BY <1>3
    <3>2. Cardinality(Before(k + 1, d)) = Cardinality(Before(k, d)) + Cardinality(Share(k, d))
      BY <1>2, <3>1, BeforeCount
    <3> QED BY <3>1, <3>2
  <2> HIDE DEF f, g
  <2> QED BY <2>2, <2>3, <2>4 DEF Running
<1> HIDE DEF g
<1>8. Running(ColumnRun(Workers, mem.counts, d), Workers, g) BY <1>3, <1>6, ColumnRuns
<1>9. ColumnRun(Workers, mem.counts, d) = f
  <2> HIDE DEF f
  <2> QED BY <1>3, <1>7, <1>8, RunningIsUnique
<1>10. \A k, e : Cardinality(Held(k, e)) = 0
  <2>1. at[t] < ReadyAt BY <1>1 DEF ReadyAt
  <2> QED BY <2>1, HeldIs
<1>11. mem'.counts = [k \in TableRows |-> [mem.counts[k] EXCEPT ![d] = ColumnRun(Workers, mem.counts, d)[k]]]
  BY <1>4, ColumnWrites
<1>12. ASSUME NEW k \in TableRows
       PROVE  /\ mem'.counts[k][d] = Cardinality(Before(k, d))
              /\ Cardinality(Before(k, d)) \in Nat
  <2>1. mem'.counts[k] = [mem.counts[k] EXCEPT ![d] = f[k]] BY <1>9, <1>11
  <2>2. mem.counts[k] \in [Experts -> Int] BY <1>2
  <2>3. mem'.counts[k][d] = f[k]
    <3> HIDE DEF f
    <3> QED BY <2>1, <2>2
  <2>4. k \in Nat /\ k \in 0 .. Workers BY <1>3
  <2> QED BY <1>2, <2>3, <2>4, BeforeCount
<1> QED BY <1>4, <1>10, <1>12

LEMMA ColumnStep ==
  ASSUME NEW t, SortInv, PlaceInv, t \in Threads, Column(t)
  PROVE  SortInv' /\ PlaceInv'
<1>1. Moves(t, "column") /\ variant = "small" /\ at[t] = 2 /\ Memory' BY ColumnWrites
<1>2. MemInv /\ CaseInv /\ Same /\ left' = left /\ slot_buf' = slot_buf BY <1>1, MovesMem, MovesFacts
<1>3. mem'.offsets = mem.offsets /\ mem'.warp = mem.warp /\ mem'.vals = mem.vals
      /\ mem'.inverse = mem.inverse /\ mem'.rows = mem.rows
  BY ColumnWrites
<1>4. mem'.counts = IF t - 1 \notin Experts THEN mem.counts
                    ELSE [k \in TableRows |-> [mem.counts[k] EXCEPT ![t - 1] =
                                                 ColumnRun(Workers, mem.counts, t - 1)[k]]]
  BY ColumnWrites
<1>5. mem.counts \in [TableRows -> [Experts -> Int]] BY <1>2 DEF MemInv
<1>6. ASSUME NEW k \in TableRows, NEW e \in Experts, e # t - 1
      PROVE  mem'.counts[k][e] = mem.counts[k][e]
  <2>1. CASE t - 1 \notin Experts BY <1>4, <2>1
  <2>2. CASE t - 1 \in Experts
    <3>1. mem'.counts[k] = [mem.counts[k] EXCEPT ![t - 1] = ColumnRun(Workers, mem.counts, t - 1)[k]]
      BY <1>4, <2>2
    <3> QED BY <1>5, <1>6, <3>1
  <2> QED BY <2>1, <2>2
<1>7. mem'.counts \in [TableRows -> [Experts -> Int]]
  <2>1. CASE t - 1 \notin Experts BY <1>4, <1>5, <2>1
  <2>2. CASE t - 1 \in Experts
    <3>1. ASSUME NEW k \in TableRows, NEW e \in Experts PROVE mem'.counts[k][e] \in Int
      <4>1. CASE e = t - 1
        <5>1. mem'.counts[k][t - 1] = Cardinality(Before(k, t - 1)) /\ Cardinality(Before(k, t - 1)) \in Nat
          BY <2>2, ColumnSums
        <5> QED BY <4>1, <5>1
      <4>2. CASE e # t - 1 BY <1>5, <1>6, <4>2
      <4> QED BY <4>1, <4>2
    <3>2. \A k \in TableRows : DOMAIN mem'.counts[k] = Experts /\ mem'.counts[k] = [e \in Experts |-> mem'.counts[k][e]]
      BY <1>4, <1>5, <2>2
    <3>3. DOMAIN mem'.counts = TableRows /\ mem'.counts = [k \in TableRows |-> mem'.counts[k]] BY <1>4, <2>2
    <3>4. \A k \in TableRows : mem'.counts[k] \in [Experts -> Int] BY <3>1, <3>2
    <3> QED BY <3>3, <3>4
  <2> QED BY <2>1, <2>2
<1>8. TypeInv' /\ BarrierInv' BY <1>1, <1>2, <1>3, <1>7, MovesType DEF MemInv
<1>9. ReadyInv' BY <1>1, MovesReady
<1>10. CountInv' BY <1>1, <1>2 DEF CountInv, Same
<1>11. TotalsInv' BY <1>1, <1>3, QuietTotals
<1>12. PrefixInv' BY <1>1, <1>3, QuietPrefix
<1>13. CursorInv' BY <1>1, QuietCursor
<1>14. Threads = 0 .. Workers /\ Workers \in Nat \ {0} /\ Experts \subseteq 0 .. Workers - 1
       /\ TableRows = 0 .. Workers
  BY <1>1, SmallThreads
<1>15. \A u \in Threads : at[u] \in Int /\ at'[u] \in Int /\ (u # t => at'[u] = at[u]) BY <1>1, MovesAt
<1>16. at'[t] = 3 BY <1>1, MovesAt
<1>17. WorkerInv'
  <2>1. WorkerInv BY DEF SortInv
  <2>2. \A b, e : Share(b, e)' = Share(b, e) BY <1>2, SameShare
  <2>3. ASSUME NEW w \in 1 .. Workers, NEW e \in Experts, at'[w] > 1, at'[e + 1] <= 2
        PROVE  mem'.counts[w][e] = Cardinality(Share(w - 1, e))
    <3>1. w \in Threads /\ e + 1 \in Threads /\ w \in TableRows BY <1>14
    <3>2. e + 1 # t /\ e # t - 1 BY <1>14, <1>16, <2>3
    <3>3. at[e + 1] <= 2 BY <1>15, <2>3, <3>1, <3>2
    <3>4. at[w] > 1
      <4>1. w = t \/ at'[w] = at[w] BY <1>15, <3>1
      <4> QED BY <1>1, <2>3, <4>1
    <3>5. mem'.counts[w][e] = mem.counts[w][e] BY <1>6, <3>1, <3>2
    <3> QED BY <1>1, <2>1, <3>3, <3>4, <3>5 DEF WorkerInv
  <2> QED BY <2>2, <2>3 DEF WorkerInv
<1>18. ColumnInv'
  <2>1. ColumnInv BY DEF SortInv
  <2>2. \A b, e : Before(b, e)' = Before(b, e) BY <1>2, SameShare
  <2>3. \A b, e : Held(b, e)' = Held(b, e) BY <1>2, SameClaimed
  <2>4. ASSUME NEW e \in Experts, at'[e + 1] > 2, NEW b \in 0 .. Workers
        PROVE  mem'.counts[b][e] = Cardinality(Before(b, e)) + Cardinality(Held(b, e))
    <3>1. b \in TableRows /\ e + 1 \in Threads BY <1>14
    <3>2. CASE e = t - 1
      <4>1. t - 1 \in Experts BY <1>14, <3>2
      <4>2. mem'.counts[b][t - 1] = Cardinality(Before(b, t - 1))
            /\ Cardinality(Held(b, t - 1)) = 0 /\ Cardinality(Before(b, t - 1)) \in Nat
        BY <3>1, <4>1, ColumnSums
      <4>3. mem'.counts[b][t - 1] = Cardinality(Before(b, t - 1)) + Cardinality(Held(b, t - 1)) BY <4>2
      <4> QED BY <3>2, <4>3, Zenon
    <3>3. CASE e # t - 1
      <4>1. e + 1 # t BY <1>14, <3>3
      <4>2. at[e + 1] > 2 BY <1>15, <2>4, <3>1, <4>1
      <4>3. mem'.counts[b][e] = mem.counts[b][e] BY <1>6, <3>1, <3>3
      <4> QED BY <1>1, <2>1, <4>2, <4>3 DEF ColumnInv
    <3> QED BY <3>2, <3>3
  <2> QED BY <2>2, <2>3, <2>4 DEF ColumnInv
<1>19. ScanInv'
  <2>1. variant # "align" BY <1>1
  <2> QED BY <1>1, <2>1, QuietScan
<1>20. BlankInv' BY <1>1, <1>3, QuietBlank
<1>21. PlaceInv' BY <1>1, <1>3, QuietPlace
<1> QED BY <1>8, <1>9, <1>10, <1>11, <1>12, <1>13, <1>17, <1>18, <1>19, <1>20, <1>21 DEF SortInv

-----------------------------------------------------------------------------
(* The scan of the align variant. *)

LEMMA AlignThreads ==
  ASSUME CaseInv, variant = "align"
  PROVE  /\ Threads = 0 .. 2 * WarpSize - 1 /\ WarpSize \in Nat \ {0} /\ NumExperts \in Nat \ {0}
         /\ Experts = 0 .. NumExperts - 1 /\ NumExperts <= 2 * WarpSize
         /\ Experts \subseteq Threads /\ NumExperts - 1 \in Experts /\ 0 \in Threads
         /\ Threads \cup Experts = Threads /\ TableRows = {0}
         /\ ~Atomic /\ variant # "parallel" /\ variant # "small" /\ ~tight
<1>1. NumExperts <= 2 * WarpSize BY DEF CaseInv
<1>2. Threads = 0 .. 2 * WarpSize - 1 BY DEF Threads
<1>3. Experts = 0 .. NumExperts - 1 BY DEF Experts
<1>4. Experts \subseteq Threads /\ NumExperts - 1 \in Experts /\ 0 \in Threads BY <1>1, <1>2, <1>3, Positive
<1>5. TableRows = {0} BY DEF TableRows
<1> QED BY <1>1, <1>2, <1>3, <1>4, <1>5, Positive DEF Atomic, tight

LEMMA BelowIs ==
  ASSUME NEW n \in Nat
  PROVE  /\ Below(n) \in Nat
         /\ n <= NumExperts => Below(n) = RegionStart(n)
         /\ n >= NumExperts => Below(n) = RegionStart(NumExperts)
         /\ Below(0) = 0
<1>1. NumExperts \in Nat \ {0} BY Positive
<1>2. \A k \in Nat : RegionStart(k) \in Nat /\ RegionStart(0) = 0 BY RegionStartIs
<1> QED BY <1>1, <1>2 DEF Below

\* What a thread brings to the scan.
LEMMA OwnIs ==
  ASSUME SortInv, variant = "align", \A u \in Threads : at[u] > 2, NEW t \in Threads
  PROVE  own_padded(t) = Below(t + 1) - Below(t)
<1>1. CaseInv BY DEF SortInv, TypeInv
<1>2. t \in Nat /\ NumExperts \in Nat \ {0} /\ Experts = 0 .. NumExperts - 1 /\ ~Atomic /\ ~tight
      /\ TableRows = {0} /\ variant # "parallel" /\ variant # "small"
  BY <1>1, AlignThreads
<1>3. CASE t < NumExperts
  <2>1. t \in Experts BY <1>2, <1>3
  <2>2. ~Cursored(t) BY <1>2 DEF Cursored
  <2>3. mem.counts[0][t] = Cardinality(Share(0, t)) BY <1>2, <2>1, <2>2, FullCount
  <2>4. mem.counts[0][t] = Cardinality(RoutesTo(t)) BY <1>1, <1>2, <2>3, OneRowCount
  <2>5. own_padded(t) = RegionSize(t) BY <1>2, <1>3, <2>4 DEF own_padded, RegionSize
  <2>6. Below(t + 1) = RegionStart(t + 1) /\ Below(t) = RegionStart(t)
    <3>1. t + 1 \in Nat /\ t + 1 <= NumExperts /\ t <= NumExperts BY <1>2, <1>3
    <3> QED BY <1>2, <3>1, BelowIs
  <2>7. RegionStart(t + 1) = RegionStart(t) + RegionSize(t) /\ RegionStart(t) \in Nat BY <1>2, RegionStartIs
  <2>8. RegionSize(t) \in Nat BY RegionSizeIs
  <2> QED BY <2>5, <2>6, <2>7, <2>8
<1>4. CASE ~(t < NumExperts)
  <2>1. t + 1 \in Nat /\ t + 1 >= NumExperts /\ t >= NumExperts BY <1>2, <1>4
  <2>2. Below(t + 1) = RegionStart(NumExperts) /\ Below(t) = RegionStart(NumExperts)
    BY <1>2, <2>1, BelowIs
  <2>3. RegionStart(NumExperts) \in Nat BY <1>2, RegionStartIs
  <2> QED BY <1>4, <2>2, <2>3 DEF own_padded
<1> QED BY <1>3, <1>4

LEMMA ValsWrites ==
  ASSUME NEW t, SortInv, t \in Threads, Vals(t)
  PROVE  /\ Moves(t, "vals") /\ variant = "align" /\ at[t] = 3 /\ Memory'
         /\ mem'.vals = [mem.vals EXCEPT ![t] = own_padded(t)]
         /\ mem'.counts = mem.counts /\ mem'.rows = mem.rows
         /\ mem'.offsets = mem.offsets /\ mem'.warp = mem.warp
         /\ mem'.inverse = mem.inverse
<1>1. Moves(t, "vals") BY DEF Moves, Vals
<1>2. variant = "align" /\ at[t] = 3 BY <1>1, MovesFacts DEF Stands
<1>3. Memory BY <1>1, MovesMem
<1>4. mem' = [mem EXCEPT !.vals[t] = own_padded(t)] BY DEF Vals
<1> QED BY <1>1, <1>2, <1>3, <1>4 DEF Memory

LEMMA ValsStep ==
  ASSUME NEW t, SortInv, PlaceInv, t \in Threads, Vals(t)
  PROVE  SortInv' /\ PlaceInv'
<1>1. Moves(t, "vals") /\ variant = "align" /\ at[t] = 3 /\ Memory' BY ValsWrites
<1>2. MemInv /\ CaseInv /\ Same /\ left' = left /\ slot_buf' = slot_buf BY <1>1, MovesMem, MovesFacts
<1>3. mem'.offsets = mem.offsets /\ mem'.warp = mem.warp /\ mem'.counts = mem.counts
      /\ mem'.inverse = mem.inverse /\ mem'.rows = mem.rows
  BY ValsWrites
<1>4. mem'.vals = [mem.vals EXCEPT ![t] = own_padded(t)] BY ValsWrites
<1>5. mem.vals \in [Threads \cup Experts -> Int] BY <1>2 DEF MemInv
<1>6. \A u \in Threads : at[u] >= 3 /\ at[u] \in Int BY <1>1, AllPast
<1>7. t \in Threads BY <1>1, MovesFacts
<1>8. own_padded(t) = Below(t + 1) - Below(t)
  <2>1. \A u \in Threads : at[u] > 2 BY <1>6
  <2> QED BY <1>1, <1>7, <2>1, OwnIs
<1>9. mem'.vals \in [Threads \cup Experts -> Int]
  <2>1. t \in Nat /\ t + 1 \in Nat BY <1>7, ThreadsAre
  <2>2. Below(t + 1) \in Nat /\ Below(t) \in Nat BY <2>1, BelowIs
  <2>3. own_padded(t) \in Int BY <1>8, <2>2
  <2> QED BY <1>4, <1>5, <2>3
<1>10. TypeInv' /\ BarrierInv' BY <1>1, <1>2, <1>3, <1>9, MovesType DEF MemInv
<1>11. ReadyInv' BY <1>1, MovesReady
<1>12. CountInv' BY <1>1, <1>3, QuietCount
<1>13. TotalsInv' BY <1>1, <1>2 DEF TotalsInv, Same
<1>14. PrefixInv' BY <1>1, <1>3, QuietPrefix
<1>15. CursorInv' BY <1>1, <1>3, QuietCursor
<1>16. WorkerInv' /\ ColumnInv' BY <1>1, <1>3, QuietWorker
<1>17. ScanInv'
  <2>1. Threads' = Threads BY <1>2, SameShape
  <2>2. \A n : Below(n)' = Below(n) BY <1>2, SameExpert
  <2>3. \A u \in Threads : at'[u] \in Int /\ ~(at'[u] > 4)
    <3> SUFFICES ASSUME NEW u \in Threads, at'[u] > 4 PROVE FALSE BY <1>1, MovesAt
    <3>1. BarrierInv BY DEF SortInv
    <3>2. 4 \in 1 .. Len(Program) BY <1>2, LenIs
    <3>3. u # t /\ at[u] > 4 BY <1>1, MovesAt
    <3>4. at[t] >= 4 BY <1>1, <1>7, <3>1, <3>2, <3>3 DEF BarrierInv
    <3> QED BY <1>1, <3>4
  <2>4. Experts \subseteq Threads /\ NumExperts - 1 \in Experts /\ 0 \in Threads
    BY <1>1, <1>2, AlignThreads
  <2>5. ASSUME NEW u \in Threads, at'[u] = 4 PROVE mem'.vals[u] = Below(u + 1) - Below(u)
    <3>1. CASE u = t BY <1>4, <1>5, <1>8, <3>1
    <3>2. CASE u # t
      <4>1. at[u] = 4 BY <1>1, <2>5, <3>2, MovesAt
      <4>2. mem'.vals[u] = mem.vals[u] BY <1>4, <1>5, <3>2
      <4>3. ScanInv BY DEF SortInv
      <4> QED BY <1>1, <4>1, <4>2, <4>3 DEF ScanInv
    <3> QED BY <3>1, <3>2
  <2>6. \A u \in Threads : ~(at'[u] > 4) /\ ~(at'[u] > 5) /\ ~(at'[u] > 6) BY <2>3
  <2> QED BY <2>1, <2>2, <2>4, <2>5, <2>6 DEF ScanInv
<1>18. BlankInv' BY <1>1, <1>3, QuietBlank
<1>19. PlaceInv' BY <1>1, <1>3, QuietPlace
<1> QED BY <1>10, <1>11, <1>12, <1>13, <1>14, <1>15, <1>16, <1>17, <1>18, <1>19 DEF SortInv

-----------------------------------------------------------------------------
(* The sums of the warps before a warp. *)

LEMMA ExclWrites ==
  ASSUME NEW t, SortInv, t \in Threads, WarpExcl(t)
  PROVE  /\ Moves(t, "warp_excl") /\ variant = "align" /\ at[t] = 5 /\ Memory'
         /\ t # 0 => mem'.warp = mem.warp
         /\ t = 0 => mem'.warp \in [0 .. 1 -> Int] /\ mem'.warp[0] = 0 /\ mem'.warp[1] = mem.warp[0]
         /\ mem'.vals = mem.vals /\ mem'.counts = mem.counts /\ mem'.rows = mem.rows
         /\ mem'.offsets = mem.offsets /\ mem'.inverse = mem.inverse
<1>1. Moves(t, "warp_excl") BY DEF Moves, WarpExcl
<1>2. variant = "align" /\ at[t] = 5 BY <1>1, MovesFacts DEF Stands
<1>3. Memory /\ mem.warp \in [0 .. 1 -> Int] BY <1>1, MovesMem DEF MemInv
<1> DEFINE sums == PlainRun(2, mem.warp)
           new == [w \in 0 .. 1 |-> sums[w]]
<1>4. mem' = IF t = 0 THEN [mem EXCEPT !.warp = new] ELSE mem
  <2>1. DOMAIN mem.warp = 0 .. 1 /\ Cardinality(0 .. 1) = 2
    <3>1. Cardinality(0 .. 1) = 2
      <4>1. Cardinality({0}) = 1 /\ IsFiniteSet({0}) BY FS_Singleton
      <4>2. Cardinality({0} \cup {1}) = Cardinality({0}) + 1 BY <4>1, FS_AddElement
      <4>3. 0 .. 1 = {0} \cup {1} OBVIOUS
      <4> QED BY <4>1, <4>2, <4>3
    <3> QED BY <1>3, <3>1
  <2>2. mem' = IF t = 0
            THEN [mem EXCEPT !.warp =
                    [w \in DOMAIN mem.warp |-> RunningSum(Cardinality(DOMAIN mem.warp), LAMBDA x : mem.warp[x])[w]]]
            ELSE mem
    BY DEF WarpExcl
  <2> QED BY <2>1, <2>2 DEF PlainRun
<1>5. /\ sums \in [0 .. 2 -> Int] /\ sums[0] = 0 /\ sums[1] = mem.warp[0]
  <2>1. \A k \in 0 .. 2 - 1 : mem.warp[k] \in Int
    <3>1. \A k \in 0 .. 2 - 1 : k \in 0 .. 1 OBVIOUS
    <3> QED BY <1>3, <3>1
  <2>2. Running(sums, 2, mem.warp) BY <2>1, PlainRuns
  <2> HIDE DEF sums
  <2>3. sums \in [0 .. 2 -> Int] /\ sums[0] = 0 /\ \A k \in 0 .. 2 - 1 : sums[k + 1] = sums[k] + mem.warp[k]
    BY <2>2 DEF Running
  <2>4. sums[0 + 1] = sums[0] + mem.warp[0] BY <2>3
  <2> QED BY <1>3, <2>3, <2>4
<1> HIDE DEF sums
<1>6. new \in [0 .. 1 -> Int] /\ new[0] = 0 /\ new[1] = mem.warp[0] BY <1>5
<1> HIDE DEF new
<1>7. CASE t = 0 BY <1>1, <1>2, <1>3, <1>4, <1>6, <1>7 DEF Memory
<1>8. CASE t # 0
  <2>1. mem' = mem BY <1>4, <1>8
  <2>2. Memory' BY <1>3, <2>1 DEF Memory
  <2> QED BY <1>1, <1>2, <1>8, <2>1, <2>2
<1> QED BY <1>7, <1>8

LEMMA ExclStep ==
  ASSUME NEW t, SortInv, PlaceInv, t \in Threads, WarpExcl(t)
  PROVE  SortInv' /\ PlaceInv'
<1>1. Moves(t, "warp_excl") /\ variant = "align" /\ at[t] = 5 /\ Memory' BY ExclWrites
<1>2. MemInv /\ CaseInv /\ Same /\ left' = left /\ slot_buf' = slot_buf BY <1>1, MovesMem, MovesFacts
<1>3. mem'.offsets = mem.offsets /\ mem'.vals = mem.vals /\ mem'.counts = mem.counts
      /\ mem'.inverse = mem.inverse /\ mem'.rows = mem.rows
  BY ExclWrites
<1>4. mem'.warp \in [0 .. 1 -> Int]
  <2>1. mem.warp \in [0 .. 1 -> Int] BY <1>2 DEF MemInv
  <2> QED BY <2>1, ExclWrites
<1>5. TypeInv' /\ BarrierInv' BY <1>1, <1>2, <1>3, <1>4, MovesType DEF MemInv
<1>6. ReadyInv' BY <1>1, MovesReady
<1>7. CountInv' BY <1>1, <1>3, QuietCount
<1>8. TotalsInv' BY <1>1, <1>2 DEF TotalsInv, Same
<1>9. PrefixInv' BY <1>1, <1>3, QuietPrefix
<1>10. CursorInv' BY <1>1, <1>3, QuietCursor
<1>11. WorkerInv' /\ ColumnInv' BY <1>1, <1>3, QuietWorker
<1>12. ScanInv'
  <2>1. Threads' = Threads BY <1>2, SameShape
  <2>2. \A n : Below(n)' = Below(n) /\ RegionStart(n)' = RegionStart(n) BY <1>2, SameExpert
  <2>3. \A b, e : Held(b, e)' = Held(b, e) BY <1>2, SameClaimed
  <2>4. \A u : Warp(u)' = Warp(u) BY DEF Warp
  <2>5. \A u \in Threads : /\ at'[u] = 4 <=> at[u] = 4
                           /\ at'[u] > 4 <=> at[u] > 4
                           /\ at'[u] > 6 <=> at[u] > 6
                           /\ at'[u] \in Int /\ at[u] \in Int
    BY <1>1, MovesFacts
  <2>6. Experts \subseteq Threads /\ NumExperts - 1 \in Threads /\ 0 \in Threads
    BY <1>1, <1>2, AlignThreads
  <2>7. ScanInv BY DEF SortInv
  <2>8. CASE t = 0
    <3>1. at[0] = 5 /\ at'[0] = 6 BY <1>1, <2>8, MovesAt
    <3>2. mem'.warp[0] = 0 /\ mem'.warp[1] = mem.warp[0] BY <2>8, ExclWrites
    <3>3. WarpSize \in Nat \ {0} BY Positive
    <3>4. Warp(0) = 0
      <4>1. 0 = WarpSize * 0 + 0 /\ 0 \in 0 .. WarpSize - 1 BY <3>3
      <4> QED BY <3>3, <4>1, DivModUnique DEF Warp
    <3>5. mem.warp[Warp(0)] = Below((Warp(0) + 1) * WarpSize) - Below(Warp(0) * WarpSize)
      <4>1. at[0] > 4 /\ at[0] <= 5 BY <3>1
      <4> QED BY <1>1, <2>6, <2>7, <4>1 DEF ScanInv
    <3>6. mem.warp[0] = Below(WarpSize)
      <4>1. (0 + 1) * WarpSize = WarpSize /\ 0 * WarpSize = 0 /\ WarpSize \in Nat BY <3>3
      <4>2. Below(0) = 0 /\ Below(WarpSize) \in Nat BY <4>1, BelowIs
      <4>3. mem.warp[0] = Below(WarpSize) - Below(0) BY <3>4, <3>5, <4>1
      <4> QED BY <4>2, <4>3
    <3>7. ~(at'[0] <= 5) /\ at'[0] > 5 BY <3>1
    <3> QED BY <1>1, <1>3, <2>1, <2>2, <2>3, <2>4, <2>5, <2>6, <2>7, <3>2, <3>6, <3>7 DEF ScanInv
  <2>9. CASE t # 0
    <3>1. mem'.warp = mem.warp BY <2>9, ExclWrites
    <3>2. at'[0] = at[0] BY <1>1, <2>6, <2>9, MovesAt
    <3> QED BY <1>1, <1>3, <2>1, <2>2, <2>3, <2>4, <2>5, <2>6, <2>7, <3>1, <3>2 DEF ScanInv
  <2> QED BY <2>8, <2>9
<1>13. BlankInv' BY <1>1, <1>3, QuietBlank
<1>14. PlaceInv' BY <1>1, <1>3, QuietPlace
<1> QED BY <1>5, <1>6, <1>7, <1>8, <1>9, <1>10, <1>11, <1>12, <1>13, <1>14 DEF SortInv

-----------------------------------------------------------------------------
(* The first rows out of the scan. *)

\* The two warps of a block.
LEMMA WarpIs ==
  ASSUME NEW t \in 0 .. 2 * WarpSize - 1
  PROVE  /\ Warp(t) \in {0, 1}
         /\ Warp(t) = 0 <=> t < WarpSize
<1>1. WarpSize \in Nat \ {0} BY Positive
<1>2. CASE t < WarpSize
  <2>1. t = WarpSize * 0 + t /\ t \in 0 .. WarpSize - 1 BY <1>1, <1>2
  <2>2. (WarpSize * 0 + t) \div WarpSize = 0 BY <1>1, <2>1, DivModUnique
  <2> QED BY <1>2, <2>1, <2>2 DEF Warp
<1>3. CASE ~(t < WarpSize)
  <2>1. t = WarpSize * 1 + (t - WarpSize) /\ t - WarpSize \in 0 .. WarpSize - 1 BY <1>1, <1>3
  <2>2. (WarpSize * 1 + (t - WarpSize)) \div WarpSize = 1 BY <1>1, <2>1, DivModUnique
  <2> QED BY <1>3, <2>1, <2>2 DEF Warp
<1> QED BY <1>2, <1>3

LEMMA CumsumWrites ==
  ASSUME NEW t, SortInv, t \in Threads, Cumsum(t)
  PROVE  /\ Moves(t, "cumsum") /\ variant = "align" /\ at[t] = 6 /\ Memory'
         /\ mem'.offsets = [e \in 0 .. NumExperts |->
              CASE e = t /\ t < NumExperts -> (mem.vals[t] + mem.warp[Warp(t)]) - own_padded(t)
                [] e = NumExperts /\ t = NumExperts - 1 -> mem.vals[t] + mem.warp[Warp(t)]
                [] OTHER -> mem.offsets[e]]
         /\ mem'.vals = mem.vals /\ mem'.counts = mem.counts /\ mem'.rows = mem.rows
         /\ mem'.warp = mem.warp /\ mem'.inverse = mem.inverse
<1>1. Moves(t, "cumsum") BY DEF Moves, Cumsum
<1>2. variant = "align" /\ at[t] = 6 BY <1>1, MovesFacts DEF Stands
<1>3. Memory /\ mem.offsets \in [0 .. NumExperts -> Int] BY <1>1, MovesMem DEF MemInv
<1> DEFINE new == [e \in 0 .. NumExperts |->
              CASE e = t /\ t < NumExperts -> (mem.vals[t] + mem.warp[Warp(t)]) - own_padded(t)
                [] e = NumExperts /\ t = NumExperts - 1 -> mem.vals[t] + mem.warp[Warp(t)]
                [] OTHER -> mem.offsets[e]]
<1>4. DOMAIN mem.offsets = 0 .. NumExperts BY <1>3
<1>5. mem' = [mem EXCEPT !.offsets = new] BY <1>4 DEF Cumsum, Warp
<1> HIDE DEF new
<1> QED BY <1>1, <1>2, <1>3, <1>5 DEF Memory, new

LEMMA CumsumIs ==
  ASSUME NEW t, SortInv, t \in Threads, Cumsum(t)
  PROVE  mem.vals[t] + mem.warp[Warp(t)] = Below(t + 1) /\ own_padded(t) = Below(t + 1) - Below(t)
<1>1. Moves(t, "cumsum") /\ variant = "align" /\ at[t] = 6 BY CumsumWrites
<1>2. CaseInv /\ ScanInv /\ t \in Threads BY <1>1, MovesMem, MovesFacts DEF SortInv
<1>3. Threads = 0 .. 2 * WarpSize - 1 /\ WarpSize \in Nat \ {0} /\ 0 \in Threads
  BY <1>1, <1>2, AlignThreads
<1>4. \A u \in Threads : at[u] >= 6 /\ at[u] \in Int BY <1>1, AllPast
<1>5. own_padded(t) = Below(t + 1) - Below(t)
  <2>1. \A u \in Threads : at[u] > 2 BY <1>4
  <2> QED BY <1>1, <1>2, <2>1, OwnIs
<1>6. mem.warp[0] = 0 /\ mem.warp[1] = Below(WarpSize)
  <2>1. at[0] > 5 BY <1>3, <1>4
  <2> QED BY <1>1, <1>2, <2>1 DEF ScanInv
<1>7. mem.vals[t] = Below(t + 1) - Below(Warp(t) * WarpSize)
  <2>1. at[t] > 4 BY <1>1
  <2> QED BY <1>1, <1>2, <2>1 DEF ScanInv
<1>8. t + 1 \in Nat /\ Below(t + 1) \in Nat
  <2>1. t \in Nat /\ t + 1 \in Nat BY <1>2, ThreadsAre
  <2> QED BY <2>1, BelowIs
<1>9. Warp(t) \in {0, 1} BY <1>2, <1>3, WarpIs
<1>10. CASE Warp(t) = 0
  <2>1. 0 * WarpSize = 0 /\ Below(0) = 0 BY <1>3, BelowIs
  <2> QED BY <1>5, <1>6, <1>7, <1>8, <1>10, <2>1
<1>11. CASE Warp(t) = 1
  <2>1. 1 * WarpSize = WarpSize /\ Below(WarpSize) \in Nat BY <1>3, BelowIs
  <2> QED BY <1>5, <1>6, <1>7, <1>8, <1>11, <2>1
<1> QED BY <1>9, <1>10, <1>11

LEMMA CumsumStep ==
  ASSUME NEW t, SortInv, PlaceInv, t \in Threads, Cumsum(t)
  PROVE  SortInv' /\ PlaceInv'
<1>1. Moves(t, "cumsum") /\ variant = "align" /\ at[t] = 6 /\ Memory' BY CumsumWrites
<1>2. MemInv /\ CaseInv /\ Same /\ left' = left /\ slot_buf' = slot_buf /\ t \in Threads
  BY <1>1, MovesMem, MovesFacts
<1>3. mem'.warp = mem.warp /\ mem'.vals = mem.vals /\ mem'.counts = mem.counts
      /\ mem'.inverse = mem.inverse /\ mem'.rows = mem.rows
  BY CumsumWrites
<1>4. /\ Threads = 0 .. 2 * WarpSize - 1 /\ WarpSize \in Nat \ {0} /\ NumExperts \in Nat \ {0}
      /\ Experts = 0 .. NumExperts - 1 /\ Experts \subseteq Threads
      /\ NumExperts - 1 \in Experts /\ 0 \in Threads
  BY <1>1, <1>2, AlignThreads
<1>5. t \in Nat /\ Below(t) \in Nat /\ Below(t + 1) \in Nat
  <2>1. t \in Nat /\ t + 1 \in Nat BY <1>2, <1>4
  <2> QED BY <2>1, BelowIs
<1>6. mem'.offsets = [e \in 0 .. NumExperts |->
              CASE e = t /\ t < NumExperts -> Below(t)
                [] e = NumExperts /\ t = NumExperts - 1 -> Below(t + 1)
                [] OTHER -> mem.offsets[e]]
  <2> DEFINE sum == mem.vals[t] + mem.warp[Warp(t)]
             own == own_padded(t)
  <2>1. sum = Below(t + 1) /\ own = Below(t + 1) - Below(t) BY CumsumIs
  <2>2. mem'.offsets = [e \in 0 .. NumExperts |->
              CASE e = t /\ t < NumExperts -> sum - own
                [] e = NumExperts /\ t = NumExperts - 1 -> sum
                [] OTHER -> mem.offsets[e]]
    BY CumsumWrites
  <2> HIDE DEF sum, own
  <2>3. sum - own = Below(t) BY <1>5, <2>1
  <2> QED BY <2>1, <2>2, <2>3
<1>7. mem.offsets \in [0 .. NumExperts -> Int] BY <1>2 DEF MemInv
<1>8. mem'.offsets \in [0 .. NumExperts -> Int]
  <2>1. ASSUME NEW e \in 0 .. NumExperts PROVE mem'.offsets[e] \in Int
    <3>1. mem'.offsets[e] \in {Below(t), Below(t + 1), mem.offsets[e]} BY <1>6
    <3>2. mem.offsets[e] \in Int BY <1>7
    <3>3. Below(t) \in Int /\ Below(t + 1) \in Int BY <1>5
    <3> QED BY <3>1, <3>2, <3>3, Zenon
  <2>2. mem'.offsets = [e \in 0 .. NumExperts |-> mem'.offsets[e]] BY <1>6
  <2> QED BY <2>1, <2>2
<1>9. TypeInv' /\ BarrierInv' BY <1>1, <1>2, <1>3, <1>8, MovesType DEF MemInv
<1>10. ReadyInv' BY <1>1, MovesReady
<1>11. CountInv' BY <1>1, <1>3, QuietCount
<1>12. TotalsInv' BY <1>1, <1>2 DEF TotalsInv, Same
<1>13. PrefixInv' BY <1>1, QuietPrefix
<1>14. CursorInv' BY <1>1, <1>3, QuietCursor
<1>15. WorkerInv' /\ ColumnInv' BY <1>1, <1>3, QuietWorker
<1>16. ScanInv'
  <2>1. Threads' = Threads BY <1>2, SameShape
  <2>2. \A n : Below(n)' = Below(n) /\ RegionStart(n)' = RegionStart(n) BY <1>2, SameExpert
  <2>3. \A b, e : Held(b, e)' = Held(b, e) BY <1>2, SameClaimed
  <2>4. \A u : Warp(u)' = Warp(u) BY DEF Warp
  <2>5. \A u \in Threads : /\ at'[u] = 4 <=> at[u] = 4
                           /\ at'[u] > 4 <=> at[u] > 4
                           /\ at'[u] > 5 <=> at[u] > 5
                           /\ at'[u] <= 5 <=> at[u] <= 5
                           /\ at'[u] > 6 => u = t \/ at[u] > 6
    BY <1>1, MovesFacts
  <2>6. ScanInv BY DEF SortInv
  <2>7. \A b, e : Cardinality(Held(b, e)) = 0
    <3>1. at[t] < ReadyAt BY <1>1 DEF ReadyAt, Program
    <3> QED BY <1>2, <3>1, HeldIs
  <2>8. ASSUME NEW e \in Experts, at'[e] > 6
        PROVE  mem'.offsets[e] = RegionStart(e) + Cardinality(Held(0, e))
    <3>1. e \in Nat /\ e < NumExperts /\ e \in 0 .. NumExperts /\ RegionStart(e) \in Nat
      <4>1. e \in Nat /\ e < NumExperts /\ e \in 0 .. NumExperts BY <1>4
      <4> QED BY <4>1, RegionStartIs
    <3>2. CASE e = t
      <4>1. mem'.offsets[e] = Below(e) BY <1>6, <3>1, <3>2
      <4>2. Below(e) = RegionStart(e) BY <3>1, BelowIs
      <4>3. Cardinality(Held(0, e)) = 0 BY <2>7
      <4> QED BY <3>1, <4>1, <4>2, <4>3
    <3>3. CASE e # t
      <4>1. mem'.offsets[e] = mem.offsets[e] BY <1>6, <3>1, <3>3
      <4>2. at[e] > 6 BY <1>4, <2>5, <2>8, <3>3
      <4> QED BY <1>1, <2>6, <4>1, <4>2 DEF ScanInv
    <3> QED BY <3>2, <3>3
  <2>9. ASSUME at'[NumExperts - 1] > 6 PROVE mem'.offsets[NumExperts] = RegionStart(NumExperts)
    <3>1. NumExperts \in 0 .. NumExperts BY <1>4
    <3>2. CASE NumExperts - 1 = t
      <4>1. t # NumExperts /\ t + 1 = NumExperts BY <1>4, <3>2
      <4>2. mem'.offsets[NumExperts] = Below(t + 1) BY <1>6, <3>1, <3>2, <4>1
      <4>3. Below(NumExperts) = RegionStart(NumExperts) BY <1>4, BelowIs
      <4> QED BY <4>1, <4>2, <4>3
    <3>3. CASE NumExperts - 1 # t
      <4>1. mem'.offsets[NumExperts] = mem.offsets[NumExperts] BY <1>6, <3>1, <3>3
      <4>2. at[NumExperts - 1] > 6 BY <1>4, <2>5, <2>9, <3>3
      <4> QED BY <1>1, <2>6, <4>1, <4>2 DEF ScanInv
    <3> QED BY <3>2, <3>3
  <2>10. /\ \A u \in Threads :
              /\ at'[u] = 4 => mem'.vals[u] = Below(u + 1) - Below(u)
              /\ at'[u] > 4 => mem'.vals[u] = Below(u + 1) - Below(Warp(u) * WarpSize)
              /\ at'[u] > 4 /\ at'[0] <= 5 =>
                   mem'.warp[Warp(u)] = Below((Warp(u) + 1) * WarpSize) - Below(Warp(u) * WarpSize)
              /\ at'[u] > 4 => \A v \in Threads : Warp(v) = Warp(u) => at'[v] > 4
         /\ at'[0] > 5 => mem'.warp[0] = 0 /\ mem'.warp[1] = Below(WarpSize)
    BY <1>1, <1>3, <1>4, <2>5, <2>6 DEF ScanInv
  <2> QED BY <1>4, <2>1, <2>2, <2>3, <2>4, <2>8, <2>9, <2>10 DEF ScanInv
<1>17. BlankInv' BY <1>1, <1>3, QuietBlank
<1>18. PlaceInv' BY <1>1, <1>3, QuietPlace
<1> QED BY <1>9, <1>10, <1>11, <1>12, <1>13, <1>14, <1>15, <1>16, <1>17, <1>18 DEF SortInv

-----------------------------------------------------------------------------
(* The owners of the row blocks. *)

LEMMA FinalizeWrites ==
  ASSUME NEW t, SortInv, t \in Threads, Finalize(t)
  PROVE  /\ Moves(t, "finalize") /\ variant \in {"align", "small"} /\ Memory'
         /\ at[t] = (IF variant = "align" THEN 7 ELSE 4)
         /\ mem'.rows = IF variant = "small" THEN mem.rows
                        ELSE [r \in Rows |-> IF r \in Mine(t, capacity) THEN Sentinel ELSE mem.rows[r]]
         /\ mem'.vals = mem.vals /\ mem'.counts = mem.counts /\ mem'.offsets = mem.offsets
         /\ mem'.warp = mem.warp /\ mem'.inverse = mem.inverse
<1>1. Moves(t, "finalize") BY DEF Moves, Finalize
<1>2. variant \in {"align", "small"} /\ at[t] = (IF variant = "align" THEN 7 ELSE 4)
  BY <1>1, MovesFacts DEF Stands
<1>3. Memory /\ mem.rows \in [Rows -> Int] BY <1>1, MovesMem DEF MemInv
<1> DEFINE blank == IF variant = "small" THEN {} ELSE Mine(t, capacity)
           new == [r \in Rows |-> IF r \in blank THEN Sentinel ELSE mem.rows[r]]
<1>4. PICK meta : mem' = [mem EXCEPT !.metadata = meta, !.rows = new]
  BY <1>3 DEF Finalize, Overlay
<1>5. new = IF variant = "small" THEN mem.rows
            ELSE [r \in Rows |-> IF r \in Mine(t, capacity) THEN Sentinel ELSE mem.rows[r]]
  <2>1. CASE variant = "small"
    <3>1. new = [r \in Rows |-> mem.rows[r]] BY <2>1
    <3> QED BY <1>3, <2>1, <3>1
  <2>2. CASE variant # "small" BY <2>2
  <2> QED BY <2>1, <2>2
<1> HIDE DEF new
<1> QED BY <1>1, <1>2, <1>3, <1>4, <1>5 DEF Memory

LEMMA FinalizeStep ==
  ASSUME NEW t, SortInv, PlaceInv, t \in Threads, Finalize(t)
  PROVE  SortInv' /\ PlaceInv'
<1>1. Moves(t, "finalize") /\ variant \in {"align", "small"} /\ Memory' BY FinalizeWrites
<1>2. MemInv /\ CaseInv /\ Same /\ left' = left /\ slot_buf' = slot_buf /\ t \in Threads
  BY <1>1, MovesMem, MovesFacts
<1>3. mem'.warp = mem.warp /\ mem'.vals = mem.vals /\ mem'.counts = mem.counts
      /\ mem'.inverse = mem.inverse /\ mem'.offsets = mem.offsets
  BY FinalizeWrites
<1>4. mem'.rows = IF variant = "small" THEN mem.rows
                  ELSE [r \in Rows |-> IF r \in Mine(t, capacity) THEN Sentinel ELSE mem.rows[r]]
  BY FinalizeWrites
<1>5. Sentinel \in Nat BY NumelPositive, Positive DEF Sentinel
<1>6. mem'.rows \in [Rows -> Int]
  <2>1. mem.rows \in [Rows -> Int] BY <1>2 DEF MemInv
  <2> QED BY <1>4, <1>5, <2>1
<1>7. TypeInv' /\ BarrierInv' BY <1>1, <1>2, <1>3, <1>6, MovesType DEF MemInv
<1>8. ReadyInv' BY <1>1, MovesReady
<1>9. CountInv' BY <1>1, <1>3, QuietCount
<1>10. TotalsInv' BY <1>1, <1>3, QuietTotals
<1>11. PrefixInv' BY <1>1, <1>3, QuietPrefix
<1>12. CursorInv' BY <1>1, <1>3, QuietCursor
<1>13. WorkerInv' /\ ColumnInv' BY <1>1, <1>3, QuietWorker
<1>14. ScanInv' BY <1>1, <1>3, QuietScan
<1>15. BlankInv'
  <2>1. CASE variant = "small"
    <3>1. mem'.rows = mem.rows /\ variant # "align" BY <1>4, <2>1
    <3> QED BY <1>1, <3>1, QuietBlank
  <2>2. CASE variant = "align"
    <3>1. Rows' = Rows /\ Threads' = Threads /\ capacity' = capacity BY <1>2, SameShape
    <3>2. \A u, n : Mine(u, n)' = Mine(u, n) BY <1>2, SameMine
    <3>3. BlankInv BY DEF SortInv
    <3>4. ASSUME NEW u \in Threads, NEW r \in Rows, at'[u] > 7, r \in Mine(u, capacity)
          PROVE  mem'.rows[r] # Unset
      <4>1. CASE r \in Mine(t, capacity)
        <5>1. mem'.rows[r] = Sentinel BY <1>4, <2>2, <3>4, <4>1
        <5> QED BY <1>5, <5>1 DEF Unset
      <4>2. CASE r \notin Mine(t, capacity)
        <5>1. at[u] > 7
          <6>1. u # t BY <3>4, <4>2
          <6>2. at'[u] = at[u] BY <1>1, <6>1, MovesAt
          <6> QED BY <3>4, <6>2
        <5>2. mem'.rows[r] = mem.rows[r] BY <1>4, <2>2, <3>4, <4>2
        <5> QED BY <2>2, <3>3, <3>4, <5>1, <5>2 DEF BlankInv, Blanked
      <4> QED BY <4>1, <4>2
    <3> QED BY <1>2, <2>2, <3>1, <3>2, <3>4 DEF BlankInv, Blanked, Same
  <2> QED BY <1>1, <2>1, <2>2
<1>16. PlaceInv'
  <2>1. CASE variant = "small"
    <3>1. mem'.rows = mem.rows BY <1>4, <2>1
    <3> QED BY <1>1, <1>3, <3>1, QuietPlace
  <2>2. CASE variant = "align"
    <3>1. at[t] < ReadyAt
      <4>1. at[t] = 7 BY <2>2, FinalizeWrites
      <4>2. ReadyAt = 8 BY <2>2 DEF ReadyAt, Program
      <4> QED BY <4>1, <4>2
    <3>2. Claimed = {} BY <1>2, <3>1, NotReady
    <3>3. \A r \in Rows : mem'.rows[r] \in {Unset, Sentinel} \/ mem'.rows[r] = mem.rows[r]
      BY <1>4, <2>2
    <3> QED BY <1>1, <1>3, <3>2, <3>3, MovesPlace
  <2> QED BY <1>1, <2>1, <2>2
<1> QED BY <1>7, <1>8, <1>9, <1>10, <1>11, <1>12, <1>13, <1>14, <1>15, <1>16 DEF SortInv

-----------------------------------------------------------------------------
(* Powers of two. *)

Doubles(f, n) == f \in [0 .. n -> Nat] /\ f[0] = 1 /\ \A k \in 0 .. n - 1 : f[k + 1] = 2 * f[k]

LEMMA DoublesExists ==
  ASSUME NEW n \in Nat
  PROVE  \E f : Doubles(f, n)
<1> DEFINE N == {m \in Nat : \E f : Doubles(f, m)}
<1>1. 0 \in N
  <2>1. Doubles([k \in 0 .. 0 |-> 1], 0) BY DEF Doubles
  <2> QED BY <2>1
<1>2. ASSUME NEW m \in Nat, m \in N PROVE m + 1 \in N
  <2>1. PICK f : Doubles(f, m) BY <1>2
  <2>2. f \in [0 .. m -> Nat] /\ f[0] = 1 /\ \A k \in 0 .. m - 1 : f[k + 1] = 2 * f[k] BY <2>1 DEF Doubles
  <2> DEFINE h == [k \in 0 .. m + 1 |-> IF k = m + 1 THEN 2 * f[m] ELSE f[k]]
  <2>3. h \in [0 .. m + 1 -> Nat] /\ h[0] = 1 BY <2>2
  <2>4. ASSUME NEW k \in 0 .. (m + 1) - 1 PROVE h[k + 1] = 2 * h[k]
    <3>1. CASE k = m BY <3>1
    <3>2. CASE k # m BY <3>2, <2>2
    <3> QED BY <3>1, <3>2
  <2>5. Doubles(h, m + 1)
    <3> HIDE DEF h
    <3> QED BY <2>3, <2>4 DEF Doubles
  <2> QED BY <2>5
<1> HIDE DEF N
<1>3. n \in N BY <1>1, <1>2, SetInduction
<1> QED BY <1>3 DEF N

LEMMA DoublesAgree ==
  ASSUME NEW n \in Nat, NEW m \in Nat, NEW f, Doubles(f, n), NEW h, Doubles(h, m), NEW k \in Nat,
         k <= n, k <= m
  PROVE  f[k] = h[k]
<1> DEFINE N == {i \in Nat : i <= n /\ i <= m => f[i] = h[i]}
<1>1. 0 \in N BY DEF Doubles
<1>2. ASSUME NEW i \in Nat, i \in N PROVE i + 1 \in N
  <2> SUFFICES ASSUME i + 1 <= n, i + 1 <= m PROVE f[i + 1] = h[i + 1] OBVIOUS
  <2>1. i \in 0 .. n - 1 /\ i \in 0 .. m - 1 OBVIOUS
  <2>2. f[i + 1] = 2 * f[i] /\ h[i + 1] = 2 * h[i] BY <2>1 DEF Doubles
  <2>3. f[i] = h[i] BY <1>2
  <2> QED BY <2>2, <2>3
<1> HIDE DEF N
<1>3. k \in N BY <1>1, <1>2, SetInduction
<1> QED BY <1>3 DEF N

LEMMA Powers ==
  /\ Pow2[0] = 1
  /\ \A n \in Nat : Pow2[n] \in Nat \ {0} /\ Pow2[n + 1] = 2 * Pow2[n]
<1> DEFINE Eq(f) == f = [n \in Nat |-> IF n = 0 THEN 1 ELSE 2 * f[n - 1]]
           upto(n) == CHOOSE f : Doubles(f, n)
           all == [n \in Nat |-> upto(n)[n]]
<1>1. \A n \in Nat : Doubles(upto(n), n) BY DoublesExists
<1> HIDE DEF upto
<1>2. ASSUME NEW n \in Nat \ {0} PROVE upto(n)[n] = 2 * upto(n - 1)[n - 1]
  <2>1. n - 1 \in Nat /\ n - 1 \in 0 .. n - 1 /\ (n - 1) + 1 = n OBVIOUS
  <2>2. upto(n)[(n - 1) + 1] = 2 * upto(n)[n - 1] BY <1>1, <2>1 DEF Doubles
  <2>3. Doubles(upto(n), n) /\ Doubles(upto(n - 1), n - 1) BY <1>1, <2>1
  <2>4. upto(n)[n - 1] = upto(n - 1)[n - 1] BY <2>1, <2>3, DoublesAgree
  <2> QED BY <2>1, <2>2, <2>4
<1>3. upto(0)[0] = 1 BY <1>1 DEF Doubles
<1>4. Eq(all)
  <2>1. \A n \in Nat : all[n] = IF n = 0 THEN 1 ELSE 2 * all[n - 1] BY <1>2, <1>3
  <2> QED BY <2>1
<1>5. \E f : Eq(f) BY <1>4
<1>6. Eq(Pow2)
  <2>1. Pow2 = CHOOSE f : Eq(f) BY DEF Pow2
  <2> HIDE DEF Eq
  <2> QED BY <1>5, <2>1
<1>7. Pow2[0] = 1 /\ \A n \in Nat : Pow2[n + 1] = 2 * Pow2[n]
  <2>1. \A n \in Nat : Pow2[n] = IF n = 0 THEN 1 ELSE 2 * Pow2[n - 1] BY <1>6
  <2>2. \A n \in Nat : n + 1 \in Nat /\ n + 1 # 0 /\ (n + 1) - 1 = n OBVIOUS
  <2> HIDE DEF Eq
  <2> QED BY <2>1, <2>2
<1> DEFINE N == {n \in Nat : Pow2[n] \in Nat \ {0}}
<1> HIDE DEF Eq
<1>8. 0 \in N BY <1>7
<1>9. \A n \in Nat : n \in N => n + 1 \in N BY <1>7
<1>10. Nat \subseteq N
  <2> HIDE DEF N
  <2> QED BY <1>8, <1>9, SetInduction
<1> QED BY <1>7, <1>10

(* The rounds of a warp. *)

WarpLanes(w) == w * WarpSize .. (w + 1) * WarpSize - 1
\* The first lane whose value has reached x after d rounds.
Reach(w, d, x) == IF x + 1 - Pow2[d] > w * WarpSize THEN x + 1 - Pow2[d] ELSE w * WarpSize
Scanned(w, d) == [x \in Threads |-> IF x \in WarpLanes(w) THEN Below(x + 1) - Below(Reach(w, d, x))
                                    ELSE mem.vals[x]]
Round(w, f, d) == Overlay(f, {t \in WarpLanes(w) : t % WarpSize >= Pow2[d]},
                          LAMBDA t : f[t] + f[t - Pow2[d]])

LEMMA LanesAre ==
  ASSUME NEW w \in 0 .. 1, variant = "align"
  PROVE  /\ WarpLanes(w) \subseteq Threads /\ WarpLanes(w) \subseteq Nat /\ Threads \subseteq Nat
         /\ w * WarpSize \in Nat /\ WarpSize \in Nat \ {0}
         /\ (w + 1) * WarpSize = w * WarpSize + WarpSize
         /\ \A t \in WarpLanes(w) : t % WarpSize = t - w * WarpSize
         /\ \A t \in Threads : t \in WarpLanes(w) <=> Warp(t) = w
<1>1. WarpSize \in Nat \ {0} /\ Threads = 0 .. 2 * WarpSize - 1 BY Positive DEF Threads
<1>2. w = 0 \/ w = 1 OBVIOUS
<1>3. CASE w = 0
  <2>1. 0 * WarpSize = 0 /\ (0 + 1) * WarpSize = WarpSize BY <1>1
  <2>2. WarpLanes(w) = 0 .. WarpSize - 1 BY <1>3, <2>1 DEF WarpLanes
  <2>3. ASSUME NEW t \in WarpLanes(w) PROVE t % WarpSize = t
    <3>1. t \in 0 .. WarpSize - 1 /\ WarpSize * 0 + t = t BY <1>1, <2>2
    <3> QED BY <1>1, <3>1, DivModUnique
  <2>4. \A t \in Threads : t \in WarpLanes(w) <=> Warp(t) = w BY <1>1, <1>3, <2>2, WarpIs
  <2>5. WarpLanes(w) \subseteq Threads /\ WarpLanes(w) \subseteq Nat BY <1>1, <2>2
  <2>6. \A t \in WarpLanes(w) : t - w * WarpSize = t BY <1>3, <2>1, <2>5
  <2> QED BY <1>1, <1>3, <2>1, <2>3, <2>4, <2>5, <2>6
<1>4. CASE w = 1
  <2>1. 1 * WarpSize = WarpSize /\ (1 + 1) * WarpSize = 2 * WarpSize BY <1>1
  <2>2. WarpLanes(w) = WarpSize .. 2 * WarpSize - 1 BY <1>4, <2>1 DEF WarpLanes
  <2>3. ASSUME NEW t \in WarpLanes(w) PROVE t % WarpSize = t - WarpSize
    <3>1. PICK r \in 0 .. WarpSize - 1 : t = WarpSize * 1 + r /\ r = t - WarpSize
      <4>1. t - WarpSize \in 0 .. WarpSize - 1 /\ t = WarpSize * 1 + (t - WarpSize) BY <1>1, <2>2
      <4> QED BY <4>1
    <3>2. (WarpSize * 1 + r) % WarpSize = r BY <1>1, DivModUnique
    <3> QED BY <3>1, <3>2
  <2>4. \A t \in Threads : t \in WarpLanes(w) <=> Warp(t) = w
    <3>1. \A t \in Threads : t \in WarpLanes(w) <=> ~(t < WarpSize) BY <1>1, <2>2
    <3> QED BY <1>1, <1>4, <3>1, WarpIs
  <2>5. WarpLanes(w) \subseteq Threads /\ WarpLanes(w) \subseteq Nat BY <1>1, <2>2
  <2> QED BY <1>1, <1>4, <2>1, <2>3, <2>4, <2>5
<1> QED BY <1>2, <1>3, <1>4

\* One round doubles the reach.
LEMMA ScanNext ==
  ASSUME NEW w \in 0 .. 1, variant = "align", NEW d \in Nat
  PROVE  Scanned(w, d + 1) = Round(w, Scanned(w, d), d)
<1> DEFINE base == w * WarpSize
           s == Pow2[d]
           sum == Scanned(w, d)
<1>1. base \in Nat /\ WarpSize \in Nat \ {0} /\ (w + 1) * WarpSize = base + WarpSize
      /\ WarpLanes(w) \subseteq Threads /\ Threads \subseteq Nat
      /\ \A t \in WarpLanes(w) : t % WarpSize = t - base
  BY LanesAre
<1>2. s \in Nat \ {0} /\ Pow2[d + 1] = 2 * s BY Powers
<1>3. WarpLanes(w) = base .. base + WarpSize - 1 BY <1>1 DEF WarpLanes
<1>4. \A n \in Nat : Below(n) \in Nat BY BelowIs
<1>5. ASSUME NEW x \in Threads
      PROVE  Scanned(w, d + 1)[x] = IF x \in {t \in WarpLanes(w) : t % WarpSize >= s}
                                    THEN sum[x] + sum[x - s] ELSE sum[x]
  <2>1. CASE x \notin WarpLanes(w) BY <2>1 DEF Scanned
  <2>2. CASE x \in WarpLanes(w)
    <3>1. x \in Nat /\ x + 1 \in Nat /\ x % WarpSize = x - base /\ base <= x BY <1>1, <1>3, <2>2
    <3>2. /\ Scanned(w, d + 1)[x] = Below(x + 1) - Below(Reach(w, d + 1, x))
          /\ sum[x] = Below(x + 1) - Below(Reach(w, d, x))
      BY <2>2 DEF Scanned
    <3>3. CASE x - base >= s
      <4>1. x - s \in WarpLanes(w) /\ x - s \in Nat /\ (x - s) + 1 = x + 1 - s /\ x + 1 - s \in Nat
        <5>1. x \in base .. base + WarpSize - 1 BY <1>3, <2>2
        <5>2. base \in Nat /\ s \in Nat \ {0} /\ WarpSize \in Nat \ {0} BY <1>1, <1>2
        <5> HIDE DEF base, s
        <5>3. x - s \in base .. base + WarpSize - 1 /\ x - s \in Nat BY <3>1, <3>3, <5>1, <5>2
        <5>4. (x - s) + 1 = x + 1 - s /\ x + 1 - s \in Nat BY <3>1, <5>2, <5>3
        <5> QED BY <1>3, <5>3, <5>4
      <4>2. sum[x - s] = Below((x - s) + 1) - Below(Reach(w, d, x - s))
        BY <1>1, <4>1 DEF Scanned
      <4>3. Reach(w, d, x) = x + 1 - s BY <1>1, <1>2, <3>1, <3>3 DEF Reach
      <4>4. Reach(w, d, x - s) = Reach(w, d + 1, x)
        <5>1. (x - s) + 1 - s = x + 1 - 2 * s BY <1>2, <3>1
        <5> QED BY <1>2, <5>1 DEF Reach
      <4>5. Reach(w, d + 1, x) \in Nat
        BY <1>1, <1>2, <3>1 DEF Reach
      <4>6. Below(x + 1) \in Nat /\ Below(x + 1 - s) \in Nat /\ Below(Reach(w, d + 1, x)) \in Nat
        BY <1>4, <3>1, <4>1, <4>5
      <4>7. sum[x] = Below(x + 1) - Below(x + 1 - s) BY <3>2, <4>3
      <4>8. sum[x - s] = Below(x + 1 - s) - Below(Reach(w, d + 1, x)) BY <4>1, <4>2, <4>4
      <4>9. sum[x] + sum[x - s] = Below(x + 1) - Below(Reach(w, d + 1, x)) BY <4>6, <4>7, <4>8
      <4> QED BY <2>2, <3>1, <3>2, <3>3, <4>9
    <3>4. CASE ~(x - base >= s)
      <4>1. Reach(w, d, x) = base BY <1>1, <1>2, <3>1, <3>4 DEF Reach
      <4>2. Reach(w, d + 1, x) = base
        <5>1. ~(x + 1 - 2 * s > base) BY <1>1, <1>2, <3>1, <3>4
        <5> QED BY <1>2, <5>1 DEF Reach
      <4>3. ~(x % WarpSize >= s) BY <3>1, <3>4
      <4> QED BY <3>2, <4>1, <4>2, <4>3
    <3> QED BY <3>3, <3>4
  <2> QED BY <2>1, <2>2
<1>6. DOMAIN sum = Threads /\ Scanned(w, d + 1) = [x \in Threads |-> Scanned(w, d + 1)[x]] BY DEF Scanned
<1>7. Round(w, sum, d) = [x \in Threads |-> IF x \in {t \in WarpLanes(w) : t % WarpSize >= s}
                                    THEN sum[x] + sum[x - s] ELSE sum[x]]
  <2> HIDE DEF sum
  <2> QED BY <1>6 DEF Round, Overlay
<1> HIDE DEF sum, s
<1>8. Scanned(w, d + 1) = [x \in Threads |-> IF x \in {t \in WarpLanes(w) : t % WarpSize >= s}
                                    THEN sum[x] + sum[x - s] ELSE sum[x]]
  BY <1>5, <1>6
<1> QED BY <1>7, <1>8 DEF sum

LEMMA ScanStart ==
  ASSUME NEW w \in 0 .. 1, variant = "align", mem.vals \in [Threads -> Int],
         \A x \in WarpLanes(w) : mem.vals[x] = Below(x + 1) - Below(x)
  PROVE  mem.vals = Scanned(w, 0)
<1>1. Pow2[0] = 1 BY Powers
<1>2. w * WarpSize \in Nat /\ WarpLanes(w) \subseteq Threads /\ WarpLanes(w) \subseteq Nat
      /\ \A x \in WarpLanes(w) : x >= w * WarpSize
  <2>1. w * WarpSize \in Nat /\ WarpLanes(w) \subseteq Threads /\ WarpLanes(w) \subseteq Nat
        /\ (w + 1) * WarpSize = w * WarpSize + WarpSize /\ WarpSize \in Nat
    BY LanesAre
  <2>2. \A m \in Nat, n \in Nat : \A x \in m .. n - 1 : x >= m OBVIOUS
  <2>3. \A x \in WarpLanes(w) : x >= w * WarpSize
    <3>1. w * WarpSize + WarpSize \in Nat BY <2>1
    <3> QED BY <2>1, <2>2, <3>1 DEF WarpLanes
  <2> QED BY <2>1, <2>3
<1>3. ASSUME NEW x \in WarpLanes(w) PROVE Reach(w, 0, x) = x
  BY <1>1, <1>2 DEF Reach
<1>4. \A x \in Threads : mem.vals[x] = Scanned(w, 0)[x] BY <1>3 DEF Scanned
<1>5. mem.vals = [x \in Threads |-> mem.vals[x]] /\ Scanned(w, 0) = [x \in Threads |-> Scanned(w, 0)[x]]
  BY DEF Scanned
<1> QED BY <1>4, <1>5

LEMMA ScanEnd ==
  ASSUME NEW w \in 0 .. 1, variant = "align", NEW n \in Nat, Pow2[n] = WarpSize
  PROVE  /\ \A x \in Threads : Scanned(w, n)[x] = IF Warp(x) = w THEN Below(x + 1) - Below(w * WarpSize)
                                                  ELSE mem.vals[x]
         /\ DOMAIN Scanned(w, n) = Threads
         /\ (w + 1) * WarpSize - 1 \in Threads
         /\ Scanned(w, n)[(w + 1) * WarpSize - 1] = Below((w + 1) * WarpSize) - Below(w * WarpSize)
<1> DEFINE base == w * WarpSize
<1>1. base \in Nat /\ WarpSize \in Nat \ {0} /\ (w + 1) * WarpSize = base + WarpSize
      /\ WarpLanes(w) \subseteq Threads /\ WarpLanes(w) \subseteq Nat
      /\ \A t \in Threads : t \in WarpLanes(w) <=> Warp(t) = w
  BY LanesAre
<1>2. WarpLanes(w) = base .. base + WarpSize - 1 BY <1>1 DEF WarpLanes
<1>3. ASSUME NEW x \in WarpLanes(w) PROVE Reach(w, n, x) = base
  <2>1. \A i, k \in Nat : \A y \in i .. i + k - 1 : ~(y + 1 - k > i) OBVIOUS
  <2>2. ~(x + 1 - WarpSize > base) BY <1>1, <1>2, <2>1
  <2> QED BY <2>2 DEF Reach
<1>4. \A x \in Threads : Scanned(w, n)[x] = IF Warp(x) = w THEN Below(x + 1) - Below(base)
                                            ELSE mem.vals[x]
  BY <1>1, <1>3 DEF Scanned
<1>5. DOMAIN Scanned(w, n) = Threads BY DEF Scanned
<1>6. PICK x \in WarpLanes(w) : x = base + WarpSize - 1 /\ x + 1 = base + WarpSize
  <2> HIDE DEF base
  <2>1. base + WarpSize - 1 \in base .. base + WarpSize - 1 BY <1>1
  <2>2. (base + WarpSize - 1) + 1 = base + WarpSize BY <1>1
  <2> QED BY <1>2, <2>1, <2>2
<1>7. Scanned(w, n)[x] = Below(x + 1) - Below(base) BY <1>3, <1>1 DEF Scanned
<1>8. (w + 1) * WarpSize - 1 = x BY <1>1, <1>6
<1>9. x \in Threads BY <1>1
<1>10. Scanned(w, n)[x] = Below((w + 1) * WarpSize) - Below(base) BY <1>1, <1>6, <1>7
<1> QED BY <1>4, <1>5, <1>8, <1>9, <1>10

Rounds(f, w, n) == f = [d \in 0 .. n |-> IF d = 0 THEN mem.vals ELSE Round(w, f[d - 1], d - 1)]

LEMMA ScanAll ==
  ASSUME NEW w \in 0 .. 1, variant = "align", mem.vals = Scanned(w, 0), NEW n \in Nat
  PROVE  /\ \E f : Rounds(f, w, n)
         /\ \A f : Rounds(f, w, n) => f[n] = Scanned(w, n)
<1>1. Rounds([d \in 0 .. n |-> Scanned(w, d)], w, n)
  <2> DEFINE f == [d \in 0 .. n |-> Scanned(w, d)]
  <2>1. ASSUME NEW d \in 0 .. n
        PROVE  f[d] = IF d = 0 THEN mem.vals ELSE Round(w, f[d - 1], d - 1)
    <3>1. CASE d = 0 BY <3>1
    <3>2. CASE d # 0
      <4>1. d - 1 \in Nat /\ d - 1 \in 0 .. n /\ (d - 1) + 1 = d BY <3>2
      <4>2. Scanned(w, (d - 1) + 1) = Round(w, Scanned(w, d - 1), d - 1) BY <4>1, ScanNext
      <4>3. f[d - 1] = Scanned(w, d - 1) BY <4>1
      <4> QED BY <3>2, <4>1, <4>2, <4>3
    <3> QED BY <3>1, <3>2
  <2>2. f = [d \in 0 .. n |-> f[d]] OBVIOUS
  <2> HIDE DEF f
  <2>3. Rounds(f, w, n) BY <2>1, <2>2 DEF Rounds
  <2> QED BY <2>3 DEF f
<1>2. ASSUME NEW f, Rounds(f, w, n) PROVE f[n] = Scanned(w, n)
  <2> DEFINE N == {d \in Nat : d <= n => f[d] = Scanned(w, d)}
  <2>1. \A d \in 0 .. n : f[d] = IF d = 0 THEN mem.vals ELSE Round(w, f[d - 1], d - 1)
    <3> DEFINE rhs == [d \in 0 .. n |-> IF d = 0 THEN mem.vals ELSE Round(w, f[d - 1], d - 1)]
    <3>1. f = rhs BY <1>2 DEF Rounds
    <3>2. \A d \in 0 .. n : rhs[d] = IF d = 0 THEN mem.vals ELSE Round(w, f[d - 1], d - 1) OBVIOUS
    <3> HIDE DEF rhs
    <3> QED BY <3>1, <3>2
  <2>2. 0 \in N BY <2>1
  <2>3. ASSUME NEW d \in Nat, d \in N PROVE d + 1 \in N
    <3> SUFFICES ASSUME d + 1 <= n PROVE f[d + 1] = Scanned(w, d + 1) OBVIOUS
    <3>1. d + 1 \in 0 .. n /\ d + 1 # 0 /\ (d + 1) - 1 = d OBVIOUS
    <3>2. f[d + 1] = Round(w, f[d], d) BY <2>1, <3>1
    <3>3. f[d] = Scanned(w, d) BY <2>3
    <3> QED BY <3>2, <3>3, ScanNext
  <2> HIDE DEF N
  <2>4. n \in N BY <2>2, <2>3, SetInduction
  <2> QED BY <2>4 DEF N
<1> QED BY <1>1, <1>2

LEMMA WarpWrites ==
  ASSUME NEW w \in 0 .. 1, SortInv, WarpScan(w)
  PROVE  /\ variant = "align" /\ Same /\ left' = left /\ slot_buf' = slot_buf
         /\ \A t \in Threads : at[t] >= 4 /\ at[t] \in Int
         /\ \A t \in WarpLanes(w) : at[t] = 4
         /\ at' = [t \in Threads |-> IF Warp(t) = w THEN at[t] + 1 ELSE at[t]]
         /\ \E n \in Nat : /\ Pow2[n] = WarpSize
                           /\ mem' = [mem EXCEPT !.vals = Scanned(w, n),
                                                 !.warp[w] = Scanned(w, n)[(w + 1) * WarpSize - 1]]
<1>1. /\ variant = "align" /\ \A t \in WarpLanes(w) : InSegment(t, "warp_scan")
      /\ at' = Overlay(at, WarpLanes(w), LAMBDA t : at[t] + 1)
      /\ Same /\ left' = left /\ slot_buf' = slot_buf
  BY DEF WarpScan, WarpLanes, Same
<1>2. TypeInv /\ CaseInv /\ ScanInv /\ MemInv BY DEF SortInv, TypeInv
<1>3. at \in [Threads -> 1 .. Len(Program)] BY <1>2 DEF TypeInv
<1>4. /\ WarpLanes(w) \subseteq Threads /\ \A t \in Threads : t \in WarpLanes(w) <=> Warp(t) = w
      /\ w * WarpSize \in Nat /\ WarpSize \in Nat \ {0} /\ (w + 1) * WarpSize = w * WarpSize + WarpSize
  BY <1>1, LanesAre
<1>5. ASSUME NEW t \in WarpLanes(w) PROVE at[t] = 4 /\ \A u \in Threads : at[u] >= 4
  <2>1. t \in Threads /\ InSegment(t, "warp_scan") BY <1>1, <1>4
  <2>2. Stands("warp_scan", at[t]) BY <1>2, <2>1, CaughtUp
  <2>3. at[t] = 4 BY <2>2 DEF Stands
  <2>4. \A u \in Threads : at[u] >= at[t] \/ (variant = "small" /\ at[t] = Len(Program))
    BY <1>1, <1>2, <2>1, CaughtUp
  <2> QED BY <1>1, <2>3, <2>4
<1>6. \E t : t \in WarpLanes(w)
  <2> DEFINE base == w * WarpSize
  <2>1. WarpLanes(w) = base .. base + WarpSize - 1 BY <1>4 DEF WarpLanes
  <2>2. base \in Nat BY <1>4
  <2> HIDE DEF base
  <2>3. base \in base .. base + WarpSize - 1 BY <1>4, <2>2
  <2> QED BY <2>1, <2>3
<1>7. \A u \in Threads : at[u] >= 4 /\ at[u] \in Int
  <2>1. \A u \in Threads : at[u] >= 4 BY <1>5, <1>6
  <2> QED BY <1>3, <2>1
<1>8. at' = [t \in Threads |-> IF Warp(t) = w THEN at[t] + 1 ELSE at[t]]
  BY <1>1, <1>3, <1>4 DEF Overlay
<1> DEFINE n == CHOOSE m \in 0 .. WarpSize : Pow2[m] = WarpSize
           Eq(f) == f = [d \in 0 .. n |-> IF d = 0 THEN mem.vals ELSE Round(w, f[d - 1], d - 1)]
           scan == CHOOSE f : Eq(f)
<1>9. mem' = [mem EXCEPT !.vals = scan[n], !.warp[w] = scan[n][(w + 1) * WarpSize - 1]]
  BY DEF WarpScan, WarpLanes, Round
<1>10. n \in Nat /\ Pow2[n] = WarpSize
  <2>1. \E m \in 0 .. WarpSize : Pow2[m] = WarpSize BY <1>1, <1>2 DEF CaseInv
  <2>2. n \in 0 .. WarpSize /\ Pow2[n] = WarpSize BY <2>1
  <2> QED BY <2>2
<1> HIDE DEF n
<1>11. mem.vals \in [Threads -> Int]
  <2>1. mem.vals \in [Threads \cup Experts -> Int] BY <1>2 DEF MemInv
  <2>2. Threads \cup Experts = Threads BY <1>1, <1>2, AlignThreads
  <2> QED BY <2>1, <2>2
<1>12. \A x \in WarpLanes(w) : mem.vals[x] = Below(x + 1) - Below(x)
  BY <1>1, <1>2, <1>4, <1>5 DEF ScanInv
<1>13. mem.vals = Scanned(w, 0) BY <1>1, <1>11, <1>12, ScanStart
<1>14. /\ \E f : Rounds(f, w, n)
       /\ \A f : Rounds(f, w, n) => f[n] = Scanned(w, n)
  BY <1>1, <1>10, <1>13, ScanAll
<1>15. Rounds(scan, w, n)
  <2>1. \A f : Eq(f) <=> Rounds(f, w, n) BY DEF Rounds
  <2> HIDE DEF Eq
  <2>2. Eq(scan) BY <1>14, <2>1
  <2> QED BY <2>1, <2>2
<1> HIDE DEF scan
<1>16. scan[n] = Scanned(w, n) BY <1>14, <1>15
<1>17. mem' = [mem EXCEPT !.vals = Scanned(w, n), !.warp[w] = Scanned(w, n)[(w + 1) * WarpSize - 1]]
  BY <1>9, <1>16
<1> QED BY <1>1, <1>5, <1>7, <1>8, <1>10, <1>17

-----------------------------------------------------------------------------
(* The step of a warp. *)

LEMMA StillPlace ==
  ASSUME Same, left' = left, slot_buf' = slot_buf, PlaceInv,
         mem'.inverse = mem.inverse, mem'.rows = mem.rows
  PROVE  PlaceInv'
<1>1. Claimed' = Claimed /\ Stored' = Stored /\ (\A b, e : Held(b, e)' = Held(b, e))
  BY SameClaimed
<1>2. Rows' = Rows /\ Threads' = Threads /\ Sentinel' = Sentinel BY SameShape
<1>3. \A e : RegionStart(e)' = RegionStart(e) BY SameExpert
<1>4. \A b, e : Before(b, e)' = Before(b, e) BY SameShare
<1>5. \A idx : TableRow(idx)' = TableRow(idx) BY SameRoute
<1>6. PICK place \in [Claimed -> Rows] : Places(place) BY DEF PlaceInv
<1>7. Places(place)' BY <1>1, <1>2, <1>3, <1>4, <1>5, <1>6 DEF Places, Same
<1> QED BY <1>1, <1>2, <1>6, <1>7 DEF PlaceInv

LEMMA WarpMem ==
  ASSUME NEW w \in 0 .. 1, SortInv, WarpScan(w)
  PROVE  /\ Memory' /\ mem'.counts = mem.counts /\ mem'.offsets = mem.offsets
         /\ mem'.rows = mem.rows /\ mem'.inverse = mem.inverse
         /\ \A x \in Threads : mem'.vals[x] = IF Warp(x) = w THEN Below(x + 1) - Below(w * WarpSize)
                                              ELSE mem.vals[x]
         /\ DOMAIN mem'.vals = Threads
         /\ mem'.warp = [mem.warp EXCEPT ![w] = Below((w + 1) * WarpSize) - Below(w * WarpSize)]
<1>1. variant = "align" BY WarpWrites
<1>2. Memory /\ MemInv BY DEF SortInv, TypeInv, MemInv
<1>3. PICK n \in Nat : /\ Pow2[n] = WarpSize
                       /\ mem' = [mem EXCEPT !.vals = Scanned(w, n),
                                             !.warp[w] = Scanned(w, n)[(w + 1) * WarpSize - 1]]
  BY WarpWrites
<1>4. /\ \A x \in Threads : Scanned(w, n)[x] = IF Warp(x) = w THEN Below(x + 1) - Below(w * WarpSize)
                                                  ELSE mem.vals[x]
      /\ DOMAIN Scanned(w, n) = Threads
      /\ Scanned(w, n)[(w + 1) * WarpSize - 1] = Below((w + 1) * WarpSize) - Below(w * WarpSize)
  BY <1>1, <1>3, ScanEnd
<1> DEFINE sum == Scanned(w, n)
           last == Scanned(w, n)[(w + 1) * WarpSize - 1]
<1>5. mem' = [mem EXCEPT !.vals = sum, !.warp[w] = last] BY <1>3
<1> HIDE DEF sum, last
<1>6. /\ Memory' /\ mem'.counts = mem.counts /\ mem'.offsets = mem.offsets
      /\ mem'.rows = mem.rows /\ mem'.inverse = mem.inverse
      /\ mem'.vals = sum /\ mem'.warp = [mem.warp EXCEPT ![w] = last]
  BY <1>2, <1>5 DEF Memory
<1> QED BY <1>4, <1>6 DEF sum, last

LEMMA WarpStep ==
  ASSUME NEW w \in 0 .. 1, SortInv, PlaceInv, WarpScan(w)
  PROVE  SortInv' /\ PlaceInv'
<1>1. variant = "align" /\ Same /\ left' = left /\ slot_buf' = slot_buf
      /\ (\A t \in Threads : at[t] >= 4 /\ at[t] \in Int)
      /\ (\A t \in WarpLanes(w) : at[t] = 4)
      /\ at' = [t \in Threads |-> IF Warp(t) = w THEN at[t] + 1 ELSE at[t]]
  BY WarpWrites
<1>2. TypeInv /\ CaseInv /\ MemInv /\ BarrierInv /\ ScanInv BY DEF SortInv, TypeInv
<1>3. /\ WarpLanes(w) \subseteq Threads /\ \A t \in Threads : t \in WarpLanes(w) <=> Warp(t) = w
      /\ w * WarpSize \in Nat /\ (w + 1) * WarpSize = w * WarpSize + WarpSize /\ WarpSize \in Nat \ {0}
  BY <1>1, LanesAre
<1>4. \A t \in Threads : at'[t] = IF Warp(t) = w THEN 5 ELSE at[t] BY <1>1, <1>3
<1>5. /\ Threads' = Threads /\ Program' = Program /\ Rows' = Rows /\ TableRows' = TableRows
      /\ CaseInv' = CaseInv /\ capacity' = capacity
  BY <1>1, SameShape
<1>6. /\ Memory' /\ mem'.counts = mem.counts /\ mem'.offsets = mem.offsets
      /\ mem'.rows = mem.rows /\ mem'.inverse = mem.inverse
      /\ (\A x \in Threads : mem'.vals[x] = IF Warp(x) = w THEN Below(x + 1) - Below(w * WarpSize)
                                              ELSE mem.vals[x])
      /\ DOMAIN mem'.vals = Threads
      /\ mem'.warp = [mem.warp EXCEPT ![w] = Below((w + 1) * WarpSize) - Below(w * WarpSize)]
  BY WarpMem
<1>7. /\ Threads = 0 .. 2 * WarpSize - 1 /\ 0 \in Threads /\ Experts \subseteq Threads
      /\ NumExperts - 1 \in Experts /\ Threads \cup Experts = Threads /\ ~Atomic
  BY <1>1, <1>2, AlignThreads
<1>8. Len(Program) = 8 /\ Len(Program)' = 8
  <2>1. Len(Program) = 8 BY <1>1 DEF Program
  <2>2. Program' = Program BY <1>5
  <2> QED BY <2>1, <2>2
<1>9. at \in [Threads -> 1 .. 8] BY <1>2, <1>8 DEF TypeInv
<1>10. at' \in [Threads -> 1 .. 8]
  <2>1. \A t \in Threads : at'[t] \in 1 .. 8 BY <1>4, <1>9
  <2> QED BY <1>1, <2>1
<1>11. TypeInv'
  <2>1. Below(w * WarpSize) \in Nat /\ Below((w + 1) * WarpSize) \in Nat BY <1>3, BelowIs
  <2>2. mem'.warp \in [0 .. 1 -> Int]
    <3>1. mem.warp \in [0 .. 1 -> Int] BY <1>2 DEF MemInv
    <3> QED BY <1>6, <2>1, <3>1
  <2>3. mem'.vals \in [Threads \cup Experts -> Int]
    <3>1. mem.vals \in [Threads -> Int] BY <1>2, <1>7 DEF MemInv
    <3>2. \A x \in Threads : x + 1 \in Nat BY <1>7
    <3>3. \A x \in Threads : Below(x + 1) \in Nat BY <3>2, BelowIs
    <3>4. \A x \in Threads : mem'.vals[x] \in Int BY <1>6, <2>1, <3>1, <3>3
    <3>5. mem'.vals = [x \in Threads |-> mem'.vals[x]]
      <4>1. Memory' BY <1>6
      <4>2. mem'.vals \in [Threads -> Int] \/ mem'.vals = [x \in Threads |-> mem'.vals[x]]
        <5>1. PICK n \in Nat : mem' = [mem EXCEPT !.vals = Scanned(w, n),
                                             !.warp[w] = Scanned(w, n)[(w + 1) * WarpSize - 1]]
          BY WarpWrites
        <5> DEFINE sum == Scanned(w, n)
                   end == Scanned(w, n)[(w + 1) * WarpSize - 1]
        <5>2. sum = [x \in Threads |-> sum[x]] BY DEF Scanned
        <5>3. mem' = [mem EXCEPT !.vals = sum, !.warp[w] = end] BY <5>1
        <5> HIDE DEF sum, end
        <5>4. mem'.vals = sum BY <1>2, <5>3 DEF MemInv, Memory
        <5> QED BY <5>2, <5>4
      <4> QED BY <4>2
    <3> QED BY <1>7, <3>4, <3>5
  <2>4. MemInv' BY <1>2, <1>5, <1>6, <2>2, <2>3 DEF MemInv
  <2>5. \A u : RoutesOf(u)' = RoutesOf(u) BY <1>1, SameThread
  <2> QED BY <1>1, <1>2, <1>5, <1>8, <1>10, <2>4, <2>5 DEF TypeInv
<1>12. BarrierInv'
  <2> SUFFICES ASSUME NEW u \in Threads, NEW v \in Threads, NEW i \in 1 .. 8, at'[u] > i
               PROVE  at'[v] >= i
    BY <1>1, <1>5, <1>8 DEF BarrierInv
  <2>1. at'[v] \in Int /\ at'[v] >= at[v] /\ at[v] >= 4 /\ at[v] \in Int /\ at[u] \in Int
    BY <1>1, <1>4, <1>3
  <2>2. CASE Warp(u) = w
    <3>1. i <= 4 BY <1>4, <2>2
    <3> QED BY <2>1, <3>1
  <2>3. CASE Warp(u) # w
    <3>1. at[u] > i BY <1>4, <2>3
    <3>2. at[v] >= i BY <1>1, <1>2, <1>8, <3>1 DEF BarrierInv
    <3> QED BY <2>1, <3>2
  <2> QED BY <2>2, <2>3
<1>13. ReadyInv'
  <2>1. Claimed' = Claimed /\ ReadyAt' = ReadyAt BY <1>1, SameClaimed, SameShape
  <2>2. ReadyAt = 8 BY <1>1, <1>8 DEF ReadyAt
  <2>3. Claimed = {}
    <3>1. PICK t \in WarpLanes(w) : TRUE
      <4>1. \E t \in Threads : Warp(t) = w
        <5>1. WarpSize \in Threads /\ 0 \in Threads BY <1>3, <1>7
        <5>2. Warp(0) = 0 /\ Warp(WarpSize) = 1 BY <1>3, <1>7, <5>1, WarpIs
        <5>3. w = 0 \/ w = 1 OBVIOUS
        <5> QED BY <5>1, <5>2, <5>3
      <4> QED BY <1>3, <4>1
    <3>2. t \in Threads /\ at[t] < ReadyAt BY <1>1, <1>3, <2>2
    <3> QED BY <3>2, NotReady
  <2> QED BY <2>1, <2>3 DEF ReadyInv
<1>14. CountInv'
  <2>1. \A u : Clears(u)' = Clears(u) /\ BlockIdx(u)' = BlockIdx(u) BY <1>1, SameThread
  <2>2. \A u \in Threads : at[u] > 1 /\ at[u] > 2 /\ at'[u] > 2 BY <1>1, <1>4
  <2>3. \A b, e : Share(b, e)' = Share(b, e) BY <1>1, SameShare
  <2>4. \A idx : Home(idx)' = Home(idx) BY <1>1, SameRoute
  <2>5. \A b, e, idx : idx \in Share(b, e) => Home(idx) \in Threads BY <1>2, SharesAreRoutes
  <2>6. \A b, e : Tallied(b, e)' = Tallied(b, e) BY <2>2, <2>3, <2>4, <2>5 DEF Tallied
  <2>7. \A e : ~Cursored(e) BY <1>7 DEF Cursored
  <2>8. CountInv /\ variant # "small" BY <1>1 DEF SortInv
  <2>9. ASSUME NEW b \in TableRows, NEW e \in Experts, NEW u \in Threads, e \in Clears(u), BlockIdx(u) = b
        PROVE  mem.counts[b][e] = Cardinality(Tallied(b, e))
    BY <2>2, <2>7, <2>8, <2>9 DEF CountInv
  <2> QED BY <1>5, <1>6, <2>1, <2>6, <2>9 DEF CountInv
<1>15. TotalsInv' /\ PrefixInv' /\ WorkerInv' /\ ColumnInv'
  BY <1>1 DEF TotalsInv, PrefixInv, WorkerInv, ColumnInv, Same
<1>16. CursorInv'
  <2>1. Atomic' = Atomic BY <1>1, SameShape
  <2> QED BY <1>7, <2>1 DEF CursorInv
<1>17. BlankInv'
  <2>1. \A u, n : Mine(u, n)' = Mine(u, n) BY <1>1, SameMine
  <2>2. \A u \in Threads : at'[u] > 7 => at[u] > 7 BY <1>4
  <2>3. BlankInv BY DEF SortInv
  <2> QED BY <1>1, <1>5, <1>6, <2>1, <2>2, <2>3 DEF BlankInv, Blanked, Same
<1>18. PlaceInv' BY <1>1, <1>6, StillPlace
<1>19. ScanInv'
  <2>1. \A n : Below(n)' = Below(n) /\ RegionStart(n)' = RegionStart(n) BY <1>1, SameExpert
  <2>2. \A b, e : Held(b, e)' = Held(b, e) BY <1>1, SameClaimed
  <2>3. \A u : Warp(u)' = Warp(u) BY DEF Warp
  <2>4. ASSUME NEW t \in Threads
        PROVE  /\ at'[t] = 4 => mem'.vals[t] = Below(t + 1) - Below(t)
               /\ at'[t] > 4 => mem'.vals[t] = Below(t + 1) - Below(Warp(t) * WarpSize)
               /\ at'[t] > 4 /\ at'[0] <= 5 =>
                    mem'.warp[Warp(t)] = Below((Warp(t) + 1) * WarpSize) - Below(Warp(t) * WarpSize)
               /\ at'[t] > 4 => \A u \in Threads : Warp(u) = Warp(t) => at'[u] > 4
    <3>1. mem.warp \in [0 .. 1 -> Int] BY <1>2 DEF MemInv
    <3>2. CASE Warp(t) = w
      <4>1. at'[t] = 5 /\ mem'.vals[t] = Below(t + 1) - Below(w * WarpSize) BY <1>4, <1>6, <3>2
      <4>2. mem'.warp[w] = Below((w + 1) * WarpSize) - Below(w * WarpSize) BY <1>6, <3>1
      <4>3. \A u \in Threads : Warp(u) = w => at'[u] > 4 BY <1>4
      <4> QED BY <3>2, <4>1, <4>2, <4>3
    <3>3. CASE Warp(t) # w
      <4>1. at'[t] = at[t] /\ mem'.vals[t] = mem.vals[t] BY <1>4, <1>6, <3>3
      <4>2. mem'.warp[Warp(t)] = mem.warp[Warp(t)] BY <1>6, <1>7, <3>1, <3>3, WarpIs
      <4>3. at'[0] <= 5 => at[0] <= 5 BY <1>1, <1>4, <1>7
      <4>4. \A u \in Threads : at[u] > 4 => at'[u] > 4 BY <1>4
      <4> QED BY <1>1, <1>2, <4>1, <4>2, <4>3, <4>4 DEF ScanInv
    <3> QED BY <3>2, <3>3
  <2>5. ~(at'[0] > 5)
    <3> SUFFICES ASSUME at'[0] > 5 PROVE FALSE OBVIOUS
    <3>1. at[0] > 5 BY <1>4, <1>7
    <3>2. \A v \in Threads : at[v] >= 5 BY <1>1, <1>2, <1>7, <1>8, <3>1 DEF BarrierInv
    <3>3. \E t \in Threads : Warp(t) = w
      <4>1. WarpSize \in Threads /\ 0 \in Threads BY <1>3, <1>7
      <4>2. Warp(0) = 0 /\ Warp(WarpSize) = 1 BY <1>3, <1>7, <4>1, WarpIs
      <4>3. w = 0 \/ w = 1 OBVIOUS
      <4> QED BY <4>1, <4>2, <4>3
    <3> QED BY <1>1, <1>3, <3>2, <3>3
  <2>6. \A u \in Threads : at'[u] > 6 => at[u] > 6 BY <1>4
  <2>7. /\ \A e \in Experts : at'[e] > 6 => mem'.offsets[e] = RegionStart(e) + Cardinality(Held(0, e))
        /\ at'[NumExperts - 1] > 6 => mem'.offsets[NumExperts] = RegionStart(NumExperts)
    BY <1>1, <1>2, <1>6, <1>7, <2>6 DEF ScanInv
  <2> QED BY <1>5, <2>1, <2>2, <2>3, <2>4, <2>5, <2>7 DEF ScanInv
<1> QED BY <1>11, <1>12, <1>13, <1>14, <1>15, <1>16, <1>17, <1>18, <1>19 DEF SortInv

-----------------------------------------------------------------------------
(* The rows set aside for the routes of one table row to one expert. *)
First(b, e) == RegionStart(e) + Cardinality(Before(b, e))

LEMMA SpanIs ==
  ASSUME CaseInv, NEW e \in Experts, NEW b \in Nat
  PROVE  /\ First(b, e) \in Nat /\ Cardinality(Share(b, e)) \in Nat /\ RegionStart(e) \in Nat
         /\ RegionStart(e) <= First(b, e)
         /\ First(b, e) + Cardinality(Share(b, e)) <= RegionStart(e) + Cardinality(RoutesTo(e))
         /\ RegionStart(e) + Cardinality(RoutesTo(e)) <= RegionStart(e + 1)
         /\ RegionStart(e + 1) <= capacity
         /\ Cardinality(RoutesTo(e)) \in Nat /\ RegionStart(e + 1) \in Nat /\ capacity \in Nat
<1>1. NumExperts \in Nat BY Positive
<1>2. e \in Nat /\ e + 1 \in Nat /\ e + 1 <= NumExperts BY <1>1 DEF Experts
<1>3. /\ RegionStart(e) \in Nat /\ RegionStart(e + 1) \in Nat
      /\ RegionStart(e + 1) = RegionStart(e) + RegionSize(e)
  BY <1>2, RegionStartIs
<1>4. RegionSize(e) \in Nat /\ Cardinality(RoutesTo(e)) <= RegionSize(e) BY RegionSizeIs
<1>5. Cardinality(RoutesTo(e)) \in Nat BY RoutesToIs
<1>6. RegionStart(e + 1) <= RegionStart(NumExperts) /\ RegionStart(NumExperts) \in Nat
  BY <1>1, <1>2, RegionsInOrder, RegionStartIs
<1>7. capacity \in Nat /\ RegionStart(NumExperts) <= capacity BY RegionsFit
<1>8. /\ Cardinality(Before(b, e)) \in Nat /\ Cardinality(Share(b, e)) \in Nat
      /\ Cardinality(Before(b + 1, e)) = Cardinality(Before(b, e)) + Cardinality(Share(b, e))
  BY BeforeCount
<1>9. Cardinality(Before(b + 1, e)) <= Cardinality(RoutesTo(e)) BY BeforeCount
<1> HIDE DEF Experts
<1> QED BY <1>3, <1>4, <1>5, <1>6, <1>7, <1>8, <1>9 DEF First

LEMMA SpansApart ==
  ASSUME CaseInv, NEW e \in Experts, NEW b \in Nat, NEW d \in Experts, NEW f \in Nat,
         <<b, e>> # <<f, d>>,
         NEW x \in First(b, e) .. First(b, e) + Cardinality(Share(b, e)) - 1,
         NEW y \in First(f, d) .. First(f, d) + Cardinality(Share(f, d)) - 1
  PROVE  x # y
<1>1. /\ First(b, e) \in Nat /\ Cardinality(Share(b, e)) \in Nat
      /\ RegionStart(e) <= First(b, e)
      /\ First(b, e) + Cardinality(Share(b, e)) <= RegionStart(e + 1)
      /\ RegionStart(e) \in Nat /\ RegionStart(e + 1) \in Nat
  BY SpanIs
<1>2. /\ First(f, d) \in Nat /\ Cardinality(Share(f, d)) \in Nat
      /\ RegionStart(d) <= First(f, d)
      /\ First(f, d) + Cardinality(Share(f, d)) <= RegionStart(d + 1)
      /\ RegionStart(d) \in Nat /\ RegionStart(d + 1) \in Nat
  BY SpanIs
<1>3. e \in Nat /\ d \in Nat /\ e + 1 \in Nat /\ d + 1 \in Nat BY Positive DEF Experts
<1>4. CASE e < d
  <2>1. RegionStart(e + 1) <= RegionStart(d) BY <1>3, <1>4, RegionsInOrder
  <2> QED BY <1>1, <1>2, <2>1
<1>5. CASE d < e
  <2>1. RegionStart(d + 1) <= RegionStart(e) BY <1>3, <1>5, RegionsInOrder
  <2> QED BY <1>1, <1>2, <2>1
<1>6. CASE e = d /\ b < f
  <2>1. Cardinality(Before(b, e)) + Cardinality(Share(b, e)) <= Cardinality(Before(f, e))
    BY <1>6, BeforeMonotone
  <2>2. Cardinality(Before(b, e)) \in Nat /\ Cardinality(Before(f, e)) \in Nat BY BeforeCount
  <2>3. First(b, e) + Cardinality(Share(b, e)) <= First(f, d) BY <1>1, <1>6, <2>1, <2>2 DEF First
  <2> QED BY <1>1, <1>2, <2>3
<1>7. CASE e = d /\ f < b
  <2>1. Cardinality(Before(f, e)) + Cardinality(Share(f, e)) <= Cardinality(Before(b, e))
    BY <1>7, BeforeMonotone
  <2>2. Cardinality(Before(b, e)) \in Nat /\ Cardinality(Before(f, e)) \in Nat BY BeforeCount
  <2>3. First(f, d) + Cardinality(Share(f, d)) <= First(b, e) BY <1>1, <1>2, <1>7, <2>1, <2>2 DEF First
  <2> QED BY <1>1, <1>2, <2>3
<1> QED BY <1>3, <1>4, <1>5, <1>6, <1>7

LEMMA FirstOf ==
  ASSUME NEW S, S \subseteq Nat, S # {}
  PROVE  Min(S) \in S
<1>1. PICK m \in S : \A n \in S : m <= n BY WellOrder
<1>2. \E m2 \in S : \A n \in S : m2 <= n BY <1>1
<1> QED BY <1>2 DEF Min

-----------------------------------------------------------------------------
(* Taking a row. *)

Taken(t) == Min(left[t])

LEMMA ClaimReady ==
  ASSUME NEW t, SortInv, t \in Threads, Claim(t)
  PROVE  /\ CaseInv /\ MemInv /\ Memory /\ Same /\ left' = left /\ at' = at
         /\ at[t] = Len(Program) /\ slot_buf[t] = Nothing
         /\ \A u \in Threads : at[u] >= ReadyAt /\ at[u] \in Int
         /\ variant # "small" => \A u \in Threads : at[u] >= Len(Program)
         /\ Taken(t) \in left[t] /\ Taken(t) \in Routes /\ Home(Taken(t)) = t
         /\ TableRow(Taken(t)) = Table(t) /\ Table(t) \in TableRows /\ Table(t) \in Nat
         /\ flat[Taken(t)] \in Experts
<1>1. TypeInv /\ CaseInv /\ MemInv /\ Memory /\ BarrierInv BY DEF SortInv, TypeInv, MemInv
<1>2. InSegment(t, "scatter") /\ left[t] # {} /\ slot_buf[t] = Nothing /\ Same /\ left' = left /\ at' = at
  BY DEF Claim, Same
<1>3. /\ at[t] \in 1 .. Len(Program) /\ Stands("scatter", at[t])
      /\ \A u \in Threads : (variant = "parallel" /\ at[t] = 2 => BlockIdx(t) = BlockIdx(u)) =>
           at[u] >= at[t] \/ (variant = "small" /\ at[t] = Len(Program))
  BY <1>1, <1>2, CaughtUp
<1>4. at[t] = Len(Program) /\ Len(Program) \in Nat /\ Len(Program) >= 5
  <2>1. at[t] = Len(Program) BY <1>3 DEF Stands
  <2> QED BY <1>1, <2>1, LenIs
<1>5. at \in [Threads -> 1 .. Len(Program)] BY <1>1 DEF TypeInv
<1>6. variant # "small" => \A u \in Threads : at[u] >= Len(Program)
  <2>1. Len(Program) # 2 BY <1>1, LenIs
  <2>2. at[t] # 2 BY <1>4, <2>1
  <2> QED BY <1>3, <1>4, <2>2
<1>7. \A u \in Threads : at[u] >= ReadyAt /\ at[u] \in Int
  <2>1. CASE variant = "small"
    <3>1. ReadyAt = 4 /\ Len(Program) = 5 BY <2>1, <1>1, ReadyAtIs, ProgramIs
    <3>2. \A u \in Threads : at[u] >= 4
      <4> TAKE u \in Threads
      <4>1. 4 \in 1 .. Len(Program) /\ at[t] > 4 BY <1>4, <3>1
      <4> QED BY <1>1, <2>1, <4>1 DEF BarrierInv
    <3> QED BY <1>5, <3>1, <3>2
  <2>2. CASE variant # "small"
    <3>1. ReadyAt = Len(Program) BY <2>2 DEF ReadyAt
    <3> QED BY <1>4, <1>5, <1>6, <2>2, <3>1
  <2> QED BY <2>1, <2>2
<1>8. left[t] \subseteq RoutesOf(t) BY <1>1 DEF TypeInv
<1>9. RoutesOf(t) = {idx \in Routes : Home(idx) = t} BY <1>1, HomeIs
<1>10. left[t] \subseteq Nat BY <1>8, <1>9, NumelPositive DEF Routes
<1>11. Taken(t) \in left[t] BY <1>2, <1>10, FirstOf DEF Taken
<1>12. Taken(t) \in Routes /\ Home(Taken(t)) = t BY <1>8, <1>9, <1>11
<1>13. TableRow(Taken(t)) = Table(t) BY <1>12 DEF TableRow
<1>14. Table(t) \in 0 .. LastRow - 1 BY <1>1, <1>12, <1>13, TableRowIs
<1>15. Table(t) \in TableRows /\ Table(t) \in Nat
  <2>1. Blocks \in Nat /\ Workers \in Nat BY BlocksPositive, Positive DEF Workers
  <2>2. LastRow \in Nat BY <2>1 DEF LastRow
  <2>3. Table(t) \in Nat /\ Table(t) <= LastRow - 1 BY <1>14, <2>2
  <2>4. CASE variant = "parallel" BY <1>14, <2>4 DEF LastRow, TableRows
  <2>5. CASE variant = "small"
    <3>1. LastRow = Workers /\ TableRows = 0 .. Workers BY <2>5 DEF LastRow, TableRows
    <3> QED BY <2>1, <2>3, <3>1
  <2>6. CASE variant # "parallel" /\ variant # "small"
    <3>1. LastRow = 1 /\ TableRows = {0} BY <2>6 DEF LastRow, TableRows
    <3> QED BY <2>3, <3>1
  <2> QED BY <2>3, <2>4, <2>5, <2>6
<1>16. flat[Taken(t)] \in Experts BY <1>1, <1>12 DEF CaseInv
<1> QED BY <1>1, <1>2, <1>4, <1>6, <1>7, <1>11, <1>12, <1>13, <1>15, <1>16

\* The row a route is given.
Slot(t) == IF variant = "align" THEN mem.offsets[flat[Taken(t)]]
           ELSE mem.counts[Table(t)][flat[Taken(t)]]
                  + (IF variant = "small" THEN mem.offsets[flat[Taken(t)]] ELSE 0)

LEMMA ClaimWrites ==
  ASSUME NEW t, SortInv, t \in Threads, Claim(t)
  PROVE  /\ slot_buf' = [slot_buf EXCEPT ![t] = <<Taken(t), Slot(t)>>]
         /\ Memory'
         /\ mem'.counts = IF variant = "align" THEN mem.counts
                          ELSE [mem.counts EXCEPT ![Table(t)][flat[Taken(t)]] = @ + 1]
         /\ mem'.offsets = IF variant = "align" THEN [mem.offsets EXCEPT ![flat[Taken(t)]] = @ + 1]
                           ELSE mem.offsets
         /\ mem'.vals = mem.vals /\ mem'.warp = mem.warp
         /\ mem'.rows = mem.rows /\ mem'.inverse = mem.inverse
<1>1. Memory BY ClaimReady
<1> DEFINE e == flat[Taken(t)]
<1>2. CASE variant = "align"
  <2>1. /\ slot_buf' = [slot_buf EXCEPT ![t] = <<Taken(t), mem.offsets[e]>>]
        /\ mem' = [mem EXCEPT !.offsets[e] = @ + 1]
    BY <1>2 DEF Claim, Taken
  <2>2. Slot(t) = mem.offsets[e] BY <1>2 DEF Slot
  <2> HIDE DEF e
  <2>3. /\ Memory' /\ mem'.counts = mem.counts
        /\ mem'.offsets = [mem.offsets EXCEPT ![e] = @ + 1]
        /\ mem'.vals = mem.vals /\ mem'.warp = mem.warp
        /\ mem'.rows = mem.rows /\ mem'.inverse = mem.inverse
    BY <1>1, <2>1 DEF Memory
  <2> QED BY <1>2, <2>1, <2>2, <2>3 DEF e
<1>3. CASE variant # "align"
  <2> DEFINE b == Table(t)
  <2>1. b = IF variant = "small" THEN t - 1 ELSE BlockIdx(t) BY DEF Table
  <2>2. /\ slot_buf' = [slot_buf EXCEPT ![t] = <<Taken(t), mem.counts[b][e] + (IF variant = "small" THEN mem.offsets[e] ELSE 0)>>]
        /\ mem' = [mem EXCEPT !.counts[b][e] = @ + 1]
    BY <1>3, <2>1 DEF Claim, Taken
  <2>3. Slot(t) = mem.counts[b][e] + (IF variant = "small" THEN mem.offsets[e] ELSE 0) BY <1>3 DEF Slot
  <2> HIDE DEF e, b
  <2>4. /\ Memory' /\ mem'.offsets = mem.offsets
        /\ mem'.counts = [mem.counts EXCEPT ![b][e] = @ + 1]
        /\ mem'.vals = mem.vals /\ mem'.warp = mem.warp
        /\ mem'.rows = mem.rows /\ mem'.inverse = mem.inverse
    BY <1>1, <2>2 DEF Memory
  <2> QED BY <1>3, <2>2, <2>3, <2>4 DEF e, b
<1> QED BY <1>2, <1>3

\* The row is the next one of those set aside.
LEMMA ClaimSlot ==
  ASSUME NEW t, SortInv, t \in Threads, Claim(t)
  PROVE  Slot(t) = First(Table(t), flat[Taken(t)]) + Cardinality(Held(Table(t), flat[Taken(t)]))
<1> DEFINE e == flat[Taken(t)]
           b == Table(t)
<1>1. /\ CaseInv /\ at[t] = Len(Program)
      /\ \A u \in Threads : at[u] >= ReadyAt /\ at[u] \in Int
      /\ variant # "small" => \A u \in Threads : at[u] >= Len(Program)
      /\ b \in TableRows /\ b \in Nat /\ e \in Experts /\ Taken(t) \in Routes
      /\ TableRow(Taken(t)) = b
  BY ClaimReady
<1>2. /\ e \in Nat /\ e < NumExperts /\ NumExperts \in Nat \ {0} /\ e + 1 \in 0 .. Workers /\ 1 \in 0 .. Workers
      /\ e \in 0 .. NumExperts /\ e \in 0 .. NumExperts - 1
  BY <1>1, Positive DEF Experts, Workers
<1>3. /\ RegionStart(e) \in Nat /\ Cardinality(Before(b, e)) \in Nat BY <1>1, <1>2, RegionStartIs, BeforeCount
<1>4. Held(b, e) \subseteq Routes /\ Held(0, e) \subseteq Routes BY DEF Held, Claimed
<1>5. Cardinality(Held(b, e)) \in Nat BY <1>4, RoutesFinite
<1> HIDE DEF e, b
<1>6. CASE variant = "align"
  <2>1. ReadyAt = 8 BY <1>1, <1>6, ReadyAtIs
  <2>2. e \in Threads /\ TableRows = {0} BY <1>1, <1>6, AlignThreads
  <2>3. at[e] > 6 BY <1>1, <2>1, <2>2
  <2>4. mem.offsets[e] = RegionStart(e) + Cardinality(Held(0, e)) BY <1>1, <1>6, <2>3 DEF SortInv, ScanInv
  <2>5. b = 0 BY <1>1, <2>2
  <2>6. Cardinality(Before(b, e)) = 0 BY <1>1, <2>5, BeforeCount
  <2>7. Slot(t) = mem.offsets[e] BY <1>6 DEF Slot, e
  <2> QED BY <1>3, <1>5, <2>4, <2>5, <2>6, <2>7 DEF First, b, e
<1>7. CASE variant = "small"
  <2>1. ReadyAt = 4 /\ PrefixAt = 3 /\ PrefixThread = 1 BY <1>1, <1>7, ReadyAtIs DEF PrefixAt, PrefixThread
  <2>2. Threads = 0 .. Workers /\ LastRow = Workers BY <1>7 DEF Threads, LastRow
  <2>3. 1 \in Threads /\ e + 1 \in Threads BY <1>2, <2>2
  <2>4. at[1] > 3 /\ at[e + 1] > 2 BY <1>1, <2>1, <2>3
  <2>5. mem.offsets[e] = RegionStart(e) BY <1>2, <1>7, <2>1, <2>4 DEF SortInv, PrefixInv
  <2>6. b \in 0 .. Workers BY <1>1, <1>7 DEF TableRows
  <2>7. mem.counts[b][e] = Cardinality(Before(b, e)) + Cardinality(Held(b, e))
    BY <1>1, <1>7, <2>4, <2>6 DEF SortInv, ColumnInv
  <2>8. Slot(t) = mem.counts[b][e] + mem.offsets[e] BY <1>7 DEF Slot, e, b
  <2> QED BY <1>3, <1>5, <2>5, <2>7, <2>8 DEF First, b, e
<1>8. CASE variant # "align" /\ variant # "small"
  <2>1. Atomic BY <1>1, <1>8, AtomicIs
  <2>2. PICK u \in Threads : e \in Mine(u, NumExperts) BY <1>2, SomebodyVisits
  <2>3. Len(Program) > CursorAt /\ CursorAt \in Int /\ Len(Program) \in Int
    <3>1. CASE variant = "parallel"
      <4>1. Len(Program) = 6 /\ CursorAt = 5 BY <1>1, <3>1, ProgramIs DEF CursorAt
      <4> QED BY <4>1
    <3>2. CASE variant # "parallel"
      <4>1. Len(Program) = 5 /\ CursorAt = 4 BY <1>1, <1>8, <3>2, ProgramIs DEF CursorAt
      <4> QED BY <4>1
    <3> QED BY <3>1, <3>2
  <2>4. at[u] > CursorAt BY <1>1, <1>8, <2>3
  <2>5. mem.counts[b][e] = RegionStart(e) + Cardinality(Before(b, e)) + Cardinality(Held(b, e))
    BY <1>1, <2>1, <2>2, <2>4 DEF SortInv, CursorInv
  <2>6. Slot(t) = mem.counts[b][e] + 0 BY <1>8 DEF Slot, e, b
  <2> QED BY <1>3, <1>5, <2>5, <2>6 DEF First, b, e
<1> QED BY <1>6, <1>7, <1>8

LEMMA ClaimGrows ==
  ASSUME NEW t, SortInv, t \in Threads, Claim(t)
  PROVE  /\ Claimed' = Claimed \cup {Taken(t)} /\ Taken(t) \notin Claimed /\ Stored' = Stored
         /\ \A b, e : <<b, e>> # <<Table(t), flat[Taken(t)]>> => Held(b, e)' = Held(b, e)
         /\ \A b, e : <<b, e>> = <<Table(t), flat[Taken(t)]>> =>
              Held(b, e)' = Held(b, e) \cup {Taken(t)}
         /\ Taken(t) \in Share(Table(t), flat[Taken(t)])
         /\ Taken(t) \notin Held(Table(t), flat[Taken(t)])
         /\ \A b, e : Held(b, e) \subseteq Share(b, e)
         /\ slot_buf'[t] = <<Taken(t), Slot(t)>> /\ slot_buf'[t] # Nothing
         /\ \A u \in Threads : u # t => slot_buf'[u] = slot_buf[u]
<1> DEFINE idx == Taken(t)
<1>1. /\ CaseInv /\ Same /\ left' = left /\ slot_buf[t] = Nothing
      /\ idx \in left[t] /\ idx \in Routes /\ Home(idx) = t /\ TableRow(idx) = Table(t)
  BY ClaimReady
<1>2. slot_buf' = [slot_buf EXCEPT ![t] = <<idx, Slot(t)>>] BY ClaimWrites
<1>3. slot_buf \in [Threads -> {Nothing} \cup (Routes \X Int)] BY DEF SortInv, TypeInv
<1>4. slot_buf'[t] = <<idx, Slot(t)>> /\ \A u \in Threads : u # t => slot_buf'[u] = slot_buf[u]
  BY <1>2, <1>3
<1>5. slot_buf'[t] # Nothing /\ slot_buf'[t][1] = idx
  BY <1>4 DEF Nothing
<1>6. \A k : Home(k)' = Home(k) BY <1>1, SameRoute
<1>7. Routes' = Routes BY DEF Routes, numel
<1>8. \A k \in Routes : Home(k) \in Threads BY <1>1, HomeIs
<1> HIDE DEF idx
<1>9. \A k \in Routes : k \in Claimed' <=> k \in Claimed \/ k = idx
  <2> TAKE k \in Routes
  <2>1. k \in Claimed' <=> \/ k \notin left[Home(k)]
                           \/ slot_buf'[Home(k)] # Nothing /\ slot_buf'[Home(k)][1] = k
    BY <1>1, <1>6, <1>7 DEF Claimed
  <2>2. k \in Claimed <=> \/ k \notin left[Home(k)]
                          \/ slot_buf[Home(k)] # Nothing /\ slot_buf[Home(k)][1] = k
    BY DEF Claimed
  <2>3. CASE Home(k) = t BY <1>1, <1>5, <2>1, <2>2, <2>3
  <2>4. CASE Home(k) # t
    <3>1. slot_buf'[Home(k)] = slot_buf[Home(k)] BY <1>4, <1>8, <2>4
    <3>2. k # idx BY <1>1, <2>4
    <3> QED BY <2>1, <2>2, <3>1, <3>2
  <2> QED BY <2>3, <2>4
<1>10. Claimed \subseteq Routes /\ Claimed' \subseteq Routes BY <1>7 DEF Claimed
<1>11. Claimed' = Claimed \cup {idx} BY <1>1, <1>9, <1>10
<1>12. idx \notin Claimed BY <1>1 DEF Claimed
<1>13. Stored' = Stored BY <1>1, <1>6, <1>7 DEF Stored
<1>14. \A b, e : Share(b, e)' = Share(b, e) BY <1>1, SameShare
<1>15. \A b, e : idx \in Share(b, e) <=> <<b, e>> = <<Table(t), flat[idx]>>
  BY <1>1 DEF Share, RoutesTo
<1>16. \A b, e : Held(b, e)' = Share(b, e) \cap (Claimed \cup {idx}) BY <1>11, <1>14 DEF Held
<1>17. \A b, e : <<b, e>> # <<Table(t), flat[idx]>> => Held(b, e)' = Held(b, e)
  BY <1>15, <1>16 DEF Held
<1>18. \A b, e : <<b, e>> = <<Table(t), flat[idx]>> => Held(b, e)' = Held(b, e) \cup {idx}
  BY <1>15, <1>16 DEF Held
<1>19. idx \notin Held(Table(t), flat[idx]) BY <1>12 DEF Held
<1>20. \A b, e : Held(b, e) \subseteq Share(b, e) BY DEF Held
<1> QED BY <1>4, <1>5, <1>11, <1>12, <1>13, <1>15, <1>17, <1>18, <1>19, <1>20 DEF idx

\* The place of a claimed route lies in the span of its table row and expert.
LEMMA PlaceInSpan ==
  ASSUME CaseInv, NEW place, Places(place), NEW k \in Claimed
  PROVE  /\ k \in Routes /\ flat[k] \in Experts /\ TableRow(k) \in Nat
         /\ place[k] \in First(TableRow(k), flat[k]) ..
              First(TableRow(k), flat[k]) + Cardinality(Held(TableRow(k), flat[k])) - 1
         /\ place[k] \in First(TableRow(k), flat[k]) ..
              First(TableRow(k), flat[k]) + Cardinality(Share(TableRow(k), flat[k])) - 1
<1>1. k \in Routes BY DEF Claimed
<1>2. flat[k] \in Experts BY <1>1 DEF CaseInv
<1>3. TableRow(k) \in Nat
  <2>1. LastRow \in Nat BY <1>2, AllCount
  <2> QED BY <1>1, <2>1, TableRowIs
<1> DEFINE e == flat[k]
           b == TableRow(k)
<1>4. place[k] \in First(b, e) .. First(b, e) + Cardinality(Held(b, e)) - 1
  BY DEF Places, First
<1>5. Held(b, e) \subseteq Share(b, e) /\ Share(b, e) \subseteq Routes BY DEF Held, Share, RoutesTo
<1>6. Cardinality(Held(b, e)) <= Cardinality(Share(b, e)) BY <1>5, CountSubset
<1>7. Cardinality(Held(b, e)) \in Nat /\ Cardinality(Share(b, e)) \in Nat /\ First(b, e) \in Nat
  BY <1>2, <1>3, <1>5, RoutesFinite, SpanIs
<1> HIDE DEF e, b
<1>8. place[k] \in First(b, e) .. First(b, e) + Cardinality(Share(b, e)) - 1
  BY <1>4, <1>6, <1>7
<1> QED BY <1>1, <1>2, <1>3, <1>4, <1>8 DEF e, b

LEMMA ClaimFree ==
  ASSUME NEW t, SortInv, t \in Threads, Claim(t), NEW place, Places(place)
  PROVE  /\ Slot(t) \in Rows
         /\ \A k \in Claimed : place[k] # Slot(t)
<1> DEFINE e == flat[Taken(t)]
           b == Table(t)
<1>1. /\ CaseInv /\ b \in Nat /\ e \in Experts /\ Taken(t) \in Routes BY ClaimReady
<1>2. Slot(t) = First(b, e) + Cardinality(Held(b, e)) BY ClaimSlot
<1>3. Held(b, e) \subseteq Share(b, e) /\ Taken(t) \in Share(b, e) /\ Taken(t) \notin Held(b, e)
  BY ClaimGrows
<1>4. Share(b, e) \subseteq Routes BY DEF Share, RoutesTo
<1>5. Cardinality(Held(b, e)) < Cardinality(Share(b, e)) BY <1>3, <1>4, CountSubset
<1>6. Cardinality(Held(b, e)) \in Nat BY <1>3, <1>4, RoutesFinite
<1>7. /\ First(b, e) \in Nat /\ Cardinality(Share(b, e)) \in Nat
      /\ First(b, e) + Cardinality(Share(b, e)) <= capacity /\ capacity \in Nat
  <2>1. /\ First(b, e) \in Nat /\ Cardinality(Share(b, e)) \in Nat /\ RegionStart(e) \in Nat
        /\ First(b, e) + Cardinality(Share(b, e)) <= RegionStart(e) + Cardinality(RoutesTo(e))
        /\ RegionStart(e) + Cardinality(RoutesTo(e)) <= RegionStart(e + 1)
        /\ RegionStart(e + 1) <= capacity
        /\ Cardinality(RoutesTo(e)) \in Nat /\ RegionStart(e + 1) \in Nat /\ capacity \in Nat
    BY <1>1, SpanIs
  <2> HIDE DEF e, b
  <2> QED BY <2>1
<1> HIDE DEF e, b
<1>8. Slot(t) \in First(b, e) .. First(b, e) + Cardinality(Share(b, e)) - 1
  BY <1>2, <1>5, <1>6, <1>7
<1>9. Slot(t) \in Rows BY <1>7, <1>8 DEF Rows
<1>10. ASSUME NEW k \in Claimed PROVE place[k] # Slot(t)
  <2>1. /\ flat[k] \in Experts /\ TableRow(k) \in Nat
        /\ place[k] \in First(TableRow(k), flat[k]) ..
             First(TableRow(k), flat[k]) + Cardinality(Held(TableRow(k), flat[k])) - 1
        /\ place[k] \in First(TableRow(k), flat[k]) ..
             First(TableRow(k), flat[k]) + Cardinality(Share(TableRow(k), flat[k])) - 1
    BY <1>1, <1>10, PlaceInSpan
  <2>2. CASE <<b, e>> = <<TableRow(k), flat[k]>>
    <3>1. b = TableRow(k) /\ e = flat[k] BY <2>2
    <3>2. place[k] \in First(b, e) .. First(b, e) + Cardinality(Held(b, e)) - 1 BY <2>1, <3>1
    <3> QED BY <1>2, <1>6, <1>7, <3>2
  <2>3. CASE <<b, e>> # <<TableRow(k), flat[k]>>
    BY <1>1, <1>8, <2>1, <2>3, SpansApart
  <2> QED BY <2>2, <2>3
<1> QED BY <1>9, <1>10

LEMMA ClaimCount ==
  ASSUME NEW t, SortInv, t \in Threads, Claim(t)
  PROVE  /\ \A b, e : Cardinality(Held(b, e)) \in Nat
         /\ \A b, e : <<b, e>> # <<Table(t), flat[Taken(t)]>> =>
              Cardinality(Held(b, e)') = Cardinality(Held(b, e))
         /\ \A b, e : <<b, e>> = <<Table(t), flat[Taken(t)]>> =>
              Cardinality(Held(b, e)') = Cardinality(Held(b, e)) + 1
<1>1. \A b, e : Held(b, e) \subseteq Routes BY DEF Held, Claimed
<1>2. \A b, e : Cardinality(Held(b, e)) \in Nat BY <1>1, RoutesFinite
<1>3. \A b, e : <<b, e>> # <<Table(t), flat[Taken(t)]>> => Held(b, e)' = Held(b, e) BY ClaimGrows
<1>4. ASSUME NEW b, NEW e, <<b, e>> = <<Table(t), flat[Taken(t)]>>
      PROVE  Cardinality(Held(b, e)') = Cardinality(Held(b, e)) + 1
  <2>1. Held(b, e)' = Held(b, e) \cup {Taken(t)} BY <1>4, ClaimGrows
  <2>2. Taken(t) \notin Held(b, e) BY <1>4, ClaimGrows
  <2>3. Taken(t) \in Routes BY ClaimReady
  <2> QED BY <1>1, <2>1, <2>2, <2>3, CountAdd
<1> QED BY <1>2, <1>3, <1>4

LEMMA ClaimPlace ==
  ASSUME NEW t, SortInv, PlaceInv, t \in Threads, Claim(t)
  PROVE  PlaceInv'
<1> DEFINE idx == Taken(t)
           slot == Slot(t)
<1>1. PICK place \in [Claimed -> Rows] : Places(place) BY DEF PlaceInv
<1>2. slot \in Rows /\ \A k \in Claimed : place[k] # slot BY <1>1, ClaimFree
<1>3. /\ CaseInv /\ Same /\ left' = left /\ idx \in Routes /\ TableRow(idx) = Table(t)
      /\ TypeInv /\ Table(t) \in Nat /\ flat[idx] \in Experts /\ slot_buf[t] = Nothing
  BY ClaimReady DEF SortInv
<1>4. /\ Claimed' = Claimed \cup {idx} /\ idx \notin Claimed /\ Stored' = Stored
      /\ slot_buf'[t] = <<idx, slot>> /\ slot_buf'[t] # Nothing
      /\ \A u \in Threads : u # t => slot_buf'[u] = slot_buf[u]
  BY ClaimGrows
<1>5. /\ \A b, e : Cardinality(Held(b, e)) \in Nat
      /\ \A b, e : Cardinality(Held(b, e)') >= Cardinality(Held(b, e))
      /\ \A b, e : Cardinality(Held(b, e)') \in Nat
      /\ \A b, e : <<b, e>> = <<Table(t), flat[idx]>> =>
              Cardinality(Held(b, e)') = Cardinality(Held(b, e)) + 1
  BY ClaimCount
<1>6. Rows' = Rows /\ Threads' = Threads /\ Sentinel' = Sentinel BY <1>3, SameShape
<1>7. /\ \A e : RegionStart(e)' = RegionStart(e)
      /\ \A b, e : Before(b, e)' = Before(b, e)
      /\ \A k : TableRow(k)' = TableRow(k)
  BY <1>3, SameExpert, SameShare, SameRoute
<1>8. slot = First(Table(t), flat[idx]) + Cardinality(Held(Table(t), flat[idx])) BY ClaimSlot
<1>9. mem'.rows = mem.rows /\ mem'.inverse = mem.inverse BY ClaimWrites
<1>10. \A b, e : First(b, e)' = First(b, e) BY <1>7 DEF First
<1>11. \A u \in Threads : slot_buf[u] # Nothing => slot_buf[u][1] \in Claimed
  <2> SUFFICES ASSUME NEW u \in Threads, slot_buf[u] # Nothing PROVE slot_buf[u][1] \in Claimed OBVIOUS
  <2>1. slot_buf[u][1] \in left[u] /\ left[u] \subseteq RoutesOf(u) BY <1>3 DEF TypeInv
  <2>2. slot_buf[u][1] \in Routes /\ Home(slot_buf[u][1]) = u BY <1>3, <2>1, HomeIs
  <2> QED BY <2>2 DEF Claimed
<1>12. Stored \subseteq Claimed BY DEF Stored, Claimed
<1>20. PICK given : given = [k \in Claimed \cup {idx} |-> IF k = idx THEN slot ELSE place[k]]
  OBVIOUS
<1> HIDE DEF idx, slot
<1>13. given \in [Claimed' -> Rows'] BY <1>1, <1>2, <1>4, <1>6, <1>20
<1>14. (\A k \in Claimed : given[k] = place[k]) /\ given[idx] = slot BY <1>4, <1>20
<1>15. Places(given)'
  <2>1. \A i, k \in Claimed' : given[i] = given[k] => i = k
    BY <1>1, <1>2, <1>4, <1>14 DEF Places
  <2>2. ASSUME NEW k \in Claimed'
        PROVE  \A b, e : b = TableRow(k) /\ e = flat[k] =>
                 given[k] \in First(b, e) .. First(b, e) + Cardinality(Held(b, e)') - 1
    <3>0. SUFFICES ASSUME NEW b, NEW e, b = TableRow(k), e = flat[k]
                  PROVE  given[k] \in First(b, e) .. First(b, e) + Cardinality(Held(b, e)') - 1
      OBVIOUS
    <3>1. CASE k = idx
      <4>1. b = Table(t) /\ e = flat[idx] BY <1>3, <3>0, <3>1
      <4>2. Cardinality(Held(b, e)') = Cardinality(Held(b, e)) + 1 /\ Cardinality(Held(b, e)) \in Nat
        BY <1>5, <4>1
      <4>3. slot = First(b, e) + Cardinality(Held(b, e)) BY <1>8, <4>1
      <4>4. First(b, e) \in Nat BY <1>3, <4>1, SpanIs
      <4>5. given[k] = slot BY <1>14, <3>1
      <4>6. slot \in First(b, e) .. First(b, e) + Cardinality(Held(b, e)') - 1
        BY <4>2, <4>3, <4>4
      <4> QED BY <3>0, <4>5, <4>6
    <3>2. CASE k # idx
      <4>1. k \in Claimed /\ given[k] = place[k] BY <1>4, <1>14, <3>2
      <4>2. place[k] \in First(b, e) .. First(b, e) + Cardinality(Held(b, e)) - 1 /\ b \in Nat /\ e \in Experts
        BY <1>1, <1>3, <3>0, <4>1, PlaceInSpan
      <4>3. Cardinality(Held(b, e)') >= Cardinality(Held(b, e)) /\ Cardinality(Held(b, e)) \in Nat
            /\ Cardinality(Held(b, e)') \in Nat
        BY <1>5
      <4>4. First(b, e) \in Nat BY <1>3, <4>2, SpanIs
      <4>5. place[k] \in First(b, e) .. First(b, e) + Cardinality(Held(b, e)') - 1
        BY <4>2, <4>3, <4>4
      <4> QED BY <3>0, <4>1, <4>5
    <3> QED BY <3>1, <3>2
  <2>3. ASSUME NEW u \in Threads, slot_buf'[u] # Nothing
        PROVE  slot_buf'[u][2] = given[slot_buf'[u][1]]
    <3>1. CASE u = t BY <1>4, <1>14, <3>1
    <3>2. CASE u # t
      <4>1. slot_buf'[u] = slot_buf[u] BY <1>4, <3>2
      <4>2. slot_buf[u][2] = place[slot_buf[u][1]] BY <1>1, <2>3, <4>1 DEF Places
      <4>3. slot_buf[u][1] \in Claimed BY <1>11, <2>3, <4>1
      <4> QED BY <1>14, <4>1, <4>2, <4>3
    <3> QED BY <3>1, <3>2
  <2>4. \A k \in Stored : given[k] = place[k] BY <1>12, <1>14
  <2>5. \A k \in Stored' :
         IF variant' \in {"align", "small"} THEN mem'.rows[given[k]] = k
         ELSE mem'.inverse[k] = given[k] /\ mem'.rows[given[k]] = k \div TopK
    BY <1>1, <1>3, <1>4, <1>9, <2>4 DEF Places, Same
  <2>6. \A r \in Rows' : (\A k \in Stored' : given[k] # r) => mem'.rows[r] \in {Unset, Sentinel'}
    BY <1>1, <1>4, <1>6, <1>9, <2>4 DEF Places
  <2>7. \A k \in Claimed' : given[k] \in (RegionStart(flat[k]) + Cardinality(Before(TableRow(k), flat[k])))'
             .. (RegionStart(flat[k]) + Cardinality(Before(TableRow(k), flat[k])))'
                   + Cardinality(Held(TableRow(k), flat[k]))' - 1
    <3> TAKE k \in Claimed'
    <3>0. PICK b, e : b = TableRow(k) /\ e = flat[k] OBVIOUS
    <3>1. TableRow(k)' = b /\ flat'[k] = e BY <1>3, <1>7, <3>0 DEF Same
    <3>2. RegionStart(e)' = RegionStart(e) /\ Before(b, e)' = Before(b, e) BY <1>7
    <3>3. /\ given[k] \in First(b, e) .. First(b, e) + Cardinality(Held(b, e)') - 1 BY <2>2, <3>0
    <3>4. /\ RegionStart(flat[k])' = RegionStart(e)' /\ Before(TableRow(k), flat[k])' = Before(b, e)'
          /\ Held(TableRow(k), flat[k])' = Held(b, e)'
      BY <3>1 DEF RegionStart, Before, Held, Share, RoutesTo
    <3> QED BY <3>2, <3>3, <3>4 DEF First
  <2>8. Threads' = Threads BY <1>6
  <2> QED BY <2>1, <2>3, <2>5, <2>6, <2>7, <2>8 DEF Places
<1> QED BY <1>13, <1>15 DEF PlaceInv

LEMMA ClaimType ==
  ASSUME NEW t, SortInv, t \in Threads, Claim(t)
  PROVE  TypeInv'
<1> DEFINE e == flat[Taken(t)]
           b == Table(t)
<1>1. /\ CaseInv /\ MemInv /\ Same /\ left' = left /\ at' = at /\ TypeInv
      /\ Taken(t) \in left[t] /\ Taken(t) \in Routes /\ b \in TableRows /\ e \in Experts
  BY ClaimReady DEF SortInv
<1>2. /\ Memory'
      /\ mem'.counts = IF variant = "align" THEN mem.counts ELSE [mem.counts EXCEPT ![b][e] = @ + 1]
      /\ mem'.offsets = IF variant = "align" THEN [mem.offsets EXCEPT ![e] = @ + 1] ELSE mem.offsets
      /\ mem'.vals = mem.vals /\ mem'.warp = mem.warp /\ mem'.rows = mem.rows /\ mem'.inverse = mem.inverse
  BY ClaimWrites
<1>3. /\ slot_buf'[t] = <<Taken(t), Slot(t)>> /\ slot_buf'[t] # Nothing
      /\ \A u \in Threads : u # t => slot_buf'[u] = slot_buf[u]
  BY ClaimGrows
<1>4. slot_buf' = [slot_buf EXCEPT ![t] = <<Taken(t), Slot(t)>>] BY ClaimWrites
<1>5. Slot(t) \in Int
  <2>1. \A x, y : Held(x, y) \subseteq Routes BY DEF Held, Claimed
  <2>2. Cardinality(Held(b, e)) \in Nat BY <2>1, RoutesFinite
  <2>3. Slot(t) = First(b, e) + Cardinality(Held(b, e)) BY ClaimSlot
  <2>4. First(b, e) \in Nat
    <3>1. b \in Nat BY ClaimReady
    <3> QED BY <1>1, <3>1, SpanIs
  <2> HIDE DEF b, e
  <2> QED BY <2>2, <2>3, <2>4
<1>6. \A u \in Threads : slot_buf'[u] # Nothing => slot_buf'[u][1] \in left[u]
  <2> SUFFICES ASSUME NEW u \in Threads, slot_buf'[u] # Nothing PROVE slot_buf'[u][1] \in left[u]
    OBVIOUS
  <2>1. CASE u = t BY <1>1, <1>3, <2>1
  <2>2. CASE u # t BY <1>1, <1>3, <2>2 DEF TypeInv
  <2> QED BY <2>1, <2>2
<1> HIDE DEF b, e
<1>7. slot_buf' \in [Threads -> {Nothing} \cup (Routes \X Int)]
  BY <1>1, <1>4, <1>5 DEF TypeInv
<1>8. mem'.counts \in [TableRows -> [Experts -> Int]]
  <2>1. mem.counts \in [TableRows -> [Experts -> Int]] BY <1>1 DEF MemInv
  <2>2. mem.counts[b] \in [Experts -> Int] /\ mem.counts[b][e] + 1 \in Int BY <1>1, <2>1
  <2>3. [mem.counts[b] EXCEPT ![e] = mem.counts[b][e] + 1] \in [Experts -> Int] BY <2>2
  <2>4. [mem.counts EXCEPT ![b][e] = @ + 1] = [mem.counts EXCEPT ![b] = [mem.counts[b] EXCEPT ![e] = mem.counts[b][e] + 1]]
    BY <2>1
  <2> QED BY <1>1, <1>2, <2>1, <2>3, <2>4
<1>9. mem'.offsets \in [0 .. NumExperts -> Int]
  <2>1. mem.offsets \in [0 .. NumExperts -> Int] BY <1>1 DEF MemInv
  <2>2. e \in 0 .. NumExperts BY <1>1, Positive DEF Experts
  <2>0. NumExperts \in Nat BY Positive
  <2>3. mem.offsets[e] + 1 \in Int BY <2>0, <2>1, <2>2
  <2>4. [mem.offsets EXCEPT ![e] = mem.offsets[e] + 1] \in [0 .. NumExperts -> Int] BY <2>1, <2>3
  <2>5. [mem.offsets EXCEPT ![e] = @ + 1] = [mem.offsets EXCEPT ![e] = mem.offsets[e] + 1] OBVIOUS
  <2>6. CASE variant = "align" BY <1>2, <2>4, <2>5, <2>6
  <2>7. CASE variant # "align" BY <1>2, <2>1, <2>7
  <2> QED BY <2>6, <2>7
<1>10. /\ Threads' = Threads /\ Program' = Program /\ Rows' = Rows /\ TableRows' = TableRows /\ CaseInv' = CaseInv
  BY <1>1, SameShape
<1>11. \A u : RoutesOf(u)' = RoutesOf(u) BY <1>1, SameThread
<1>12. Routes' = Routes /\ Experts' = Experts BY DEF Routes, numel, Experts
<1>13. MemInv'
  BY <1>1, <1>2, <1>8, <1>9, <1>10, <1>12 DEF MemInv
<1> QED BY <1>1, <1>6, <1>7, <1>10, <1>11, <1>13 DEF TypeInv

LEMMA ClaimCursor ==
  ASSUME NEW t, SortInv, t \in Threads, Claim(t)
  PROVE  CursorInv' /\ ColumnInv'
<1> DEFINE e == flat[Taken(t)]
           b == Table(t)
<1>1. /\ CaseInv /\ MemInv /\ Same /\ left' = left /\ at' = at
      /\ b \in TableRows /\ e \in Experts /\ b \in Nat
  BY ClaimReady
<1>2. mem'.counts = IF variant = "align" THEN mem.counts ELSE [mem.counts EXCEPT ![b][e] = @ + 1]
  BY ClaimWrites
<1>3. /\ \A x, y : Cardinality(Held(x, y)) \in Nat
      /\ \A x, y : <<x, y>> # <<b, e>> => Cardinality(Held(x, y)') = Cardinality(Held(x, y))
      /\ \A x, y : <<x, y>> = <<b, e>> => Cardinality(Held(x, y)') = Cardinality(Held(x, y)) + 1
  BY ClaimCount
<1>4. /\ Threads' = Threads /\ TableRows' = TableRows /\ Atomic' = Atomic /\ CursorAt' = CursorAt
  BY <1>1, SameShape
<1>5. /\ \A y : RegionStart(y)' = RegionStart(y)
      /\ \A x, y : Before(x, y)' = Before(x, y)
      /\ \A u, n : Mine(u, n)' = Mine(u, n)
  BY <1>1, SameExpert, SameShare, SameMine
<1> HIDE DEF b, e
<1>6. mem.counts \in [TableRows -> [Experts -> Int]] BY <1>1 DEF MemInv
<1>7. variant # "align" => \A x \in TableRows, y \in Experts :
        mem'.counts[x][y] = IF <<x, y>> = <<b, e>> THEN mem.counts[x][y] + 1 ELSE mem.counts[x][y]
  <2> SUFFICES ASSUME variant # "align", NEW x \in TableRows, NEW y \in Experts
               PROVE  mem'.counts[x][y] = IF <<x, y>> = <<b, e>> THEN mem.counts[x][y] + 1 ELSE mem.counts[x][y]
    OBVIOUS
  <2>1. mem'.counts = [mem.counts EXCEPT ![b] = [mem.counts[b] EXCEPT ![e] = mem.counts[b][e] + 1]]
    BY <1>2, <1>6
  <2>2. CASE x = b
    <3>1. mem'.counts[x] = [mem.counts[b] EXCEPT ![e] = mem.counts[b][e] + 1] BY <1>6, <2>1, <2>2
    <3>2. mem.counts[b] \in [Experts -> Int] BY <1>1, <1>6
    <3> QED BY <2>2, <3>1, <3>2
  <2>3. CASE x # b
    <3>1. mem'.counts[x] = mem.counts[x] BY <1>6, <2>1, <2>3
    <3> QED BY <2>3, <3>1
  <2> QED BY <2>2, <2>3
<1>8. Experts' = Experts BY DEF Experts
<1>9. \A y \in Experts : RegionStart(y) \in Nat BY RegionStartIs, Positive DEF Experts
<1>10. \A x \in TableRows : x \in Nat
  <2>1. Blocks \in Nat /\ Workers \in Nat BY BlocksPositive, Positive DEF Workers
  <2> QED BY <2>1 DEF TableRows
<1>11. \A x \in TableRows, y \in Experts : Cardinality(Before(x, y)) \in Nat
  BY <1>1, <1>10, BeforeCount
<1>12. CursorInv'
  <2> SUFFICES ASSUME Atomic, NEW u \in Threads, at[u] > CursorAt, NEW y \in Mine(u, NumExperts), NEW x \in TableRows
               PROVE  mem'.counts[x][y] = RegionStart(y) + Cardinality(Before(x, y)) + Cardinality(Held(x, y)')
    BY <1>1, <1>4, <1>5 DEF CursorInv
  <2>1. mem.counts[x][y] = RegionStart(y) + Cardinality(Before(x, y)) + Cardinality(Held(x, y))
    BY DEF SortInv, CursorInv
  <2>2. y \in Experts BY MineIs DEF Experts
  <2>3. variant # "align" BY <1>1, AtomicIs
  <2>4. mem'.counts[x][y] = IF <<x, y>> = <<b, e>> THEN mem.counts[x][y] + 1 ELSE mem.counts[x][y]
    BY <1>7, <2>2, <2>3
  <2>5. CASE <<x, y>> = <<b, e>>
    <3>1. Cardinality(Held(x, y)') = Cardinality(Held(x, y)) + 1 BY <1>3, <2>5
    <3>2. mem'.counts[x][y] = mem.counts[x][y] + 1 BY <2>4, <2>5
    <3> QED BY <1>3, <1>9, <1>11, <2>1, <2>2, <3>1, <3>2
  <2>6. CASE <<x, y>> # <<b, e>>
    <3>1. Cardinality(Held(x, y)') = Cardinality(Held(x, y)) BY <1>3, <2>6
    <3> QED BY <2>1, <2>4, <2>6, <3>1
  <2> QED BY <2>5, <2>6
<1>13. ColumnInv'
  <2> SUFFICES ASSUME variant = "small", NEW y \in Experts, at[y + 1] > 2, NEW x \in 0 .. Workers
               PROVE  mem'.counts[x][y] = Cardinality(Before(x, y)) + Cardinality(Held(x, y)')
    BY <1>1, <1>5, <1>8 DEF ColumnInv, Same, Workers
  <2>1. mem.counts[x][y] = Cardinality(Before(x, y)) + Cardinality(Held(x, y))
    BY DEF SortInv, ColumnInv
  <2>2. x \in TableRows BY DEF TableRows
  <2>4. mem'.counts[x][y] = IF <<x, y>> = <<b, e>> THEN mem.counts[x][y] + 1 ELSE mem.counts[x][y]
    BY <1>7, <2>2
  <2>5. CASE <<x, y>> = <<b, e>>
    <3>1. Cardinality(Held(x, y)') = Cardinality(Held(x, y)) + 1 BY <1>3, <2>5
    <3>2. mem'.counts[x][y] = mem.counts[x][y] + 1 BY <2>4, <2>5
    <3> QED BY <1>3, <1>11, <2>1, <2>2, <3>1, <3>2
  <2>6. CASE <<x, y>> # <<b, e>>
    <3>1. Cardinality(Held(x, y)') = Cardinality(Held(x, y)) BY <1>3, <2>6
    <3> QED BY <2>1, <2>4, <2>6, <3>1
  <2> QED BY <2>5, <2>6
<1> QED BY <1>12, <1>13

LEMMA ClaimScan ==
  ASSUME NEW t, SortInv, t \in Threads, Claim(t)
  PROVE  ScanInv'
<1> DEFINE e == flat[Taken(t)]
           b == Table(t)
<1>1. /\ CaseInv /\ MemInv /\ Same /\ at' = at /\ b \in TableRows /\ e \in Experts
  BY ClaimReady
<1>2. /\ mem'.offsets = IF variant = "align" THEN [mem.offsets EXCEPT ![e] = @ + 1] ELSE mem.offsets
      /\ mem'.vals = mem.vals /\ mem'.warp = mem.warp
  BY ClaimWrites
<1>3. /\ \A x, y : Cardinality(Held(x, y)) \in Nat
      /\ \A x, y : <<x, y>> # <<b, e>> => Cardinality(Held(x, y)') = Cardinality(Held(x, y))
      /\ \A x, y : <<x, y>> = <<b, e>> => Cardinality(Held(x, y)') = Cardinality(Held(x, y)) + 1
  BY ClaimCount
<1>4. Threads' = Threads BY <1>1, SameShape
<1>5. \A y : RegionStart(y)' = RegionStart(y) /\ Below(y)' = Below(y) BY <1>1, SameExpert
<1>6. Experts' = Experts BY DEF Experts
<1>7. \A u : Warp(u)' = Warp(u) BY DEF Warp
<1>8. NumExperts \in Nat \ {0} /\ Experts = 0 .. NumExperts - 1 BY Positive DEF Experts
<1> HIDE DEF b, e
<1>9. mem.offsets \in [0 .. NumExperts -> Int] BY <1>1 DEF MemInv
<1>10. variant = "align" =>
         /\ mem'.offsets[NumExperts] = mem.offsets[NumExperts]
         /\ \A y \in Experts : mem'.offsets[y] = IF y = e THEN mem.offsets[y] + 1 ELSE mem.offsets[y]
  BY <1>1, <1>2, <1>8, <1>9
<1>11. variant = "align" => \A y \in Experts : at[y] > 6 =>
         mem'.offsets[y] = RegionStart(y) + Cardinality(Held(0, y)')
  <2> SUFFICES ASSUME variant = "align", NEW y \in Experts, at[y] > 6
               PROVE  mem'.offsets[y] = RegionStart(y) + Cardinality(Held(0, y)')
    OBVIOUS
  <2>1. mem.offsets[y] = RegionStart(y) + Cardinality(Held(0, y)) BY DEF SortInv, ScanInv
  <2>2. RegionStart(y) \in Nat
    <3>1. y \in Nat BY <1>8
    <3> QED BY <3>1, RegionStartIs
  <2>3. b = 0 BY <1>1 DEF TableRows
  <2>4. CASE y = e
    <3>1. Cardinality(Held(0, y)') = Cardinality(Held(0, y)) + 1 BY <1>3, <2>3, <2>4
    <3>2. mem'.offsets[y] = mem.offsets[y] + 1 BY <1>10, <2>4
    <3> QED BY <1>3, <2>1, <2>2, <3>1, <3>2
  <2>5. CASE y # e
    <3>1. Cardinality(Held(0, y)') = Cardinality(Held(0, y)) BY <1>3, <2>3, <2>5
    <3>2. mem'.offsets[y] = mem.offsets[y] BY <1>10, <2>5
    <3> QED BY <2>1, <3>1, <3>2
  <2> QED BY <2>4, <2>5
<1>12. ScanInv BY DEF SortInv
<1>13. \A y : RegionStart(y)' = RegionStart(y) BY <1>5
<1>14. \A n : Below(n)' = Below(n) BY <1>5
<1> QED BY <1>1, <1>2, <1>4, <1>6, <1>7, <1>10, <1>11, <1>12, <1>13, <1>14 DEF ScanInv, Same

LEMMA ClaimStep ==
  ASSUME NEW t, SortInv, PlaceInv, t \in Threads, Claim(t)
  PROVE  SortInv' /\ PlaceInv'
<1>1. /\ CaseInv /\ MemInv /\ Same /\ left' = left /\ at' = at /\ at[t] = Len(Program)
      /\ \A u \in Threads : at[u] >= ReadyAt /\ at[u] \in Int
      /\ variant # "small" => \A u \in Threads : at[u] >= Len(Program)
  BY ClaimReady
<1>2. /\ mem'.counts = IF variant = "align" THEN mem.counts
                       ELSE [mem.counts EXCEPT ![Table(t)][flat[Taken(t)]] = @ + 1]
      /\ mem'.offsets = IF variant = "align" THEN [mem.offsets EXCEPT ![flat[Taken(t)]] = @ + 1]
                        ELSE mem.offsets
      /\ mem'.vals = mem.vals /\ mem'.warp = mem.warp
      /\ mem'.rows = mem.rows /\ mem'.inverse = mem.inverse
  BY ClaimWrites
<1>3. /\ Threads' = Threads /\ Program' = Program /\ Rows' = Rows /\ TableRows' = TableRows
      /\ capacity' = capacity /\ PrefixAt' = PrefixAt /\ CursorAt' = CursorAt
      /\ PrefixThread' = PrefixThread /\ ReadyAt' = ReadyAt /\ Atomic' = Atomic
  BY <1>1, SameShape
<1>4. BarrierInv'
  <2>1. \A u : BlockIdx(u)' = BlockIdx(u) BY <1>1, SameThread
  <2> QED BY <1>1, <1>3, <2>1 DEF SortInv, BarrierInv, Same
<1>5. ReadyInv' BY <1>1, <1>3 DEF ReadyInv
<1>6. CountInv'
  <2>1. CASE variant = "align"
    <3>1. \A u : Clears(u)' = Clears(u) /\ BlockIdx(u)' = BlockIdx(u) BY <1>1, SameThread
    <3>2. \A b, e : Share(b, e)' = Share(b, e) BY <1>1, SameShare
    <3>3. \A idx : Home(idx)' = Home(idx) BY <1>1, SameRoute
    <3>4. \A b, e : Tallied(b, e)' = Tallied(b, e) BY <1>1, <3>2, <3>3 DEF Tallied
    <3>5. \A u, n : Mine(u, n)' = Mine(u, n) BY <1>1, SameMine
    <3>6. \A e : Cursored(e)' <=> Cursored(e) BY <1>1, <1>3, <3>5 DEF Cursored
    <3> QED BY <1>1, <1>2, <1>3, <2>1, <3>1, <3>4, <3>6 DEF SortInv, CountInv, Same
  <2>2. CASE variant # "align"
    <3> SUFFICES ASSUME variant # "small" PROVE \A e \in Experts : Cursored(e)'
      BY <1>1 DEF CountInv, Same
    <3>1. Atomic BY <1>1, <2>2, AtomicIs
    <3>2. Len(Program) > CursorAt /\ CursorAt \in Int /\ Len(Program) \in Int
      <4>1. CASE variant = "parallel"
        <5>1. Len(Program) = 6 /\ CursorAt = 5 BY <1>1, <4>1, ProgramIs DEF CursorAt
        <5> QED BY <5>1
      <4>2. CASE variant # "parallel"
        <5>1. Len(Program) = 5 /\ CursorAt = 4 BY <1>1, <2>2, <4>2, ProgramIs DEF CursorAt
        <5> QED BY <5>1
      <4> QED BY <4>1, <4>2
    <3>3. \A u \in Threads : at[u] > CursorAt BY <1>1, <3>2
    <3>4. \A u, n : Mine(u, n)' = Mine(u, n) BY <1>1, SameMine
    <3>5. NumExperts \in Nat /\ Experts = 0 .. NumExperts - 1 BY Positive DEF Experts
    <3>6. \A e \in Experts : \E u \in Threads : e \in Mine(u, NumExperts) BY <3>5, SomebodyVisits
    <3> QED BY <1>1, <1>3, <3>1, <3>3, <3>4, <3>6 DEF Cursored
  <2> QED BY <2>1, <2>2
<1>7. TotalsInv'
  <2>1. \A u, n : Mine(u, n)' = Mine(u, n) BY <1>1, SameMine
  <2>2. \A e : RoutesTo(e)' = RoutesTo(e) BY <1>1, SameExpert
  <2> QED BY <1>1, <1>2, <1>3, <2>1, <2>2 DEF SortInv, TotalsInv, Same
<1>8. PrefixInv'
  <2>1. \A e : RegionStart(e)' = RegionStart(e) BY <1>1, SameExpert
  <2> QED BY <1>1, <1>2, <1>3, <2>1 DEF SortInv, PrefixInv, Same
<1>9. WorkerInv'
  <2>1. variant = "small" => \A e \in Experts : at[e + 1] > 2
    <3> SUFFICES ASSUME variant = "small", NEW e \in Experts PROVE at[e + 1] > 2 OBVIOUS
    <3>1. ReadyAt = 4 /\ Threads = 0 .. Workers BY <1>1, ReadyAtIs DEF Threads
    <3>2. e + 1 \in Threads BY <3>1, Positive DEF Experts, Workers
    <3> QED BY <1>1, <3>1, <3>2
  <2>2. variant = "small" => \A e \in Experts : ~(at[e + 1] <= 2)
    <3>1. variant = "small" => \A e \in Experts : e + 1 \in Threads
      <4>1. variant = "small" => Threads = 0 .. Workers BY DEF Threads
      <4> QED BY <4>1, Positive DEF Experts, Workers
    <3> QED BY <1>1, <2>1, <3>1
  <2> QED BY <1>1, <2>2 DEF WorkerInv, Same, Experts
<1>10. BlankInv'
  <2>1. \A u, n : Mine(u, n)' = Mine(u, n) BY <1>1, SameMine
  <2> QED BY <1>1, <1>2, <1>3, <2>1 DEF SortInv, BlankInv, Blanked, Same
<1>11. TypeInv' BY ClaimType
<1>12. CursorInv' /\ ColumnInv' BY ClaimCursor
<1>13. ScanInv' BY ClaimScan
<1>14. PlaceInv' BY ClaimPlace
<1> QED BY <1>4, <1>5, <1>6, <1>7, <1>8, <1>9, <1>10, <1>11, <1>12, <1>13, <1>14 DEF SortInv

\* A step that leaves the threads, the counters and the claims alone.
LEMMA StillSort ==
  ASSUME SortInv, Same, at' = at, Claimed' = Claimed, \A b, e : Held(b, e)' = Held(b, e),
         mem'.counts = mem.counts, mem'.vals = mem.vals, mem'.warp = mem.warp, mem'.offsets = mem.offsets
  PROVE  /\ BarrierInv' /\ ReadyInv' /\ CountInv' /\ TotalsInv' /\ PrefixInv' /\ CursorInv'
         /\ WorkerInv' /\ ColumnInv' /\ ScanInv'
<1>1. /\ Threads' = Threads /\ Program' = Program /\ Rows' = Rows /\ TableRows' = TableRows
      /\ capacity' = capacity /\ PrefixAt' = PrefixAt /\ CursorAt' = CursorAt
      /\ PrefixThread' = PrefixThread /\ ReadyAt' = ReadyAt /\ Atomic' = Atomic
  BY SameShape
<1>2. \A u : Clears(u)' = Clears(u) /\ BlockIdx(u)' = BlockIdx(u) BY SameThread
<1>3. \A b, e : Share(b, e)' = Share(b, e) /\ Before(b, e)' = Before(b, e) BY SameShare
<1>4. \A idx : Home(idx)' = Home(idx) BY SameRoute
<1>5. \A u, n : Mine(u, n)' = Mine(u, n) BY SameMine
<1>6. \A e : RoutesTo(e)' = RoutesTo(e) /\ RegionStart(e)' = RegionStart(e) /\ Below(e)' = Below(e)
  BY SameExpert
<1>7. \A b, e : Tallied(b, e)' = Tallied(b, e) BY <1>3, <1>4 DEF Tallied
<1>8. \A e : Cursored(e)' <=> Cursored(e) BY <1>1, <1>5 DEF Cursored
<1>9. BarrierInv' BY <1>1, <1>2 DEF SortInv, BarrierInv, Same
<1>10. ReadyInv' BY <1>1 DEF SortInv, ReadyInv
<1>11. CountInv' BY <1>1, <1>2, <1>7, <1>8 DEF SortInv, CountInv, Same
<1>12. TotalsInv' BY <1>1, <1>5, <1>6 DEF SortInv, TotalsInv, Same
<1>13. PrefixInv' BY <1>1, <1>6 DEF SortInv, PrefixInv, Same
<1>14. CursorInv'
  <2> SUFFICES ASSUME Atomic, NEW u \in Threads, at[u] > CursorAt, NEW e \in Mine(u, NumExperts), NEW b \in TableRows
               PROVE  mem.counts[b][e] = RegionStart(e) + Cardinality(Before(b, e)) + Cardinality(Held(b, e))
    BY <1>1, <1>3, <1>5, <1>6 DEF CursorInv
  <2> QED BY DEF SortInv, CursorInv
<1>15. WorkerInv'
  <2> SUFFICES ASSUME variant = "small", NEW w \in 1 .. Workers, NEW e \in Experts, at[w] > 1, at[e + 1] <= 2
               PROVE  mem.counts[w][e] = Cardinality(Share(w - 1, e))
    BY <1>3 DEF WorkerInv, Same, Workers, Experts
  <2> QED BY DEF SortInv, WorkerInv
<1>16. ColumnInv'
  <2> SUFFICES ASSUME variant = "small", NEW e \in Experts, at[e + 1] > 2, NEW b \in 0 .. Workers
               PROVE  mem.counts[b][e] = Cardinality(Before(b, e)) + Cardinality(Held(b, e))
    BY <1>3 DEF ColumnInv, Same, Workers, Experts
  <2> QED BY DEF SortInv, ColumnInv
<1>17. ScanInv'
  <2>1. \A u : Warp(u)' = Warp(u) BY DEF Warp
  <2>2. \A n : Below(n)' = Below(n) BY <1>6
  <2>3. ScanInv BY DEF SortInv
  <2>4. Experts' = Experts BY DEF Experts
  <2> QED BY <1>1, <1>6, <2>1, <2>2, <2>3, <2>4 DEF ScanInv, Same
<1> QED BY <1>9, <1>10, <1>11, <1>12, <1>13, <1>14, <1>15, <1>16, <1>17

\* What the store of a route does.
Stores(t, idx, slot) ==
  /\ slot_buf[t] # Nothing /\ slot_buf[t][1] = idx /\ slot_buf[t][2] = slot
  /\ Home(idx) = t /\ idx \in left[t] /\ idx \in Claimed
  /\ Same /\ at' = at /\ Memory' /\ mem'.counts = mem.counts /\ mem'.vals = mem.vals
  /\ mem'.warp = mem.warp /\ mem'.offsets = mem.offsets
  /\ left' = [left EXCEPT ![t] = left[t] \ {idx}]
  /\ slot_buf' = [slot_buf EXCEPT ![t] = Nothing]
  /\ IF variant \in {"align", "small"}
       THEN mem'.rows = [mem.rows EXCEPT ![slot] = idx] /\ mem'.inverse = mem.inverse
       ELSE /\ mem'.rows = [mem.rows EXCEPT ![slot] = idx \div TopK]
            /\ mem'.inverse = [mem.inverse EXCEPT ![idx] = slot]

LEMMA StoreWrites ==
  ASSUME NEW t, SortInv, t \in Threads, Store(t)
  PROVE  \E idx \in Routes, slot \in Int : Stores(t, idx, slot)
<1>1. TypeInv /\ CaseInv /\ MemInv /\ Memory BY DEF SortInv, TypeInv, MemInv
<1>2. slot_buf[t] # Nothing BY DEF Store
<1>3. slot_buf[t] \in Routes \X Int /\ slot_buf[t][1] \in left[t] /\ left[t] \subseteq RoutesOf(t)
  BY <1>1, <1>2 DEF TypeInv
<1>4. PICK idx \in Routes, slot \in Int : slot_buf[t][1] = idx /\ slot_buf[t][2] = slot
  BY <1>3
<1>5. idx \in left[t] /\ idx \in RoutesOf(t) BY <1>3, <1>4
<1>6. Home(idx) = t BY <1>1, <1>5, HomeIs
<1>7. idx \in Claimed BY <1>2, <1>4, <1>6 DEF Claimed
<1>8. /\ mem' = IF variant \in {"align", "small"} THEN [mem EXCEPT !.rows[slot] = idx]
                ELSE [mem EXCEPT !.rows[slot] = idx \div TopK, !.inverse[idx] = slot]
      /\ left' = [left EXCEPT ![t] = left[t] \ {idx}]
      /\ slot_buf' = [slot_buf EXCEPT ![t] = Nothing]
      /\ Same /\ at' = at
  BY <1>4 DEF Store, Same
<1>9. /\ Memory' /\ mem'.counts = mem.counts /\ mem'.vals = mem.vals
      /\ mem'.warp = mem.warp /\ mem'.offsets = mem.offsets
      /\ IF variant \in {"align", "small"}
           THEN mem'.rows = [mem.rows EXCEPT ![slot] = idx] /\ mem'.inverse = mem.inverse
           ELSE /\ mem'.rows = [mem.rows EXCEPT ![slot] = idx \div TopK]
                /\ mem'.inverse = [mem.inverse EXCEPT ![idx] = slot]
  <2>1. CASE variant \in {"align", "small"}
    <3>1. mem' = [mem EXCEPT !.rows[slot] = idx] BY <1>8, <2>1
    <3> QED BY <1>1, <2>1, <3>1 DEF Memory
  <2>2. CASE variant \notin {"align", "small"}
    <3>1. mem' = [mem EXCEPT !.rows[slot] = idx \div TopK, !.inverse[idx] = slot] BY <1>8, <2>2
    <3> QED BY <1>1, <2>2, <3>1 DEF Memory
  <2> QED BY <2>1, <2>2
<1>10. Stores(t, idx, slot) BY <1>2, <1>4, <1>5, <1>6, <1>7, <1>8, <1>9 DEF Stores
<1> QED BY <1>10

LEMMA StoreStep ==
  ASSUME NEW t, SortInv, PlaceInv, t \in Threads, Store(t)
  PROVE  SortInv' /\ PlaceInv'
<1>0. PICK idx \in Routes, slot \in Int : Stores(t, idx, slot) BY StoreWrites
<1>1. /\ slot_buf[t] # Nothing /\ slot_buf[t][1] = idx /\ slot_buf[t][2] = slot
      /\ Home(idx) = t /\ idx \in left[t] /\ idx \in Claimed
      /\ Same /\ at' = at /\ Memory' /\ mem'.counts = mem.counts /\ mem'.vals = mem.vals
      /\ mem'.warp = mem.warp /\ mem'.offsets = mem.offsets
      /\ left' = [left EXCEPT ![t] = left[t] \ {idx}]
      /\ slot_buf' = [slot_buf EXCEPT ![t] = Nothing]
      /\ IF variant \in {"align", "small"}
           THEN mem'.rows = [mem.rows EXCEPT ![slot] = idx] /\ mem'.inverse = mem.inverse
           ELSE /\ mem'.rows = [mem.rows EXCEPT ![slot] = idx \div TopK]
                /\ mem'.inverse = [mem.inverse EXCEPT ![idx] = slot]
  BY <1>0 DEF Stores
<1>2. TypeInv /\ CaseInv /\ MemInv /\ Memory BY DEF SortInv, TypeInv, MemInv
<1>3. PICK place \in [Claimed -> Rows] : Places(place) BY DEF PlaceInv
<1>4. slot = place[idx] /\ slot \in Rows BY <1>1, <1>3 DEF Places
<1>5. /\ Threads' = Threads /\ Program' = Program /\ Rows' = Rows /\ TableRows' = TableRows
      /\ CaseInv' = CaseInv /\ capacity' = capacity /\ Sentinel' = Sentinel
  BY <1>1, SameShape
<1>6. Routes' = Routes BY DEF Routes, numel
<1>7. \A k : Home(k)' = Home(k) /\ TableRow(k)' = TableRow(k) BY <1>1, SameRoute
<1>8. left \in [Threads -> SUBSET Routes] /\ slot_buf \in [Threads -> {Nothing} \cup (Routes \X Int)]
  BY <1>2 DEF TypeInv
<1>9. /\ left'[t] = left[t] \ {idx} /\ slot_buf'[t] = Nothing
      /\ \A u \in Threads : u # t => left'[u] = left[u] /\ slot_buf'[u] = slot_buf[u]
  BY <1>1, <1>8
<1>10. \A k \in Routes : Home(k) \in Threads BY <1>2, HomeIs
<1>11. Claimed' = Claimed
  <2>1. \A k \in Routes : k \in Claimed' <=> k \in Claimed
    <3> TAKE k \in Routes
    <3>1. k \in Claimed' <=> \/ k \notin left'[Home(k)]
                             \/ slot_buf'[Home(k)] # Nothing /\ slot_buf'[Home(k)][1] = k
      BY <1>6, <1>7 DEF Claimed
    <3>2. k \in Claimed <=> \/ k \notin left[Home(k)]
                            \/ slot_buf[Home(k)] # Nothing /\ slot_buf[Home(k)][1] = k
      BY DEF Claimed
    <3>3. CASE Home(k) = t BY <1>1, <1>9, <3>1, <3>2, <3>3
    <3>4. CASE Home(k) # t BY <1>9, <1>10, <3>1, <3>2, <3>4
    <3> QED BY <3>3, <3>4
  <2>2. Claimed \subseteq Routes /\ Claimed' \subseteq Routes BY <1>6 DEF Claimed
  <2> QED BY <2>1, <2>2
<1>12. Stored' = Stored \cup {idx}
  <2>1. \A k \in Routes : k \in Stored' <=> k \in Stored \/ k = idx
    <3> TAKE k \in Routes
    <3>1. k \in Stored' <=> k \notin left'[Home(k)] BY <1>6, <1>7 DEF Stored
    <3>2. k \in Stored <=> k \notin left[Home(k)] BY DEF Stored
    <3>3. CASE Home(k) = t BY <1>1, <1>9, <3>1, <3>2, <3>3
    <3>4. CASE Home(k) # t BY <1>1, <1>9, <1>10, <3>1, <3>2, <3>4
    <3> QED BY <3>3, <3>4
  <2>2. Stored \subseteq Routes /\ Stored' \subseteq Routes BY <1>6 DEF Stored
  <2> QED BY <2>1, <2>2
<1>13. \A b, e : Share(b, e)' = Share(b, e) /\ Before(b, e)' = Before(b, e) BY <1>1, SameShare
<1>14. \A b, e : Held(b, e)' = Held(b, e) BY <1>11, <1>13 DEF Held
<1>15. /\ mem.rows \in [Rows -> Int] /\ mem.inverse \in [Routes -> Int] BY <1>2 DEF MemInv
<1>16. TopK \in Nat \ {0} /\ idx \in Nat BY Positive, NumelPositive DEF Routes
<1>17. idx \div TopK \in Nat BY <1>16, DivMod
<1>18. PICK what \in Nat : mem'.rows = [mem.rows EXCEPT ![slot] = what]
  BY <1>1, <1>16, <1>17
<1>19. TypeInv'
  <2>0. what \in Int /\ mem.rows \in [Rows -> Int] BY <1>15
  <2>1. mem'.rows \in [Rows -> Int]
    <3>1. [mem.rows EXCEPT ![slot] = what] \in [Rows -> Int] BY <2>0
    <3> QED BY <1>18, <3>1
  <2>2. mem'.inverse \in [Routes -> Int] BY <1>1, <1>15
  <2>3. Experts' = Experts BY DEF Experts
  <2>4. MemInv' BY <1>1, <1>2, <1>5, <1>6, <2>1, <2>2, <2>3 DEF MemInv
  <2>5. \A u : RoutesOf(u)' = RoutesOf(u) BY <1>1, SameThread
  <2>6. left' \in [Threads -> SUBSET Routes] /\ slot_buf' \in [Threads -> {Nothing} \cup (Routes \X Int)]
    BY <1>1, <1>8
  <2>7. \A u \in Threads : left'[u] \subseteq left[u] BY <1>9
  <2>8. \A u \in Threads : left'[u] \subseteq RoutesOf(u) BY <1>2, <2>7 DEF TypeInv
  <2>9. \A u \in Threads : slot_buf'[u] # Nothing => slot_buf'[u][1] \in left'[u]
    BY <1>2, <1>9 DEF TypeInv
  <2> QED BY <1>1, <1>2, <1>5, <1>6, <2>4, <2>5, <2>6, <2>8, <2>9 DEF TypeInv
<1>20. BlankInv'
  <2>1. \A u, n : Mine(u, n)' = Mine(u, n) BY <1>1, SameMine
  <2>2. BlankInv BY DEF SortInv
  <2>3. \A r \in Rows : mem'.rows[r] = IF r = slot THEN what ELSE mem.rows[r] BY <1>4, <1>15, <1>18
  <2>4. \A r \in Rows : mem.rows[r] # Unset => mem'.rows[r] # Unset BY <2>3 DEF Unset
  <2>5. \A u, r : Blanked(u, r)' => Blanked(u, r) BY <1>1, <1>5, <2>1 DEF Blanked, Same
  <2> QED BY <1>5, <2>2, <2>4, <2>5 DEF BlankInv, Unset
<1>21. /\ BarrierInv' /\ ReadyInv' /\ CountInv' /\ TotalsInv' /\ PrefixInv' /\ CursorInv'
       /\ WorkerInv' /\ ColumnInv' /\ ScanInv'
  BY <1>1, <1>11, <1>14, StillSort
<1>22. Places(place)'
  <2>1. \A e : RegionStart(e)' = RegionStart(e) BY <1>1, SameExpert
  <2>2. Stored \subseteq Claimed BY DEF Stored, Claimed
  <2>3. \A k \in Stored : k # idx /\ place[k] # slot /\ place[k] \in Rows /\ k \in Routes
    <3> TAKE k \in Stored
    <3>1. k # idx BY <1>1 DEF Stored
    <3> QED BY <1>1, <1>3, <1>4, <2>2, <3>1 DEF Places, Stored
  <2>4. \A k \in Stored' :
         IF variant \in {"align", "small"} THEN mem'.rows[place[k]] = k
         ELSE mem'.inverse[k] = place[k] /\ mem'.rows[place[k]] = k \div TopK
    <3> TAKE k \in Stored'
    <3>1. CASE k = idx BY <1>1, <1>4, <1>15, <3>1
    <3>2. CASE k # idx
      <4>1. k \in Stored BY <1>12, <3>2
      <4>2. IF variant \in {"align", "small"} THEN mem.rows[place[k]] = k
            ELSE mem.inverse[k] = place[k] /\ mem.rows[place[k]] = k \div TopK
        BY <1>3, <4>1 DEF Places
      <4>3. mem'.rows[place[k]] = mem.rows[place[k]] BY <1>15, <1>18, <2>3, <4>1
      <4>4. mem'.inverse[k] = mem.inverse[k] BY <1>1, <1>15, <2>3, <3>2, <4>1
      <4> QED BY <4>2, <4>3, <4>4
    <3> QED BY <3>1, <3>2
  <2>5. \A r \in Rows : (\A k \in Stored' : place[k] # r) => mem'.rows[r] \in {Unset, Sentinel}
    <3> SUFFICES ASSUME NEW r \in Rows, \A k \in Stored' : place[k] # r
                 PROVE  mem'.rows[r] \in {Unset, Sentinel}
      OBVIOUS
    <3>1. r # slot BY <1>4, <1>12
    <3>2. mem'.rows[r] = mem.rows[r] BY <1>15, <1>18, <3>1
    <3>3. \A k \in Stored : place[k] # r BY <1>12
    <3> QED BY <1>3, <3>2, <3>3 DEF Places
  <2>6. \A u \in Threads : slot_buf'[u] # Nothing => slot_buf'[u][2] = place[slot_buf'[u][1]]
    BY <1>3, <1>9 DEF Places
  <2>7. \A i, k \in Claimed' : place[i] = place[k] => i = k BY <1>3, <1>11 DEF Places
  <2>8. \A k \in Claimed' : place[k] \in RegionStart(flat[k])' + Cardinality(Before(TableRow(k), flat[k]))'
             .. RegionStart(flat[k])' + Cardinality(Before(TableRow(k), flat[k]))'
                   + Cardinality(Held(TableRow(k), flat[k]))' - 1
    <3> TAKE k \in Claimed'
    <3>5. k \in Claimed BY <1>11
    <3>0. PICK b, e : b = TableRow(k) /\ e = flat[k] OBVIOUS
    <3>1. TableRow(k)' = b /\ flat'[k] = e BY <1>1, <1>7, <3>0 DEF Same
    <3>2. RegionStart(e)' = RegionStart(e) /\ Before(b, e)' = Before(b, e) /\ Held(b, e)' = Held(b, e)
      BY <1>13, <1>14, <2>1
    <3>3. place[k] \in RegionStart(e) + Cardinality(Before(b, e)) ..
             RegionStart(e) + Cardinality(Before(b, e)) + Cardinality(Held(b, e)) - 1
      BY <1>3, <3>0, <3>5 DEF Places
    <3>4. /\ RegionStart(flat[k])' = RegionStart(e)' /\ Before(TableRow(k), flat[k])' = Before(b, e)'
          /\ Held(TableRow(k), flat[k])' = Held(b, e)'
      BY <3>1 DEF RegionStart, Before, Held, Share, RoutesTo
    <3> QED BY <3>2, <3>3, <3>4
  <2> QED BY <1>1, <1>5, <2>4, <2>5, <2>6, <2>7, <2>8 DEF Places, Same
<1>23. PlaceInv' BY <1>3, <1>5, <1>11, <1>22 DEF PlaceInv
<1> QED BY <1>19, <1>20, <1>21, <1>23 DEF SortInv

-----------------------------------------------------------------------------
(* What the aligning and the parallel sort need and no line checks. *)
Fits ==
  \A cs \in Cases :
    /\ cs[1] = "align" =>
         NumExperts <= 2 * WarpSize /\ \E n \in 0 .. WarpSize : Pow2[n] = WarpSize
    /\ cs[1] = "parallel" => RoutesPerBlock % BlockThreads = 0

LEMMA SortStart ==
  ASSUME Fits, Init
  PROVE  SortInv /\ PlaceInv
<1>1. CaseInv
  <2>1. PICK cs \in Cases : variant = cs[1] /\ flat = cs[2] BY DEF Init
  <2>2. cs \in Variants \X [Routes -> Experts] BY PermuteAssumption
  <2>3. variant \in Variants /\ flat \in [Routes -> Experts] BY <2>1, <2>2
  <2> QED BY <2>1, <2>3 DEF CaseInv, Fits
<1>2. /\ at = [t \in Threads |-> 1] /\ left = [t \in Threads |-> RoutesOf(t)]
      /\ slot_buf = [t \in Threads |-> Nothing]
  BY DEF Init
<1>3. /\ Memory
      /\ mem.counts = [b \in TableRows |-> [e \in Experts |-> Unset]]
      /\ mem.vals = [x \in Threads \cup Experts |-> Unset]
      /\ mem.warp = [w \in 0 .. 1 |-> Unset]
      /\ mem.offsets = [e \in 0 .. NumExperts |-> Unset]
      /\ mem.rows = [r \in Rows |-> Unset]
      /\ mem.inverse = [idx \in Routes |-> Unset]
  BY DEF Init, Memory, TableRows
<1>4. Unset \in Int BY DEF Unset
<1>5. MemInv BY <1>3, <1>4 DEF MemInv
<1>6. Len(Program) \in Nat /\ Len(Program) >= 5 BY <1>1, LenIs
<1>7. \A t \in Threads : RoutesOf(t) = {idx \in Routes : Home(idx) = t} BY <1>1, HomeIs
<1>8. \A idx \in Routes : Home(idx) \in Threads BY <1>1, HomeIs
<1>9. TypeInv
  <2>1. 1 \in 1 .. Len(Program) BY <1>6
  <2> QED BY <1>1, <1>2, <1>5, <1>7, <2>1 DEF TypeInv
<1>10. Claimed = {} /\ Stored = {}
  <2>1. \A idx \in Routes : idx \in left[Home(idx)] /\ slot_buf[Home(idx)] = Nothing
    BY <1>2, <1>7, <1>8
  <2> QED BY <2>1 DEF Claimed, Stored
<1>11. \A t \in Threads : at[t] = 1 BY <1>2
<1>12. Threads \subseteq Nat /\ 0 \in Threads /\ PrefixThread \in Threads BY ThreadsAre
<1>13. BarrierInv BY <1>11 DEF BarrierInv
<1>14. ReadyInv BY <1>10 DEF ReadyInv
<1>15. CountInv BY <1>11 DEF CountInv
<1>16. TotalsInv BY <1>11 DEF TotalsInv
<1>17. PrefixInv BY <1>11, <1>12 DEF PrefixInv, PrefixAt
<1>18. CursorInv BY <1>11 DEF CursorInv, CursorAt
<1>19. variant = "small" => Threads = 0 .. Workers BY DEF Threads
<1>20. NumExperts \in Nat \ {0} /\ Experts = 0 .. NumExperts - 1 BY Positive DEF Experts
<1>21. WorkerInv
  <2>1. variant = "small" => \A w \in 1 .. Workers : w \in Threads BY <1>19
  <2>2. variant = "small" => \A w \in 1 .. Workers : ~(at[w] > 1) BY <1>11, <2>1
  <2> QED BY <2>2 DEF WorkerInv
<1>22. ColumnInv
  <2>1. variant = "small" => \A e \in Experts : e + 1 \in Threads BY <1>19, Positive DEF Workers, Experts
  <2>2. variant = "small" => \A e \in Experts : ~(at[e + 1] > 2) BY <1>11, <2>1
  <2> QED BY <2>2 DEF ColumnInv
<1>23. ScanInv
  <2> SUFFICES ASSUME variant = "align" PROVE ScanInv BY DEF ScanInv
  <2>1. Experts \subseteq Threads /\ NumExperts - 1 \in Experts BY <1>1, AlignThreads
  <2>2. \A t \in Threads : at[t] # 4 /\ ~(at[t] > 4) /\ ~(at[t] > 5) /\ ~(at[t] > 6) BY <1>11
  <2>3. ~(at[0] > 5) BY <1>12, <2>2
  <2>4. \A e \in Experts : ~(at[e] > 6) BY <2>1, <2>2
  <2>5. ~(at[NumExperts - 1] > 6) BY <2>1, <2>4
  <2> QED BY <2>2, <2>3, <2>4, <2>5 DEF ScanInv
<1>24. BlankInv BY <1>11 DEF BlankInv, Blanked
<1>25. PlaceInv
  <2>1. PICK place : place = [k \in {} |-> 0] OBVIOUS
  <2>2. place \in [Claimed -> Rows] BY <1>10, <2>1
  <2>3. Places(place)
    <3>1. \A r \in Rows : mem.rows[r] = Unset BY <1>3
    <3> QED BY <1>2, <1>10, <3>1 DEF Places
  <2> QED BY <2>2, <2>3 DEF PlaceInv
<1> QED BY <1>9, <1>13, <1>14, <1>15, <1>16, <1>17, <1>18, <1>21, <1>22, <1>23, <1>24, <1>25
        DEF SortInv

LEMMA SortStays ==
  ASSUME SortInv, PlaceInv, UNCHANGED vars
  PROVE  SortInv' /\ PlaceInv'
<1>1. /\ Same /\ at' = at /\ left' = left /\ slot_buf' = slot_buf /\ mem' = mem
  BY DEF vars, Same
<1>2. Claimed' = Claimed /\ Stored' = Stored /\ \A b, e : Held(b, e)' = Held(b, e)
  BY <1>1, SameClaimed
<1>3. /\ BarrierInv' /\ ReadyInv' /\ CountInv' /\ TotalsInv' /\ PrefixInv' /\ CursorInv'
      /\ WorkerInv' /\ ColumnInv' /\ ScanInv'
  BY <1>1, <1>2, StillSort
<1>4. /\ Threads' = Threads /\ Program' = Program /\ Rows' = Rows /\ TableRows' = TableRows
      /\ CaseInv' = CaseInv /\ capacity' = capacity
  BY <1>1, SameShape
<1>5. Routes' = Routes /\ Experts' = Experts BY DEF Routes, numel, Experts
<1>6. TypeInv'
  <2>1. \A u : RoutesOf(u)' = RoutesOf(u) BY <1>1, SameThread
  <2>2. MemInv' BY <1>1, <1>4, <1>5 DEF SortInv, TypeInv, MemInv, Memory
  <2> QED BY <1>1, <1>4, <1>5, <2>1, <2>2 DEF SortInv, TypeInv
<1>7. BlankInv'
  <2>1. \A u, n : Mine(u, n)' = Mine(u, n) BY <1>1, SameMine
  <2> QED BY <1>1, <1>4, <2>1 DEF SortInv, BlankInv, Blanked, Same
<1>8. PlaceInv' BY <1>1, StillPlace
<1> QED BY <1>3, <1>6, <1>7, <1>8 DEF SortInv

LEMMA SortSteps ==
  ASSUME SortInv, PlaceInv, PermuteNext
  PROVE  SortInv' /\ PlaceInv'
<1>1. ASSUME NEW t \in Threads, ThreadStep(t) PROVE SortInv' /\ PlaceInv'
  <2>1. CASE Zero(t) BY <2>1, ZeroStep
  <2>2. CASE Count(t) BY <2>2, CountStep
  <2>3. CASE FillCount(t) BY <2>3, FillStep
  <2>4. CASE Column(t) BY <2>4, ColumnStep
  <2>5. CASE Totals(t) BY <2>5, TotalsStep
  <2>6. CASE Prefix(t) BY <2>6, PrefixStep
  <2>7. CASE Cursor(t) BY <2>7, CursorStep
  <2>8. CASE Vals(t) BY <2>8, ValsStep
  <2>9. CASE WarpExcl(t) BY <2>9, ExclStep
  <2>10. CASE Cumsum(t) BY <2>10, CumsumStep
  <2>11. CASE Finalize(t) BY <2>11, FinalizeStep
  <2>12. CASE Claim(t) BY <2>12, ClaimStep
  <2>13. CASE Store(t) BY <2>13, StoreStep
  <2> QED BY <1>1, <2>1, <2>2, <2>3, <2>4, <2>5, <2>6, <2>7, <2>8, <2>9, <2>10, <2>11, <2>12, <2>13
          DEF ThreadStep
<1>2. ASSUME NEW w \in 0 .. 1, WarpScan(w) PROVE SortInv' /\ PlaceInv' BY <1>2, WarpStep
<1> QED BY <1>1, <1>2 DEF PermuteNext

LEMMA RowsAreTaken ==
  ASSUME SortInv, PlaceInv
  PROVE  RowsTakenOnce
<1>1. TypeInv /\ CaseInv BY DEF SortInv, TypeInv
<1>2. PICK place \in [Claimed -> Rows] : Places(place) BY DEF PlaceInv
<1>3. ASSUME NEW t \in Threads, slot_buf[t] # Nothing
      PROVE  /\ slot_buf[t][1] \in Claimed /\ Home(slot_buf[t][1]) = t
             /\ slot_buf[t][1] \notin Stored /\ slot_buf[t][2] = place[slot_buf[t][1]]
  <2>1. slot_buf[t][1] \in left[t] /\ left[t] \subseteq RoutesOf(t) BY <1>1, <1>3 DEF TypeInv
  <2>2. slot_buf[t][1] \in Routes /\ Home(slot_buf[t][1]) = t BY <1>1, <2>1, HomeIs
  <2> QED BY <1>2, <1>3, <2>1, <2>2 DEF Claimed, Stored, Places
<1> SUFFICES ASSUME NEW t \in Threads, slot_buf[t] # Nothing
             PROVE  /\ slot_buf[t][2] \in LiveRows(flat[slot_buf[t][1]])
                    /\ mem.rows[slot_buf[t][2]] \in {Unset, Sentinel}
                    /\ \A u \in Threads \ {t} : slot_buf[u] # Nothing => slot_buf[u][2] # slot_buf[t][2]
  BY DEF RowsTakenOnce
<1>4. PICK idx, slot : idx = slot_buf[t][1] /\ slot = slot_buf[t][2] OBVIOUS
<1>5. idx \in Claimed /\ idx \notin Stored /\ slot = place[idx] /\ slot \in Rows BY <1>2, <1>3, <1>4
<1>6. slot \in LiveRows(flat[idx])
  <2>1. PICK b, e : b = TableRow(idx) /\ e = flat[idx] OBVIOUS
  <2>2. /\ e \in Experts /\ b \in Nat
        /\ place[idx] \in First(b, e) .. First(b, e) + Cardinality(Share(b, e)) - 1
    BY <1>1, <1>2, <1>5, <2>1, PlaceInSpan
  <2>3. /\ First(b, e) \in Nat /\ Cardinality(Share(b, e)) \in Nat /\ RegionStart(e) \in Nat
        /\ RegionStart(e) <= First(b, e) /\ Cardinality(RoutesTo(e)) \in Nat
        /\ First(b, e) + Cardinality(Share(b, e)) <= RegionStart(e) + Cardinality(RoutesTo(e))
    BY <1>1, <2>2, SpanIs
  <2>4. place[idx] \in RegionStart(e) .. RegionStart(e) + Cardinality(RoutesTo(e)) - 1
    BY <2>2, <2>3
  <2> QED BY <1>5, <2>1, <2>4 DEF LiveRows
<1>7. mem.rows[slot] \in {Unset, Sentinel}
  <2>1. \A k \in Stored : place[k] # slot
    BY <1>2, <1>5 DEF Places, Stored, Claimed
  <2> QED BY <1>2, <1>5, <2>1 DEF Places
<1>8. ASSUME NEW u \in Threads \ {t}, slot_buf[u] # Nothing PROVE slot_buf[u][2] # slot
  <2>1. slot_buf[u][1] \in Claimed /\ Home(slot_buf[u][1]) = u /\ slot_buf[u][2] = place[slot_buf[u][1]]
    BY <1>3, <1>8
  <2>2. Home(idx) = t BY <1>3, <1>4
  <2> QED BY <1>2, <1>5, <2>1, <2>2 DEF Places
<1> QED BY <1>4, <1>6, <1>7, <1>8

(***************************************************************************)
(* A thread about to store a route holds a row of the route's expert that  *)
(* no other thread holds and nothing was stored to (RowsTakenOnce),        *)
(* whatever the numbers of tokens, routes, experts and threads that fit    *)
(* (Fits), however many workers the small sort has.                        *)
(***************************************************************************)
THEOREM RowsApart == ASSUME Fits PROVE Spec => []RowsTakenOnce
<1>1. PipelineInit => SortInv /\ PlaceInv BY SortStart DEF PipelineInit
<1>2. SortInv /\ PlaceInv /\ [Next]_allVars => (SortInv /\ PlaceInv)'
  <2> SUFFICES ASSUME SortInv, PlaceInv, [Next]_allVars PROVE SortInv' /\ PlaceInv' OBVIOUS
  <2>1. CASE Permute BY <2>1, SortSteps DEF Permute
  <2>2. CASE UNCHANGED vars BY <2>2, SortStays
  <2>3. [Next]_allVars => Permute \/ UNCHANGED vars
    BY DEF Next, Gather, Down, Finished, CtaNext, Unpermute, Wave, TakeTile, Barrier, ReadTile, Compute, CtaStep, allVars
  <2> QED BY <2>1, <2>2, <2>3
<1>3. SortInv /\ PlaceInv => RowsTakenOnce BY RowsAreTaken
<1> QED BY <1>1, <1>2, <1>3, PTL DEF Spec

-----------------------------------------------------------------------------
(* The binary search for the owner of a row. *)

LEMMA PowersGrow == \A n \in Nat : Pow2[n] > n
<1> DEFINE N == {n \in Nat : Pow2[n] > n}
<1>1. 0 \in N BY Powers
<1>2. ASSUME NEW n \in Nat, n \in N PROVE n + 1 \in N
  <2>1. Pow2[n] \in Nat /\ Pow2[n] > n /\ Pow2[n + 1] = 2 * Pow2[n] BY <1>2, Powers
  <2> QED BY <2>1
<1> HIDE DEF N
<1>3. Nat \subseteq N BY <1>1, <1>2, SetInduction
<1> QED BY <1>3 DEF N

\* The number of rounds that is enough for m entries.
LEMMA RoundsEnough ==
  ASSUME NEW m \in Nat \ {0}
  PROVE  \E n \in 1 .. m : Pow2[n] > m /\ Pow2[n - 1] <= m
<1> DEFINE S == {n \in Nat : Pow2[n] > m}
<1>1. m \in S BY PowersGrow
<1>2. PICK n \in S : \A k \in S : n <= k
  <2> S \subseteq Nat /\ S # {} BY <1>1
  <2> HIDE DEF S
  <2> QED BY WellOrder
<1>3. n \in Nat /\ n <= m /\ Pow2[n] > m BY <1>1, <1>2
<1>4. n # 0 BY <1>3, Powers
<1>5. n - 1 \in Nat /\ n - 1 \notin S BY <1>2, <1>3, <1>4
<1>6. Pow2[n - 1] \in Nat BY <1>5, Powers
<1>7. Pow2[n - 1] <= m BY <1>5, <1>6
<1> QED BY <1>3, <1>4, <1>7

Halving(p, r) ==
  LET lower == p[1]
      upper == p[2]
      middle == (lower + upper) \div 2
  IN IF r < mem.offsets[middle + 1] THEN <<lower, middle>> ELSE <<middle + 1, upper>>
Halves(f, r, n) == f = [k \in 0 .. n |-> IF k = 0 THEN <<0, NumExperts>> ELSE Halving(f[k - 1], r)]

LEMMA HalvesAre ==
  ASSUME NEW r, NEW n \in Nat, NEW f, Halves(f, r, n)
  PROVE  /\ f[0] = <<0, NumExperts>>
         /\ \A k \in Nat : k < n => f[k + 1] = Halving(f[k], r)
<1> DEFINE rhs == [k \in 0 .. n |-> IF k = 0 THEN <<0, NumExperts>> ELSE Halving(f[k - 1], r)]
<1>1. f = rhs BY DEF Halves
<1>2. \A k \in 0 .. n : rhs[k] = IF k = 0 THEN <<0, NumExperts>> ELSE Halving(f[k - 1], r) OBVIOUS
<1> HIDE DEF rhs
<1>3. \A k \in 0 .. n : f[k] = IF k = 0 THEN <<0, NumExperts>> ELSE Halving(f[k - 1], r) BY <1>1, <1>2
<1>4. ASSUME NEW k \in Nat, k < n PROVE f[k + 1] = Halving(f[k], r)
  <2>1. k + 1 \in 0 .. n /\ k + 1 # 0 /\ (k + 1) - 1 = k BY <1>4
  <2> QED BY <1>3, <2>1
<1>5. 0 \in 0 .. n OBVIOUS
<1> QED BY <1>3, <1>4, <1>5

LEMMA HalvesExist ==
  ASSUME NEW r, NEW n \in Nat
  PROVE  \E f : Halves(f, r, n)
<1> DEFINE N == {m \in Nat : \E f : Halves(f, r, m)}
<1>1. 0 \in N
  <2> DEFINE f == [k \in 0 .. 0 |-> <<0, NumExperts>>]
  <2>1. f = [k \in 0 .. 0 |-> IF k = 0 THEN <<0, NumExperts>> ELSE Halving(f[k - 1], r)]
    <3>1. \A k \in 0 .. 0 : k = 0 OBVIOUS
    <3> QED BY <3>1
  <2> HIDE DEF f
  <2>2. Halves(f, r, 0) BY <2>1 DEF Halves
  <2> QED BY <2>2
<1>2. ASSUME NEW m \in Nat, m \in N PROVE m + 1 \in N
  <2>1. PICK f : Halves(f, r, m) BY <1>2
  <2>2. /\ f[0] = <<0, NumExperts>>
        /\ \A k \in Nat : k < m => f[k + 1] = Halving(f[k], r)
    BY <2>1, HalvesAre
  <2> DEFINE h == [k \in 0 .. m + 1 |-> IF k = m + 1 THEN Halving(f[m], r) ELSE f[k]]
             rhs == [k \in 0 .. m + 1 |-> IF k = 0 THEN <<0, NumExperts>> ELSE Halving(h[k - 1], r)]
  <2>3. ASSUME NEW k \in 0 .. m + 1 PROVE h[k] = rhs[k]
    <3>1. CASE k = 0 BY <2>2, <3>1
    <3>2. CASE k = m + 1
      <4>1. h[k - 1] = f[m] BY <3>2
      <4>2. rhs[k] = Halving(h[k - 1], r) BY <3>2
      <4> QED BY <3>2, <4>1, <4>2
    <3>3. CASE k # 0 /\ k # m + 1
      <4>1. k - 1 \in Nat /\ k - 1 < m /\ (k - 1) + 1 = k /\ k - 1 \in 0 .. m + 1 /\ k - 1 # m + 1 BY <3>3
      <4>2. f[(k - 1) + 1] = Halving(f[k - 1], r) BY <2>2, <4>1
      <4>3. h[k - 1] = f[k - 1] /\ h[k] = f[k] BY <3>3, <4>1
      <4>4. rhs[k] = Halving(h[k - 1], r) BY <3>3
      <4> QED BY <4>1, <4>2, <4>3, <4>4
    <3> QED BY <3>1, <3>2, <3>3
  <2>4. h = rhs
    <3>1. h = [k \in 0 .. m + 1 |-> h[k]] /\ rhs = [k \in 0 .. m + 1 |-> rhs[k]] OBVIOUS
    <3> HIDE DEF h, rhs
    <3> QED BY <2>3, <3>1
  <2>5. Halves(h, r, m + 1)
    <3> HIDE DEF h
    <3> QED BY <2>4 DEF Halves
  <2> QED BY <2>5
<1> HIDE DEF N
<1>3. n \in N BY <1>1, <1>2, SetInduction
<1> QED BY <1>3 DEF N

\* The owner lies between the bounds.
Between(p, r) ==
  /\ p \in Nat \X Nat /\ p[1] <= p[2] /\ p[2] <= NumExperts /\ p[1] < NumExperts
  /\ \A e \in Experts : e < p[1] => RegionStart(e + 1) <= r
  /\ \A e \in Experts : e >= p[2] => r < RegionStart(e + 1)

LEMMA HalvingKeeps ==
  ASSUME NEW r \in Nat, r < RegionStart(NumExperts), NEW p, Between(p, r),
         \A e \in 0 .. NumExperts : mem.offsets[e] = RegionStart(e)
  PROVE  /\ Between(Halving(p, r), r)
         /\ 2 * (Halving(p, r)[2] - Halving(p, r)[1]) <= p[2] - p[1]
<1>1. PICK lo \in Nat, hi \in Nat : p = <<lo, hi>> BY DEF Between
<1>2. p[1] = lo /\ p[2] = hi BY <1>1
<1>3. /\ lo <= hi /\ hi <= NumExperts /\ lo < NumExperts
      /\ \A e \in Experts : e < lo => RegionStart(e + 1) <= r
      /\ \A e \in Experts : e >= hi => r < RegionStart(e + 1)
  BY <1>2 DEF Between
<1>4. PICK mid : mid = (lo + hi) \div 2 OBVIOUS
<1>5. mid \in Nat /\ lo + hi = 2 * mid + ((lo + hi) % 2) /\ (lo + hi) % 2 \in 0 .. 1
  BY <1>4, DivMod
<1>6. NumExperts \in Nat \ {0} /\ Experts = 0 .. NumExperts - 1 BY Positive DEF Experts
<1>7. lo <= mid /\ mid <= hi /\ (lo < hi => mid < hi) /\ lo + hi <= 2 * mid + 1 /\ 2 * mid <= lo + hi
  BY <1>3, <1>5
<1>8. mid \in Experts /\ mid + 1 \in 0 .. NumExperts BY <1>3, <1>5, <1>6, <1>7
<1>9. mem.offsets[mid + 1] = RegionStart(mid + 1) BY <1>8
<1>10. \A e \in Experts : RegionStart(e + 1) \in Nat
  <2>1. \A e \in Experts : e + 1 \in Nat BY <1>6
  <2> QED BY <2>1, RegionStartIs
<1>11. CASE r < RegionStart(mid + 1)
  <2>1. Halving(p, r) = <<lo, mid>> BY <1>2, <1>4, <1>9, <1>11 DEF Halving
  <2>2. ASSUME NEW e \in Experts, e >= mid PROVE r < RegionStart(e + 1)
    <3>1. mid + 1 \in Nat /\ e + 1 \in Nat /\ mid + 1 <= e + 1 BY <1>5, <1>6, <2>2
    <3>2. RegionStart(mid + 1) <= RegionStart(e + 1) BY <3>1, RegionsInOrder
    <3> QED BY <1>8, <1>10, <1>11, <3>2
  <2>3. Between(<<lo, mid>>, r)
    <3>1. <<lo, mid>> \in Nat \X Nat BY <1>5
    <3> QED BY <1>3, <1>5, <1>6, <1>7, <2>2, <3>1 DEF Between
  <2> QED BY <1>2, <1>5, <1>7, <2>1, <2>3
<1>12. CASE ~(r < RegionStart(mid + 1))
  <2>1. Halving(p, r) = <<mid + 1, hi>> BY <1>2, <1>4, <1>9, <1>12 DEF Halving
  <2>2. mid < hi BY <1>3, <1>5, <1>7, <1>8, <1>12
  <2>3. mid + 1 # NumExperts BY <1>12
  <2>4. ASSUME NEW e \in Experts, e < mid + 1 PROVE RegionStart(e + 1) <= r
    <3>1. mid + 1 \in Nat /\ e + 1 \in Nat /\ e + 1 <= mid + 1 BY <1>5, <1>6, <2>4
    <3>2. RegionStart(e + 1) <= RegionStart(mid + 1) BY <3>1, RegionsInOrder
    <3> QED BY <1>8, <1>10, <1>12, <3>2
  <2>5. Between(<<mid + 1, hi>>, r)
    <3>1. <<mid + 1, hi>> \in Nat \X Nat BY <1>5
    <3>2. mid + 1 <= hi /\ mid + 1 < NumExperts BY <1>3, <1>5, <1>6, <2>2, <2>3
    <3> QED BY <1>3, <2>4, <3>1, <3>2 DEF Between
  <2> QED BY <1>2, <1>5, <1>7, <2>1, <2>5
<1> QED BY <1>11, <1>12

LEMMA CountFirst ==
  ASSUME NEW n \in Nat
  PROVE  Cardinality(0 .. n - 1) = n
<1>1. CASE n = 0
  <2>1. 0 .. n - 1 = {} BY <1>1
  <2> QED BY <1>1, <2>1, CountEmpty
<1>2. CASE n # 0
  <2>1. n - 1 \in Int /\ 0 <= n - 1 BY <1>2
  <2>2. Cardinality(0 .. n - 1) = (n - 1) - 0 + 1 BY <2>1, FS_Interval
  <2> QED BY <2>2
<1> QED BY <1>1, <1>2

\* A row belongs to the expert as many regions end before as there are experts below it.
LEMMA OwnerIs ==
  ASSUME NEW r \in Nat, \A e \in 0 .. NumExperts : mem.offsets[e] = RegionStart(e)
  PROVE  Owner(r) = Cardinality({e \in Experts : RegionStart(e + 1) <= r})
<1>1. NumExperts \in Nat \ {0} /\ Experts = 0 .. NumExperts - 1 BY Positive DEF Experts
<1>2. mem.offsets[NumExperts] = RegionStart(NumExperts) /\ RegionStart(NumExperts) \in Nat
  BY <1>1, RegionStartIs
<1>3. \A e \in Experts : RegionStart(e + 1) \in Nat /\ RegionStart(e + 1) <= RegionStart(NumExperts)
  <2> TAKE e \in Experts
  <2>1. e + 1 \in Nat /\ e + 1 <= NumExperts BY <1>1
  <2> QED BY <1>1, <2>1, RegionStartIs, RegionsInOrder
<1>4. CASE ~(r < RegionStart(NumExperts))
  <2>1. Owner(r) = NumExperts BY <1>2, <1>4 DEF Owner
  <2>2. {e \in Experts : RegionStart(e + 1) <= r} = 0 .. NumExperts - 1 BY <1>1, <1>2, <1>3, <1>4
  <2> QED BY <1>1, <2>1, <2>2, CountFirst
<1>5. CASE r < RegionStart(NumExperts)
  <2> DEFINE steps == CHOOSE n \in 1 .. NumExperts : Pow2[n] > NumExperts /\ Pow2[n - 1] <= NumExperts
             Eq(f) == f = [n \in 0 .. steps |-> IF n = 0 THEN <<0, NumExperts>> ELSE Halving(f[n - 1], r)]
             bounds == CHOOSE f : Eq(f)
  <2>1. Owner(r) = bounds[steps][1] BY <1>2, <1>5 DEF Owner, Halving
  <2>2. steps \in 1 .. NumExperts /\ Pow2[steps] > NumExperts
    <3>1. \E n \in 1 .. NumExperts : Pow2[n] > NumExperts /\ Pow2[n - 1] <= NumExperts
      BY <1>1, RoundsEnough
    <3> QED BY <3>1
  <2>3. steps \in Nat BY <1>1, <2>2
  <2> HIDE DEF steps
  <2>4. Halves(bounds, r, steps)
    <3>1. \A f : Eq(f) <=> Halves(f, r, steps) BY DEF Halves
    <3>2. \E f : Halves(f, r, steps) BY <2>3, HalvesExist
    <3> HIDE DEF Eq
    <3>3. Eq(bounds) BY <3>1, <3>2
    <3> QED BY <3>1, <3>3
  <2> HIDE DEF bounds
  <2>5. /\ bounds[0] = <<0, NumExperts>>
        /\ \A k \in Nat : k < steps => bounds[k + 1] = Halving(bounds[k], r)
    BY <2>3, <2>4, HalvesAre
  <2> DEFINE N == {k \in Nat : k <= steps =>
                     /\ Between(bounds[k], r)
                     /\ (bounds[k][2] - bounds[k][1]) * Pow2[k] <= NumExperts}
  <2>6. 0 \in N
    <3>1. bounds[0][1] = 0 /\ bounds[0][2] = NumExperts /\ bounds[0] \in Nat \X Nat BY <1>1, <2>5
    <3>2. Between(bounds[0], r) BY <1>1, <3>1 DEF Between
    <3>3. (bounds[0][2] - bounds[0][1]) * Pow2[0] <= NumExperts BY <1>1, <3>1, Powers
    <3> QED BY <3>2, <3>3
  <2>7. ASSUME NEW k \in Nat, k \in N PROVE k + 1 \in N
    <3> SUFFICES ASSUME k + 1 <= steps
                 PROVE  /\ Between(bounds[k + 1], r)
                        /\ (bounds[k + 1][2] - bounds[k + 1][1]) * Pow2[k + 1] <= NumExperts
      OBVIOUS
    <3>1. Between(bounds[k], r) /\ (bounds[k][2] - bounds[k][1]) * Pow2[k] <= NumExperts
      BY <2>3, <2>7
    <3>2. bounds[k + 1] = Halving(bounds[k], r) BY <2>3, <2>5
    <3>3. /\ Between(bounds[k + 1], r)
          /\ 2 * (bounds[k + 1][2] - bounds[k + 1][1]) <= bounds[k][2] - bounds[k][1]
      BY <1>5, <3>1, <3>2, HalvingKeeps
    <3>4. PICK x \in Nat : x = bounds[k + 1][2] - bounds[k + 1][1] BY <3>3 DEF Between
    <3>5. PICK y \in Nat : y = bounds[k][2] - bounds[k][1] BY <3>1 DEF Between
    <3>6. Pow2[k] \in Nat /\ Pow2[k + 1] = 2 * Pow2[k] BY Powers
    <3>7. PICK m \in Nat : m = Pow2[k] BY <3>6
    <3>8. 2 * x <= y /\ y * m <= NumExperts BY <3>1, <3>3, <3>4, <3>5, <3>7
    <3>9. m * (2 * x) <= m * y BY <3>8, TimesMono
    <3>10. x * (2 * m) <= NumExperts BY <1>1, <3>8, <3>9
    <3> QED BY <3>3, <3>4, <3>6, <3>7, <3>10
  <2>8. steps \in N
    <3> HIDE DEF N
    <3> QED BY <2>3, <2>6, <2>7, SetInduction
  <2>9. PICK lo \in Nat, hi \in Nat : bounds[steps] = <<lo, hi>> BY <2>3, <2>8 DEF Between
  <2>10. bounds[steps][1] = lo /\ bounds[steps][2] = hi BY <2>9
  <2>11. /\ lo <= hi /\ lo < NumExperts /\ (hi - lo) * Pow2[steps] <= NumExperts
         /\ \A e \in Experts : e < lo => RegionStart(e + 1) <= r
         /\ \A e \in Experts : e >= hi => r < RegionStart(e + 1)
    BY <2>3, <2>8, <2>10 DEF Between
  <2>12. lo = hi
    <3> SUFFICES ASSUME lo # hi PROVE FALSE OBVIOUS
    <3>1. PICK x \in Nat \ {0} : x = hi - lo BY <2>11
    <3>2. Pow2[steps] \in Nat BY <2>3, Powers
    <3>3. PICK m \in Nat : m = Pow2[steps] BY <3>2
    <3>4. m * 1 <= m * x BY <3>1, TimesMono
    <3>5. x * m <= NumExperts /\ m > NumExperts BY <2>2, <2>11, <3>1, <3>3
    <3> QED BY <1>1, <3>4, <3>5
  <2>13. {e \in Experts : RegionStart(e + 1) <= r} = 0 .. lo - 1
    <3>1. ASSUME NEW e \in Experts PROVE RegionStart(e + 1) <= r <=> e < lo
      BY <1>1, <1>3, <2>11, <2>12
    <3> QED BY <1>1, <2>11, <3>1
  <2> QED BY <2>1, <2>10, <2>13, CountFirst
<1> QED BY <1>4, <1>5

-----------------------------------------------------------------------------
(* The metadata beside the rows. *)

MetaIndex == CASE tight -> Experts [] variant = "aligned" -> Rows [] OTHER -> RowBlocks
Finalizer(e) == IF variant = "small" THEN e + 1 ELSE e
MetaAt == IF Atomic THEN CursorAt ELSE IF variant = "align" THEN 7 ELSE 4
Above(r) == {e \in Experts : RegionStart(e + 1) <= r}
BlocksOf(e) == {b \in RowBlocks : b * Alignment \in RegionStart(e) .. RegionStart(e + 1) - 1}

\* What a thread past the segment that writes metadata has left there.
MetaInv ==
  /\ DOMAIN mem.metadata = MetaIndex
  /\ tight => \A t \in Threads : at[t] > MetaAt =>
       \A e \in Mine(t, NumExperts) : mem.metadata[e] = RegionStart(e + 1)
  /\ variant = "aligned" => \A t \in Threads : at[t] > MetaAt =>
       \A r \in Mine(t, capacity) : mem.metadata[r] = Cardinality(Above(r))
  /\ ~Atomic => \A e \in Experts : at[Finalizer(e)] > MetaAt =>
       \A b \in BlocksOf(e) : mem.metadata[b] = e

LEMMA FinalizerIs ==
  ASSUME CaseInv, ~Atomic
  PROVE  /\ variant \in {"align", "small"} /\ ~tight
         /\ \A e \in Experts : Finalizer(e) \in Threads
         /\ \A e, d \in Experts : Finalizer(e) = Finalizer(d) => e = d
<1>1. variant \in {"align", "small"} /\ ~tight BY DEF CaseInv, Variants, Atomic, tight
<1>2. NumExperts \in Nat \ {0} /\ Experts = 0 .. NumExperts - 1 BY Positive DEF Experts
<1>3. CASE variant = "align"
  <2>1. Experts \subseteq Threads BY <1>3, AlignThreads
  <2> QED BY <1>1, <1>3, <2>1 DEF Finalizer
<1>4. CASE variant = "small"
  <2>1. Threads = 0 .. Workers /\ Experts \subseteq 0 .. Workers - 1 /\ Workers \in Nat
    BY <1>4, SmallThreads
  <2> QED BY <1>1, <1>2, <1>4, <2>1 DEF Finalizer
<1> QED BY <1>1, <1>3, <1>4

LEMMA SameMeta ==
  ASSUME Same
  PROVE  /\ MetaIndex' = MetaIndex /\ MetaAt' = MetaAt /\ Atomic' = Atomic /\ tight' = tight
         /\ Threads' = Threads /\ capacity' = capacity
         /\ \A e : Finalizer(e)' = Finalizer(e) /\ BlocksOf(e)' = BlocksOf(e)
         /\ \A r : Above(r)' = Above(r)
         /\ \A t, n : Mine(t, n)' = Mine(t, n)
         /\ \A e : RegionStart(e)' = RegionStart(e)
<1>1. /\ Threads' = Threads /\ Rows' = Rows /\ tight' = tight /\ capacity' = capacity
      /\ CursorAt' = CursorAt /\ Atomic' = Atomic
  BY SameShape
<1>2. \A e : RegionStart(e)' = RegionStart(e) BY SameExpert
<1>3. \A t, n : Mine(t, n)' = Mine(t, n) BY SameMine
<1>4. RowBlocks' = RowBlocks BY <1>1 DEF RowBlocks
<1>5. MetaIndex' = MetaIndex /\ MetaAt' = MetaAt BY <1>1, <1>4 DEF MetaIndex, MetaAt, Same
<1>6. \A e : Finalizer(e)' = Finalizer(e) /\ BlocksOf(e)' = BlocksOf(e)
  BY <1>2, <1>4 DEF Finalizer, BlocksOf, Same
<1>7. \A r : Above(r)' = Above(r) BY <1>2 DEF Above
<1> QED BY <1>1, <1>2, <1>3, <1>5, <1>6, <1>7

\* A step that leaves the metadata alone, with nobody newly past its segment.
LEMMA MetaStill ==
  ASSUME CaseInv, MetaInv, Same, mem'.metadata = mem.metadata,
         \A u \in Threads : at'[u] > MetaAt => at[u] > MetaAt
  PROVE  MetaInv'
<1>1. /\ MetaIndex' = MetaIndex /\ MetaAt' = MetaAt /\ Atomic' = Atomic /\ tight' = tight
      /\ Threads' = Threads /\ capacity' = capacity
      /\ \A e : Finalizer(e)' = Finalizer(e) /\ BlocksOf(e)' = BlocksOf(e)
      /\ \A r : Above(r)' = Above(r)
      /\ \A t, n : Mine(t, n)' = Mine(t, n)
      /\ \A e : RegionStart(e)' = RegionStart(e)
  BY SameMeta
<1>2. DOMAIN mem'.metadata = MetaIndex BY DEF MetaInv
<1>3. ASSUME tight, NEW t \in Threads, at'[t] > MetaAt, NEW e \in Mine(t, NumExperts)
      PROVE  mem'.metadata[e] = RegionStart(e + 1)
  BY <1>3 DEF MetaInv
<1>4. ASSUME variant = "aligned", NEW t \in Threads, at'[t] > MetaAt, NEW r \in Mine(t, capacity)
      PROVE  mem'.metadata[r] = Cardinality(Above(r))
  BY <1>4 DEF MetaInv
<1>5. ASSUME ~Atomic, NEW e \in Experts, at'[Finalizer(e)] > MetaAt, NEW b \in BlocksOf(e)
      PROVE  mem'.metadata[b] = e
  <2>1. Finalizer(e) \in Threads BY <1>5, FinalizerIs
  <2> QED BY <1>5, <2>1 DEF MetaInv
<1>6. Experts' = Experts BY DEF Experts
<1>7. variant' = variant BY DEF Same
<1> QED BY <1>1, <1>2, <1>3, <1>4, <1>5, <1>6, <1>7 DEF MetaInv

\* A step after which nobody is past the segment yet.
LEMMA MetaVacuous ==
  ASSUME CaseInv, MetaInv, Same, DOMAIN mem'.metadata = DOMAIN mem.metadata,
         \A u \in Threads : ~(at'[u] > MetaAt)
  PROVE  MetaInv'
<1>1. /\ MetaIndex' = MetaIndex /\ MetaAt' = MetaAt /\ Atomic' = Atomic /\ tight' = tight
      /\ Threads' = Threads /\ \A e : Finalizer(e)' = Finalizer(e)
  BY SameMeta
<1>2. DOMAIN mem'.metadata = MetaIndex BY DEF MetaInv
<1>3. ~Atomic => \A e \in Experts : Finalizer(e) \in Threads BY FinalizerIs
<1>4. Experts' = Experts BY DEF Experts
<1>5. variant' = variant BY DEF Same
<1>6. ~Atomic => \A e \in Experts : ~(at'[Finalizer(e)] > MetaAt) BY <1>3
<1> QED BY <1>1, <1>2, <1>4, <1>5, <1>6 DEF MetaInv

Earlier == {"zero", "count", "totals", "prefix", "vals", "warp_excl", "cumsum", "fill_count", "column"}

LEMMA MetaEarlier ==
  ASSUME NEW t, NEW s, Moves(t, s), MetaInv, s \in Earlier, DOMAIN mem'.metadata = DOMAIN mem.metadata
  PROVE  MetaInv'
<1>1. CaseInv /\ BarrierInv BY DEF Moves, SortInv, TypeInv
<1>2. Same /\ t \in Threads /\ Stands(s, at[t]) BY MovesFacts
<1>3. /\ \A u \in Threads : /\ at[u] \in Int /\ at'[u] \in Int /\ at'[u] >= at[u]
                            /\ u # t => at'[u] = at[u]
      /\ at'[t] = at[t] + 1
  BY MovesAt
<1>4. at[t] < MetaAt /\ MetaAt \in 4 .. 7
  BY <1>2 DEF Stands, Earlier, MetaAt, CursorAt, PrefixAt, Atomic
<1>5. Len(Program) >= MetaAt /\ Len(Program) \in Nat
  <2>1. Len(Program) = CASE variant = "parallel" -> 6 [] variant = "align" -> 8 [] OTHER -> 5
    BY <1>1, ProgramIs
  <2> QED BY <2>1 DEF MetaAt, CursorAt, Atomic
<1>6. ASSUME NEW u \in Threads, at'[u] > MetaAt PROVE FALSE
  <2>1. u # t BY <1>3, <1>4, <1>6
  <2>2. at[u] > MetaAt BY <1>3, <1>6, <2>1
  <2>3. MetaAt \in 1 .. Len(Program) /\ ~(variant = "parallel" /\ MetaAt = 2) BY <1>4, <1>5
  <2>4. at[t] >= MetaAt BY <1>1, <1>2, <2>2, <2>3 DEF BarrierInv
  <2> QED BY <1>2, <1>3, <1>4, <2>4
<1> QED BY <1>1, <1>2, <1>6, MetaVacuous

\* The segment that takes the ends, or the owners of the rows, to the metadata.
LEMMA CursorMeta ==
  ASSUME NEW t, SortInv, t \in Threads, Cursor(t)
  PROVE  mem'.metadata = IF variant = "aligned" THEN Overlay(mem.metadata, Mine(t, capacity), Owner)
                         ELSE Overlay(mem.metadata, Mine(t, NumExperts), LAMBDA e : mem.offsets[e + 1])
<1>1. Moves(t, "cursor") BY DEF Moves, Cursor
<1>2. Memory BY <1>1, MovesMem
<1> DEFINE new == [b \in DOMAIN mem.counts |->
             Overlay(mem.counts[b], Mine(t, NumExperts), LAMBDA e : mem.offsets[e] + ColumnSum(b, mem.counts, e))]
           meta == IF variant = "aligned" THEN Overlay(mem.metadata, Mine(t, capacity), Owner)
                   ELSE Overlay(mem.metadata, Mine(t, NumExperts), LAMBDA e : mem.offsets[e + 1])
<1>3. mem' = [mem EXCEPT !.counts = new, !.metadata = meta] BY DEF Cursor, ColumnSum, ColumnOver
<1>4. mem'.metadata = meta
  <2> HIDE DEF new, meta
  <2> QED BY <1>2, <1>3 DEF Memory
<1> QED BY <1>4

LEMMA CursorMetaStep ==
  ASSUME NEW t, SortInv, MetaInv, t \in Threads, Cursor(t)
  PROVE  MetaInv'
<1>1. Moves(t, "cursor") /\ Atomic /\ at[t] = CursorAt BY CursorWrites
<1>2. CaseInv /\ Same BY <1>1, MovesMem, MovesFacts
<1>3. /\ MetaIndex' = MetaIndex /\ MetaAt' = MetaAt /\ Atomic' = Atomic /\ tight' = tight
      /\ Threads' = Threads /\ capacity' = capacity
      /\ \A r : Above(r)' = Above(r)
      /\ \A u, n : Mine(u, n)' = Mine(u, n)
      /\ \A e : RegionStart(e)' = RegionStart(e)
  BY <1>2, SameMeta
<1>4. mem'.metadata = IF variant = "aligned" THEN Overlay(mem.metadata, Mine(t, capacity), Owner)
                      ELSE Overlay(mem.metadata, Mine(t, NumExperts), LAMBDA e : mem.offsets[e + 1])
  BY CursorMeta
<1>5. \A e \in 0 .. NumExperts : mem.offsets[e] = RegionStart(e) BY CursorFacts
<1>6. \A u \in Threads : u # t => at'[u] = at[u] BY <1>1, MovesAt
<1>7. NumExperts \in Nat /\ Experts = 0 .. NumExperts - 1 BY Positive DEF Experts
<1>8. \A u, n : Mine(u, n) \subseteq 0 .. n - 1 BY MineIs
<1>9. \A u, n : \A x \in Mine(u, n) : x \in Mine(t, n) => u = t BY MineOnce
<1>10. CASE variant = "aligned"
  <2>1. DOMAIN mem.metadata = Rows /\ ~tight /\ MetaIndex = Rows
    BY <1>10 DEF MetaInv, MetaIndex, tight
  <2>2. /\ DOMAIN mem'.metadata = Rows
        /\ \A r \in Rows : mem'.metadata[r] = IF r \in Mine(t, capacity) THEN Owner(r) ELSE mem.metadata[r]
    BY <1>4, <1>10, <2>1 DEF Overlay
  <2>3. ASSUME NEW u \in Threads, at'[u] > MetaAt, NEW r \in Mine(u, capacity)
        PROVE  mem'.metadata[r] = Cardinality(Above(r))
    <3>1. r \in Rows BY <1>8 DEF Rows
    <3>2. CASE u = t
      <4>1. r \in Nat BY <3>1 DEF Rows
      <4>2. Owner(r) = Cardinality(Above(r)) BY <1>5, <4>1, OwnerIs DEF Above
      <4> QED BY <2>2, <2>3, <3>1, <3>2, <4>2
    <3>3. CASE u # t
      <4>1. at[u] > MetaAt BY <1>6, <2>3, <3>3
      <4>2. mem.metadata[r] = Cardinality(Above(r)) BY <1>10, <4>1 DEF MetaInv
      <4>3. r \notin Mine(t, capacity) BY <1>9, <3>3
      <4> QED BY <2>2, <3>1, <4>2, <4>3
    <3> QED BY <3>2, <3>3
  <2>4. variant' = variant BY <1>2 DEF Same
  <2> QED BY <1>1, <1>3, <2>1, <2>2, <2>3, <2>4 DEF MetaInv
<1>11. CASE variant # "aligned"
  <2>1. tight BY <1>1, <1>11 DEF Atomic, tight
  <2>2. DOMAIN mem.metadata = Experts /\ MetaIndex = Experts BY <1>11, <2>1 DEF MetaInv, MetaIndex
  <2>3. /\ DOMAIN mem'.metadata = Experts
        /\ \A e \in Experts : mem'.metadata[e] = IF e \in Mine(t, NumExperts) THEN mem.offsets[e + 1]
                                                 ELSE mem.metadata[e]
    BY <1>4, <1>11, <2>2 DEF Overlay
  <2>4. ASSUME NEW u \in Threads, at'[u] > MetaAt, NEW e \in Mine(u, NumExperts)
        PROVE  mem'.metadata[e] = RegionStart(e + 1)
    <3>1. e \in Experts BY <1>7, <1>8
    <3>2. CASE u = t
      <4>1. e + 1 \in 0 .. NumExperts BY <1>7, <3>1
      <4> QED BY <1>5, <2>3, <3>1, <3>2, <4>1
    <3>3. CASE u # t
      <4>1. at[u] > MetaAt BY <1>6, <2>4, <3>3
      <4>2. mem.metadata[e] = RegionStart(e + 1) BY <2>1, <4>1 DEF MetaInv
      <4>3. e \notin Mine(t, NumExperts) BY <1>9, <3>3
      <4> QED BY <2>3, <3>1, <4>2, <4>3
    <3> QED BY <3>2, <3>3
  <2>5. variant' = variant BY <1>2 DEF Same
  <2>6. DOMAIN mem'.metadata = MetaIndex' BY <1>3, <2>2, <2>3
  <2>7. \A u \in Threads : at'[u] > MetaAt =>
           \A e \in Mine(u, NumExperts) : mem'.metadata[e] = RegionStart(e + 1)
    BY <2>4
  <2>8. (\A u \in Threads : at[u] > MetaAt =>
           \A e \in Mine(u, NumExperts) : mem.metadata[e] = RegionStart(e + 1))'
    BY <1>3, <2>7
  <2>9. ~(~Atomic') BY <1>1, <1>3
  <2> QED BY <1>11, <2>5, <2>6, <2>8, <2>9 DEF MetaInv
<1> QED BY <1>10, <1>11

(* The blocks of a padded region. *)

LEMMA PaddedStarts ==
  ASSUME ~tight
  PROVE  \A n \in Nat : \E q \in Nat : RegionStart(n) = q * Alignment
<1> DEFINE N == {n \in Nat : \E q \in Nat : RegionStart(n) = q * Alignment}
<1>1. 0 \in N
  <2>1. RegionStart(0) = 0 * Alignment BY Positive, RegionStartIs
  <2> QED BY <2>1
<1>2. ASSUME NEW n \in Nat, n \in N PROVE n + 1 \in N
  <2>1. PICK q \in Nat : RegionStart(n) = q * Alignment BY <1>2
  <2>2. RegionStart(n + 1) = RegionStart(n) + RegionSize(n) BY RegionStartIs
  <2>3. Cardinality(RoutesTo(n)) \in Nat BY RoutesToIs
  <2>4. PICK k \in Nat : RegionSize(n) = k * Alignment
    <3>1. CeilDiv(Cardinality(RoutesTo(n)), Alignment) \in Nat BY <2>3, Positive, CeilDivBounds
    <3> QED BY <3>1 DEF RegionSize, Pad
  <2>5. RegionStart(n + 1) = (q + k) * Alignment BY <2>1, <2>2, <2>4, Positive
  <2> QED BY <2>5
<1> HIDE DEF N
<1>3. Nat \subseteq N BY <1>1, <1>2, SetInduction
<1> QED BY <1>3 DEF N

LEMMA FinalizeFacts ==
  ASSUME NEW t, SortInv, t \in Threads, Finalize(t)
  PROVE  \A e \in 0 .. NumExperts : mem.offsets[e] = RegionStart(e)
<1>1. /\ Moves(t, "finalize") /\ variant \in {"align", "small"}
      /\ at[t] = (IF variant = "align" THEN 7 ELSE 4)
  BY FinalizeWrites
<1>2. CaseInv BY <1>1, MovesMem
<1>3. \A u \in Threads : at[u] >= at[t] /\ at[u] \in Int
  <2>1. ~(variant = "parallel" /\ at[t] = 2) BY <1>1
  <2> QED BY <1>1, <2>1, AllPast
<1>4. NumExperts \in Nat \ {0} /\ Experts = 0 .. NumExperts - 1 BY Positive DEF Experts
<1>5. CASE variant = "small"
  <2>1. at[PrefixThread] > PrefixAt
    <3>1. at[PrefixThread] >= 4 /\ at[PrefixThread] \in Int BY <1>1, <1>3, <1>5, ThreadsAre
    <3> QED BY <1>5, <3>1 DEF PrefixAt
  <2> QED BY <1>5, <2>1 DEF SortInv, PrefixInv
<1>6. CASE variant = "align"
  <2>1. Experts \subseteq Threads /\ NumExperts - 1 \in Experts BY <1>2, <1>6, AlignThreads
  <2>2. \A e \in Experts : at[e] > 6 BY <1>1, <1>3, <1>6, <2>1
  <2>3. \A b, e : Cardinality(Held(b, e)) = 0
    <3>1. ReadyAt = CASE variant = "parallel" -> 6 [] variant = "align" -> 8
                     [] variant = "small" -> 4 [] OTHER -> 5
      BY <1>2, ReadyAtIs
    <3>2. at[t] < ReadyAt BY <1>1, <1>6, <3>1
    <3> QED BY <1>1, <3>2, MovesFacts, HeldIs
  <2>4. ScanInv BY DEF SortInv
  <2>5. \A e \in Experts : mem.offsets[e] = RegionStart(e) + Cardinality(Held(0, e))
    BY <1>6, <2>2, <2>4 DEF ScanInv
  <2>6. mem.offsets[NumExperts] = RegionStart(NumExperts)
    BY <1>6, <2>1, <2>2, <2>4 DEF ScanInv
  <2>7. \A e \in Experts : RegionStart(e) \in Nat
    <3>1. Experts \subseteq Nat BY <1>4
    <3> QED BY <3>1, RegionStartIs
  <2>8. \A e \in Experts : mem.offsets[e] = RegionStart(e) BY <2>3, <2>5, <2>7
  <2>9. \A e \in 0 .. NumExperts : e \in Experts \/ e = NumExperts BY <1>4
  <2> QED BY <2>6, <2>8, <2>9
<1> QED BY <1>1, <1>5, <1>6

\* The blocks between the first rows of an expert and of the next, and nobody else's.
LEMMA BlocksAre ==
  ASSUME ~tight, NEW e \in Experts, NEW d \in Nat, NEW f \in Nat,
         d = RegionStart(e), f = RegionStart(e + 1)
  PROVE  BlocksOf(e) = {b \in RowBlocks : b >= d \div Alignment /\ b < f \div Alignment}
<1>1. e \in Nat /\ e + 1 \in Nat BY Positive DEF Experts
<1>2. PICK q \in Nat : d = q * Alignment BY <1>1, PaddedStarts
<1>3. PICK p \in Nat : f = p * Alignment BY <1>1, PaddedStarts
<1>4. PICK m \in Nat \ {0} : m = Alignment BY Positive
<1>5. d = m * q /\ f = m * p /\ m * q \in Nat /\ m * p \in Nat BY <1>2, <1>3, <1>4
<1>6. d \div m = q /\ f \div m = p
  <2>1. 0 \in 0 .. m - 1 BY <1>4
  <2>2. (m * q + 0) \div m = q /\ (m * p + 0) \div m = p BY <2>1, DivModUnique
  <2>3. m * q + 0 = m * q /\ m * p + 0 = m * p BY <1>5
  <2> QED BY <1>5, <2>2, <2>3
<1>7. ASSUME NEW b \in RowBlocks
      PROVE  b * Alignment \in RegionStart(e) .. RegionStart(e + 1) - 1 <=> b >= q /\ b < p
  <2>1. b \in Nat BY DEF RowBlocks
  <2>2. PICK x \in Nat : x = m * b BY <2>1, <1>4
  <2>3. b * Alignment = x BY <1>4, <2>1, <2>2
  <2>4. b >= q => m * q <= x BY <1>4, <2>1, <2>2, TimesMono
  <2>5. b < q => x < m * q
    <3> SUFFICES ASSUME b < q PROVE x < m * q OBVIOUS
    <3>1. b + 1 <= q /\ b + 1 \in Nat BY <2>1
    <3>2. m * (b + 1) <= m * q BY <1>4, <3>1, TimesMono
    <3>3. m * (b + 1) = x + m BY <1>4, <2>1, <2>2
    <3> QED BY <1>4, <1>5, <2>2, <3>2, <3>3
  <2>6. b >= p => m * p <= x BY <1>4, <2>1, <2>2, TimesMono
  <2>7. b < p => x < m * p
    <3> SUFFICES ASSUME b < p PROVE x < m * p OBVIOUS
    <3>1. b + 1 <= p /\ b + 1 \in Nat BY <2>1
    <3>2. m * (b + 1) <= m * p BY <1>4, <3>1, TimesMono
    <3>3. m * (b + 1) = x + m BY <1>4, <2>1, <2>2
    <3> QED BY <1>4, <1>5, <2>2, <3>2, <3>3
  <2>8. PICK y \in Nat, z \in Nat : y = m * q /\ z = m * p BY <1>5
  <2>9. b >= q <=> y <= x BY <2>1, <2>2, <2>4, <2>5, <2>8
  <2>10. b < p <=> x <= z - 1 BY <2>1, <2>2, <2>6, <2>7, <2>8
  <2>11. RegionStart(e) = y /\ RegionStart(e + 1) = z BY <1>5, <2>8
  <2> QED BY <2>2, <2>3, <2>8, <2>9, <2>10, <2>11
<1> QED BY <1>4, <1>6, <1>7 DEF BlocksOf

LEMMA BlocksApart ==
  ASSUME NEW e \in Experts, NEW d \in Experts, NEW b \in BlocksOf(e), b \in BlocksOf(d)
  PROVE  e = d
<1>1. e \in Nat /\ e + 1 \in Nat /\ d \in Nat /\ d + 1 \in Nat BY Positive DEF Experts
<1>2. PICK x : x = b * Alignment OBVIOUS
<1>3. x \in RegionStart(e) .. RegionStart(e + 1) - 1 /\ x \in RegionStart(d) .. RegionStart(d + 1) - 1
  BY <1>2 DEF BlocksOf
<1>4. /\ RegionStart(e) \in Nat /\ RegionStart(e + 1) \in Nat
      /\ RegionStart(d) \in Nat /\ RegionStart(d + 1) \in Nat
  BY <1>1, RegionStartIs
<1>5. e + 1 <= d => RegionStart(e + 1) <= RegionStart(d) BY <1>1, RegionsInOrder
<1>6. d + 1 <= e => RegionStart(d + 1) <= RegionStart(e) BY <1>1, RegionsInOrder
<1>7. ~(e + 1 <= d) /\ ~(d + 1 <= e) BY <1>3, <1>4, <1>5, <1>6
<1> QED BY <1>1, <1>7

LEMMA FinalizeMeta ==
  ASSUME NEW t, SortInv, t \in Threads, Finalize(t)
  PROVE  LET d == IF variant = "small" THEN t - 1 ELSE t
         IN mem'.metadata = [b \in DOMAIN mem.metadata |->
              IF d \in Experts /\ b \in BlocksOf(d) THEN d ELSE mem.metadata[b]]
<1>1. Moves(t, "finalize") /\ variant \in {"align", "small"} BY FinalizeWrites
<1>2. Memory BY <1>1, MovesMem
<1> DEFINE d == IF variant = "small" THEN t - 1 ELSE t
           owned == IF d \notin Experts THEN {}
                    ELSE {b \in RowBlocks : /\ b >= mem.offsets[d] \div Alignment
                                            /\ b < mem.offsets[d + 1] \div Alignment}
           meta == [b \in DOMAIN mem.metadata |-> IF b \in owned THEN d ELSE mem.metadata[b]]
           blank == [r \in DOMAIN mem.rows |->
                       IF r \in (IF variant = "small" THEN {} ELSE Mine(t, capacity))
                       THEN Sentinel ELSE mem.rows[r]]
<1>3. mem' = [mem EXCEPT !.metadata = meta, !.rows = blank] BY DEF Finalize, Overlay
<1>4. mem'.metadata = meta
  <2> HIDE DEF meta, blank
  <2> QED BY <1>2, <1>3 DEF Memory
<1> HIDE DEF d
<1>5. owned = IF d \in Experts THEN BlocksOf(d) ELSE {}
  <2> SUFFICES ASSUME d \in Experts PROVE owned = BlocksOf(d) OBVIOUS
  <2>1. \A e \in 0 .. NumExperts : mem.offsets[e] = RegionStart(e) BY FinalizeFacts
  <2>2. NumExperts \in Nat /\ Experts = 0 .. NumExperts - 1 BY Positive DEF Experts
  <2>3. d \in 0 .. NumExperts /\ d + 1 \in 0 .. NumExperts /\ d \in Nat /\ d + 1 \in Nat BY <2>2
  <2>4. mem.offsets[d] = RegionStart(d) /\ mem.offsets[d + 1] = RegionStart(d + 1) BY <2>1, <2>3
  <2>5. RegionStart(d) \in Nat /\ RegionStart(d + 1) \in Nat BY <2>3, RegionStartIs
  <2>6. ~tight BY <1>1 DEF tight
  <2>7. BlocksOf(d) = {b \in RowBlocks : b >= mem.offsets[d] \div Alignment /\ b < mem.offsets[d + 1] \div Alignment}
    BY <2>4, <2>5, <2>6, BlocksAre
  <2> QED BY <2>7
<1>6. \A b : b \in owned <=> d \in Experts /\ b \in BlocksOf(d) BY <1>5
<1> HIDE DEF owned
<1>7. mem'.metadata = [b \in DOMAIN mem.metadata |->
                         IF d \in Experts /\ b \in BlocksOf(d) THEN d ELSE mem.metadata[b]]
  BY <1>4, <1>6
<1> QED BY <1>7 DEF d

LEMMA FinalizeMetaStep ==
  ASSUME NEW t, SortInv, MetaInv, t \in Threads, Finalize(t)
  PROVE  MetaInv'
<1>1. Moves(t, "finalize") /\ variant \in {"align", "small"} BY FinalizeWrites
<1>2. CaseInv /\ Same BY <1>1, MovesMem, MovesFacts
<1>3. ~Atomic /\ ~tight /\ variant # "aligned" BY <1>1 DEF Atomic, tight
<1>4. /\ MetaIndex' = MetaIndex /\ MetaAt' = MetaAt /\ Atomic' = Atomic /\ tight' = tight
      /\ \A e : Finalizer(e)' = Finalizer(e) /\ BlocksOf(e)' = BlocksOf(e)
  BY <1>2, SameMeta
<1>5. \A e \in Experts : Finalizer(e) \in Threads BY <1>2, <1>3, FinalizerIs
<1>6. \A u \in Threads : u # t => at'[u] = at[u] BY <1>1, MovesAt
<1>7. PICK d : d = (IF variant = "small" THEN t - 1 ELSE t) OBVIOUS
<1>8. mem'.metadata = [b \in DOMAIN mem.metadata |->
                         IF d \in Experts /\ b \in BlocksOf(d) THEN d ELSE mem.metadata[b]]
  BY <1>7, FinalizeMeta
<1>9. DOMAIN mem.metadata = RowBlocks /\ MetaIndex = RowBlocks BY <1>3 DEF MetaInv, MetaIndex
<1>10. /\ DOMAIN mem'.metadata = RowBlocks
       /\ \A b \in RowBlocks : mem'.metadata[b] = IF d \in Experts /\ b \in BlocksOf(d) THEN d ELSE mem.metadata[b]
  BY <1>8, <1>9
<1>11. \A e \in Experts : Finalizer(e) = t => e = d
  <2> SUFFICES ASSUME NEW e \in Experts, Finalizer(e) = t PROVE e = d OBVIOUS
  <2>1. e \in Nat BY Positive DEF Experts
  <2>2. CASE variant = "small"
    <3>1. t = e + 1 /\ d = t - 1 BY <1>7, <2>2 DEF Finalizer
    <3> QED BY <2>1, <3>1
  <2>3. CASE variant # "small" BY <1>7, <2>3 DEF Finalizer
  <2> QED BY <2>2, <2>3
<1>12. ASSUME NEW e \in Experts, at'[Finalizer(e)] > MetaAt, NEW b \in BlocksOf(e)
       PROVE  mem'.metadata[b] = e
  <2>1. b \in RowBlocks BY DEF BlocksOf
  <2>2. CASE Finalizer(e) = t BY <1>10, <1>11, <1>12, <2>1, <2>2
  <2>3. CASE Finalizer(e) # t
    <3>1. at[Finalizer(e)] > MetaAt BY <1>5, <1>6, <1>12, <2>3
    <3>2. mem.metadata[b] = e BY <1>3, <3>1 DEF MetaInv
    <3>3. d \in Experts /\ b \in BlocksOf(d) => d = e BY BlocksApart
    <3> QED BY <1>10, <2>1, <3>2, <3>3
  <2> QED BY <2>2, <2>3
<1>13. DOMAIN mem'.metadata = MetaIndex' BY <1>4, <1>9, <1>10
<1>14. variant' = variant /\ Experts' = Experts BY <1>2 DEF Same, Experts
<1> QED BY <1>3, <1>4, <1>12, <1>13, <1>14 DEF MetaInv

\* The segments before leave the metadata to those that write it.
LEMMA EarlierMeta ==
  ASSUME NEW t, SortInv, t \in Threads,
         \/ Zero(t) \/ Count(t) \/ FillCount(t) \/ Column(t) \/ Totals(t) \/ Prefix(t)
         \/ Vals(t) \/ WarpExcl(t) \/ Cumsum(t)
  PROVE  DOMAIN mem'.metadata = DOMAIN mem.metadata /\ \E s \in Earlier : Moves(t, s)
<1>1. Memory BY DEF SortInv, TypeInv, MemInv
<1>2. CASE Zero(t)
  <2>1. Moves(t, "zero") BY <1>2 DEF Moves, Zero
  <2> DEFINE new == Overlay(mem.counts[BlockIdx(t)],
                            IF variant = "parallel"
                              THEN Strided(t % BlockThreads, BlockThreads, NumExperts)
                              ELSE Mine(t, NumExperts), LAMBDA e : 0)
             cleared == [mem EXCEPT !.counts[BlockIdx(t)] = new]
             blank == Overlay(cleared.rows, Mine(t, capacity), LAMBDA r : Sentinel)
             meta == Overlay(cleared.metadata, Mine(t, capacity), LAMBDA r : NumExperts)
  <2>2. mem' = IF variant # "aligned" THEN cleared
               ELSE [cleared EXCEPT !.rows = blank, !.metadata = meta]
    BY <1>2 DEF Zero
  <2>3. DOMAIN meta = DOMAIN cleared.metadata BY DEF Overlay
  <2> HIDE DEF new, blank, meta
  <2>4. cleared.metadata = mem.metadata BY <1>1 DEF Memory
  <2>5. CASE variant # "aligned"
    <3>1. mem' = cleared BY <2>2, <2>5
    <3> QED BY <2>1, <2>4, <3>1 DEF Earlier
  <2>6. CASE variant = "aligned"
    <3>1. mem' = [cleared EXCEPT !.rows = blank, !.metadata = meta] BY <2>2, <2>6
    <3>2. mem'.metadata = meta BY <1>1, <3>1 DEF Memory
    <3> QED BY <2>1, <2>3, <2>4, <3>2 DEF Earlier
  <2> QED BY <2>5, <2>6
<1>3. CASE Count(t)
  <2>1. Moves(t, "count") BY <1>3 DEF Moves, Count
  <2> DEFINE new == [e \in Experts |-> mem.counts[BlockIdx(t)][e] + Tally(t, e)]
  <2>2. mem' = [mem EXCEPT !.counts[BlockIdx(t)] = new] BY <1>3 DEF Count
  <2> HIDE DEF new
  <2>3. mem'.metadata = mem.metadata BY <1>1, <2>2 DEF Memory
  <2> QED BY <2>1, <2>3 DEF Earlier
<1>4. CASE FillCount(t)
  <2>1. Moves(t, "fill_count") BY <1>4 DEF Moves, FillCount
  <2> DEFINE row == [e \in Experts |-> Tally(t, e)]
             blank == [r \in Rows |-> Sentinel]
  <2>2. mem' = IF t = 0 THEN [mem EXCEPT !.rows = blank] ELSE [mem EXCEPT !.counts[t] = row]
    BY <1>4 DEF FillCount
  <2> HIDE DEF row, blank
  <2>3. mem'.metadata = mem.metadata BY <1>1, <2>2 DEF Memory
  <2> QED BY <2>1, <2>3 DEF Earlier
<1>5. CASE Column(t)
  <2>1. Moves(t, "column") BY <1>5 DEF Moves, Column
  <2> DEFINE new == [k \in DOMAIN mem.counts |-> [mem.counts[k] EXCEPT ![t - 1] =
                                          ColumnRun(Workers, mem.counts, t - 1)[k]]]
  <2>2. mem' = IF t - 1 \notin Experts THEN mem ELSE [mem EXCEPT !.counts = new] BY <1>5 DEF Column, ColumnRun
  <2> HIDE DEF new
  <2>3. mem'.metadata = mem.metadata BY <1>1, <2>2 DEF Memory
  <2> QED BY <2>1, <2>3 DEF Earlier
<1>6. CASE Totals(t)
  <2>1. Moves(t, "totals") BY <1>6 DEF Moves, Totals
  <2> DEFINE new == Overlay(mem.vals, Mine(t, NumExperts), LAMBDA e : ColumnSum(Blocks, mem.counts, e))
  <2>2. mem' = [mem EXCEPT !.vals = new] BY <1>6 DEF Totals, ColumnSum, ColumnOver
  <2> HIDE DEF new
  <2>3. mem'.metadata = mem.metadata BY <1>1, <2>2 DEF Memory
  <2> QED BY <2>1, <2>3 DEF Earlier
<1>7. CASE Prefix(t)
  <2>1. Moves(t, "prefix") BY <1>7 DEF Moves, Prefix
  <2> DEFINE new == RunningSum(NumExperts, PhysicalSize)
  <2>2. mem' = IF t = (IF variant = "small" THEN 1 ELSE 0) THEN [mem EXCEPT !.offsets = new] ELSE mem
    BY <1>7 DEF Prefix
  <2> HIDE DEF new
  <2>3. mem'.metadata = mem.metadata BY <1>1, <2>2 DEF Memory
  <2> QED BY <2>1, <2>3 DEF Earlier
<1>8. CASE Vals(t)
  <2>1. Moves(t, "vals") BY <1>8 DEF Moves, Vals
  <2>2. mem' = [mem EXCEPT !.vals[t] = own_padded(t)] BY <1>8 DEF Vals
  <2>3. mem'.metadata = mem.metadata BY <1>1, <2>2 DEF Memory
  <2> QED BY <2>1, <2>3 DEF Earlier
<1>9. CASE WarpExcl(t)
  <2>1. Moves(t, "warp_excl") BY <1>9 DEF Moves, WarpExcl
  <2> DEFINE new == [w \in DOMAIN mem.warp |->
                       RunningSum(Cardinality(DOMAIN mem.warp), LAMBDA x : mem.warp[x])[w]]
  <2>2. mem' = IF t = 0 THEN [mem EXCEPT !.warp = new] ELSE mem BY <1>9 DEF WarpExcl
  <2> HIDE DEF new
  <2>3. mem'.metadata = mem.metadata BY <1>1, <2>2 DEF Memory
  <2> QED BY <2>1, <2>3 DEF Earlier
<1>10. CASE Cumsum(t)
  <2>1. Moves(t, "cumsum") BY <1>10 DEF Moves, Cumsum
  <2> DEFINE incl == mem.vals[t] + mem.warp[t \div WarpSize]
             new == [e \in DOMAIN mem.offsets |-> CASE e = t /\ t < NumExperts -> incl - own_padded(t)
                                [] e = NumExperts /\ t = NumExperts - 1 -> incl
                                [] OTHER -> mem.offsets[e]]
  <2>2. mem' = [mem EXCEPT !.offsets = new] BY <1>10 DEF Cumsum
  <2> HIDE DEF new
  <2>3. mem'.metadata = mem.metadata BY <1>1, <2>2 DEF Memory
  <2> QED BY <2>1, <2>3 DEF Earlier
<1> QED BY <1>2, <1>3, <1>4, <1>5, <1>6, <1>7, <1>8, <1>9, <1>10

LEMMA PlacingMeta ==
  ASSUME NEW t, SortInv, t \in Threads, Claim(t) \/ Store(t)
  PROVE  mem'.metadata = mem.metadata /\ Same /\ at' = at
<1>1. Memory BY DEF SortInv, TypeInv, MemInv
<1>2. CASE Claim(t)
  <2> DEFINE e == flat[Min(left[t])]
             b == IF variant = "small" THEN t - 1 ELSE BlockIdx(t)
  <2>1. mem' = IF variant = "align" THEN [mem EXCEPT !.offsets[e] = @ + 1]
               ELSE [mem EXCEPT !.counts[b][e] = @ + 1]
    BY <1>2 DEF Claim
  <2>2. Same /\ at' = at BY <1>2 DEF Claim, Same
  <2> HIDE DEF e, b
  <2> QED BY <1>1, <2>1, <2>2 DEF Memory
<1>3. CASE Store(t)
  <2>1. PICK idx, slot : idx = slot_buf[t][1] /\ slot = slot_buf[t][2] OBVIOUS
  <2>2. mem' = IF variant \in {"align", "small"} THEN [mem EXCEPT !.rows[slot] = idx]
               ELSE [mem EXCEPT !.rows[slot] = idx \div TopK, !.inverse[idx] = slot]
    BY <1>3, <2>1 DEF Store
  <2>3. Same /\ at' = at BY <1>3 DEF Store, Same
  <2> QED BY <1>1, <2>2, <2>3 DEF Memory
<1> QED BY <1>2, <1>3

LEMMA WarpMeta ==
  ASSUME NEW w \in 0 .. 1, SortInv, MetaInv, WarpScan(w)
  PROVE  MetaInv'
<1>1. /\ variant = "align" /\ Same
      /\ \A t \in Threads : at[t] >= 4 /\ at[t] \in Int
      /\ \A t \in WarpLanes(w) : at[t] = 4
      /\ at' = [t \in Threads |-> IF Warp(t) = w THEN at[t] + 1 ELSE at[t]]
  BY WarpWrites
<1>2. CaseInv /\ BarrierInv /\ Memory BY DEF SortInv, TypeInv, MemInv
<1>3. PICK n \in Nat : mem' = [mem EXCEPT !.vals = Scanned(w, n),
                                          !.warp[w] = Scanned(w, n)[(w + 1) * WarpSize - 1]]
  BY WarpWrites
<1>4. mem'.metadata = mem.metadata
  <2>1. PICK sum, last : sum = Scanned(w, n) /\ last = Scanned(w, n)[(w + 1) * WarpSize - 1] OBVIOUS
  <2>2. mem' = [mem EXCEPT !.vals = sum, !.warp[w] = last] BY <1>3, <2>1
  <2> QED BY <1>2, <2>2 DEF Memory
<1>5. MetaAt = 7 BY <1>1 DEF MetaAt, Atomic
<1>6. \A t \in Threads : Warp(t) = w => at[t] = 4
  <2>1. \A t \in Threads : t \in WarpLanes(w) <=> Warp(t) = w BY <1>1, LanesAre
  <2> QED BY <1>1, <2>1
<1>7. \A u \in Threads : at'[u] > MetaAt => at[u] > MetaAt BY <1>1, <1>5, <1>6
<1> QED BY <1>1, <1>2, <1>4, <1>7, MetaStill

LEMMA MetaSteps ==
  ASSUME SortInv, MetaInv, PermuteNext
  PROVE  MetaInv'
<1>1. CaseInv BY DEF SortInv, TypeInv
<1>2. ASSUME NEW t \in Threads, ThreadStep(t) PROVE MetaInv'
  <2>1. CASE \/ Zero(t) \/ Count(t) \/ FillCount(t) \/ Column(t) \/ Totals(t) \/ Prefix(t)
             \/ Vals(t) \/ WarpExcl(t) \/ Cumsum(t)
    <3>1. DOMAIN mem'.metadata = DOMAIN mem.metadata /\ \E s \in Earlier : Moves(t, s)
      BY <2>1, EarlierMeta
    <3> QED BY <3>1, MetaEarlier
  <2>2. CASE Cursor(t) BY <2>2, CursorMetaStep
  <2>3. CASE Finalize(t) BY <2>3, FinalizeMetaStep
  <2>4. CASE Claim(t) \/ Store(t)
    <3>1. mem'.metadata = mem.metadata /\ Same /\ at' = at BY <2>4, PlacingMeta
    <3> QED BY <1>1, <3>1, MetaStill
  <2> QED BY <1>2, <2>1, <2>2, <2>3, <2>4 DEF ThreadStep
<1>3. ASSUME NEW w \in 0 .. 1, WarpScan(w) PROVE MetaInv' BY <1>3, WarpMeta
<1> QED BY <1>2, <1>3 DEF PermuteNext

LEMMA MetaStart ==
  ASSUME Fits, Init
  PROVE  MetaInv
<1>1. CaseInv
  <2>1. SortInv BY SortStart
  <2> QED BY <2>1 DEF SortInv, TypeInv
<1>2. \A t \in Threads : at[t] = 1 BY DEF Init
<1>3. \A t \in Threads : ~(at[t] > MetaAt) BY <1>2 DEF MetaAt, CursorAt
<1>4. mem.metadata = [x \in MetaIndex |-> Unset] BY DEF Init, MetaIndex
<1>5. DOMAIN mem.metadata = MetaIndex BY <1>4
<1>6. ~Atomic => \A e \in Experts : ~(at[Finalizer(e)] > MetaAt) BY <1>1, <1>3, FinalizerIs
<1> QED BY <1>3, <1>5, <1>6 DEF MetaInv

LEMMA MetaStays ==
  ASSUME SortInv, MetaInv, UNCHANGED vars
  PROVE  MetaInv'
<1>1. CaseInv BY DEF SortInv, TypeInv
<1>2. Same /\ at' = at /\ mem'.metadata = mem.metadata BY DEF vars, Same
<1> QED BY <1>1, <1>2, MetaStill

-----------------------------------------------------------------------------
(* The end of the sort. *)

\* A table of places of the routes: each in a row of its own among those of its expert,
\* and every row of an expert taken.
Filled(place) ==
  /\ place \in [Routes -> Rows]
  /\ \A i, k \in Routes : place[i] = place[k] => i = k
  /\ \A idx \in Routes : place[idx] \in LiveRows(flat[idx])
  /\ \A idx \in Routes :
       IF variant \in {"align", "small"} THEN mem.rows[place[idx]] = idx
       ELSE mem.inverse[idx] = place[idx] /\ mem.rows[place[idx]] = idx \div TopK
  /\ \A r \in Rows : (\A idx \in Routes : place[idx] # r) => mem.rows[r] \in {Unset, Sentinel}

LEMMA SortedPlaces ==
  ASSUME SortInv, PlaceInv, Sorted
  PROVE  \E place : Filled(place)
<1>1. CaseInv BY DEF SortInv, TypeInv
<1>2. \A idx \in Routes : Home(idx) \in Threads BY <1>1, HomeIs
<1>3. Claimed = Routes /\ Stored = Routes BY <1>2 DEF Sorted, Claimed, Stored
<1>4. PICK place \in [Claimed -> Rows] : Places(place) BY DEF PlaceInv
<1>5. ASSUME NEW idx \in Routes PROVE place[idx] \in LiveRows(flat[idx])
  <2>1. PICK b, e : b = TableRow(idx) /\ e = flat[idx] OBVIOUS
  <2>2. /\ e \in Experts /\ b \in Nat
        /\ place[idx] \in First(b, e) .. First(b, e) + Cardinality(Share(b, e)) - 1
    BY <1>1, <1>3, <1>4, <2>1, PlaceInSpan
  <2>3. /\ First(b, e) \in Nat /\ Cardinality(Share(b, e)) \in Nat /\ RegionStart(e) \in Nat
        /\ RegionStart(e) <= First(b, e) /\ Cardinality(RoutesTo(e)) \in Nat
        /\ First(b, e) + Cardinality(Share(b, e)) <= RegionStart(e) + Cardinality(RoutesTo(e))
    BY <1>1, <2>2, SpanIs
  <2>4. place[idx] \in RegionStart(e) .. RegionStart(e) + Cardinality(RoutesTo(e)) - 1
    BY <2>2, <2>3
  <2> QED BY <2>1, <2>4 DEF LiveRows
<1>6. Filled(place) BY <1>3, <1>4, <1>5 DEF Places, Filled
<1> QED BY <1>6

\* As many routes as rows: none of the rows of an expert stays empty.
LEMMA AllRowsTaken ==
  ASSUME NEW place, Filled(place), NEW e \in Experts
  PROVE  /\ \A idx \in RoutesTo(e) : place[idx] \in LiveRows(e)
         /\ \A r \in LiveRows(e) : \E idx \in RoutesTo(e) : place[idx] = r
<1> DEFINE f == [idx \in RoutesTo(e) |-> place[idx]]
<1>1. e \in Nat BY Positive DEF Experts
<1>2. RoutesTo(e) \subseteq Routes /\ Cardinality(RoutesTo(e)) \in Nat BY RoutesToIs
<1>3. \A idx \in RoutesTo(e) : place[idx] \in LiveRows(e)
  BY <1>2 DEF Filled, RoutesTo
<1>4. f \in Injection(RoutesTo(e), LiveRows(e))
  <2>1. f \in [RoutesTo(e) -> LiveRows(e)] BY <1>3
  <2>2. \A i, k \in RoutesTo(e) : f[i] = f[k] => i = k BY <1>2 DEF Filled
  <2> QED BY <2>1, <2>2 DEF Injection, IsInjective
<1>5. IsFiniteSet(LiveRows(e)) /\ Cardinality(LiveRows(e)) = Cardinality(RoutesTo(e))
  <2>1. PICK s \in Nat, n \in Nat : s = RegionStart(e) /\ n = Cardinality(RoutesTo(e))
    BY <1>1, <1>2, RegionStartIs
  <2>2. LiveRows(e) = s .. (s + n - 1) BY <2>1 DEF LiveRows
  <2>3. s \in Int /\ s + n - 1 \in Int OBVIOUS
  <2>4. IsFiniteSet(s .. (s + n - 1))
        /\ Cardinality(s .. (s + n - 1)) = IF s > s + n - 1 THEN 0 ELSE (s + n - 1) - s + 1
    BY <2>3, FS_Interval
  <2> QED BY <2>1, <2>2, <2>4
<1>6. f \in Surjection(RoutesTo(e), LiveRows(e))
  <2> HIDE DEF f
  <2> QED BY <1>4, <1>5, FS_Injection
<1>7. \A r \in LiveRows(e) : \E idx \in RoutesTo(e) : f[idx] = r BY <1>6 DEF Surjection
<1> QED BY <1>3, <1>7

LEMMA PlacesCount ==
  ASSUME NEW place, Filled(place)
  PROVE  Cardinality({place[idx] : idx \in Routes}) = numel
<1> DEFINE T == {place[idx] : idx \in Routes}
<1>1. place \in Surjection(Routes, T)
  <2>1. place \in [Routes -> T] BY DEF Filled
  <2> QED BY <2>1 DEF Surjection
<1>2. place \in Injection(Routes, T)
  <2>1. place \in [Routes -> T] BY DEF Filled
  <2> QED BY <2>1 DEF Injection, IsInjective, Filled
<1>3. IsFiniteSet(Routes) BY RoutesFinite
<1> HIDE DEF T
<1>4. Cardinality(T) = Cardinality(Routes) BY <1>1, <1>2, <1>3, FS_Surjection
<1>5. Cardinality(T) = numel BY <1>4, CountRoutes
<1> QED BY <1>5 DEF T

\* A tight layout has no row that is not some expert's.
LEMMA TightRows ==
  ASSUME CaseInv, tight, NEW r \in Rows
  PROVE  \E e \in Experts : r \in LiveRows(e)
<1> DEFINE S == {n \in Nat : r < RegionStart(n)}
<1>1. NumExperts \in Nat \ {0} /\ Experts = 0 .. NumExperts - 1 BY Positive DEF Experts
<1>2. r \in Nat /\ r < RegionStart(NumExperts)
  <2>1. RegionStart(NumExperts) = numel /\ numel \in Nat BY RegionsFit, NumelPositive
  <2>2. capacity = numel BY DEF capacity, tight
  <2> QED BY <2>1, <2>2 DEF Rows
<1>3. NumExperts \in S BY <1>1, <1>2
<1>4. PICK n \in S : \A k \in S : n <= k
  <2> S \subseteq Nat /\ S # {} BY <1>3
  <2> HIDE DEF S
  <2> QED BY WellOrder
<1>5. n \in Nat /\ r < RegionStart(n) /\ n <= NumExperts BY <1>3, <1>4
<1>6. n # 0
  <2>1. RegionStart(0) = 0 BY <1>1, RegionStartIs
  <2> QED BY <1>2, <1>5, <2>1
<1>7. PICK e \in Nat : n = e + 1
  <2>1. n - 1 \in Nat /\ n = (n - 1) + 1 BY <1>5, <1>6
  <2> QED BY <2>1
<1>8. e \notin S BY <1>4, <1>5, <1>7
<1>9. RegionStart(e) \in Nat /\ RegionStart(e) <= r BY <1>2, <1>7, <1>8, RegionStartIs
<1>10. RegionStart(e + 1) = RegionStart(e) + Cardinality(RoutesTo(e)) /\ Cardinality(RoutesTo(e)) \in Nat
  BY <1>7, RegionStartIs, RegionSizeIs, RoutesToIs
<1>11. e \in Experts BY <1>1, <1>5, <1>7
<1>12. r \in RegionStart(e) .. RegionStart(e) + Cardinality(RoutesTo(e)) - 1
  BY <1>2, <1>5, <1>7, <1>9, <1>10
<1> QED BY <1>11, <1>12 DEF LiveRows

\* Every other row was blanked, and nothing was stored there.
LEMMA PaddingIs ==
  ASSUME SortInv, Sorted, NEW place, Filled(place), NEW r \in Rows, \A e \in Experts : r \notin LiveRows(e)
  PROVE  mem.rows[r] = Sentinel
<1>1. CaseInv BY DEF SortInv, TypeInv
<1>2. Len(Program) = CASE variant = "parallel" -> 6 [] variant = "align" -> 8 [] OTHER -> 5
  BY <1>1, ProgramIs
<1>3. ~tight BY <1>1, TightRows
<1>4. \A idx \in Routes : place[idx] # r
  <2>1. \A idx \in Routes : flat[idx] \in Experts BY <1>1 DEF CaseInv
  <2> QED BY <2>1 DEF Filled
<1>5. mem.rows[r] \in {Unset, Sentinel} BY <1>4 DEF Filled
<1>6. capacity \in Nat /\ r \in 0 .. capacity - 1 BY <1>1, RegionsFit DEF Rows
<1>7. PICK u \in Threads : r \in Mine(u, capacity) BY <1>6, SomebodyVisits
<1>8. 0 \in Threads BY ThreadsAre
<1>9. \E t \in Threads : Blanked(t, r)
  <2>1. CASE variant = "aligned"
    <3>1. at[u] > 1 BY <1>2, <2>1 DEF Sorted
    <3> QED BY <1>7, <2>1, <3>1 DEF Blanked
  <2>2. CASE variant = "align"
    <3>1. at[u] > 7 BY <1>2, <2>2 DEF Sorted
    <3> QED BY <1>7, <2>2, <3>1 DEF Blanked
  <2>3. CASE variant = "small"
    <3>1. at[0] > 1 BY <1>2, <1>8, <2>3 DEF Sorted
    <3> QED BY <1>8, <2>3, <3>1 DEF Blanked
  <2> QED BY <1>1, <1>3, <2>1, <2>2, <2>3 DEF CaseInv, Variants, tight
<1>10. mem.rows[r] # Unset BY <1>9 DEF SortInv, BlankInv
<1> QED BY <1>5, <1>10

LEMMA SortedMeta ==
  ASSUME SortInv, MetaInv, Sorted
  PROVE  /\ variant \in {"align", "small"} =>
              \A e \in Experts, b \in RowBlocks :
                b * Alignment \in RegionStart(e) .. RegionStart(e + 1) - 1 => mem.metadata[b] = e
         /\ tight => \A e \in Experts : mem.metadata[e] = RegionStart(e + 1)
         /\ variant = "aligned" =>
              \A r \in Rows : mem.metadata[r] = Cardinality({e \in Experts : RegionStart(e + 1) <= r})
<1>1. CaseInv BY DEF SortInv, TypeInv
<1>2. Len(Program) = CASE variant = "parallel" -> 6 [] variant = "align" -> 8 [] OTHER -> 5
  BY <1>1, ProgramIs
<1>3. \A t \in Threads : at[t] > MetaAt
  <2>1. Len(Program) > MetaAt BY <1>2 DEF MetaAt, CursorAt, Atomic
  <2> QED BY <2>1 DEF Sorted
<1>4. ASSUME variant \in {"align", "small"}, NEW e \in Experts, NEW b \in RowBlocks,
             b * Alignment \in RegionStart(e) .. RegionStart(e + 1) - 1
      PROVE  mem.metadata[b] = e
  <2>1. ~Atomic BY <1>4 DEF Atomic
  <2>2. Finalizer(e) \in Threads BY <1>1, <2>1, FinalizerIs
  <2>3. b \in BlocksOf(e) BY <1>4 DEF BlocksOf
  <2> QED BY <1>3, <2>1, <2>2, <2>3 DEF MetaInv
<1>5. ASSUME tight, NEW e \in Experts PROVE mem.metadata[e] = RegionStart(e + 1)
  <2>1. PICK u \in Threads : e \in Mine(u, NumExperts) BY Positive, SomebodyVisits DEF Experts
  <2> QED BY <1>3, <1>5, <2>1 DEF MetaInv
<1>6. ASSUME variant = "aligned", NEW r \in Rows PROVE mem.metadata[r] = Cardinality(Above(r))
  <2>1. capacity \in Nat /\ r \in 0 .. capacity - 1 BY <1>1, RegionsFit DEF Rows
  <2>2. PICK u \in Threads : r \in Mine(u, capacity) BY <2>1, SomebodyVisits
  <2> QED BY <1>3, <1>6, <2>2 DEF MetaInv
<1> QED BY <1>4, <1>5, <1>6 DEF Above

LEMMA SortIsPermutation ==
  ASSUME SortInv, PlaceInv, MetaInv
  PROVE  Permuted
<1> SUFFICES ASSUME Sorted PROVE Permuted
  BY DEF Permuted
<1>1. CaseInv BY DEF SortInv, TypeInv
<1>2. PICK place : Filled(place) BY SortedPlaces
<1>3. ASSUME NEW r \in Rows \ UNION {LiveRows(e) : e \in Experts} PROVE mem.rows[r] = Sentinel
  BY <1>2, PaddingIs
<1>4. CASE variant \in {"align", "small"}
  <2>1. ASSUME NEW e \in Experts PROVE {mem.rows[r] : r \in LiveRows(e)} = RoutesTo(e)
    <3>1. /\ \A idx \in RoutesTo(e) : place[idx] \in LiveRows(e)
          /\ \A r \in LiveRows(e) : \E idx \in RoutesTo(e) : place[idx] = r
      BY <1>2, AllRowsTaken
    <3>2. \A idx \in RoutesTo(e) : mem.rows[place[idx]] = idx BY <1>2, <1>4 DEF Filled, RoutesTo
    <3> QED BY <3>1, <3>2
  <2> QED BY <1>3, <1>4, <2>1, SortedMeta DEF Permuted
<1>5. CASE variant \notin {"align", "small"}
  <2>1. \A idx \in Routes : /\ mem.inverse[idx] = place[idx] /\ mem.inverse[idx] \in LiveRows(flat[idx])
                            /\ mem.rows[mem.inverse[idx]] = idx \div TopK
    BY <1>2, <1>5 DEF Filled
  <2>2. {mem.inverse[idx] : idx \in Routes} = {place[idx] : idx \in Routes} BY <2>1
  <2>3. Cardinality({mem.inverse[idx] : idx \in Routes}) = numel BY <1>2, <2>2, PlacesCount
  <2>4. tight \/ variant = "aligned" BY <1>1, <1>5 DEF CaseInv, Variants, tight
  <2> QED BY <1>3, <1>5, <2>1, <2>3, <2>4, SortedMeta DEF Permuted
<1> QED BY <1>4, <1>5

(***************************************************************************)
(* When the sort is over, the rows of every expert hold its routes, each   *)
(* once, all others the padding value; the inverse leads every route to    *)
(* its row; and the metadata names the ends of the regions, or the owner   *)
(* of every row, or of every row block (Permuted), whatever the numbers of *)
(* tokens, routes, experts and threads that fit (Fits).                    *)
(***************************************************************************)
THEOREM SortPermutes == ASSUME Fits PROVE Spec => []Permuted
<1> DEFINE Inv == SortInv /\ PlaceInv /\ MetaInv
<1>1. PipelineInit => Inv BY SortStart, MetaStart DEF PipelineInit
<1>2. Inv /\ [Next]_allVars => Inv'
  <2> SUFFICES ASSUME SortInv, PlaceInv, MetaInv, [Next]_allVars PROVE SortInv' /\ PlaceInv' /\ MetaInv'
    OBVIOUS
  <2>1. CASE Permute BY <2>1, SortSteps, MetaSteps DEF Permute
  <2>2. CASE UNCHANGED vars BY <2>2, SortStays, MetaStays
  <2>3. [Next]_allVars => Permute \/ UNCHANGED vars
    BY DEF Next, Gather, Down, Finished, CtaNext, Unpermute, Wave, TakeTile, Barrier, ReadTile, Compute, CtaStep, allVars
  <2> QED BY <2>1, <2>2, <2>3
<1>3. Inv => Permuted BY SortIsPermutation
<1> QED BY <1>1, <1>2, <1>3, PTL DEF Spec

-----------------------------------------------------------------------------
(* The number of a tile. *)

LEMMA TileSizes ==
  /\ NumSms \in Nat \ {0} /\ BlockM \in Nat \ {0} /\ NumBlocksN \in Nat \ {0} /\ BlocksPerGroup \in Nat \ {0}
  /\ NumBlocksN * BlocksPerGroup \in Nat \ {0}
<1>1. NumSms \in Nat \ {0} /\ BlockM \in Nat \ {0} /\ NumBlocksN \in Nat \ {0} /\ BlocksPerGroup \in Nat \ {0}
  BY PipelineAssumption
<1>2. NumBlocksN * 1 <= NumBlocksN * BlocksPerGroup /\ NumBlocksN * BlocksPerGroup \in Nat
  <2>1. 1 <= BlocksPerGroup BY <1>1
  <2> QED BY <1>1, <2>1, TimesMono
<1>3. NumBlocksN * BlocksPerGroup # 0 BY <1>1, <1>2
<1> QED BY <1>1, <1>2, <1>3

\* Where the swizzle puts a tile, in the terms of its own computation.
Swizzled(b, h, q, i, height, m, n) ==
  /\ q \in Nat /\ i \in Nat /\ height \in Nat \ {0} /\ m \in Nat /\ n \in Nat
  /\ b = (NumBlocksN * BlocksPerGroup) * q + i
  /\ height = Lesser(BlocksPerGroup, h - q * BlocksPerGroup)
  /\ i = height * n + (m - q * BlocksPerGroup)
  /\ m - q * BlocksPerGroup \in 0 .. height - 1

LEMMA SwizzleIs ==
  ASSUME NEW h \in Nat, NEW b \in Nat, b < h * NumBlocksN
  PROVE  /\ swizzle_block(b, h).m \in 0 .. h - 1
         /\ swizzle_block(b, h).n \in 0 .. NumBlocksN - 1
         /\ \E q, i, height : Swizzled(b, h, q, i, height, swizzle_block(b, h).m, swizzle_block(b, h).n)
<1>1. PICK G \in Nat \ {0}, N \in Nat \ {0}, NG \in Nat \ {0} :
        G = BlocksPerGroup /\ N = NumBlocksN /\ NG = NumBlocksN * BlocksPerGroup
  BY TileSizes
<1>2. PICK q, i : q = b \div NG /\ i = b % NG OBVIOUS
<1>3. q \in Nat /\ i \in 0 .. NG - 1 /\ b = NG * q + i BY <1>2, DivMod
<1>4. PICK first \in Nat : first = q * G /\ first = G * q BY <1>3, <1>1, TimesMono
<1>5. NG * q = N * first
  <2>1. (N * G) * q = N * (G * q) BY <1>1, <1>3
  <2> QED BY <1>1, <1>4, <2>1
<1>6. first < h
  <2> SUFFICES ASSUME h <= first PROVE FALSE BY <1>4
  <2>1. N * h <= N * first /\ N * first \in Nat BY <1>1, <1>4, TimesMono
  <2>2. N * h = h * N BY <1>1
  <2> QED BY <1>1, <1>3, <1>5, <2>1, <2>2
<1>7. PICK height : height = Lesser(G, h - first) OBVIOUS
<1>8. height \in Nat \ {0} /\ height <= G /\ first + height <= h BY <1>1, <1>4, <1>6, <1>7 DEF Lesser
<1>9. i < N * height
  <2>1. CASE height = G
    <3>1. N * G = NG BY <1>1
    <3> QED BY <1>3, <2>1, <3>1
  <2>2. CASE height # G
    <3>1. height = h - first BY <1>7, <2>2 DEF Lesser
    <3>2. N * height = N * h - N * first BY <1>1, <1>4, <3>1
    <3>3. N * h = h * N BY <1>1
    <3>4. N * first \in Nat /\ N * h \in Nat BY <1>1, <1>4, TimesMono
    <3>5. PICK x \in Nat, y \in Nat : x = N * first /\ y = N * h BY <3>4
    <3> QED BY <1>1, <1>3, <1>5, <3>2, <3>3, <3>5
  <2> QED BY <2>1, <2>2
<1>10. PICK n, s : n = i \div height /\ s = i % height OBVIOUS
<1>11. n \in Nat /\ s \in 0 .. height - 1 /\ i = height * n + s
  <2>1. i \in Nat BY <1>1, <1>3
  <2> QED BY <1>8, <1>10, <2>1, DivMod
<1>12. n < N
  <2> SUFFICES ASSUME N <= n PROVE FALSE BY <1>1, <1>11
  <2>1. height * N <= height * n /\ height * N = N * height BY <1>1, <1>8, <1>11, TimesMono
  <2>2. height * n \in Nat /\ height * N \in Nat BY <1>1, <1>8, <1>11, TimesMono
  <2>3. PICK x \in Nat, y \in Nat : x = height * N /\ y = height * n BY <2>2
  <2> QED BY <1>9, <1>11, <2>1, <2>3
<1>13. swizzle_block(b, h) = [m |-> first + s, n |-> n]
  BY <1>1, <1>2, <1>4, <1>7, <1>10 DEF swizzle_block
<1>14. PICK m : m = first + s OBVIOUS
<1>15. swizzle_block(b, h).m = m /\ swizzle_block(b, h).n = n BY <1>13, <1>14
<1>16. m \in 0 .. h - 1 /\ m - first = s BY <1>4, <1>8, <1>11, <1>14
<1>17. Swizzled(b, h, q, i, height, m, n)
  BY <1>1, <1>3, <1>4, <1>7, <1>8, <1>11, <1>16 DEF Swizzled
<1> QED BY <1>11, <1>12, <1>1, <1>15, <1>16, <1>17

\* No two tiles lie in one place.
LEMMA SwizzleOnce ==
  ASSUME NEW h \in Nat, NEW b1 \in Nat, b1 < h * NumBlocksN, NEW b2 \in Nat, b2 < h * NumBlocksN,
         swizzle_block(b1, h).m = swizzle_block(b2, h).m, swizzle_block(b1, h).n = swizzle_block(b2, h).n
  PROVE  b1 = b2
<1>1. PICK m, n : m = swizzle_block(b1, h).m /\ n = swizzle_block(b1, h).n OBVIOUS
<1>2. PICK q1, i1, h1 : Swizzled(b1, h, q1, i1, h1, m, n) BY <1>1, SwizzleIs
<1>3. PICK q2, i2, h2 : Swizzled(b2, h, q2, i2, h2, m, n) BY <1>1, SwizzleIs
<1>4. BlocksPerGroup \in Nat \ {0} BY TileSizes
<1>5. PICK f1 \in Nat, f2 \in Nat : f1 = q1 * BlocksPerGroup /\ f2 = q2 * BlocksPerGroup
  <2>1. q1 \in Nat /\ q2 \in Nat BY <1>2, <1>3 DEF Swizzled
  <2>2. BlocksPerGroup * q1 \in Nat /\ BlocksPerGroup * q2 \in Nat BY <1>4, <2>1, TimesMono
  <2>3. BlocksPerGroup * q1 = q1 * BlocksPerGroup /\ BlocksPerGroup * q2 = q2 * BlocksPerGroup BY <1>4, <2>1
  <2> QED BY <2>2, <2>3
<1>6. /\ q1 \in Nat /\ h1 \in Nat \ {0} /\ m \in Nat /\ m - f1 \in 0 .. h1 - 1 /\ h1 <= BlocksPerGroup
      /\ q2 \in Nat /\ h2 \in Nat \ {0} /\ m - f2 \in 0 .. h2 - 1 /\ h2 <= BlocksPerGroup
  BY <1>2, <1>3, <1>4, <1>5 DEF Swizzled, Lesser
<1>7. q1 = q2
  <2>1. PICK s1 \in 0 .. BlocksPerGroup - 1, s2 \in 0 .. BlocksPerGroup - 1 : s1 = m - f1 /\ s2 = m - f2
    BY <1>4, <1>6
  <2>2. m = BlocksPerGroup * q1 + s1 /\ m = BlocksPerGroup * q2 + s2
    <3>1. BlocksPerGroup * q1 = f1 /\ BlocksPerGroup * q2 = f2 BY <1>4, <1>5, <1>6
    <3> QED BY <1>5, <1>6, <2>1, <3>1
  <2>3. m \div BlocksPerGroup = q1 BY <1>4, <1>6, <2>1, <2>2, DivModUnique
  <2>4. m \div BlocksPerGroup = q2 BY <1>4, <1>6, <2>1, <2>2, DivModUnique
  <2> QED BY <2>3, <2>4
<1>8. h1 = h2 BY <1>2, <1>3, <1>7 DEF Swizzled
<1>9. i1 = i2 BY <1>2, <1>3, <1>7, <1>8 DEF Swizzled
<1> QED BY <1>2, <1>3, <1>7, <1>9 DEF Swizzled

-----------------------------------------------------------------------------
(* The binary search for the group of a tile. *)

LEMMA SearchStepsEnough ==
  /\ search_steps \in 1 .. NumExperts
  /\ Pow2[search_steps] >= NumExperts
<1> DEFINE good(n) == Pow2[n] >= NumExperts /\ (n = 1 \/ Pow2[n - 1] < NumExperts)
           S == {n \in Nat \ {0} : Pow2[n] >= NumExperts}
<1>1. NumExperts \in Nat \ {0} BY Positive
<1>2. NumExperts \in S
  <2>1. Pow2[NumExperts] > NumExperts /\ Pow2[NumExperts] \in Nat BY <1>1, PowersGrow, Powers
  <2> QED BY <1>1, <2>1
<1>3. PICK n \in S : \A k \in S : n <= k
  <2> S \subseteq Nat /\ S # {} BY <1>2
  <2> HIDE DEF S
  <2> QED BY WellOrder
<1>4. n \in 1 .. NumExperts BY <1>1, <1>2, <1>3
<1>5. n # 1 => Pow2[n - 1] < NumExperts
  <2> SUFFICES ASSUME n # 1 PROVE Pow2[n - 1] < NumExperts OBVIOUS
  <2>1. n - 1 \in Nat \ {0} /\ n - 1 \notin S BY <1>3, <1>4
  <2>2. Pow2[n - 1] \in Nat BY <2>1, Powers
  <2> QED BY <1>1, <2>1, <2>2
<1>6. good(n) BY <1>3, <1>5
<1>7. search_steps = CHOOSE k \in 1 .. NumExperts : good(k) BY DEF search_steps
<1> HIDE DEF good
<1>8. search_steps \in 1 .. NumExperts /\ good(search_steps) BY <1>4, <1>6, <1>7
<1> QED BY <1>8 DEF good

\* A function applied again and again.
Iterated(f, H, x, n) == f = [k \in 0 .. n |-> IF k = 0 THEN x ELSE H[f[k - 1]]]

LEMMA IteratesExist ==
  ASSUME NEW P, NEW H \in [P -> P], NEW x \in P, NEW n \in Nat
  PROVE  \E f \in [0 .. n -> P] : Iterated(f, H, x, n)
<1> DEFINE Good(f, m) == f \in [0 .. m -> P] /\ f[0] = x /\ \A k \in 0 .. m - 1 : f[k + 1] = H[f[k]]
           N == {m \in Nat : \E f : Good(f, m)}
<1>1. 0 \in N
  <2>1. Good([k \in 0 .. 0 |-> x], 0) OBVIOUS
  <2> QED BY <2>1
<1>2. ASSUME NEW m \in Nat, m \in N PROVE m + 1 \in N
  <2>1. PICK f : Good(f, m) BY <1>2
  <2>2. f[m] \in P BY <2>1
  <2> DEFINE h == [k \in 0 .. m + 1 |-> IF k = m + 1 THEN H[f[m]] ELSE f[k]]
  <2>3. h \in [0 .. m + 1 -> P] BY <2>1, <2>2
  <2>4. h[0] = x BY <2>1
  <2>5. ASSUME NEW k \in 0 .. (m + 1) - 1 PROVE h[k + 1] = H[h[k]]
    <3>1. CASE k = m BY <3>1
    <3>2. CASE k # m BY <3>2, <2>1
    <3> QED BY <3>1, <3>2
  <2>6. Good(h, m + 1)
    <3> HIDE DEF h
    <3> QED BY <2>3, <2>4, <2>5
  <2> QED BY <2>6
<1>3. n \in N
  <2> HIDE DEF N
  <2> QED BY <1>1, <1>2, SetInduction
<1>4. PICK f : Good(f, n) BY <1>3
<1> DEFINE rhs == [k \in 0 .. n |-> IF k = 0 THEN x ELSE H[f[k - 1]]]
<1>5. ASSUME NEW k \in 0 .. n PROVE f[k] = rhs[k]
  <2>1. CASE k = 0 BY <1>4, <2>1
  <2>2. CASE k # 0
    <3>1. k - 1 \in 0 .. n - 1 /\ (k - 1) + 1 = k BY <2>2
    <3>2. f[(k - 1) + 1] = H[f[k - 1]] BY <1>4, <3>1
    <3> QED BY <2>2, <3>1, <3>2
  <2> QED BY <2>1, <2>2
<1>6. f = rhs
  <2>1. rhs = [k \in 0 .. n |-> rhs[k]] OBVIOUS
  <2>2. f = [k \in 0 .. n |-> f[k]] BY <1>4
  <2> HIDE DEF rhs
  <2> QED BY <1>5, <2>1, <2>2
<1> QED BY <1>4, <1>6 DEF Iterated

Middle(p) == (p[1] + p[2]) \div 2
Narrowed(p, low) == IF low THEN <<Middle(p) + 1, p[2]>> ELSE <<p[1], Middle(p)>>

\* Rounds that keep the group between the bounds leave it alone.
LEMMA SearchFinds ==
  ASSUME NEW t \in Experts, NEW f, f[0] = <<0, NumExperts - 1>>,
         \A k \in Nat : k < search_steps /\ Middle(f[k]) \in Experts =>
            f[k + 1] = Narrowed(f[k], Middle(f[k]) < t)
  PROVE  f[search_steps][1] = t
<1>1. NumExperts \in Nat \ {0} /\ Experts = 0 .. NumExperts - 1 BY Positive DEF Experts
<1>2. search_steps \in Nat /\ Pow2[search_steps] >= NumExperts BY <1>1, SearchStepsEnough
<1> DEFINE N == {k \in Nat : k <= search_steps =>
                   \E lo, hi \in Nat : /\ f[k] = <<lo, hi>> /\ lo <= t /\ t <= hi /\ hi < NumExperts
                                       /\ (hi - lo) * Pow2[k] <= NumExperts - 1}
<1>3. 0 \in N
  <2>1. 0 \in Nat /\ NumExperts - 1 \in Nat /\ f[0] = <<0, NumExperts - 1>> BY <1>1
  <2>2. ((NumExperts - 1) - 0) * Pow2[0] <= NumExperts - 1 BY <1>1, Powers
  <2> QED BY <1>1, <2>1, <2>2
<1>4. ASSUME NEW k \in Nat, k \in N PROVE k + 1 \in N
  <2> SUFFICES ASSUME k + 1 <= search_steps
               PROVE  \E lo, hi \in Nat : /\ f[k + 1] = <<lo, hi>> /\ lo <= t /\ t <= hi /\ hi < NumExperts
                                          /\ (hi - lo) * Pow2[k + 1] <= NumExperts - 1
    OBVIOUS
  <2>1. PICK lo \in Nat, hi \in Nat :
           /\ f[k] = <<lo, hi>> /\ lo <= t /\ t <= hi /\ hi < NumExperts
           /\ (hi - lo) * Pow2[k] <= NumExperts - 1
    BY <1>2, <1>4
  <2>8. t \in Nat /\ lo <= t /\ t <= hi /\ lo <= hi BY <1>1, <2>1
  <2>2. PICK mid : mid = (lo + hi) \div 2 OBVIOUS
  <2>3. mid \in Nat /\ lo + hi = 2 * mid + ((lo + hi) % 2) /\ (lo + hi) % 2 \in 0 .. 1
    BY <2>2, DivMod
  <2>4. lo <= mid /\ mid <= hi /\ lo + hi <= 2 * mid + 1 /\ 2 * mid <= lo + hi BY <2>3, <2>8
  <2>5. Middle(f[k]) = mid /\ f[k][1] = lo /\ f[k][2] = hi BY <2>1, <2>2 DEF Middle
  <2>6. mid \in Experts BY <1>1, <2>1, <2>3, <2>4
  <2>7. f[k + 1] = Narrowed(f[k], mid < t) BY <1>2, <2>5, <2>6
  <2>9. PICK lo2 \in Nat, hi2 \in Nat :
          /\ f[k + 1] = <<lo2, hi2>> /\ lo2 <= t /\ t <= hi2 /\ hi2 < NumExperts
          /\ 2 * (hi2 - lo2) <= hi - lo
    <3>1. CASE mid < t
      <4>1. f[k + 1] = <<mid + 1, hi>> BY <2>5, <2>7, <3>1 DEF Narrowed
      <4>2. mid + 1 \in Nat /\ mid + 1 <= t /\ 2 * (hi - (mid + 1)) <= hi - lo BY <2>1, <2>3, <2>4, <2>8, <3>1
      <4> QED BY <2>1, <4>1, <4>2
    <3>2. CASE ~(mid < t)
      <4>1. f[k + 1] = <<lo, mid>> BY <2>5, <2>7, <3>2 DEF Narrowed
      <4>2. t <= mid /\ mid < NumExperts /\ 2 * (mid - lo) <= hi - lo BY <1>1, <2>1, <2>3, <2>4, <2>8, <3>2
      <4> QED BY <2>1, <2>3, <4>1, <4>2
    <3> QED BY <3>1, <3>2
  <2>10. PICK x \in Nat, y \in Nat : x = hi2 - lo2 /\ y = hi - lo
    <3>1. lo2 <= hi2 BY <2>8, <2>9
    <3>2. hi2 - lo2 \in Nat /\ hi - lo \in Nat BY <2>8, <3>1
    <3> QED BY <3>2
  <2>11. Pow2[k] \in Nat /\ Pow2[k + 1] = 2 * Pow2[k] BY Powers
  <2>12. PICK p \in Nat : p = Pow2[k] BY <2>11
  <2>13. p * (2 * x) <= p * y BY <2>9, <2>10, TimesMono
  <2>14. y * p <= NumExperts - 1 BY <2>1, <2>10, <2>12
  <2>15. x * (2 * p) <= NumExperts - 1 BY <1>1, <2>13, <2>14
  <2> QED BY <2>9, <2>10, <2>11, <2>12, <2>15
<1>5. search_steps \in N
  <2> HIDE DEF N
  <2> QED BY <1>2, <1>3, <1>4, SetInduction
<1>6. PICK lo \in Nat, hi \in Nat :
        /\ f[search_steps] = <<lo, hi>> /\ lo <= t /\ t <= hi
        /\ (hi - lo) * Pow2[search_steps] <= NumExperts - 1
  BY <1>2, <1>5
<1>7. t \in Nat BY <1>1
<1>8. lo = hi
  <2> SUFFICES ASSUME lo # hi PROVE FALSE OBVIOUS
  <2>1. PICK x \in Nat \ {0} : x = hi - lo BY <1>6, <1>7
  <2>2. Pow2[search_steps] \in Nat BY <1>2, Powers
  <2>3. PICK m \in Nat : m = Pow2[search_steps] BY <2>2
  <2>4. m * 1 <= m * x BY <2>1, TimesMono
  <2>5. x * m <= NumExperts - 1 /\ m >= NumExperts BY <1>2, <1>6, <2>1, <2>3
  <2> QED BY <1>1, <2>4, <2>5
<1> QED BY <1>6, <1>7, <1>8

\* The two searches: for the group of a tile number, and for that of a row block.
TileGroup(h, b) == Search(LAMBDA mid : h[mid + 1] * NumBlocksN <= b)
BlockGroup(h, m) == Search(LAMBDA mid : h[mid + 1] <= m)

LEMMA MiddleIsNat == \A p \in Nat \X Nat : Middle(p) \in Nat
<1> TAKE p \in Nat \X Nat
<1>1. p[1] + p[2] \in Nat OBVIOUS
<1> QED BY <1>1, DivMod DEF Middle

LEMMA TileGroupIs ==
  ASSUME NEW h, NEW b, NEW t \in Experts,
         \A e \in Experts : h[e + 1] * NumBlocksN <= b <=> e < t
  PROVE  TileGroup(h, b) = t
<1> DEFINE Eq(f) == f = [n \in 0 .. search_steps |->
                      IF n = 0 THEN <<0, NumExperts - 1>>
                      ELSE LET lo == f[n - 1][1]
                               hi == f[n - 1][2]
                               mid == (lo + hi) \div 2
                           IN IF h[mid + 1] * NumBlocksN <= b THEN <<mid + 1, hi>> ELSE <<lo, mid>>]
           bounds == CHOOSE f : Eq(f)
           H == [p \in Nat \X Nat |-> Narrowed(p, h[Middle(p) + 1] * NumBlocksN <= b)]
<1>1. NumExperts \in Nat \ {0} /\ search_steps \in Nat BY Positive, SearchStepsEnough
<1>2. TileGroup(h, b) = bounds[search_steps][1] BY DEF TileGroup, Search
<1>3. H \in [Nat \X Nat -> Nat \X Nat]
  <2> SUFFICES ASSUME NEW p \in Nat \X Nat
               PROVE  Narrowed(p, h[Middle(p) + 1] * NumBlocksN <= b) \in Nat \X Nat
    OBVIOUS
  <2>1. Middle(p) \in Nat /\ p[1] \in Nat /\ p[2] \in Nat BY MiddleIsNat
  <2> QED BY <2>1 DEF Narrowed
<1>4. <<0, NumExperts - 1>> \in Nat \X Nat BY <1>1
<1>5. PICK g \in [0 .. search_steps -> Nat \X Nat] :
        Iterated(g, H, <<0, NumExperts - 1>>, search_steps)
  <2> HIDE DEF H
  <2>1. PICK P : P = Nat \X Nat OBVIOUS
  <2>2. PICK x : x = <<0, NumExperts - 1>> OBVIOUS
  <2>3. H \in [P -> P] /\ x \in P BY <1>3, <1>4, <2>1, <2>2
  <2>4. \E g \in [0 .. search_steps -> P] : Iterated(g, H, x, search_steps)
    BY <1>1, <2>3, IteratesExist
  <2> QED BY <2>1, <2>2, <2>4
<1>6. Eq(g)
  <2>1. ASSUME NEW k \in 0 .. search_steps, k # 0
        PROVE  H[g[k - 1]] = Narrowed(g[k - 1], h[Middle(g[k - 1]) + 1] * NumBlocksN <= b)
    <3>1. k - 1 \in 0 .. search_steps BY <1>1, <2>1
    <3>2. g[k - 1] \in Nat \X Nat BY <3>1
    <3> QED BY <3>2
  <2> HIDE DEF H
  <2>2. g = [k \in 0 .. search_steps |-> IF k = 0 THEN <<0, NumExperts - 1>>
                ELSE Narrowed(g[k - 1], h[Middle(g[k - 1]) + 1] * NumBlocksN <= b)]
    BY <1>5, <2>1 DEF Iterated
  <2> QED BY <2>2 DEF Narrowed, Middle
<1>7. Eq(bounds)
  <2> HIDE DEF Eq
  <2> QED BY <1>6
<1> DEFINE rhs == [k \in 0 .. search_steps |-> IF k = 0 THEN <<0, NumExperts - 1>>
                ELSE Narrowed(bounds[k - 1], h[Middle(bounds[k - 1]) + 1] * NumBlocksN <= b)]
<1>8. bounds = rhs
  <2> HIDE DEF bounds
  <2> QED BY <1>7 DEF Narrowed, Middle
<1> HIDE DEF bounds
<1>9. \A k \in 0 .. search_steps : rhs[k] = IF k = 0 THEN <<0, NumExperts - 1>>
                ELSE Narrowed(bounds[k - 1], h[Middle(bounds[k - 1]) + 1] * NumBlocksN <= b)
  OBVIOUS
<1> HIDE DEF rhs, Eq, H
<1>10. bounds[0] = <<0, NumExperts - 1>> BY <1>1, <1>8, <1>9
<1>11. ASSUME NEW k \in Nat, k < search_steps, Middle(bounds[k]) \in Experts
       PROVE  bounds[k + 1] = Narrowed(bounds[k], Middle(bounds[k]) < t)
  <2>1. k + 1 \in 0 .. search_steps /\ k + 1 # 0 /\ (k + 1) - 1 = k BY <1>1, <1>11
  <2>2. bounds[k + 1] = Narrowed(bounds[k], h[Middle(bounds[k]) + 1] * NumBlocksN <= b) BY <1>8, <1>9, <2>1
  <2>3. h[Middle(bounds[k]) + 1] * NumBlocksN <= b <=> Middle(bounds[k]) < t BY <1>11
  <2> QED BY <2>2, <2>3 DEF Narrowed
<1> QED BY <1>2, <1>10, <1>11, SearchFinds

LEMMA BlockGroupIs ==
  ASSUME NEW h, NEW m, NEW t \in Experts,
         \A e \in Experts : h[e + 1] <= m <=> e < t
  PROVE  BlockGroup(h, m) = t
<1> DEFINE Eq(f) == f = [n \in 0 .. search_steps |->
                      IF n = 0 THEN <<0, NumExperts - 1>>
                      ELSE LET lo == f[n - 1][1]
                               hi == f[n - 1][2]
                               mid == (lo + hi) \div 2
                           IN IF h[mid + 1] <= m THEN <<mid + 1, hi>> ELSE <<lo, mid>>]
           bounds == CHOOSE f : Eq(f)
           H == [p \in Nat \X Nat |-> Narrowed(p, h[Middle(p) + 1] <= m)]
<1>1. NumExperts \in Nat \ {0} /\ search_steps \in Nat BY Positive, SearchStepsEnough
<1>2. BlockGroup(h, m) = bounds[search_steps][1] BY DEF BlockGroup, Search
<1>3. H \in [Nat \X Nat -> Nat \X Nat]
  <2> SUFFICES ASSUME NEW p \in Nat \X Nat
               PROVE  Narrowed(p, h[Middle(p) + 1] <= m) \in Nat \X Nat
    OBVIOUS
  <2>1. Middle(p) \in Nat /\ p[1] \in Nat /\ p[2] \in Nat BY MiddleIsNat
  <2> QED BY <2>1 DEF Narrowed
<1>4. <<0, NumExperts - 1>> \in Nat \X Nat BY <1>1
<1>5. PICK g \in [0 .. search_steps -> Nat \X Nat] :
        Iterated(g, H, <<0, NumExperts - 1>>, search_steps)
  <2> HIDE DEF H
  <2>1. PICK P : P = Nat \X Nat OBVIOUS
  <2>2. PICK x : x = <<0, NumExperts - 1>> OBVIOUS
  <2>3. H \in [P -> P] /\ x \in P BY <1>3, <1>4, <2>1, <2>2
  <2>4. \E g \in [0 .. search_steps -> P] : Iterated(g, H, x, search_steps)
    BY <1>1, <2>3, IteratesExist
  <2> QED BY <2>1, <2>2, <2>4
<1>6. Eq(g)
  <2>1. ASSUME NEW k \in 0 .. search_steps, k # 0
        PROVE  H[g[k - 1]] = Narrowed(g[k - 1], h[Middle(g[k - 1]) + 1] <= m)
    <3>1. k - 1 \in 0 .. search_steps BY <1>1, <2>1
    <3>2. g[k - 1] \in Nat \X Nat BY <3>1
    <3> QED BY <3>2
  <2> HIDE DEF H
  <2>2. g = [k \in 0 .. search_steps |-> IF k = 0 THEN <<0, NumExperts - 1>>
                ELSE Narrowed(g[k - 1], h[Middle(g[k - 1]) + 1] <= m)]
    BY <1>5, <2>1 DEF Iterated
  <2> QED BY <2>2 DEF Narrowed, Middle
<1>7. Eq(bounds)
  <2> HIDE DEF Eq
  <2> QED BY <1>6
<1> DEFINE rhs == [k \in 0 .. search_steps |-> IF k = 0 THEN <<0, NumExperts - 1>>
                ELSE Narrowed(bounds[k - 1], h[Middle(bounds[k - 1]) + 1] <= m)]
<1>8. bounds = rhs
  <2> HIDE DEF bounds
  <2> QED BY <1>7 DEF Narrowed, Middle
<1> HIDE DEF bounds
<1>9. \A k \in 0 .. search_steps : rhs[k] = IF k = 0 THEN <<0, NumExperts - 1>>
                ELSE Narrowed(bounds[k - 1], h[Middle(bounds[k - 1]) + 1] <= m)
  OBVIOUS
<1> HIDE DEF rhs, Eq, H
<1>10. bounds[0] = <<0, NumExperts - 1>> BY <1>1, <1>8, <1>9
<1>11. ASSUME NEW k \in Nat, k < search_steps, Middle(bounds[k]) \in Experts
       PROVE  bounds[k + 1] = Narrowed(bounds[k], Middle(bounds[k]) < t)
  <2>1. k + 1 \in 0 .. search_steps /\ k + 1 # 0 /\ (k + 1) - 1 = k BY <1>1, <1>11
  <2>2. bounds[k + 1] = Narrowed(bounds[k], h[Middle(bounds[k]) + 1] <= m) BY <1>8, <1>9, <2>1
  <2>3. h[Middle(bounds[k]) + 1] <= m <=> Middle(bounds[k]) < t BY <1>11
  <2> QED BY <2>2, <2>3 DEF Narrowed
<1> QED BY <1>2, <1>10, <1>11, SearchFinds

-----------------------------------------------------------------------------
(* The row blocks of the groups of a tight layout. *)

BlocksIn(e) == CeilDiv(RegionSize(e), BlockM)

\* The metadata that ends the regions, and the row blocks before each.
EndsRegions(h) == \A e \in Experts : h[e] = RegionStart(e + 1)
Cumulates(cum) ==
  /\ cum \in [0 .. NumExperts -> Nat]
  /\ cum[0] = 0
  /\ \A e \in Experts : cum[e + 1] = cum[e] + BlocksIn(e)

LEMMA PrevEndIs ==
  ASSUME NEW h, EndsRegions(h), NEW e \in Experts
  PROVE  prev_end(h, e) = RegionStart(e) /\ h[e] = RegionStart(e + 1)
         /\ RegionStart(e) \in Nat /\ RegionStart(e + 1) = RegionStart(e) + RegionSize(e)
         /\ RegionSize(e) \in Nat /\ BlocksIn(e) \in Nat
<1>1. NumExperts \in Nat \ {0} /\ Experts = 0 .. NumExperts - 1 BY Positive DEF Experts
<1>2. e \in Nat BY <1>1
<1>3. RegionStart(0) = 0 BY RegionStartIs
<1>4. e # 0 => h[e - 1] = RegionStart(e)
  <2> SUFFICES ASSUME e # 0 PROVE h[e - 1] = RegionStart(e) OBVIOUS
  <2>1. e - 1 \in Experts /\ (e - 1) + 1 = e BY <1>1
  <2>2. h[e - 1] = RegionStart((e - 1) + 1) BY <2>1 DEF EndsRegions
  <2> QED BY <2>1, <2>2
<1>5. prev_end(h, e) = RegionStart(e) BY <1>3, <1>4 DEF prev_end
<1>6. RegionSize(e) \in Nat BY RegionSizeIs
<1>7. BlocksIn(e) \in Nat BY <1>6, TileSizes, CeilDivBounds DEF BlocksIn
<1> QED BY <1>2, <1>5, <1>6, <1>7, RegionStartIs DEF EndsRegions

LEMMA CumsumCounts ==
  ASSUME NEW h, EndsRegions(h)
  PROVE  Cumulates(tile_cumsum(h))
<1> DEFINE g == [e \in Experts |-> BlocksIn(e)]
           term(k) == (Greater(h[k] - prev_end(h, k), 0) + BlockM - 1) \div BlockM
           Eq(f) == f = [k \in 0 .. NumExperts |-> IF k = 0 THEN 0 ELSE f[k - 1] +
                      (Greater(h[k - 1] - prev_end(h, k - 1), 0) + BlockM - 1) \div BlockM]
           it == CHOOSE f : Eq(f)
<1>n. NumExperts \in Nat /\ Experts = 0 .. NumExperts - 1 BY Positive DEF Experts
<1>g. \A e \in Experts : g[e] \in Nat BY PrevEndIs
<1>t. ASSUME NEW e \in Experts PROVE term(e) = g[e]
  <2>1. h[e] - prev_end(h, e) = RegionSize(e) /\ RegionSize(e) \in Nat BY PrevEndIs
  <2>2. Greater(h[e] - prev_end(h, e), 0) = RegionSize(e) BY <2>1 DEF Greater
  <2> QED BY <2>2 DEF BlocksIn, CeilDiv
<1>1. ASSUME NEW f PROVE Eq(f) <=> Running(f, NumExperts, g)
  <2>1. [k \in 0 .. NumExperts |-> IF k = 0 THEN 0 ELSE f[k - 1] + term(k - 1)]
        = [k \in 0 .. NumExperts |-> IF k = 0 THEN 0 ELSE f[k - 1] + g[k - 1]]
    <3>1. \A k \in 0 .. NumExperts : k # 0 => term(k - 1) = g[k - 1]
      <4> HIDE DEF term, g
      <4> QED BY <1>n, <1>t
    <3> HIDE DEF term, g
    <3> QED BY <3>1
  <2>2. Running(f, NumExperts, g) <=> RunsFrom(f, NumExperts, g)
    <3> HIDE DEF g
    <3> QED BY <1>n, <1>g, RunningUnfold
  <2>3. Eq(f) <=> f = [k \in 0 .. NumExperts |-> IF k = 0 THEN 0 ELSE f[k - 1] + term(k - 1)]
    OBVIOUS
  <2> HIDE DEF Eq, term, g
  <2> QED BY <2>1, <2>2, <2>3 DEF RunsFrom
<1>2. \E f : Running(f, NumExperts, g)
  <2> HIDE DEF g
  <2> QED BY <1>n, <1>g, RunningExists
<1>3. Eq(it)
  <2> HIDE DEF Eq
  <2> QED BY <1>1, <1>2
<1>4. tile_cumsum(h) = it BY DEF tile_cumsum
<1> HIDE DEF it
<1>5. Running(it, NumExperts, g) BY <1>1, <1>3
<1>6. /\ it \in [0 .. NumExperts -> Int] /\ it[0] = 0
      /\ \A e \in Experts : it[e + 1] = it[e] + BlocksIn(e)
  BY <1>n, <1>5 DEF Running
<1> DEFINE N == {k \in Nat : k <= NumExperts => it[k] \in Nat}
<1>7. 0 \in N BY <1>6
<1>8. ASSUME NEW k \in Nat, k \in N PROVE k + 1 \in N
  <2> SUFFICES ASSUME k + 1 <= NumExperts PROVE it[k + 1] \in Nat OBVIOUS
  <2>1. k \in Experts /\ it[k] \in Nat BY <1>n, <1>8
  <2>2. BlocksIn(k) \in Nat BY <2>1, PrevEndIs
  <2> QED BY <1>6, <2>1, <2>2
<1>9. Nat \subseteq N
  <2> HIDE DEF N
  <2> QED BY <1>7, <1>8, SetInduction
<1>10. it \in [0 .. NumExperts -> Nat]
  <2>1. \A k \in 0 .. NumExperts : it[k] \in Nat BY <1>n, <1>9
  <2> QED BY <1>6, <2>1
<1> QED BY <1>4, <1>6, <1>10 DEF Cumulates

LEMMA CumulatesUp ==
  ASSUME NEW h, EndsRegions(h), NEW cum, Cumulates(cum),
         NEW i \in 0 .. NumExperts, NEW k \in 0 .. NumExperts, i <= k
  PROVE  cum[i] \in Nat /\ cum[k] \in Nat /\ cum[i] <= cum[k]
<1> DEFINE N == {d \in Nat : i + d <= NumExperts => cum[i] <= cum[i + d]}
<1>n. NumExperts \in Nat /\ Experts = 0 .. NumExperts - 1 BY Positive DEF Experts
<1>c. \A e \in 0 .. NumExperts : cum[e] \in Nat BY DEF Cumulates
<1>1. 0 \in N BY <1>c
<1>2. ASSUME NEW d \in Nat, d \in N PROVE d + 1 \in N
  <2> SUFFICES ASSUME i + (d + 1) <= NumExperts PROVE cum[i] <= cum[i + (d + 1)] OBVIOUS
  <2>1. i + d \in Experts /\ i + (d + 1) = (i + d) + 1 /\ i + d \in 0 .. NumExperts /\ i + (d + 1) \in 0 .. NumExperts
    BY <1>n
  <2>2. cum[i + (d + 1)] = cum[i + d] + BlocksIn(i + d) BY <2>1 DEF Cumulates
  <2>3. BlocksIn(i + d) \in Nat BY <2>1, PrevEndIs
  <2>4. cum[i] <= cum[i + d] BY <1>2, <2>1
  <2> QED BY <1>c, <2>1, <2>2, <2>3, <2>4
<1>3. Nat \subseteq N
  <2> HIDE DEF N
  <2> QED BY <1>1, <1>2, SetInduction
<1>4. k - i \in Nat /\ i + (k - i) = k BY <1>n
<1>5. cum[i] <= cum[k]
  <2>1. PICK d \in Nat : d = k - i /\ i + d = k BY <1>4
  <2>2. d \in N BY <1>3
  <2>3. cum[i] <= cum[i + d] BY <1>n, <2>1, <2>2
  <2> QED BY <2>1, <2>3
<1> QED BY <1>c, <1>5

\* A row block belongs to one group.
LEMMA GroupOfBlock ==
  ASSUME NEW h, EndsRegions(h), NEW cum, Cumulates(cum), NEW m \in Nat, m < cum[NumExperts]
  PROVE  \E t \in Experts : /\ cum[t] <= m /\ m < cum[t + 1] /\ cum[t] \in Nat /\ cum[t + 1] \in Nat
                            /\ \A e \in Experts : cum[e + 1] <= m <=> e < t
<1> DEFINE S == {n \in 0 .. NumExperts : m < cum[n]}
<1>n. NumExperts \in Nat \ {0} /\ Experts = 0 .. NumExperts - 1 BY Positive DEF Experts
<1>c. \A e \in 0 .. NumExperts : cum[e] \in Nat BY DEF Cumulates
<1>1. NumExperts \in S BY <1>n
<1>2. PICK n \in S : \A k \in S : n <= k
  <2> S \subseteq Nat /\ S # {} BY <1>1
  <2> HIDE DEF S
  <2> QED BY WellOrder
<1>3. n # 0 BY <1>2 DEF Cumulates
<1>4. PICK t \in Experts : n = t + 1
  <2>1. n - 1 \in Experts /\ n = (n - 1) + 1 BY <1>n, <1>2, <1>3
  <2> QED BY <2>1
<1>5. t \in 0 .. NumExperts /\ t + 1 \in 0 .. NumExperts /\ t \notin S BY <1>n, <1>2, <1>4
<1>6. cum[t] <= m /\ m < cum[t + 1] BY <1>c, <1>2, <1>4, <1>5
<1>7. ASSUME NEW e \in Experts PROVE cum[e + 1] <= m <=> e < t
  <2>1. e + 1 \in 0 .. NumExperts BY <1>n
  <2>2. CASE e < t
    <3>1. e + 1 <= t BY <1>n, <2>2
    <3>2. cum[e + 1] <= cum[t] BY <1>5, <2>1, <3>1, CumulatesUp
    <3> QED BY <1>c, <1>5, <1>6, <2>1, <2>2, <3>2
  <2>3. CASE ~(e < t)
    <3>1. t + 1 <= e + 1 BY <1>n, <2>3
    <3>2. cum[t + 1] <= cum[e + 1] BY <1>5, <2>1, <3>1, CumulatesUp
    <3> QED BY <1>c, <1>5, <1>6, <2>1, <2>3, <3>2
  <2> QED BY <2>2, <2>3
<1> QED BY <1>c, <1>5, <1>6, <1>7

\* A tile lies in a group: its rows are some of the m-th block of the group's.
Lies(tile, t, m) ==
  /\ t \in Experts /\ m \in Nat
  /\ tile.group = t
  /\ tile.row0 = RegionStart(t) + m * BlockM
  /\ tile.rows = Lesser(BlockM, RegionStart(t + 1) - tile.row0)

LEMMA LiesInGroup ==
  ASSUME NEW tile, NEW t, NEW m, Lies(tile, t, m), NEW r \in Nat, r \in tile.row0 .. tile.row0 + tile.rows - 1
  PROVE  /\ RegionStart(t) <= r /\ r < RegionStart(t + 1) /\ RegionStart(t) \in Nat
         /\ (r - RegionStart(t)) \div BlockM = m
<1>1. t \in Nat /\ m \in Nat BY Positive DEF Lies, Experts
<1>2. RegionStart(t) \in Nat /\ RegionStart(t + 1) \in Nat BY <1>1, RegionStartIs
<1>3. BlockM \in Nat \ {0} BY TileSizes
<1>4. PICK x \in Nat : x = m * BlockM /\ x = BlockM * m
  <2>1. m * BlockM = BlockM * m /\ BlockM * m \in Nat BY <1>1, <1>3, TimesMono
  <2> QED BY <2>1
<1>5. tile.row0 = RegionStart(t) + x /\ tile.rows = Lesser(BlockM, RegionStart(t + 1) - tile.row0)
  BY <1>4 DEF Lies
<1>6. tile.rows \in Int /\ tile.rows <= BlockM /\ tile.rows <= RegionStart(t + 1) - tile.row0
  BY <1>2, <1>3, <1>5 DEF Lesser
<1>7. RegionStart(t) + x <= r /\ r < RegionStart(t + 1) /\ r < RegionStart(t) + x + BlockM
  BY <1>2, <1>3, <1>5, <1>6
<1>8. PICK s \in 0 .. BlockM - 1 : r - RegionStart(t) = BlockM * m + s
  <2>1. r - RegionStart(t) - x \in 0 .. BlockM - 1 BY <1>2, <1>3, <1>7
  <2>2. r - RegionStart(t) = x + (r - RegionStart(t) - x) BY <1>2
  <2> QED BY <1>4, <2>1, <2>2
<1>9. (r - RegionStart(t)) \div BlockM = m BY <1>1, <1>3, <1>8, DivModUnique
<1> QED BY <1>2, <1>7, <1>9

LEMMA OneRegion ==
  ASSUME NEW t \in Nat, NEW u \in Nat, NEW r \in Nat,
         RegionStart(t) <= r, r < RegionStart(t + 1), RegionStart(u) <= r, r < RegionStart(u + 1)
  PROVE  t = u
<1>1. /\ RegionStart(t) \in Nat /\ RegionStart(t + 1) \in Nat
      /\ RegionStart(u) \in Nat /\ RegionStart(u + 1) \in Nat
  BY RegionStartIs
<1>2. ~(t < u)
  <2> SUFFICES ASSUME t < u PROVE FALSE OBVIOUS
  <2>1. t + 1 <= u /\ t + 1 \in Nat OBVIOUS
  <2>2. RegionStart(t + 1) <= RegionStart(u) BY <2>1, RegionsInOrder
  <2> QED BY <1>1, <2>2
<1>3. ~(u < t)
  <2> SUFFICES ASSUME u < t PROVE FALSE OBVIOUS
  <2>1. u + 1 <= t /\ u + 1 \in Nat OBVIOUS
  <2>2. RegionStart(u + 1) <= RegionStart(t) BY <2>1, RegionsInOrder
  <2> QED BY <1>1, <2>2
<1> QED BY <1>2, <1>3

\* A row lies in one block of one group.
LEMMA LiesApart ==
  ASSUME NEW tile1, NEW t1, NEW m1, Lies(tile1, t1, m1), NEW tile2, NEW t2, NEW m2, Lies(tile2, t2, m2),
         NEW r \in Nat, r \in tile1.row0 .. tile1.row0 + tile1.rows - 1,
         r \in tile2.row0 .. tile2.row0 + tile2.rows - 1
  PROVE  t1 = t2 /\ m1 = m2
<1>1. t1 \in Nat /\ t2 \in Nat BY Positive DEF Lies, Experts
<1>2. /\ RegionStart(t1) <= r /\ r < RegionStart(t1 + 1)
      /\ (r - RegionStart(t1)) \div BlockM = m1
  BY LiesInGroup
<1>3. /\ RegionStart(t2) <= r /\ r < RegionStart(t2 + 1)
      /\ (r - RegionStart(t2)) \div BlockM = m2
  BY LiesInGroup
<1>4. t1 = t2 BY <1>1, <1>2, <1>3, OneRegion
<1> QED BY <1>2, <1>3, <1>4

-----------------------------------------------------------------------------
(* The tiles of a product. *)

\* A tile number, less the tiles of the groups before.
Within(b, cum, t) == b - cum[t] * NumBlocksN
Height(cum, t) == cum[t + 1] - cum[t]

LEMMA TileNumber ==
  ASSUME NEW h, EndsRegions(h), NEW cum, Cumulates(cum),
         NEW b \in Nat, b < cum[NumExperts] * NumBlocksN
  PROVE  \E t \in Experts : /\ TileGroup(cum, b) = t
                            /\ cum[t] \in Nat /\ Height(cum, t) \in Nat
                            /\ Within(b, cum, t) \in Nat
                            /\ Within(b, cum, t) < Height(cum, t) * NumBlocksN
<1>1. PICK N \in Nat \ {0} : N = NumBlocksN BY TileSizes
<1>2. PICK q, s : q = b \div N /\ s = b % N OBVIOUS
<1>3. q \in Nat /\ s \in 0 .. N - 1 /\ b = N * q + s BY <1>1, <1>2, DivMod
<1>n. NumExperts \in Nat /\ Experts = 0 .. NumExperts - 1 BY Positive DEF Experts
<1>c. \A e \in 0 .. NumExperts : cum[e] \in Nat BY <1>n DEF Cumulates
\* To compare with a number of tiles is to compare with a number of row blocks.
<1>4. ASSUME NEW x \in Nat PROVE x * N <= b <=> x <= q
  <2>1. x * N = N * x /\ N * x \in Nat /\ N * q \in Nat BY <1>1, <1>3, TimesMono
  <2>2. ASSUME x <= q PROVE x * N <= b
    <3>1. N * x <= N * q BY <1>1, <1>3, <2>2, TimesMono
    <3> QED BY <1>1, <1>3, <2>1, <3>1
  <2>3. ASSUME q < x PROVE b < x * N
    <3>1. q + 1 <= x BY <1>3, <2>3
    <3>2. N * (q + 1) <= N * x BY <1>1, <1>3, <3>1, TimesMono
    <3>3. N * (q + 1) = N * q + N BY <1>1, <1>3
    <3> QED BY <1>1, <1>3, <2>1, <3>2, <3>3
  <2>4. x * N \in Nat BY <2>1
  <2> QED BY <1>3, <2>2, <2>3, <2>4
<1>5. q < cum[NumExperts]
  <2>1. cum[NumExperts] \in Nat BY <1>n, <1>c
  <2> SUFFICES ASSUME cum[NumExperts] <= q PROVE FALSE BY <1>3, <2>1
  <2>2. cum[NumExperts] * N <= b BY <1>4, <2>1
  <2>3. PICK y \in Nat : y = cum[NumExperts] * N
    <3>1. N * cum[NumExperts] \in Nat /\ N * cum[NumExperts] = cum[NumExperts] * N BY <1>1, <2>1, TimesMono
    <3> QED BY <3>1
  <2> QED BY <1>1, <2>2, <2>3
<1>6. PICK t \in Experts : /\ cum[t] <= q /\ q < cum[t + 1] /\ cum[t] \in Nat /\ cum[t + 1] \in Nat
                           /\ \A e \in Experts : cum[e + 1] <= q <=> e < t
  BY <1>3, <1>5, GroupOfBlock
<1>7. \A e \in Experts : cum[e + 1] * NumBlocksN <= b <=> e < t
  <2> TAKE e \in Experts
  <2>1. cum[e + 1] \in Nat BY <1>n, <1>c
  <2> QED BY <1>1, <1>4, <1>6, <2>1
<1>8. TileGroup(cum, b) = t BY <1>7, TileGroupIs
<1>9. PICK lo \in Nat, hi \in Nat : lo = cum[t] /\ hi = cum[t + 1] BY <1>6
<1>10. lo * N <= b /\ ~(hi * N <= b) BY <1>3, <1>4, <1>6, <1>9
<1>11. lo * N \in Nat /\ hi * N \in Nat /\ (hi - lo) * N = hi * N - lo * N
  <2>1. lo * N = N * lo /\ hi * N = N * hi /\ N * lo \in Nat /\ N * hi \in Nat BY <1>1, TimesMono
  <2> QED BY <1>1, <2>1
<1>12. PICK x \in Nat, y \in Nat : x = lo * N /\ y = hi * N BY <1>11
<1>13. b - x \in Nat /\ b - x < y - x BY <1>10, <1>12
<1>14. hi - lo \in Nat BY <1>3, <1>6, <1>9
<1> QED BY <1>1, <1>6, <1>8, <1>9, <1>11, <1>12, <1>13, <1>14 DEF Within, Height

\* A tile of the template: its row block lies in the group the search found.
LEMMA TightTileIs ==
  ASSUME NEW h, EndsRegions(h), NEW cum, Cumulates(cum),
         NEW b \in Nat, b < cum[NumExperts] * NumBlocksN
  PROVE  \E t \in Experts :
           /\ Height(cum, t) \in Nat /\ Within(b, cum, t) \in Nat
           /\ Within(b, cum, t) < Height(cum, t) * NumBlocksN
           /\ Lies(TightTile(b, h, cum), t, swizzle_block(Within(b, cum, t), Height(cum, t)).m)
           /\ TightTile(b, h, cum).n = swizzle_block(Within(b, cum, t), Height(cum, t)).n
<1>1. PICK t \in Experts : /\ TileGroup(cum, b) = t
                           /\ cum[t] \in Nat /\ Height(cum, t) \in Nat
                           /\ Within(b, cum, t) \in Nat
                           /\ Within(b, cum, t) < Height(cum, t) * NumBlocksN
  BY TileNumber
<1>2. PICK blk : blk = swizzle_block(Within(b, cum, t), Height(cum, t)) OBVIOUS
<1>3. blk.m \in Nat BY <1>1, <1>2, SwizzleIs
<1>4. prev_end(h, t) = RegionStart(t) /\ h[t] = RegionStart(t + 1) BY PrevEndIs
<1>5. TightTile(b, h, cum) =
        [group |-> t, row0 |-> prev_end(h, t) + blk.m * BlockM, n |-> blk.n,
         rows |-> Lesser(BlockM, h[t] - (prev_end(h, t) + blk.m * BlockM))]
  <2>1. TightTile(b, h, cum) =
          LET g == TileGroup(cum, b)
              bb == swizzle_block(b - cum[g] * NumBlocksN, cum[g + 1] - cum[g])
              row0 == prev_end(h, g) + bb.m * BlockM
          IN [group |-> g, row0 |-> row0, n |-> bb.n, rows |-> Lesser(BlockM, h[g] - row0)]
    BY DEF TightTile, TileGroup
  <2> QED BY <1>1, <1>2, <2>1 DEF Within, Height
<1>6. PICK x : x = TightTile(b, h, cum) OBVIOUS
<1>7. x.group = t /\ x.row0 = RegionStart(t) + blk.m * BlockM /\ x.n = blk.n
      /\ x.rows = Lesser(BlockM, RegionStart(t + 1) - x.row0)
  BY <1>4, <1>5, <1>6
<1>8. Lies(x, t, blk.m) BY <1>3, <1>7 DEF Lies
<1> QED BY <1>1, <1>2, <1>6, <1>7, <1>8

\* A tile of the persistent kernel: its row block lies in the group the search found.
LEMMA CounterTileIs ==
  ASSUME NEW h, EndsRegions(h), NEW cum, Cumulates(cum),
         NEW b \in Nat, b < cum[NumExperts] * NumBlocksN
  PROVE  /\ CounterExpert(b, cum) \in Experts
         /\ cum[NumExperts] \in Nat /\ cum[CounterExpert(b, cum)] \in Nat
         /\ Lies(CounterTile(b, CounterExpert(b, cum), h, cum), CounterExpert(b, cum),
                 CounterBlock(b, cum).m - cum[CounterExpert(b, cum)])
         /\ CounterTile(b, CounterExpert(b, cum), h, cum).n = CounterBlock(b, cum).n
         /\ CounterBlock(b, cum).m \in Nat
<1>n. NumExperts \in Nat /\ Experts = 0 .. NumExperts - 1 BY Positive DEF Experts
<1>1. cum[NumExperts] \in Nat BY <1>n DEF Cumulates
<1>2. PICK blk : blk = swizzle_block(b, cum[NumExperts]) OBVIOUS
<1>3. CounterBlock(b, cum) = blk BY <1>2 DEF CounterBlock
<1>4. blk.m \in Nat /\ blk.m < cum[NumExperts]
  <2>1. blk.m \in 0 .. cum[NumExperts] - 1 BY <1>1, <1>2, SwizzleIs
  <2> QED BY <1>1, <2>1
<1>5. PICK t \in Experts : /\ cum[t] <= blk.m /\ blk.m < cum[t + 1] /\ cum[t] \in Nat /\ cum[t + 1] \in Nat
                           /\ \A e \in Experts : cum[e + 1] <= blk.m <=> e < t
  BY <1>4, GroupOfBlock
<1>6. CounterExpert(b, cum) = BlockGroup(cum, blk.m) BY <1>3 DEF CounterExpert, BlockGroup
<1>7. CounterExpert(b, cum) = t BY <1>5, <1>6, BlockGroupIs
<1>8. /\ prev_end(h, t) = RegionStart(t) /\ h[t] = RegionStart(t + 1)
      /\ RegionStart(t) \in Nat /\ RegionStart(t + 1) \in Nat
  <2>1. RegionStart(t) \in Nat /\ RegionStart(t + 1) = RegionStart(t) + RegionSize(t) /\ RegionSize(t) \in Nat
    BY PrevEndIs
  <2> QED BY <2>1, PrevEndIs
<1>9. PICK k \in Nat : k = blk.m - cum[t] BY <1>4, <1>5
<1>10. PICK row \in Nat : row = k * BlockM
  <2>1. BlockM * k \in Nat /\ BlockM * k = k * BlockM BY TileSizes, TimesMono
  <2> QED BY <2>1
<1>11. PICK x : x = CounterTile(b, t, h, cum) OBVIOUS
<1>12. x = [group |-> t, row0 |-> prev_end(h, t) + row, n |-> blk.n,
            rows |-> Lesser(BlockM, (h[t] - prev_end(h, t)) - row)]
  BY <1>3, <1>9, <1>10, <1>11 DEF CounterTile
<1>13. x.group = t /\ x.row0 = RegionStart(t) + row /\ x.n = blk.n
       /\ x.rows = Lesser(BlockM, (RegionStart(t + 1) - RegionStart(t)) - row)
  BY <1>8, <1>12
<1>14. (RegionStart(t + 1) - RegionStart(t)) - row = RegionStart(t + 1) - x.row0 BY <1>8, <1>13
<1>15. Lies(x, t, k) BY <1>10, <1>13, <1>14 DEF Lies
<1> QED BY <1>1, <1>3, <1>4, <1>5, <1>7, <1>9, <1>11, <1>13, <1>15

\* Two tiles with a row and a column in common are one.
LEMMA TightTilesApart ==
  ASSUME NEW h, EndsRegions(h), NEW cum, Cumulates(cum),
         NEW b1 \in Nat, b1 < cum[NumExperts] * NumBlocksN,
         NEW b2 \in Nat, b2 < cum[NumExperts] * NumBlocksN, NEW r \in Nat,
         NEW T1, T1 = TightTile(b1, h, cum), NEW T2, T2 = TightTile(b2, h, cum),
         r \in T1.row0 .. T1.row0 + T1.rows - 1, r \in T2.row0 .. T2.row0 + T2.rows - 1, T1.n = T2.n
  PROVE  b1 = b2
<1>1. PICK t \in Experts :
           /\ Height(cum, t) \in Nat /\ Within(b1, cum, t) \in Nat
           /\ Within(b1, cum, t) < Height(cum, t) * NumBlocksN
           /\ Lies(T1, t, swizzle_block(Within(b1, cum, t), Height(cum, t)).m)
           /\ T1.n = swizzle_block(Within(b1, cum, t), Height(cum, t)).n
  BY TightTileIs
<1>2. PICK u \in Experts :
           /\ Height(cum, u) \in Nat /\ Within(b2, cum, u) \in Nat
           /\ Within(b2, cum, u) < Height(cum, u) * NumBlocksN
           /\ Lies(T2, u, swizzle_block(Within(b2, cum, u), Height(cum, u)).m)
           /\ T2.n = swizzle_block(Within(b2, cum, u), Height(cum, u)).n
  BY TightTileIs
<1>3. t = u /\ swizzle_block(Within(b1, cum, t), Height(cum, t)).m = swizzle_block(Within(b2, cum, u), Height(cum, u)).m
  BY <1>1, <1>2, LiesApart
<1>4. Within(b1, cum, t) = Within(b2, cum, t) BY <1>1, <1>2, <1>3, SwizzleOnce
<1>5. PICK x \in Nat : x = cum[t] * NumBlocksN
  <2>1. cum[t] \in Nat
    <3>1. t \in 0 .. NumExperts BY Positive DEF Experts
    <3> QED BY <3>1 DEF Cumulates
  <2>2. NumBlocksN * cum[t] \in Nat /\ NumBlocksN * cum[t] = cum[t] * NumBlocksN BY <2>1, TileSizes, TimesMono
  <2> QED BY <2>2
<1> QED BY <1>4, <1>5 DEF Within

LEMMA CounterTilesApart ==
  ASSUME NEW h, EndsRegions(h), NEW cum, Cumulates(cum),
         NEW b1 \in Nat, b1 < cum[NumExperts] * NumBlocksN,
         NEW b2 \in Nat, b2 < cum[NumExperts] * NumBlocksN, NEW r \in Nat,
         NEW T1, T1 = CounterTile(b1, CounterExpert(b1, cum), h, cum),
         NEW T2, T2 = CounterTile(b2, CounterExpert(b2, cum), h, cum),
         r \in T1.row0 .. T1.row0 + T1.rows - 1, r \in T2.row0 .. T2.row0 + T2.rows - 1, T1.n = T2.n
  PROVE  b1 = b2
<1>1. PICK t, u : t = CounterExpert(b1, cum) /\ u = CounterExpert(b2, cum) OBVIOUS
<1>2. PICK p, q : p = CounterBlock(b1, cum) /\ q = CounterBlock(b2, cum) OBVIOUS
<1>3. t \in Experts /\ Lies(T1, t, p.m - cum[t]) /\ T1.n = p.n /\ p.m \in Nat /\ cum[NumExperts] \in Nat /\ cum[t] \in Nat
  BY <1>1, <1>2, CounterTileIs
<1>4. u \in Experts /\ Lies(T2, u, q.m - cum[u]) /\ T2.n = q.n /\ q.m \in Nat
  BY <1>1, <1>2, CounterTileIs
<1>5. t = u /\ p.m - cum[t] = q.m - cum[u] BY <1>3, <1>4, LiesApart
<1>6. p.m = q.m BY <1>3, <1>4, <1>5
<1>7. p = swizzle_block(b1, cum[NumExperts]) /\ q = swizzle_block(b2, cum[NumExperts]) BY <1>2 DEF CounterBlock
<1> QED BY <1>3, <1>4, <1>6, <1>7, SwizzleOnce

\* A padded region is made of whole tiles.
LEMMA PaddedInTiles ==
  ASSUME ~tight, Alignment % BlockM = 0, NEW n \in Nat
  PROVE  \E k \in Nat : RegionStart(n) = BlockM * k
<1>1. BlockM \in Nat \ {0} /\ Alignment \in Nat \ {0} BY TileSizes, Positive
<1>2. PICK d : d = Alignment \div BlockM OBVIOUS
<1>3. d \in Nat /\ Alignment = BlockM * d + (Alignment % BlockM) BY <1>1, <1>2, DivMod
<1>4. Alignment = BlockM * d
  <2>1. BlockM * d \in Nat BY <1>1, <1>3, TimesMono
  <2> QED BY <1>3, <2>1
<1>5. PICK q \in Nat : RegionStart(n) = q * Alignment BY PaddedStarts
<1>6. q * Alignment = BlockM * (d * q) BY <1>1, <1>3, <1>4
<1>7. d * q \in Nat BY <1>3, TimesMono
<1> QED BY <1>5, <1>6, <1>7

WholeBlocks(cap) == cap \div BlockM

LEMMA PerRowTileIs ==
  ASSUME NEW layout, NEW cap \in Nat, NEW b \in Nat, b < WholeBlocks(cap) * NumBlocksN,
         NEW T, T = PerRowTile(b, layout, cap), NEW blk, blk = swizzle_block(b, WholeBlocks(cap))
  PROVE  /\ blk.m \in Nat /\ WholeBlocks(cap) \in Nat
         /\ T.row0 = blk.m * BlockM /\ T.rows = BlockM /\ T.n = blk.n
         /\ T.group = Lesser(Greater(layout[blk.m * BlockM], 0), NumExperts - 1)
<1>1. WholeBlocks(cap) \in Nat BY TileSizes, DivMod DEF WholeBlocks
<1>4. blk.m \in Nat BY <1>1, SwizzleIs
<1>5. T =
        [group |-> Lesser(Greater(layout[blk.m * BlockM], 0), NumExperts - 1),
         row0 |-> blk.m * BlockM, n |-> blk.n, rows |-> BlockM]
  BY DEF PerRowTile, WholeBlocks
<1> QED BY <1>1, <1>4, <1>5

LEMMA RowOfBlock ==
  ASSUME NEW m \in Nat, NEW r \in Nat, r \in m * BlockM .. m * BlockM + BlockM - 1
  PROVE  r \div BlockM = m /\ m * BlockM \in Nat /\ m * BlockM = BlockM * m /\ m * BlockM <= r /\ r < BlockM * (m + 1)
<1>1. BlockM \in Nat \ {0} BY TileSizes
<1>2. PICK x \in Nat : x = m * BlockM /\ x = BlockM * m
  <2>1. m * BlockM = BlockM * m /\ BlockM * m \in Nat BY <1>1, TimesMono
  <2> QED BY <2>1
<1>3. PICK s \in 0 .. BlockM - 1 : r = BlockM * m + s
  <2>1. r - x \in 0 .. BlockM - 1 /\ r = x + (r - x) BY <1>1, <1>2
  <2> QED BY <1>2, <2>1
<1>4. r \div BlockM = m BY <1>1, <1>3, DivModUnique
<1>5. BlockM * (m + 1) = BlockM * m + BlockM BY <1>1
<1> QED BY <1>1, <1>2, <1>3, <1>4, <1>5

LEMMA PerRowTilesApart ==
  ASSUME NEW layout, NEW cap \in Nat,
         NEW b1 \in Nat, b1 < WholeBlocks(cap) * NumBlocksN,
         NEW b2 \in Nat, b2 < WholeBlocks(cap) * NumBlocksN, NEW r \in Nat,
         NEW T1, T1 = PerRowTile(b1, layout, cap), NEW T2, T2 = PerRowTile(b2, layout, cap),
         r \in T1.row0 .. T1.row0 + T1.rows - 1, r \in T2.row0 .. T2.row0 + T2.rows - 1, T1.n = T2.n
  PROVE  b1 = b2
<1>p. PICK p : p = swizzle_block(b1, WholeBlocks(cap)) OBVIOUS
<1>1. /\ p.m \in Nat /\ WholeBlocks(cap) \in Nat
      /\ T1.row0 = p.m * BlockM /\ T1.rows = BlockM /\ T1.n = p.n
      /\ T1.group = Lesser(Greater(layout[p.m * BlockM], 0), NumExperts - 1)
  BY <1>p, PerRowTileIs
<1>q. PICK q : q = swizzle_block(b2, WholeBlocks(cap)) OBVIOUS
<1>2. /\ q.m \in Nat
      /\ T2.row0 = q.m * BlockM /\ T2.rows = BlockM /\ T2.n = q.n
      /\ T2.group = Lesser(Greater(layout[q.m * BlockM], 0), NumExperts - 1)
  BY <1>q, PerRowTileIs
<1>3. r \in p.m * BlockM .. p.m * BlockM + BlockM - 1 BY <1>1
<1>4. r \in q.m * BlockM .. q.m * BlockM + BlockM - 1 BY <1>2
<1>5. r \div BlockM = p.m BY <1>1, <1>3, RowOfBlock
<1>6. r \div BlockM = q.m BY <1>2, <1>4, RowOfBlock
<1> QED BY <1>1, <1>2, <1>5, <1>6, <1>p, <1>q, SwizzleOnce

\* The metadata that names the owner of every row.
OwnsRows(layout, cap) ==
  \A r \in 0 .. cap - 1 : layout[r] = Cardinality({e \in Experts : RegionStart(e + 1) <= r})

\* A row of a region has the owner of the first row of its tile.
LEMMA PerRowOwner ==
  ASSUME ~tight, Alignment % BlockM = 0, NEW cap \in Nat, NEW layout, OwnsRows(layout, cap),
         NEW b \in Nat, b < WholeBlocks(cap) * NumBlocksN, NEW r \in 0 .. cap - 1,
         NEW T, T = PerRowTile(b, layout, cap), r \in T.row0 .. T.row0 + T.rows - 1
  PROVE  /\ T.group \in Int
         /\ \A e \in Experts : RegionStart(e) <= r /\ r < RegionStart(e + 1) => T.group = e
<1>0. PICK p : p = swizzle_block(b, WholeBlocks(cap)) OBVIOUS
<1>1. /\ p.m \in Nat /\ T.row0 = p.m * BlockM /\ T.rows = BlockM
      /\ T.group = Lesser(Greater(layout[p.m * BlockM], 0), NumExperts - 1)
  BY <1>0, PerRowTileIs
<1>2. PICK row0 : row0 = p.m * BlockM OBVIOUS
<1>3. row0 \in Nat /\ row0 = BlockM * p.m /\ row0 <= r /\ r < BlockM * (p.m + 1)
  BY <1>1, <1>2, RowOfBlock
<1>4. row0 \in 0 .. cap - 1 BY <1>3
<1>5. layout[row0] = Cardinality({e \in Experts : RegionStart(e + 1) <= row0}) BY <1>4 DEF OwnsRows
<1>6. NumExperts \in Nat \ {0} /\ Experts = 0 .. NumExperts - 1 BY Positive DEF Experts
<1>7. T.group \in Int
  <2>1. NumExperts - 1 \in Int BY <1>6
  <2>2. layout[row0] \in Nat
    <3>1. IsFiniteSet(Experts) BY <1>6, FS_Interval
    <3>2. IsFiniteSet({e \in Experts : RegionStart(e + 1) <= row0})
      <4>1. {e \in Experts : RegionStart(e + 1) <= row0} \subseteq Experts OBVIOUS
      <4> QED BY <3>1, <4>1, FS_Subset
    <3> QED BY <1>5, <3>2, FS_CardinalityType
  <2> QED BY <1>1, <1>2, <2>1, <2>2 DEF Lesser, Greater
<1>8. ASSUME NEW e \in Experts, RegionStart(e) <= r, r < RegionStart(e + 1) PROVE T.group = e
  <2>1. e \in Nat BY <1>6
  <2>2. RegionStart(e) \in Nat /\ RegionStart(e + 1) \in Nat BY <2>1, RegionStartIs
  <2>3. RegionStart(e) <= row0
    <3>1. PICK k \in Nat : RegionStart(e) = BlockM * k BY <2>1, PaddedInTiles
    <3>2. k <= p.m
      <4> SUFFICES ASSUME p.m + 1 <= k PROVE FALSE BY <1>1, <3>1
      <4>1. BlockM * (p.m + 1) <= BlockM * k /\ BlockM * (p.m + 1) \in Nat BY <1>1, TileSizes, TimesMono
      <4>2. r < RegionStart(e) BY <1>3, <2>2, <3>1, <4>1
      <4> QED BY <1>8, <2>2, <4>2
    <3>3. BlockM * k <= BlockM * p.m BY <1>1, <3>1, <3>2, TileSizes, TimesMono
    <3> QED BY <1>3, <3>1, <3>3
  <2>4. row0 < RegionStart(e + 1) BY <1>3, <1>8, <2>2
  <2>5. {x \in Experts : RegionStart(x + 1) <= row0} = 0 .. e - 1
    <3>1. ASSUME NEW x \in Experts PROVE RegionStart(x + 1) <= row0 <=> x < e
      <4>1. x \in Nat /\ x + 1 \in Nat /\ RegionStart(x + 1) \in Nat
        <5>1. x \in Nat /\ x + 1 \in Nat BY <1>6
        <5> QED BY <5>1, RegionStartIs
      <4>2. CASE x < e
        <5>1. RegionStart(x + 1) <= RegionStart(e) BY <2>1, <4>1, <4>2, RegionsInOrder
        <5> QED BY <1>3, <2>2, <2>3, <4>1, <4>2, <5>1
      <4>3. CASE ~(x < e)
        <5>1. e + 1 \in Nat /\ e + 1 <= x + 1 BY <2>1, <4>1, <4>3
        <5>2. RegionStart(e + 1) <= RegionStart(x + 1) BY <4>1, <5>1, RegionsInOrder
        <5> QED BY <1>3, <2>2, <2>4, <4>1, <4>3, <5>2
      <4> QED BY <4>2, <4>3
    <3>2. \A x : x \in 0 .. e - 1 <=> x \in Experts /\ x < e BY <1>6
    <3> QED BY <3>1, <3>2
  <2>6. layout[row0] = e BY <1>5, <2>1, <2>5, CountFirst
  <2> QED BY <1>1, <1>2, <1>6, <2>6 DEF Lesser, Greater
<1> QED BY <1>7, <1>8

-----------------------------------------------------------------------------
(* The tiles of a launch. *)

\* What the tiles of padded regions need: whole tiles in a region.
TilesFit == (\E cs \in Cases : cs[1] = "aligned") => Alignment % BlockM = 0

TileOf(b) ==
  IF ~tight THEN PerRowTile(b, mem.metadata, capacity)
  ELSE IF schedule = "waves" THEN TightTile(b, ends, s_cum)
  ELSE CounterTile(b, CounterExpert(b, s_cum), ends, s_cum)

Covers(b, cell) ==
  /\ cell[1] \in TileOf(b).row0 .. TileOf(b).row0 + TileOf(b).rows - 1
  /\ cell[2] = TileOf(b).n

\* A launch stands on a finished sort.
LaunchInv ==
  /\ stage \in {"permute", "gate_up", "down"}
  /\ schedule \in {"waves", "counter"} /\ (schedule = "counter" => tight)
  /\ variant = "aligned" => \E cs \in Cases : cs[1] = "aligned"
  /\ InGemm => Sorted /\ Multiplies /\ s_cum = IF tight THEN tile_cumsum(ends) ELSE <<>>

LEMMA LaunchFacts ==
  ASSUME SortInv, PlaceInv, MetaInv, LaunchInv, InGemm
  PROVE  /\ tight => EndsRegions(ends) /\ Cumulates(s_cum) /\ num_blocks = s_cum[NumExperts] * NumBlocksN
         /\ ~tight => /\ variant = "aligned"
                      /\ num_blocks = WholeBlocks(capacity) * NumBlocksN
                      /\ OwnsRows(mem.metadata, capacity)
         /\ capacity \in Nat /\ Rows = 0 .. capacity - 1
         /\ \A idx \in Routes : /\ flat[idx] \in Experts
                                /\ RegionStart(flat[idx]) <= mem.inverse[idx]
                                /\ mem.inverse[idx] < RegionStart(flat[idx] + 1)
         /\ num_blocks \in Nat
<1>1. CaseInv BY DEF SortInv, TypeInv
<1>2. Sorted /\ Multiplies /\ s_cum = IF tight THEN tile_cumsum(ends) ELSE <<>> BY DEF LaunchInv
<1>3. ASSUME tight PROVE EndsRegions(ends) /\ Cumulates(s_cum) /\ num_blocks = s_cum[NumExperts] * NumBlocksN
  <2>1. EndsRegions(ends) BY <1>2, <1>3, SortedMeta DEF EndsRegions, ends
  <2>2. s_cum = tile_cumsum(ends) BY <1>2, <1>3
  <2>3. Cumulates(s_cum) BY <2>1, <2>2, CumsumCounts
  <2> QED BY <1>3, <2>1, <2>3 DEF num_blocks, num_m_blocks
<1>4. capacity \in Nat /\ Rows = 0 .. capacity - 1 BY <1>1, RegionsFit DEF Rows
<1>5. ASSUME ~tight
      PROVE  /\ variant = "aligned"
             /\ num_blocks = WholeBlocks(capacity) * NumBlocksN
             /\ OwnsRows(mem.metadata, capacity)
  <2>1. variant = "aligned" BY <1>2, <1>5 DEF Multiplies
  <2>2. num_blocks = WholeBlocks(capacity) * NumBlocksN BY <1>5 DEF num_blocks, num_m_blocks, WholeBlocks
  <2>3. OwnsRows(mem.metadata, capacity) BY <1>2, <1>4, <2>1, SortedMeta DEF OwnsRows
  <2> QED BY <2>1, <2>2, <2>3
<1>6. ASSUME NEW idx \in Routes
      PROVE  /\ flat[idx] \in Experts
             /\ RegionStart(flat[idx]) <= mem.inverse[idx]
             /\ mem.inverse[idx] < RegionStart(flat[idx] + 1)
  <2>1. PICK place : Filled(place) BY <1>2, SortedPlaces
  <2>2. variant \notin {"align", "small"} BY <1>2 DEF Multiplies, tight
  <2>3. mem.inverse[idx] \in LiveRows(flat[idx]) BY <2>1, <2>2 DEF Filled
  <2>4. flat[idx] \in Experts BY <1>1 DEF CaseInv
  <2>5. PICK e \in Nat : e = flat[idx] BY <2>4, Positive DEF Experts
  <2>6. /\ RegionStart(e) \in Nat /\ RegionStart(e + 1) = RegionStart(e) + RegionSize(e)
        /\ RegionSize(e) \in Nat /\ Cardinality(RoutesTo(e)) \in Nat /\ Cardinality(RoutesTo(e)) <= RegionSize(e)
    BY RegionStartIs, RegionSizeIs, RoutesToIs
  <2>7. mem.inverse[idx] \in RegionStart(e) .. RegionStart(e) + Cardinality(RoutesTo(e)) - 1
    BY <2>3, <2>5 DEF LiveRows
  <2> QED BY <2>4, <2>5, <2>6, <2>7
<1>7. num_blocks \in Nat
  <2>1. num_m_blocks \in Nat
    <3>1. CASE tight
      <4>1. NumExperts \in 0 .. NumExperts BY Positive
      <4> QED BY <1>3, <3>1, <4>1 DEF num_m_blocks, Cumulates
    <3>2. CASE ~tight BY <1>4, <3>2, TileSizes, DivMod DEF num_m_blocks
    <3> QED BY <3>1, <3>2
  <2>2. NumBlocksN * num_m_blocks \in Nat /\ NumBlocksN * num_m_blocks = num_m_blocks * NumBlocksN
    <3> PICK x \in Nat : x = num_m_blocks BY <2>1
    <3> QED BY TileSizes, TimesMono
  <2> QED BY <2>2 DEF num_blocks
<1> QED BY <1>3, <1>4, <1>5, <1>6, <1>7

\* No cell lies in two tiles.
LEMMA CoversOnce ==
  ASSUME SortInv, PlaceInv, MetaInv, LaunchInv, InGemm, NEW b1 \in Nat, b1 < num_blocks,
         NEW b2 \in Nat, b2 < num_blocks, NEW cell \in Cells, Covers(b1, cell), Covers(b2, cell)
  PROVE  b1 = b2
<1>1. PICK T1, T2 : T1 = TileOf(b1) /\ T2 = TileOf(b2) OBVIOUS
<1>2. PICK r : r = cell[1] OBVIOUS
<1>3. r \in Nat /\ capacity \in Nat BY <1>2, LaunchFacts DEF Cells
<1>4. /\ r \in T1.row0 .. T1.row0 + T1.rows - 1 /\ r \in T2.row0 .. T2.row0 + T2.rows - 1
      /\ T1.n = T2.n
  BY <1>1, <1>2 DEF Covers
<1>5. CASE ~tight
  <2>1. num_blocks = WholeBlocks(capacity) * NumBlocksN BY <1>5, LaunchFacts
  <2>2. T1 = PerRowTile(b1, mem.metadata, capacity) /\ T2 = PerRowTile(b2, mem.metadata, capacity)
    BY <1>1, <1>5 DEF TileOf
  <2> QED BY <1>3, <1>4, <2>1, <2>2, PerRowTilesApart
<1>6. CASE tight /\ schedule = "waves"
  <2>1. EndsRegions(ends) /\ Cumulates(s_cum) /\ num_blocks = s_cum[NumExperts] * NumBlocksN BY <1>6, LaunchFacts
  <2>2. T1 = TightTile(b1, ends, s_cum) /\ T2 = TightTile(b2, ends, s_cum) BY <1>1, <1>6 DEF TileOf
  <2> QED BY <1>3, <1>4, <2>1, <2>2, TightTilesApart
<1>7. CASE tight /\ schedule # "waves"
  <2>1. EndsRegions(ends) /\ Cumulates(s_cum) /\ num_blocks = s_cum[NumExperts] * NumBlocksN BY <1>7, LaunchFacts
  <2>2. /\ T1 = CounterTile(b1, CounterExpert(b1, s_cum), ends, s_cum)
        /\ T2 = CounterTile(b2, CounterExpert(b2, s_cum), ends, s_cum)
    BY <1>1, <1>7 DEF TileOf
  <2> QED BY <1>3, <1>4, <2>1, <2>2, CounterTilesApart
<1> QED BY <1>5, <1>6, <1>7

\* A row is multiplied with the weights of its expert.
LEMMA CoversOwn ==
  ASSUME TilesFit, SortInv, PlaceInv, MetaInv, LaunchInv, InGemm, NEW b \in Nat, b < num_blocks,
         NEW cell \in Cells, Covers(b, cell)
  PROVE  /\ TileOf(b).group \in Int
         /\ \A idx \in Routes : mem.inverse[idx] = cell[1] => TileOf(b).group = flat[idx]
<1>1. PICK T : T = TileOf(b) OBVIOUS
<1>2. PICK r : r = cell[1] OBVIOUS
<1>3. r \in 0 .. capacity - 1 /\ capacity \in Nat BY <1>2, LaunchFacts DEF Cells
<1>4. r \in T.row0 .. T.row0 + T.rows - 1 BY <1>1, <1>2 DEF Covers
<1>5. ASSUME NEW idx \in Routes, mem.inverse[idx] = r
      PROVE  flat[idx] \in Experts /\ RegionStart(flat[idx]) <= r /\ r < RegionStart(flat[idx] + 1)
  BY <1>5, LaunchFacts
<1>6. CASE ~tight
  <2>1. /\ variant = "aligned" /\ num_blocks = WholeBlocks(capacity) * NumBlocksN
        /\ OwnsRows(mem.metadata, capacity)
    BY <1>6, LaunchFacts
  <2>2. Alignment % BlockM = 0 BY <2>1 DEF LaunchInv, TilesFit
  <2>3. T = PerRowTile(b, mem.metadata, capacity) BY <1>1, <1>6 DEF TileOf
  <2>4. /\ T.group \in Int
        /\ \A e \in Experts : RegionStart(e) <= r /\ r < RegionStart(e + 1) => T.group = e
    BY <1>3, <1>4, <1>6, <2>1, <2>2, <2>3, PerRowOwner
  <2> QED BY <1>1, <1>2, <1>5, <2>4
<1>7. CASE tight
  <2>1. EndsRegions(ends) /\ Cumulates(s_cum) /\ num_blocks = s_cum[NumExperts] * NumBlocksN BY <1>7, LaunchFacts
  <2>2. \E t, m : Lies(T, t, m)
    <3>1. CASE schedule = "waves"
      <4>1. T = TightTile(b, ends, s_cum) BY <1>1, <1>7, <3>1 DEF TileOf
      <4> QED BY <2>1, <4>1, TightTileIs
    <3>2. CASE schedule # "waves"
      <4>1. T = CounterTile(b, CounterExpert(b, s_cum), ends, s_cum) BY <1>1, <1>7, <3>2 DEF TileOf
      <4> QED BY <2>1, <4>1, CounterTileIs
    <3> QED BY <3>1, <3>2
  <2>3. PICK t, m : Lies(T, t, m) BY <2>2
  <2>4. t \in Nat /\ T.group = t BY <2>3, Positive DEF Lies, Experts
  <2>5. RegionStart(t) <= r /\ r < RegionStart(t + 1) BY <1>3, <1>4, <2>3, LiesInGroup
  <2>6. ASSUME NEW idx \in Routes, mem.inverse[idx] = r PROVE T.group = flat[idx]
    <3>1. flat[idx] \in Nat /\ RegionStart(flat[idx]) <= r /\ r < RegionStart(flat[idx] + 1)
      BY <1>5, <2>6, Positive DEF Experts
    <3>2. r \in Nat BY <1>3
    <3> QED BY <2>4, <2>5, <3>1, <3>2, OneRegion
  <2> QED BY <1>1, <1>2, <2>4, <2>6
<1> QED BY <1>6, <1>7

-----------------------------------------------------------------------------
(* What the thread blocks have written. *)

\* What a block of the persistent kernel is at, by its two threads: they are in one
\* round, but for a thread that went past the last tile, or past its product, ahead of
\* the other; and a tile is computed with the expert the block agreed on for it.
Steps == {"claim", "top_sync", "read", "expert_sync", "compute", "exit"}
Ctas == [s_tile : Int, s_expert : Int, pc : [Lanes -> Steps],
         iter : [Lanes -> Int], flat_id : [Lanes -> Int]]
Tiles == 0 .. num_blocks - 1
Meets(s) ==
  /\ s.pc[1] # "claim"
  /\ s.pc[0] = "read" => \/ s.pc[1] \in {"read", "expert_sync"}
                         \/ s.pc[1] \in {"top_sync", "exit"} /\ s.s_tile >= num_blocks
  /\ s.pc[1] = "read" => \/ s.pc[0] \in {"read", "expert_sync"}
                         \/ s.pc[0] \in {"claim", "top_sync", "exit"} /\ s.s_tile >= num_blocks
  /\ s.pc[0] = "expert_sync" => s.pc[1] \in {"read", "expert_sync"}
  /\ s.pc[1] = "expert_sync" => s.pc[0] \in {"read", "expert_sync"}
  /\ s.pc[0] = "compute" => s.pc[1] \in {"compute", "top_sync", "exit"}
  /\ s.pc[1] = "compute" => s.pc[0] \in {"compute", "claim", "top_sync", "exit"}
  /\ s.pc[0] \in {"expert_sync", "compute"} =>
       s.flat_id[0] = s.s_tile /\ s.s_tile \in Tiles /\ s.s_expert = CounterExpert(s.s_tile, s_cum)
  /\ s.pc[1] = "expert_sync" => s.flat_id[1] = s.s_tile /\ s.s_tile \in Tiles
  /\ s.pc[1] = "compute" =>
       s.flat_id[1] \in Tiles /\ s.s_expert = CounterExpert(s.flat_id[1], s_cum)
  /\ s.pc[0] = "top_sync" =>
       s.s_tile \in Nat /\ s.s_tile # s.flat_id[0] /\ s.s_tile # s.flat_id[1]
  /\ s.pc[0] = "read" \/ s.pc[1] = "read" => s.s_tile \in Nat

\* The tile numbers a block has from the counter; no two blocks have one in common.
Numbers(s) == {s.s_tile, s.flat_id[0], s.flat_id[1]} \ {Unset}
CounterInv ==
  InGemm /\ schedule = "counter" =>
    /\ tile_counter \in Nat
    /\ cta \in [Sms -> Ctas]
    /\ \A pid \in Sms : Meets(cta[pid]) /\ Numbers(cta[pid]) \subseteq 0 .. tile_counter - 1
    /\ \A pid, q \in Sms : pid # q => Numbers(cta[pid]) \cap Numbers(cta[q]) = {}
WaveInv == InGemm /\ schedule = "waves" => wave \in [Sms -> Nat]

\* A block has yet to write a fragment of a tile; the fragment will not be written again.
Ahead(s, x, b) ==
  \/ s.pc[x] \in {"expert_sync", "compute"} /\ s.flat_id[x] = b
  \/ s.s_tile = b /\ (s.pc[0] = "top_sync" \/ s.pc[x] = "read")
Gone(b, x) ==
  IF schedule = "waves" THEN \E pid \in Sms : \E w \in 0 .. wave[pid] - 1 : b = w * NumSms + pid
  ELSE b < tile_counter /\ \A pid \in Sms : ~Ahead(cta[pid], x, b)

\* A cell is empty or holds the product of the one tile that covers it.
CellInv ==
  InGemm =>
    /\ DOMAIN c = Cells
    /\ \A cell \in Cells :
         c[cell] # <<>> => \E b \in Tiles : /\ Covers(b, cell) /\ Gone(b, cell[3])
                                            /\ c[cell] = <<<<TileOf(b).group>> \o a[cell[1]]>>
OperandInv == InGemm => a \in [Rows -> Seq(Int)]

LEMMA SameTiles ==
  ASSUME UNCHANGED <<vars, schedule, s_cum>>
  PROVE  /\ tight' = tight /\ capacity' = capacity /\ Rows' = Rows /\ Cells' = Cells /\ ends' = ends
         /\ num_blocks' = num_blocks /\ Tiles' = Tiles
         /\ \A b : TileOf(b)' = TileOf(b)
         /\ \A b, cell : Covers(b, cell)' = Covers(b, cell)
         /\ \A b : CounterExpert(b, s_cum)' = CounterExpert(b, s_cum)
         /\ Sorted' = Sorted /\ Multiplies' = Multiplies
<1>1. variant' = variant /\ flat' = flat /\ mem' = mem /\ schedule' = schedule /\ s_cum' = s_cum
      /\ at' = at /\ left' = left
  BY DEF vars
<1>2. tight' = tight BY <1>1 DEF tight
<1>3. capacity' = capacity BY <1>1, <1>2 DEF capacity, numel
<1>4. Rows' = Rows /\ ends' = ends BY <1>1, <1>3 DEF Rows, ends
<1>5. Cells' = Cells BY <1>1, <1>4 DEF Cells, Fragments, Lanes
<1>6. num_blocks' = num_blocks BY <1>1, <1>2, <1>3 DEF num_blocks, num_m_blocks
<1>7. Tiles' = Tiles BY <1>6 DEF Tiles
<1>8. \A b : CounterExpert(b, s_cum)' = CounterExpert(b, s_cum) BY <1>1
<1>9. \A b : TileOf(b)' = TileOf(b) BY <1>1, <1>2, <1>3, <1>4, <1>8 DEF TileOf
<1>10. \A b, cell : Covers(b, cell)' = Covers(b, cell) BY <1>9 DEF Covers
<1>11. Threads' = Threads /\ Program' = Program
  <2>1. Same BY <1>1 DEF Same
  <2> QED BY <2>1, SameShape
<1>12. Sorted' = Sorted BY <1>1, <1>11 DEF Sorted
<1>13. Multiplies' = Multiplies BY <1>1, <1>2, <1>3 DEF Multiplies
<1> QED BY <1>2, <1>3, <1>4, <1>5, <1>6, <1>7, <1>8, <1>9, <1>10, <1>12, <1>13

LEMMA StillLaunched ==
  ASSUME LaunchInv, OperandInv, UNCHANGED <<vars, stage, schedule, a, s_cum>>
  PROVE  LaunchInv' /\ OperandInv' /\ InGemm' = InGemm
<1>1. /\ tight' = tight /\ Rows' = Rows /\ ends' = ends /\ Sorted' = Sorted /\ Multiplies' = Multiplies
  BY SameTiles
<1>2. stage' = stage /\ schedule' = schedule /\ a' = a /\ s_cum' = s_cum /\ variant' = variant BY DEF vars
<1>3. InGemm' = InGemm BY <1>2 DEF InGemm
<1>4. tile_cumsum(ends)' = tile_cumsum(ends) BY <1>1
<1>5. LaunchInv' BY <1>1, <1>2, <1>3, <1>4 DEF LaunchInv
<1> QED BY <1>1, <1>2, <1>3, <1>5 DEF OperandInv

\* A tile no block had written, written where it lies.
LEMMA StoreKeeps ==
  ASSUME SortInv, PlaceInv, MetaInv, LaunchInv, CellInv, InGemm,
         UNCHANGED <<vars, stage, schedule, a, s_cum>>,
         NEW b \in Tiles, NEW x, StoreTile(TileOf(b), x), ~Gone(b, x), Gone(b, x)',
         \A n \in Tiles, y \in Lanes : Gone(n, y) => Gone(n, y)'
  PROVE  CellInv'
<1>1. /\ Cells' = Cells /\ Tiles' = Tiles
      /\ \A n : TileOf(n)' = TileOf(n)
      /\ \A n, cell : Covers(n, cell)' = Covers(n, cell)
  BY SameTiles
<1>2. DOMAIN c' = Cells BY DEF StoreTile
<1>3. num_blocks \in Nat BY LaunchFacts
<1>7. \A cell \in Cells : cell[3] \in Lanes BY DEF Cells, Fragments, Lanes
<1>4. ASSUME NEW cell \in Cells, c'[cell] # <<>>
      PROVE  \E n \in Tiles : /\ Covers(n, cell) /\ Gone(n, cell[3])'
                               /\ c'[cell] = <<<<TileOf(n).group>> \o a[cell[1]]>>
  <2>1. CASE Covers(b, cell) /\ cell[3] = x
    <3>1. c[cell] = <<>>
      <4> SUFFICES ASSUME c[cell] # <<>> PROVE FALSE OBVIOUS
      <4>1. PICK n \in Tiles : Covers(n, cell) /\ Gone(n, cell[3]) BY DEF CellInv
      <4>2. n = b BY <1>3, <2>1, <4>1, CoversOnce DEF Tiles
      <4> QED BY <2>1, <4>1, <4>2
    <3>2. c'[cell] = Append(c[cell], <<TileOf(b).group>> \o a[cell[1]])
      BY <2>1 DEF StoreTile, Covers
    <3>3. c'[cell] = <<<<TileOf(b).group>> \o a[cell[1]]>> BY <3>1, <3>2
    <3> QED BY <2>1, <3>3
  <2>2. CASE ~(Covers(b, cell) /\ cell[3] = x)
    <3>1. c'[cell] = c[cell] BY <2>2 DEF StoreTile, Covers
    <3>2. PICK n \in Tiles : /\ Covers(n, cell) /\ Gone(n, cell[3])
                             /\ c[cell] = <<<<TileOf(n).group>> \o a[cell[1]]>>
      BY <1>4, <3>1 DEF CellInv
    <3>3. Gone(n, cell[3])' BY <3>2, <1>7
    <3> QED BY <3>1, <3>2, <3>3
  <2> QED BY <2>1, <2>2
<1>5. a' = a OBVIOUS
<1>6. ASSUME NEW cell \in Cells', c'[cell] # <<>>
      PROVE  \E n \in Tiles' : /\ Covers(n, cell)' /\ Gone(n, cell[3])'
                                /\ c'[cell] = <<<<TileOf(n)'.group>> \o a'[cell[1]]>>
  BY <1>1, <1>4, <1>5, <1>6
<1> QED BY <1>1, <1>2, <1>6 DEF CellInv

\* A step that writes nothing.
LEMMA QuietKeeps ==
  ASSUME CellInv, UNCHANGED <<vars, stage, schedule, a, s_cum, c>>,
         InGemm => \A n \in Tiles, y \in Lanes : Gone(n, y) => Gone(n, y)'
  PROVE  CellInv'
<1>1. /\ Cells' = Cells /\ Tiles' = Tiles
      /\ \A n : TileOf(n)' = TileOf(n)
      /\ \A n, cell : Covers(n, cell)' = Covers(n, cell)
  BY SameTiles
<1>2. InGemm' = InGemm BY DEF InGemm
<1>3. SUFFICES ASSUME InGemm
               PROVE  /\ DOMAIN c' = Cells'
                      /\ \A cell \in Cells' :
                           c'[cell] # <<>> => \E n \in Tiles' : /\ Covers(n, cell)' /\ Gone(n, cell[3])'
                                                /\ c'[cell] = <<<<TileOf(n)'.group>> \o a'[cell[1]]>>
  BY <1>2 DEF CellInv
<1>4. c' = c /\ a' = a OBVIOUS
<1>5. ASSUME NEW cell \in Cells, c[cell] # <<>>
      PROVE  \E n \in Tiles : /\ Covers(n, cell) /\ Gone(n, cell[3])'
                               /\ c[cell] = <<<<TileOf(n).group>> \o a[cell[1]]>>
  <2>1. PICK n \in Tiles : /\ Covers(n, cell) /\ Gone(n, cell[3])
                           /\ c[cell] = <<<<TileOf(n).group>> \o a[cell[1]]>>
    BY <1>3, <1>5 DEF CellInv
  <2>2. cell[3] \in Lanes BY <1>5 DEF Cells, Fragments, Lanes
  <2> QED BY <1>3, <2>1, <2>2
<1>6. DOMAIN c = Cells BY <1>3 DEF CellInv
<1> QED BY <1>1, <1>4, <1>5, <1>6

TilesInv == LaunchInv /\ CounterInv /\ WaveInv /\ CellInv /\ OperandInv

LEMMA WaveStep ==
  ASSUME SortInv, PlaceInv, MetaInv, TilesInv, NEW pid \in Sms, Wave(pid)
  PROVE  TilesInv'
<1>1. /\ InGemm /\ schedule = "waves"
      /\ wave' = [wave EXCEPT ![pid] = @ + 1]
      /\ UNCHANGED <<vars, stage, schedule, a, s_cum, cta, tile_counter>>
  BY DEF Wave
<1>2. LaunchInv /\ OperandInv /\ CellInv /\ wave \in [Sms -> Nat] BY <1>1 DEF TilesInv, WaveInv
<1>3. LaunchInv' /\ OperandInv' /\ InGemm' = InGemm BY <1>1, <1>2, StillLaunched
<1>4. WaveInv' BY <1>1, <1>2 DEF WaveInv, Sms
<1>5. CounterInv' BY <1>1 DEF CounterInv
<1>6. NumSms \in Nat \ {0} /\ Sms = 0 .. NumSms - 1 BY TileSizes DEF Sms
<1>7. \A p \in Sms : wave[p] \in Nat /\ wave'[p] = IF p = pid THEN wave[p] + 1 ELSE wave[p]
  BY <1>1, <1>2
<1>8. ASSUME NEW n, NEW y \in Lanes, Gone(n, y) PROVE Gone(n, y)'
  <2>1. PICK p \in Sms : \E w \in 0 .. wave[p] - 1 : n = w * NumSms + p BY <1>1, <1>8 DEF Gone
  <2>3. PICK w \in 0 .. wave[p] - 1 : n = w * NumSms + p BY <2>1
  <2>2. w \in 0 .. wave'[p] - 1 BY <1>7, <2>3
  <2> QED BY <1>1, <1>6, <2>3, <2>2 DEF Gone, Sms
<1>9. PICK block_idx : block_idx = wave[pid] * NumSms + pid OBVIOUS
<1>10. block_idx \in Nat /\ block_idx = NumSms * wave[pid] + pid
  <2>1. NumSms * wave[pid] \in Nat /\ NumSms * wave[pid] = wave[pid] * NumSms BY <1>6, <1>7, TimesMono
  <2> QED BY <1>6, <1>9, <2>1
<1>11. num_blocks \in Nat BY <1>1, <1>2, LaunchFacts
<1>12. CASE block_idx < num_blocks
  <2>1. block_idx \in Tiles BY <1>10, <1>11, <1>12 DEF Tiles
  <2>2. StoreTile(TileOf(block_idx), 0)
    BY <1>1, <1>9, <1>12 DEF Wave, TileOf
  <2>3. ~Gone(block_idx, 0)
    <3> SUFFICES ASSUME Gone(block_idx, 0) PROVE FALSE OBVIOUS
    <3>1. PICK p \in Sms : \E w \in 0 .. wave[p] - 1 : block_idx = w * NumSms + p BY <1>1 DEF Gone
    <3>6. PICK w \in 0 .. wave[p] - 1 : block_idx = w * NumSms + p BY <3>1
    <3>2. w \in Nat /\ w < wave[p] BY <1>7, <3>6
    <3>3. block_idx = NumSms * w + p BY <1>6, <3>6, <3>2
    <3>4. block_idx \div NumSms = w /\ block_idx % NumSms = p BY <1>6, <3>2, <3>3, DivModUnique
    <3>5. block_idx \div NumSms = wave[pid] /\ block_idx % NumSms = pid BY <1>6, <1>7, <1>10, DivModUnique
    <3> QED BY <1>7, <3>2, <3>4, <3>5
  <2>4. Gone(block_idx, 0)'
    <3>1. wave[pid] \in 0 .. wave'[pid] - 1 BY <1>7
    <3> QED BY <1>1, <1>6, <1>9, <3>1 DEF Gone, Sms
  <2>5. CellInv' BY <1>1, <1>2, <1>8, <2>1, <2>2, <2>3, <2>4, StoreKeeps
  <2> QED BY <1>3, <1>4, <1>5, <2>5 DEF TilesInv
<1>13. CASE ~(block_idx < num_blocks)
  <2>1. UNCHANGED c BY <1>9, <1>13 DEF Wave
  <2>2. CellInv' BY <1>1, <1>2, <1>8, <2>1, QuietKeeps
  <2> QED BY <1>3, <1>4, <1>5, <2>2 DEF TilesInv
<1> QED BY <1>12, <1>13

-----------------------------------------------------------------------------
(* A launch. *)

\* An empty product, and no block under way.
LEMMA LaunchKeeps ==
  ASSUME LaunchInv, UNCHANGED <<vars, schedule>>, Launch, stage' \in {"gate_up", "down"},
         Sorted, Multiplies, a' \in [Rows -> Seq(Int)]
  PROVE  TilesInv'
<1>1. variant' = variant /\ flat' = flat /\ mem' = mem /\ at' = at /\ left' = left BY DEF vars
<1>2. tight' = tight BY <1>1 DEF tight
<1>3. capacity' = capacity BY <1>1, <1>2 DEF capacity, numel
<1>4. Rows' = Rows /\ ends' = ends BY <1>1, <1>3 DEF Rows, ends
<1>5. Cells' = Cells BY <1>1, <1>4 DEF Cells, Fragments, Lanes
<1>6. Sorted' /\ Multiplies'
  <2>1. Same BY <1>1 DEF Same
  <2>2. Threads' = Threads /\ Program' = Program BY <2>1, SameShape
  <2>3. Sorted' BY <1>1, <2>2 DEF Sorted
  <2>4. Multiplies' BY <1>1, <1>2, <1>3 DEF Multiplies
  <2> QED BY <2>3, <2>4
<1>7. LaunchInv'
  <2>1. tile_cumsum(ends)' = tile_cumsum(ends) BY <1>4
  <2>2. s_cum' = IF tight' THEN tile_cumsum(ends)' ELSE <<>> BY <1>2, <2>1 DEF Launch
  <2> QED BY <1>1, <1>2, <1>6, <2>2 DEF LaunchInv
<1>8. OperandInv' BY <1>4 DEF OperandInv
<1>9. WaveInv'
  <2>1. wave' = [pid \in Sms |-> 0] BY DEF Launch
  <2>2. wave' \in [Sms -> Nat] BY <2>1
  <2> QED BY <2>2 DEF WaveInv, Sms
<1>10. CellInv'
  <2>1. c' = [cell \in Cells |-> <<>>] BY DEF Launch
  <2>2. DOMAIN c' = Cells /\ \A cell \in Cells : c'[cell] = <<>> BY <2>1
  <2> QED BY <1>5, <2>2 DEF CellInv
<1>11. CounterInv'
  <2>1. cta' = [pid \in Sms |-> NewCta] /\ tile_counter' = 0 BY DEF Launch
  <2>2. NewCta \in Ctas BY DEF NewCta, Ctas, Lanes, Steps, Unset
  <2>3. Lanes = {0, 1} BY DEF Lanes
  <2>4. NewCta.pc[0] = "claim" /\ NewCta.pc[1] = "top_sync" /\ Numbers(NewCta) = {}
    BY <2>3 DEF NewCta, Numbers
  <2>6. \A pid \in Sms : cta'[pid] = NewCta BY <2>1
  <2>7. cta' \in [Sms -> Ctas] BY <2>1, <2>2
  <2>8. ASSUME NEW pid \in Sms PROVE Meets(cta[pid])'
    <3>1. cta'[pid].pc[0] = "claim" /\ cta'[pid].pc[1] = "top_sync" BY <2>4, <2>6, <2>8
    <3> QED BY <3>1 DEF Meets
  <2>9. \A pid \in Sms : Numbers(cta[pid])' = {} BY <2>4, <2>6 DEF Numbers, NewCta
  <2> QED BY <2>1, <2>7, <2>8, <2>9 DEF CounterInv, Sms, Ctas, Lanes, Steps
<1> QED BY <1>7, <1>8, <1>9, <1>10, <1>11 DEF TilesInv

LEMMA GatherStep ==
  ASSUME SortInv, TilesInv, Gather
  PROVE  TilesInv'
<1>1. /\ LaunchInv /\ Sorted /\ Multiplies /\ Launch /\ stage' \in {"gate_up", "down"}
      /\ UNCHANGED <<vars, schedule>>
  BY DEF Gather, TilesInv
<1>2. mem.rows \in [Rows -> Int] BY DEF SortInv, TypeInv, MemInv
<1>3. a' = [r \in Rows |-> IF mem.rows[r] < NumTokens THEN <<mem.rows[r]>> ELSE <<>>] BY DEF Gather
<1>4. ASSUME NEW r \in Rows PROVE a'[r] \in Seq(Int)
  <2>1. <<mem.rows[r]>> \in Seq(Int) /\ <<>> \in Seq(Int) BY <1>2
  <2> QED BY <1>3, <2>1
<1>5. a' \in [Rows -> Seq(Int)] BY <1>3, <1>4
<1> QED BY <1>1, <1>5, LaunchKeeps

LEMMA ProductRowIs ==
  ASSUME TilesFit, SortInv, PlaceInv, MetaInv, LaunchInv, CellInv, OperandInv, InGemm, NEW r \in Rows
  PROVE  ProductRow(r) \in Seq(Int)
<1> DEFINE writes == {c[cell] : cell \in {x \in Cells : x[1] = r}}
<1>1. CASE \E v \in writes : writes = {v} /\ Len(v) = 1
  <2>1. PICK v : v = CHOOSE w \in writes : TRUE OBVIOUS
  <2>2. v \in writes /\ Len(v) = 1 BY <1>1, <2>1
  <2>3. PICK cell \in Cells : cell[1] = r /\ v = c[cell] BY <2>2
  <2>4. v # <<>>
    <3>1. Len(v) = 1 BY <2>2
    <3>2. SUFFICES ASSUME v = <<>> PROVE FALSE OBVIOUS
    <3>3. Len(v) = 0 BY <3>2
    <3> QED BY <3>1, <3>3
  <2>5. PICK b \in Tiles : Covers(b, cell) /\ v = <<<<TileOf(b).group>> \o a[r]>> BY <2>3, <2>4 DEF CellInv
  <2>6. TileOf(b).group \in Int
    <3>1. num_blocks \in Nat BY LaunchFacts
    <3> QED BY <2>3, <2>5, <3>1, CoversOwn DEF Tiles
  <2>7. a[r] \in Seq(Int) BY DEF OperandInv
  <2>8. <<TileOf(b).group>> \o a[r] \in Seq(Int) BY <2>6, <2>7
  <2>9. Head(v) \in Seq(Int) BY <2>5, <2>8
  <2>10. ProductRow(r) = Head(v) BY <1>1, <2>1 DEF ProductRow
  <2> QED BY <2>9, <2>10
<1>2. CASE ~(\E v \in writes : writes = {v} /\ Len(v) = 1)
  <2>1. ProductRow(r) = <<>> BY <1>2 DEF ProductRow
  <2> QED BY <2>1
<1> QED BY <1>1, <1>2

LEMMA DownStep ==
  ASSUME TilesFit, SortInv, PlaceInv, MetaInv, TilesInv, Down
  PROVE  TilesInv'
<1>1. /\ LaunchInv /\ CellInv /\ OperandInv /\ Launch /\ stage' \in {"gate_up", "down"}
      /\ UNCHANGED <<vars, schedule>> /\ InGemm
  BY DEF Down, TilesInv, InGemm
<1>2. Sorted /\ Multiplies BY <1>1 DEF LaunchInv
<1>3. a' = [r \in Rows |-> ProductRow(r)] BY DEF Down
<1>4. \A r \in Rows : ProductRow(r) \in Seq(Int) BY <1>1, ProductRowIs
<1>5. a' \in [Rows -> Seq(Int)] BY <1>3, <1>4
<1> QED BY <1>1, <1>2, <1>5, LaunchKeeps

-----------------------------------------------------------------------------
(* The product, when the invariant holds. *)

LEMMA TilesWrittenOnce ==
  ASSUME TilesFit, SortInv, PlaceInv, MetaInv, TilesInv
  PROVE  TilesOnce
<1> SUFFICES ASSUME InGemm, NEW cell \in Cells
             PROVE  /\ Len(c[cell]) <= 1
                    /\ c[cell] # <<>> =>
                         \A idx \in Routes : mem.inverse[idx] = cell[1] => Head(c[cell][1]) = flat[idx]
  BY DEF TilesOnce
<1>1. LaunchInv /\ CellInv /\ OperandInv BY DEF TilesInv
<1>2. CASE c[cell] = <<>> BY <1>2
<1>3. CASE c[cell] # <<>>
  <2>1. PICK b \in Tiles : Covers(b, cell) /\ c[cell] = <<<<TileOf(b).group>> \o a[cell[1]]>>
    BY <1>1, <1>3 DEF CellInv
  <2>2. /\ TileOf(b).group \in Int
        /\ \A idx \in Routes : mem.inverse[idx] = cell[1] => TileOf(b).group = flat[idx]
    <3>1. num_blocks \in Nat BY <1>1, LaunchFacts
    <3> QED BY <1>1, <2>1, <3>1, CoversOwn DEF Tiles
  <2>3. a[cell[1]] \in Seq(Int) BY <1>1 DEF OperandInv, Cells
  <2>4. Head(<<TileOf(b).group>> \o a[cell[1]]) = TileOf(b).group
    <3>1. PICK s \in Seq(Int), g \in Int : s = a[cell[1]] /\ g = TileOf(b).group BY <2>2, <2>3
    <3>2. Head(<<g>> \o s) = g OBVIOUS
    <3> QED BY <3>1, <3>2
  <2>5. Len(c[cell]) = 1 /\ c[cell][1] = <<TileOf(b).group>> \o a[cell[1]]
    <3>1. PICK v : v = <<TileOf(b).group>> \o a[cell[1]] OBVIOUS
    <3>2. c[cell] = <<v>> BY <2>1, <3>1
    <3> QED BY <3>1, <3>2
  <2> QED BY <2>2, <2>4, <2>5
<1> QED BY <1>2, <1>3

-----------------------------------------------------------------------------
(* A step of a block of the persistent kernel. *)

\* A step that takes its block to a state the two threads may be in, with no tile
\* number but those the block had and fresh ones.
Advances(pid, s) ==
  /\ InGemm /\ schedule = "counter"
  /\ UNCHANGED <<vars, stage, schedule, a, s_cum, wave>>
  /\ s \in Ctas /\ cta' = [cta EXCEPT ![pid] = s]
  /\ Meets(s)
  /\ tile_counter' \in Nat /\ tile_counter <= tile_counter'
  /\ Numbers(s) \subseteq Numbers(cta[pid]) \cup (tile_counter .. tile_counter' - 1)

LEMMA BlockFacts ==
  ASSUME SortInv, PlaceInv, MetaInv, TilesInv, InGemm, schedule = "counter"
  PROVE  /\ tile_counter \in Nat /\ num_blocks \in Nat /\ Lanes = {0, 1}
         /\ cta \in [Sms -> Ctas]
         /\ \A p \in Sms : /\ Meets(cta[p])
                           /\ \A n \in Numbers(cta[p]) : n \in Nat /\ n < tile_counter
         /\ \A p, q \in Sms : p # q => Numbers(cta[p]) \cap Numbers(cta[q]) = {}
<1>1. LaunchInv /\ CounterInv BY DEF TilesInv
<1>2. num_blocks \in Nat BY <1>1, LaunchFacts
<1>3. /\ tile_counter \in Nat /\ cta \in [Sms -> Ctas]
      /\ \A p \in Sms : Meets(cta[p]) /\ Numbers(cta[p]) \subseteq 0 .. tile_counter - 1
      /\ \A p, q \in Sms : p # q => Numbers(cta[p]) \cap Numbers(cta[q]) = {}
  BY <1>1 DEF CounterInv
<1>4. ASSUME NEW p \in Sms, NEW n \in Numbers(cta[p]) PROVE n \in Nat /\ n < tile_counter
  <2>1. n \in 0 .. tile_counter - 1 BY <1>3
  <2> QED BY <1>3, <2>1
<1> QED BY <1>2, <1>3, <1>4 DEF Lanes

LEMMA BlockAdvances ==
  ASSUME SortInv, PlaceInv, MetaInv, TilesInv, NEW pid \in Sms, NEW s, Advances(pid, s)
  PROVE  LaunchInv' /\ OperandInv' /\ WaveInv' /\ CounterInv'
<1>1. /\ InGemm /\ schedule = "counter" /\ UNCHANGED <<vars, stage, schedule, a, s_cum>>
      /\ s \in Ctas /\ cta' = [cta EXCEPT ![pid] = s] /\ Meets(s)
      /\ tile_counter' \in Nat /\ tile_counter <= tile_counter'
      /\ Numbers(s) \subseteq Numbers(cta[pid]) \cup (tile_counter .. tile_counter' - 1)
  BY DEF Advances
<1>2. LaunchInv' /\ OperandInv' BY <1>1, StillLaunched DEF TilesInv
<1>3. WaveInv' BY <1>1 DEF WaveInv
<1>4. /\ tile_counter \in Nat /\ cta \in [Sms -> Ctas]
      /\ \A p \in Sms : /\ Meets(cta[p])
                        /\ \A n \in Numbers(cta[p]) : n \in Nat /\ n < tile_counter
      /\ \A p, q \in Sms : p # q => Numbers(cta[p]) \cap Numbers(cta[q]) = {}
  BY <1>1, BlockFacts
<1>5. cta' \in [Sms -> Ctas] BY <1>1, <1>4
<1>6. /\ cta'[pid] = s
      /\ \A p \in Sms : p # pid => cta'[p] = cta[p]
  BY <1>1, <1>4
<1>7. \A t : Meets(t) => Meets(t)'
  <2>1. num_blocks' = num_blocks /\ Tiles' = Tiles
        /\ \A b : CounterExpert(b, s_cum)' = CounterExpert(b, s_cum)
    BY <1>1, SameTiles
  <2>2. s_cum' = s_cum BY <1>1
  <2> QED BY <2>1, <2>2 DEF Meets
<1>8. ASSUME NEW p \in Sms PROVE Meets(cta[p])'
  <2>1. PICK t : t = cta'[p] OBVIOUS
  <2>2. Meets(t) BY <1>1, <1>4, <1>6, <2>1
  <2>3. Meets(t)' BY <1>7, <2>2
  <2> QED BY <2>1, <2>3 DEF Meets
<1>9. \A n \in Numbers(s) : n \in Nat /\ n < tile_counter' /\ (n \in Numbers(cta[pid]) \/ n >= tile_counter)
  BY <1>1, <1>4
<1>10. ASSUME NEW p \in Sms, NEW n \in Numbers(cta'[p]) PROVE n \in 0 .. tile_counter' - 1
  <2>1. CASE p = pid BY <1>1, <1>6, <1>9, <1>10, <2>1
  <2>2. CASE p # pid BY <1>1, <1>4, <1>6, <1>10, <2>2
  <2> QED BY <2>1, <2>2
<1>11. ASSUME NEW p \in Sms, NEW q \in Sms, p # q PROVE Numbers(cta'[p]) \cap Numbers(cta'[q]) = {}
  <2>1. SUFFICES ASSUME NEW n \in Numbers(cta'[p]), n \in Numbers(cta'[q]) PROVE FALSE OBVIOUS
  <2>2. CASE p = pid
    <3>1. n \in Numbers(s) /\ n \in Numbers(cta[q]) BY <1>6, <1>11, <2>1, <2>2
    <3>2. n < tile_counter BY <1>4, <3>1
    <3>3. n \in Numbers(cta[pid]) BY <1>4, <1>9, <3>1, <3>2
    <3> QED BY <1>4, <1>11, <2>2, <3>1, <3>3
  <2>3. CASE q = pid
    <3>1. n \in Numbers(s) /\ n \in Numbers(cta[p]) BY <1>6, <1>11, <2>1, <2>3
    <3>2. n < tile_counter BY <1>4, <3>1
    <3>3. n \in Numbers(cta[pid]) BY <1>4, <1>9, <3>1, <3>2
    <3> QED BY <1>4, <1>11, <2>3, <3>1, <3>3
  <2>4. CASE p # pid /\ q # pid BY <1>4, <1>6, <1>11, <2>1, <2>4
  <2> QED BY <2>2, <2>3, <2>4
<1>12. CounterInv'
  <2>1. \A t : Numbers(t)' = Numbers(t) BY DEF Numbers
  <2>2. \A p \in Sms : Numbers(cta[p])' = Numbers(cta'[p]) BY DEF Numbers
  <2>3. \A p \in Sms : Numbers(cta[p])' \subseteq 0 .. tile_counter' - 1 BY <1>10, <2>2
  <2>4. \A p, q \in Sms : p # q => Numbers(cta[p])' \cap Numbers(cta[q])' = {} BY <1>11, <2>2
  <2> QED BY <1>1, <1>5, <1>8, <2>3, <2>4 DEF CounterInv, Sms, Ctas, Lanes, Steps
<1> QED BY <1>2, <1>3, <1>12

\* The stores that lay behind the blocks still do, if the step puts none before its own.
LEMMA BlockGone ==
  ASSUME SortInv, PlaceInv, MetaInv, TilesInv, NEW pid \in Sms, NEW s, Advances(pid, s),
         NEW n \in Tiles, NEW y \in Lanes,
         Ahead(s, y, n) => Ahead(cta[pid], y, n) \/ n >= tile_counter, Gone(n, y)
  PROVE  Gone(n, y)'
<1>1. /\ InGemm /\ schedule = "counter" /\ schedule' = schedule
      /\ cta' = [cta EXCEPT ![pid] = s] /\ tile_counter' \in Nat /\ tile_counter <= tile_counter'
  BY DEF Advances
<1>2. tile_counter \in Nat /\ num_blocks \in Nat /\ cta \in [Sms -> Ctas] BY <1>1, BlockFacts
<1>3. n \in Nat BY <1>2 DEF Tiles
<1>4. n < tile_counter /\ \A p \in Sms : ~Ahead(cta[p], y, n) BY <1>1 DEF Gone
<1>5. ~Ahead(s, y, n) BY <1>2, <1>3, <1>4
<1>6. \A p \in Sms : ~Ahead(cta'[p], y, n)
  <2>1. cta'[pid] = s /\ \A p \in Sms : p # pid => cta'[p] = cta[p] BY <1>1, <1>2
  <2> QED BY <1>4, <1>5, <2>1
<1>7. n < tile_counter' BY <1>1, <1>2, <1>3, <1>4
<1>8. \A p \in Sms : ~Ahead(cta[p], y, n)' BY <1>6 DEF Ahead
<1> QED BY <1>1, <1>7, <1>8 DEF Gone, Sms

LEMMA QuietAdvance ==
  ASSUME SortInv, PlaceInv, MetaInv, TilesInv, NEW pid \in Sms, NEW s, Advances(pid, s),
         UNCHANGED c,
         \A n \in Tiles, y \in Lanes : Ahead(s, y, n) => Ahead(cta[pid], y, n) \/ n >= tile_counter
  PROVE  TilesInv'
<1>1. LaunchInv' /\ OperandInv' /\ WaveInv' /\ CounterInv' BY BlockAdvances
<1>2. \A n \in Tiles, y \in Lanes : Gone(n, y) => Gone(n, y)' BY BlockGone
<1>3. CellInv /\ UNCHANGED <<vars, stage, schedule, a, s_cum, c>> BY DEF TilesInv, Advances
<1>4. CellInv' BY <1>2, <1>3, QuietKeeps
<1> QED BY <1>1, <1>4 DEF TilesInv

LEMMA TakeTileStep ==
  ASSUME SortInv, PlaceInv, MetaInv, TilesInv, NEW pid \in Sms, TakeTile(pid)
  PROVE  TilesInv'
<1>1. /\ InGemm /\ schedule = "counter" /\ cta[pid].pc[0] = "claim"
      /\ UNCHANGED <<vars, stage, schedule, a, s_cum, wave, c>>
      /\ tile_counter' = tile_counter + 1
      /\ cta' = [cta EXCEPT ![pid].s_tile = tile_counter, ![pid].pc[0] = "top_sync"]
  BY DEF TakeTile, CtaStep
<1>2. /\ tile_counter \in Nat /\ num_blocks \in Nat /\ Lanes = {0, 1} /\ cta \in [Sms -> Ctas]
      /\ Meets(cta[pid]) /\ \A n \in Numbers(cta[pid]) : n \in Nat /\ n < tile_counter
  BY <1>1, BlockFacts
<1>3. PICK s0 : s0 = cta[pid] OBVIOUS
<1>4. PICK s : s = [s0 EXCEPT !.s_tile = tile_counter, !.pc[0] = "top_sync"] OBVIOUS
<1>5. s0 \in Ctas BY <1>2, <1>3
<1>6. /\ s \in Ctas /\ s.s_tile = tile_counter /\ s.s_expert = s0.s_expert /\ s.flat_id = s0.flat_id
      /\ s.pc[0] = "top_sync" /\ s.pc[1] = s0.pc[1]

  <2>1. s0.pc \in [Lanes -> Steps] BY <1>5 DEF Ctas
  <2>2. s = [s_tile |-> tile_counter, s_expert |-> s0.s_expert, iter |-> s0.iter,
             flat_id |-> s0.flat_id, pc |-> [s0.pc EXCEPT ![0] = "top_sync"]]
    BY <1>4, <1>5 DEF Ctas
  <2>3. [s0.pc EXCEPT ![0] = "top_sync"] \in [Lanes -> Steps] BY <2>1 DEF Steps
  <2>4. s.pc[0] = "top_sync" /\ s.pc[1] = s0.pc[1] BY <1>2, <2>1, <2>2
  <2>5. s \in Ctas BY <1>2, <1>5, <2>2, <2>3 DEF Ctas
  <2> QED BY <2>2, <2>4, <2>5
<1>7. cta' = [cta EXCEPT ![pid] = s]
  <2>1. PICK d : d = [cta EXCEPT ![pid].s_tile = tile_counter] OBVIOUS
  <2>2. d = [cta EXCEPT ![pid] = [s0 EXCEPT !.s_tile = tile_counter]] BY <1>3, <2>1
  <2>3. cta' = [d EXCEPT ![pid].pc[0] = "top_sync"] BY <1>1, <2>1
  <2>4. DOMAIN d = Sms /\ d[pid] = [s0 EXCEPT !.s_tile = tile_counter]
        /\ \A p \in Sms : p # pid => d[p] = cta[p]
    BY <1>2, <2>2
  <2>5. cta' = [d EXCEPT ![pid] = s] BY <1>4, <2>3, <2>4
  <2>6. DOMAIN cta' = Sms /\ cta'[pid] = s /\ \A p \in Sms : p # pid => cta'[p] = cta[p]
    BY <2>4, <2>5
  <2> QED BY <1>2, <2>5, <2>6, <2>2
<1>8. s0.s_tile \in Int /\ s0.flat_id[0] \in Int /\ s0.flat_id[1] \in Int BY <1>2, <1>5 DEF Ctas
<1>9. /\ s0.s_tile \in Nat => s0.s_tile < tile_counter
      /\ s0.flat_id[0] # tile_counter /\ s0.flat_id[1] # tile_counter
  BY <1>2, <1>3, <1>8 DEF Numbers, Unset
<1>10. Meets(s) BY <1>1, <1>2, <1>3, <1>6, <1>8, <1>9 DEF Meets
<1>11. Numbers(s) \subseteq Numbers(s0) \cup (tile_counter .. tile_counter' - 1)
  BY <1>1, <1>2, <1>6 DEF Numbers
<1>12. Advances(pid, s)
  <2>1. UNCHANGED <<vars, stage, schedule, a, s_cum, wave>> BY <1>1
  <2>2. tile_counter' \in Nat /\ tile_counter <= tile_counter' BY <1>1, <1>2
  <2>3. Numbers(s) \subseteq Numbers(cta[pid]) \cup (tile_counter .. tile_counter' - 1) BY <1>3, <1>11
  <2> QED BY <1>1, <1>6, <1>7, <1>10, <2>1, <2>2, <2>3 DEF Advances
<1>13. ASSUME NEW n \in Tiles, NEW y \in Lanes, Ahead(s, y, n)
       PROVE  Ahead(s0, y, n) \/ n >= tile_counter
  BY <1>2, <1>6, <1>13 DEF Ahead
<1> QED BY <1>1, <1>3, <1>12, <1>13, QuietAdvance

LEMMA BarrierStep ==
  ASSUME SortInv, PlaceInv, MetaInv, TilesInv, NEW pid \in Sms, Barrier(pid)
  PROVE  TilesInv'
<1>1. /\ InGemm /\ schedule = "counter"
      /\ UNCHANGED <<vars, stage, schedule, a, s_cum, wave, c, tile_counter>>
      /\ \A x \in Lanes : cta[pid].pc[x] \in {"top_sync", "expert_sync"}
      /\ cta' = [cta EXCEPT ![pid].pc =
                   [x \in Lanes |-> IF @[x] = "top_sync" THEN "read" ELSE "compute"]]
  BY DEF Barrier, CtaStep
<1>2. /\ tile_counter \in Nat /\ num_blocks \in Nat /\ Lanes = {0, 1} /\ cta \in [Sms -> Ctas]
      /\ Meets(cta[pid]) /\ \A n \in Numbers(cta[pid]) : n \in Nat /\ n < tile_counter
  BY <1>1, BlockFacts
<1>3. PICK s0 : s0 = cta[pid] OBVIOUS
<1>13. PICK f : f = [x \in Lanes |-> IF cta[pid].pc[x] = "top_sync" THEN "read" ELSE "compute"] OBVIOUS
<1>4. PICK s : s = [s0 EXCEPT !.pc = f] OBVIOUS
<1>5. s0 \in Ctas BY <1>2, <1>3
<1>6. /\ s \in Ctas /\ s.s_tile = s0.s_tile /\ s.s_expert = s0.s_expert /\ s.flat_id = s0.flat_id
      /\ \A x \in Lanes : s.pc[x] = IF s0.pc[x] = "top_sync" THEN "read" ELSE "compute"

  <2>2. s = [s_tile |-> s0.s_tile, s_expert |-> s0.s_expert, iter |-> s0.iter,
             flat_id |-> s0.flat_id, pc |-> f]
    BY <1>4, <1>5 DEF Ctas
  <2>3. f \in [Lanes -> Steps] BY <1>13 DEF Steps
  <2>4. \A x \in Lanes : s.pc[x] = IF s0.pc[x] = "top_sync" THEN "read" ELSE "compute" BY <1>3, <1>13, <2>2
  <2>5. s \in Ctas BY <1>5, <2>2, <2>3 DEF Ctas
  <2> QED BY <2>2, <2>4, <2>5
<1>7. cta' = [cta EXCEPT ![pid] = s]
  <2>1. cta' = [cta EXCEPT ![pid].pc = f] BY <1>1, <1>13
  <2> QED BY <1>2, <1>3, <1>4, <2>1
<1>8. \/ s0.pc[0] = "top_sync" /\ s0.pc[1] = "top_sync" /\ s.pc[0] = "read" /\ s.pc[1] = "read"
      \/ s0.pc[0] = "expert_sync" /\ s0.pc[1] = "expert_sync" /\ s.pc[0] = "compute" /\ s.pc[1] = "compute"
  BY <1>1, <1>2, <1>3, <1>6 DEF Meets
<1>9. Meets(s) BY <1>2, <1>3, <1>6, <1>8 DEF Meets
<1>10. Numbers(s) = Numbers(s0) BY <1>6 DEF Numbers
<1>11. Advances(pid, s)
  <2>1. UNCHANGED <<vars, stage, schedule, a, s_cum, wave>> BY <1>1
  <2>2. tile_counter' \in Nat /\ tile_counter <= tile_counter' BY <1>1, <1>2
  <2>3. Numbers(s) \subseteq Numbers(cta[pid]) \cup (tile_counter .. tile_counter' - 1) BY <1>3, <1>10
  <2> QED BY <1>1, <1>6, <1>7, <1>9, <2>1, <2>2, <2>3 DEF Advances
<1>12. ASSUME NEW n \in Tiles, NEW y \in Lanes, Ahead(s, y, n) PROVE Ahead(s0, y, n)
  BY <1>2, <1>6, <1>8, <1>12 DEF Ahead
<1> QED BY <1>1, <1>3, <1>11, <1>12, QuietAdvance

LEMMA NextIterationIs ==
  ASSUME NEW s0 \in Ctas, NEW x \in Lanes, NEW s, s = NextIteration(x, s0)
  PROVE  /\ s \in Ctas /\ s.s_tile = s0.s_tile /\ s.s_expert = s0.s_expert /\ s.flat_id = s0.flat_id
         /\ s.pc[x] \in {"exit", IF x = 0 THEN "claim" ELSE "top_sync"}
         /\ \A y \in Lanes : y # x => s.pc[y] = s0.pc[y]
<1>1. /\ s0.pc \in [Lanes -> Steps] /\ s0.iter \in [Lanes -> Int] BY DEF Ctas
<1>2. PICK pc : pc = IF s0.iter[x] + 1 = max_iters THEN "exit" ELSE IF x = 0 THEN "claim" ELSE "top_sync"
  OBVIOUS
<1>3. pc \in {"exit", IF x = 0 THEN "claim" ELSE "top_sync"} /\ pc \in Steps BY <1>2 DEF Steps
<1>4. s = [s0 EXCEPT !.iter[x] = @ + 1, !.pc[x] = pc] BY <1>2 DEF NextIteration
<1>5. s = [s_tile |-> s0.s_tile, s_expert |-> s0.s_expert, flat_id |-> s0.flat_id,
           iter |-> [s0.iter EXCEPT ![x] = @ + 1], pc |-> [s0.pc EXCEPT ![x] = pc]]
  BY <1>4 DEF Ctas
<1>6. [s0.iter EXCEPT ![x] = @ + 1] \in [Lanes -> Int]
  <2>1. s0.iter[x] + 1 \in Int BY <1>1
  <2> QED BY <1>1, <2>1
<1>7. [s0.pc EXCEPT ![x] = pc] \in [Lanes -> Steps] BY <1>1, <1>3
<1>8. s \in Ctas BY <1>5, <1>6, <1>7 DEF Ctas
<1>9. s.pc[x] = pc /\ \A y \in Lanes : y # x => s.pc[y] = s0.pc[y] BY <1>1, <1>5
<1> QED BY <1>3, <1>5, <1>8, <1>9

LEMMA ReadTileStep ==
  ASSUME SortInv, PlaceInv, MetaInv, TilesInv, NEW pid \in Sms, NEW x \in Lanes, ReadTile(pid, x)
  PROVE  TilesInv'
<1>1. /\ InGemm /\ schedule = "counter" /\ cta[pid].pc[x] = "read"
      /\ UNCHANGED <<vars, stage, schedule, a, s_cum, wave, c, tile_counter>>
  BY DEF ReadTile, CtaStep
<1>2. /\ tile_counter \in Nat /\ num_blocks \in Nat /\ Lanes = {0, 1} /\ cta \in [Sms -> Ctas]
      /\ Meets(cta[pid]) /\ \A n \in Numbers(cta[pid]) : n \in Nat /\ n < tile_counter
  BY <1>1, BlockFacts
<1>3. PICK s0 : s0 = cta[pid] OBVIOUS
<1>4. s0 \in Ctas /\ s0.pc \in [Lanes -> Steps] /\ s0.flat_id \in [Lanes -> Int] BY <1>2, <1>3 DEF Ctas
<1>5. PICK id : id = s0.s_tile OBVIOUS
<1>6. id \in Nat BY <1>1, <1>2, <1>3, <1>5 DEF Meets
<1>7. ASSUME NEW s \in Ctas, cta' = [cta EXCEPT ![pid] = s], Meets(s), Numbers(s) \subseteq Numbers(s0),
             \A n \in Tiles, y \in Lanes : Ahead(s, y, n) => Ahead(s0, y, n)
      PROVE  TilesInv'
  <2>1. UNCHANGED <<vars, stage, schedule, a, s_cum, wave>> BY <1>1
  <2>2. tile_counter' \in Nat /\ tile_counter <= tile_counter' BY <1>1, <1>2
  <2>3. Numbers(s) \subseteq Numbers(cta[pid]) \cup (tile_counter .. tile_counter' - 1) BY <1>3, <1>7
  <2>4. Advances(pid, s) BY <1>1, <1>7, <2>1, <2>2, <2>3 DEF Advances
  <2> QED BY <1>1, <1>3, <1>7, <2>4, QuietAdvance
<1>8. CASE id < num_blocks
  <2>1. PICK expert : expert = IF x = 0 THEN CounterExpert(id, s_cum) ELSE s0.s_expert OBVIOUS
  <2>2. expert \in Int
    <3>1. CASE x = 0
      <4>1. CounterExpert(id, s_cum) \in Int
        <5>1. LaunchInv BY DEF TilesInv
        <5>2. tight BY <1>1, <5>1 DEF LaunchInv
        <5>3. EndsRegions(ends) /\ Cumulates(s_cum) /\ num_blocks = s_cum[NumExperts] * NumBlocksN
          BY <1>1, <5>1, <5>2, LaunchFacts
        <5>4. CounterExpert(id, s_cum) \in Experts BY <1>6, <1>8, <5>3, CounterTileIs
        <5> QED BY <5>4, Positive DEF Experts
      <4> QED BY <2>1, <3>1, <4>1
    <3>2. CASE x # 0 BY <1>4, <2>1, <3>2 DEF Ctas
    <3> QED BY <3>1, <3>2
  <2>3. PICK s : s = [s0 EXCEPT !.flat_id[x] = id, !.pc[x] = "expert_sync", !.s_expert = expert] OBVIOUS
  <2>4. s = [s_tile |-> id, s_expert |-> expert, iter |-> s0.iter,
             flat_id |-> [s0.flat_id EXCEPT ![x] = id], pc |-> [s0.pc EXCEPT ![x] = "expert_sync"]]
    BY <1>4, <1>5, <2>3 DEF Ctas
  <2>5. /\ s.s_tile = id /\ s.s_expert = expert
        /\ s.flat_id[x] = id /\ s.pc[x] = "expert_sync"
        /\ \A y \in Lanes : y # x => s.flat_id[y] = s0.flat_id[y] /\ s.pc[y] = s0.pc[y]
    BY <1>4, <2>4
  <2>6. s \in Ctas
    <3>1. [s0.pc EXCEPT ![x] = "expert_sync"] \in [Lanes -> Steps] BY <1>4 DEF Steps
    <3>2. [s0.flat_id EXCEPT ![x] = id] \in [Lanes -> Int] BY <1>4, <1>6
    <3> QED BY <1>4, <1>6, <2>2, <2>4, <3>1, <3>2 DEF Ctas
  <2>7. cta' = [cta EXCEPT ![pid] = s]
    <3>1. cta' = [cta EXCEPT ![pid] =
            [cta[pid] EXCEPT !.flat_id[x] = id, !.pc[x] = "expert_sync",
               !.s_expert = IF x = 0 THEN CounterExpert(id, s_cum) ELSE cta[pid].s_expert]]
      BY <1>2, <1>3, <1>5, <1>8 DEF ReadTile
    <3> QED BY <1>3, <2>1, <2>3, <3>1
  <2>8. id \in Tiles BY <1>2, <1>6, <1>8 DEF Tiles
  <2>9. ~(id >= num_blocks) BY <1>2, <1>6, <1>8
  <2>10. Meets(s)
    <3>1. CASE x = 0
      <4>1. s0.pc[1] \in {"read", "expert_sync"} BY <1>1, <1>2, <1>3, <1>5, <2>9, <3>1 DEF Meets
      <4>2. expert = CounterExpert(id, s_cum) BY <2>1, <3>1
      <4>3. /\ s.pc[0] = "expert_sync" /\ s.flat_id[0] = id
            /\ s.pc[1] = s0.pc[1] /\ s.flat_id[1] = s0.flat_id[1]
        BY <1>2, <2>5, <3>1
      <4> QED BY <1>2, <1>3, <1>5, <1>6, <2>5, <2>8, <4>1, <4>2, <4>3 DEF Meets
    <3>2. CASE x = 1
      <4>1. s0.pc[0] \in {"read", "expert_sync"} BY <1>1, <1>2, <1>3, <1>5, <2>9, <3>2 DEF Meets
      <4>2. expert = s0.s_expert BY <2>1, <3>2
      <4>3. /\ s.pc[1] = "expert_sync" /\ s.flat_id[1] = id
            /\ s.pc[0] = s0.pc[0] /\ s.flat_id[0] = s0.flat_id[0]
        BY <1>2, <2>5, <3>2
      <4> QED BY <1>2, <1>3, <1>5, <1>6, <2>5, <2>8, <4>1, <4>2, <4>3 DEF Meets
    <3> QED BY <1>2, <3>1, <3>2
  <2>11. Numbers(s) \subseteq Numbers(s0) BY <1>2, <1>5, <2>5 DEF Numbers
  <2>12. ASSUME NEW n \in Tiles, NEW y \in Lanes, Ahead(s, y, n) PROVE Ahead(s0, y, n)
    <3>1. s0.pc[x] = "read" BY <1>1, <1>3
    <3> QED BY <1>2, <1>5, <2>5, <2>12, <3>1 DEF Ahead
  <2> QED BY <1>7, <2>6, <2>7, <2>10, <2>11, <2>12
<1>9. CASE ~(id < num_blocks)
  <2>1. PICK s : s = NextIteration(x, s0) OBVIOUS
  <2>2. cta' = [cta EXCEPT ![pid] = s] BY <1>2, <1>3, <1>5, <1>9, <2>1 DEF ReadTile
  <2>3. /\ s \in Ctas /\ s.s_tile = id /\ s.s_expert = s0.s_expert /\ s.flat_id = s0.flat_id
        /\ s.pc[x] \in {"exit", IF x = 0 THEN "claim" ELSE "top_sync"}
        /\ \A y \in Lanes : y # x => s.pc[y] = s0.pc[y]
    BY <1>4, <1>5, <2>1, NextIterationIs
  <2>4. id >= num_blocks /\ id \notin Tiles BY <1>2, <1>6, <1>9 DEF Tiles
  <2>5. Meets(s)
    <3>1. CASE x = 0
      <4>1. s0.pc[1] \in {"read", "top_sync", "exit"} BY <1>1, <1>2, <1>3, <1>5, <2>4, <3>1 DEF Meets
      <4>2. s.pc[0] \in {"claim", "exit"} /\ s.pc[1] = s0.pc[1] BY <1>2, <2>3, <3>1
      <4> QED BY <1>2, <1>3, <1>5, <1>6, <2>3, <2>4, <4>1, <4>2 DEF Meets
    <3>2. CASE x = 1
      <4>1. s0.pc[0] \in {"read", "claim", "top_sync", "exit"} BY <1>1, <1>2, <1>3, <1>5, <2>4, <3>2 DEF Meets
      <4>2. s.pc[1] \in {"top_sync", "exit"} /\ s.pc[0] = s0.pc[0] BY <1>2, <2>3, <3>2
      <4> QED BY <1>2, <1>3, <1>5, <1>6, <2>3, <2>4, <4>1, <4>2 DEF Meets
    <3> QED BY <1>2, <3>1, <3>2
  <2>6. Numbers(s) \subseteq Numbers(s0) BY <1>5, <2>3 DEF Numbers
  <2>7. ASSUME NEW n \in Tiles, NEW y \in Lanes, Ahead(s, y, n) PROVE Ahead(s0, y, n)
    <3>1. s.s_tile # n BY <2>3, <2>4
    <3>2. s.pc[y] \in {"expert_sync", "compute"} /\ s.flat_id[y] = n BY <2>7, <3>1 DEF Ahead
    <3>3. y # x BY <2>3, <3>2
    <3> QED BY <2>3, <3>2, <3>3 DEF Ahead
  <2> QED BY <1>7, <2>2, <2>3, <2>5, <2>6, <2>7
<1> QED BY <1>8, <1>9

LEMMA ComputeStep ==
  ASSUME SortInv, PlaceInv, MetaInv, TilesInv, NEW pid \in Sms, NEW x \in Lanes, Compute(pid, x)
  PROVE  TilesInv'
<1>1. /\ InGemm /\ schedule = "counter" /\ cta[pid].pc[x] = "compute"
      /\ UNCHANGED <<vars, stage, schedule, a, s_cum, wave, tile_counter>>
      /\ StoreTile(CounterTile(cta[pid].flat_id[x], cta[pid].s_expert, ends, s_cum), x)
      /\ cta' = [cta EXCEPT ![pid] = NextIteration(x, @)]
  BY DEF Compute, CtaStep
<1>2. /\ tile_counter \in Nat /\ num_blocks \in Nat /\ Lanes = {0, 1} /\ cta \in [Sms -> Ctas]
      /\ \A p \in Sms : Meets(cta[p]) /\ \A n \in Numbers(cta[p]) : n \in Nat /\ n < tile_counter
      /\ \A p, q \in Sms : p # q => Numbers(cta[p]) \cap Numbers(cta[q]) = {}
  BY <1>1, BlockFacts
<1>3. PICK s0 : s0 = cta[pid] OBVIOUS
<1>4. PICK s : s = NextIteration(x, s0) OBVIOUS
<1>5. s0 \in Ctas /\ Meets(s0) /\ s0.pc[x] = "compute" BY <1>1, <1>2, <1>3
<1>6. /\ s \in Ctas /\ s.s_tile = s0.s_tile /\ s.s_expert = s0.s_expert /\ s.flat_id = s0.flat_id
      /\ s.pc[x] \in {"exit", IF x = 0 THEN "claim" ELSE "top_sync"}
      /\ \A y \in Lanes : y # x => s.pc[y] = s0.pc[y]
  BY <1>4, <1>5, NextIterationIs
<1>7. cta' = [cta EXCEPT ![pid] = s] BY <1>1, <1>2, <1>3, <1>4
<1>8. PICK b : b = s0.flat_id[x] OBVIOUS
<1>9. b \in Tiles /\ s0.s_expert = CounterExpert(b, s_cum)
  <2>1. CASE x = 0 BY <1>5, <1>8, <2>1 DEF Meets
  <2>2. CASE x = 1 BY <1>5, <1>8, <2>2 DEF Meets
  <2> QED BY <1>2, <2>1, <2>2
<1>10. b \in Nat /\ b < num_blocks /\ b # Unset BY <1>2, <1>9 DEF Tiles, Unset
<1>11. Meets(s)
  <2>1. CASE x = 0
    <3>1. s0.pc[1] \in {"compute", "top_sync", "exit"} BY <1>5, <2>1 DEF Meets
    <3>2. s.pc[0] \in {"claim", "exit"} /\ s.pc[1] = s0.pc[1] BY <1>2, <1>6, <2>1
    <3> QED BY <1>5, <1>6, <3>1, <3>2 DEF Meets
  <2>2. CASE x = 1
    <3>1. s0.pc[0] \in {"compute", "claim", "top_sync", "exit"} BY <1>5, <2>2 DEF Meets
    <3>2. s.pc[1] \in {"top_sync", "exit"} /\ s.pc[0] = s0.pc[0] BY <1>2, <1>6, <2>2
    <3> QED BY <1>5, <1>6, <3>1, <3>2 DEF Meets
  <2> QED BY <1>2, <2>1, <2>2
<1>12. Advances(pid, s)
  <2>1. UNCHANGED <<vars, stage, schedule, a, s_cum, wave>> BY <1>1
  <2>2. tile_counter' \in Nat /\ tile_counter <= tile_counter' BY <1>1, <1>2
  <2>3. Numbers(s) \subseteq Numbers(cta[pid]) \cup (tile_counter .. tile_counter' - 1)
    BY <1>3, <1>6 DEF Numbers
  <2> QED BY <1>1, <1>6, <1>7, <1>11, <2>1, <2>2, <2>3 DEF Advances
<1>13. ASSUME NEW n \in Tiles, NEW y \in Lanes, Ahead(s, y, n)
       PROVE  Ahead(s0, y, n)
  <2>1. s.pc[0] = "top_sync" => s0.pc[0] = "top_sync" BY <1>2, <1>6
  <2>2. s.pc[y] \in {"expert_sync", "compute", "read"} => s.pc[y] = s0.pc[y] BY <1>6
  <2> QED BY <1>6, <1>13, <2>1, <2>2 DEF Ahead
<1>14. ~Ahead(s, x, b)
  <2>1. s.pc[x] \notin {"expert_sync", "compute", "read"} BY <1>6
  <2>2. s.pc[0] = "top_sync" => s0.pc[0] = "top_sync" BY <1>2, <1>6
  <2>3. s0.pc[0] = "top_sync" => s0.s_tile # b BY <1>2, <1>5, <1>8 DEF Meets
  <2> QED BY <1>6, <2>1, <2>2, <2>3 DEF Ahead
<1>15. b \in Numbers(s0) BY <1>2, <1>8, <1>10 DEF Numbers
<1>16. ~Gone(b, x)
  <2>1. Ahead(s0, x, b) BY <1>5, <1>8 DEF Ahead
  <2> QED BY <1>1, <1>3, <2>1 DEF Gone
<1>17. Gone(b, x)'
  <2>1. b < tile_counter' BY <1>1, <1>2, <1>3, <1>15
  <2>2. ASSUME NEW p \in Sms PROVE ~Ahead(cta'[p], x, b)
    <3>1. CASE p = pid BY <1>2, <1>7, <1>14, <3>1
    <3>2. CASE p # pid
      <4>1. cta'[p] = cta[p] BY <1>2, <1>7, <3>2
      <4>2. b \notin Numbers(cta[p]) BY <1>2, <1>3, <1>15, <3>2
      <4>3. cta[p].s_tile # b /\ cta[p].flat_id[x] # b BY <1>2, <1>10, <4>2 DEF Numbers
      <4> QED BY <4>1, <4>3 DEF Ahead
    <3> QED BY <3>1, <3>2
  <2>3. \A p \in Sms : ~Ahead(cta[p], x, b)' BY <2>2 DEF Ahead
  <2>4. schedule' = "counter" BY <1>1
  <2> QED BY <2>1, <2>3, <2>4 DEF Gone, Sms
<1>18. StoreTile(TileOf(b), x)
  <2>1. LaunchInv BY DEF TilesInv
  <2>2. tight BY <1>1, <2>1 DEF LaunchInv
  <2>3. TileOf(b) = CounterTile(b, CounterExpert(b, s_cum), ends, s_cum) BY <1>1, <2>2 DEF TileOf
  <2> QED BY <1>1, <1>3, <1>8, <1>9, <2>3
<1>19. \A n \in Tiles, y \in Lanes : Gone(n, y) => Gone(n, y)' BY <1>3, <1>12, <1>13, BlockGone
<1>20. CellInv'
  <2>1. CellInv /\ LaunchInv /\ UNCHANGED <<vars, stage, schedule, a, s_cum>> BY <1>1 DEF TilesInv
  <2> QED BY <1>1, <1>9, <1>16, <1>17, <1>18, <1>19, <2>1, StoreKeeps
<1>21. LaunchInv' /\ OperandInv' /\ WaveInv' /\ CounterInv' BY <1>12, BlockAdvances
<1> QED BY <1>20, <1>21 DEF TilesInv

-----------------------------------------------------------------------------
(* The tiles of a launch are written once. *)

LEMMA PermuteVariant ==
  ASSUME PermuteNext
  PROVE  variant' = variant
BY DEF PermuteNext, ThreadStep, Segment, Zero, Count, FillCount, Column, Totals, Prefix, Cursor,
       Vals, WarpExcl, Cumsum, Finalize, Claim, Store, WarpScan

\* No product is under way.
LEMMA OutsideGemm ==
  ASSUME LaunchInv, UNCHANGED <<variant, stage, schedule>>, stage = "permute"
  PROVE  TilesInv'
<1>1. variant' = variant /\ stage' = "permute" /\ schedule' = schedule OBVIOUS
<1>2. ~InGemm' BY <1>1 DEF InGemm
<1>3. tight' = tight BY <1>1 DEF tight
<1>4. LaunchInv' BY <1>1, <1>2, <1>3 DEF LaunchInv
<1> QED BY <1>2, <1>4 DEF TilesInv, CounterInv, WaveInv, CellInv, OperandInv

LEMMA TilesStart ==
  ASSUME PipelineInit
  PROVE  TilesInv
<1>1. stage = "permute" /\ schedule \in {"waves"} \cup (IF tight /\ <<variant, flat>> \in CounterCases THEN {"counter"} ELSE {})
  BY DEF PipelineInit
<1>2. ~InGemm BY <1>1 DEF InGemm
<1>3. \E cs \in Cases : variant = cs[1] BY DEF PipelineInit, Init
<1>4. LaunchInv BY <1>1, <1>2, <1>3 DEF LaunchInv
<1> QED BY <1>2, <1>4 DEF TilesInv, CounterInv, WaveInv, CellInv, OperandInv

\* The tokens that take their products back, and the end.
LEMMA TilesStay ==
  ASSUME TilesInv, UNCHANGED <<vars, stage, schedule, a, c, gemmVars>>
  PROVE  TilesInv'
<1>1. UNCHANGED <<vars, stage, schedule, a, s_cum, c, wave, cta, tile_counter>> BY DEF gemmVars
<1>2. LaunchInv' /\ OperandInv' /\ InGemm' = InGemm BY <1>1, StillLaunched DEF TilesInv
<1>3. WaveInv' BY <1>1, <1>2 DEF TilesInv, WaveInv, Sms
<1>4. CounterInv'
  <2>1. num_blocks' = num_blocks /\ Tiles' = Tiles /\ \A b : CounterExpert(b, s_cum)' = CounterExpert(b, s_cum)
    BY <1>1, SameTiles
  <2>2. CounterInv BY DEF TilesInv
  <2>3. schedule' = schedule /\ tile_counter' = tile_counter /\ cta' = cta /\ s_cum' = s_cum BY <1>1
  <2>4. \A pid \in Sms : Meets(cta[pid])' = Meets(cta[pid]) BY <2>1, <2>3 DEF Meets
  <2>5. \A pid \in Sms : Numbers(cta[pid])' = Numbers(cta[pid]) BY <2>3 DEF Numbers
  <2> QED BY <1>2, <2>2, <2>3, <2>4, <2>5 DEF CounterInv, Sms, Ctas, Lanes, Steps
<1>5. ASSUME NEW n \in Tiles, NEW y \in Lanes, Gone(n, y) PROVE Gone(n, y)'
  <2>1. schedule' = schedule /\ wave' = wave /\ tile_counter' = tile_counter /\ cta' = cta BY <1>1
  <2> QED BY <1>5, <2>1 DEF Gone, Ahead, Sms
<1>6. CellInv' BY <1>1, <1>5, QuietKeeps DEF TilesInv
<1> QED BY <1>2, <1>3, <1>4, <1>6 DEF TilesInv

LEMMA TilesSteps ==
  ASSUME TilesFit, SortInv, PlaceInv, MetaInv, TilesInv, [Next]_allVars
  PROVE  TilesInv'
<1>1. CASE Permute
  <2>1. LaunchInv /\ stage = "permute" /\ UNCHANGED <<variant, stage, schedule>>
    BY <1>1, PermuteVariant DEF Permute, TilesInv
  <2> QED BY <2>1, OutsideGemm
<1>2. CASE Gather BY <1>2, GatherStep
<1>3. CASE Down BY <1>3, DownStep
<1>4. ASSUME NEW pid \in Sms, CtaNext(pid) PROVE TilesInv'
  <2>1. CASE Wave(pid) BY <2>1, WaveStep
  <2>2. CASE TakeTile(pid) BY <2>2, TakeTileStep
  <2>3. CASE Barrier(pid) BY <2>3, BarrierStep
  <2>4. ASSUME NEW x \in Lanes, ReadTile(pid, x) PROVE TilesInv' BY <2>4, ReadTileStep
  <2>5. ASSUME NEW x \in Lanes, Compute(pid, x) PROVE TilesInv' BY <2>5, ComputeStep
  <2> QED BY <1>4, <2>1, <2>2, <2>3, <2>4, <2>5 DEF CtaNext
<1>5. ASSUME NEW tok, Unpermute(tok) PROVE TilesInv'
  <2>1. UNCHANGED <<vars, stage, schedule, a, c, gemmVars>> BY <1>5 DEF Unpermute
  <2> QED BY <2>1, TilesStay
<1>6. CASE Finished \/ UNCHANGED allVars
  <2>1. UNCHANGED <<vars, stage, schedule, a, c, gemmVars>> BY <1>6 DEF Finished, allVars
  <2> QED BY <2>1, TilesStay
<1> QED BY <1>1, <1>2, <1>3, <1>4, <1>5, <1>6 DEF Next

(***************************************************************************)
(* No cell of a product is written twice, whichever thread block computes  *)
(* the tile and by either schedule, and a row is multiplied with the       *)
(* weights of the expert its route names (TilesOnce), for any number of    *)
(* experts, thread blocks, column blocks and rows in a tile that fit, if   *)
(* padded regions are whole tiles.                                         *)
(***************************************************************************)
THEOREM TilesAreOnce == ASSUME Fits, TilesFit PROVE Spec => []TilesOnce
<1> DEFINE Inv == SortInv /\ PlaceInv /\ MetaInv /\ TilesInv
<1>1. PipelineInit => Inv BY SortStart, MetaStart, TilesStart DEF PipelineInit
<1>2. Inv /\ [Next]_allVars => Inv'
  <2> SUFFICES ASSUME SortInv, PlaceInv, MetaInv, TilesInv, [Next]_allVars
               PROVE  SortInv' /\ PlaceInv' /\ MetaInv' /\ TilesInv'
    OBVIOUS
  <2>1. CASE Permute BY <2>1, SortSteps, MetaSteps, TilesSteps DEF Permute
  <2>2. CASE UNCHANGED vars BY <2>2, SortStays, MetaStays, TilesSteps
  <2>3. [Next]_allVars => Permute \/ UNCHANGED vars
    BY DEF Next, Gather, Down, Finished, CtaNext, Unpermute, Wave, TakeTile, Barrier, ReadTile, Compute, CtaStep, allVars
  <2> QED BY <2>1, <2>2, <2>3
<1>3. Inv => TilesOnce BY TilesWrittenOnce
<1> QED BY <1>1, <1>2, <1>3, PTL DEF Spec
=============================================================================
