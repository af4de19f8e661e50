------------------------ MODULE RpmCalculation_proofs ------------------------
(***************************************************************************)
(* Proofs about RpmCalculation, and with it about Statistics and           *)
(* QualityAttenuation: every invariant that its run checks, for any times, *)
(* percentiles, trimmings and number of probes.                            *)
(*                                                                         *)
(* The statistics are about sequences of any length.  The library's        *)
(* induction theorems take the predicate as an operator, so an induction   *)
(* is over a set instead: the numbers, or the sequences, of which the      *)
(* claim holds; the least number that it lacked would be a contradiction   *)
(* (UpwardTo, Growing).  FoldLeft and FlattenSeq are CHOOSEs of recursive  *)
(* functions; the first lemmas show that the function exists, is unique    *)
(* and what it computes of a sequence that has one element more.           *)
(***************************************************************************)
EXTENDS RpmCalculation, Series_proofs, WellFoundedInduction, SequenceTheorems

-----------------------------------------------------------------------------
(* Induction, for which a least counterexample stands in.                  *)

\* A nonempty set of naturals has a least element.
LEMMA LeastNatural ==
  ASSUME NEW T \in SUBSET Nat, T # {}
  PROVE  \E x \in T : \A y \in T : x <= y
<1> DEFINE R == {ss \in Nat \X Nat : ss[1] < ss[2]}
<1>1. IsWellFoundedOn(R, Nat)
  BY NatLessThanWellFounded DEF OpToRel
<1> HIDE DEF R
<1>2. PICK x \in T : \A y \in T : ~ (<<y, x>> \in R)
  BY <1>1, WFMin
<1>3. \A y \in T : ~ (y < x)
  BY <1>2 DEF R
<1> QED
  BY <1>3

\* A set that has 0 and with each number up to n the next one has them all.
LEMMA UpwardTo ==
  ASSUME NEW n \in Nat, NEW T, 0 \in T, \A m \in 0 .. n : m \in T /\ m < n => m + 1 \in T
  PROVE  \A m \in 0 .. n : m \in T
<1> DEFINE Bad == {m \in 0 .. n : m \notin T}
<1> SUFFICES ASSUME Bad # {} PROVE FALSE
  OBVIOUS
<1>1. PICK m \in Bad : \A y \in Bad : m <= y
  <2>1. Bad \in SUBSET Nat
    OBVIOUS
  <2> HIDE DEF Bad
  <2> QED
    BY <2>1, LeastNatural
<1>2. m \in Nat /\ m # 0 /\ m <= n
  BY <1>1
<1>3. m - 1 \in 0 .. n /\ m - 1 \notin Bad /\ m - 1 < n /\ (m - 1) + 1 = m
  BY <1>1, <1>2
<1> QED
  BY <1>1, <1>3

-----------------------------------------------------------------------------
(* What FoldLeft computes of a sequence that is added to at its end.       *)

\* The two things that are folded: numbers to their sum, samples to a quality.
Start(what) == IF what = "sum" THEN 0 ELSE NewQuality

Combine(what, a, x) == IF what = "sum" THEN a + x ELSE AddSample(a, x)

\* The recursive function behind FoldLeft takes out the greatest index first.
FoldStep(g, what, q, s) ==
  IF s = {} THEN Start(what) ELSE Combine(what, g[s \ {Max(s)}], q[Max(s)])

Folds(g, what, q, n) == g = [s \in SUBSET (1 .. n) |-> FoldStep(g, what, q, s)]

\* A nonempty set of indices has a greatest one.
LEMMA GreatestIndex ==
  ASSUME NEW n \in Nat, NEW s \in SUBSET (1 .. n), s # {}
  PROVE  Max(s) \in s /\ \A y \in s : Max(s) >= y
<1> DEFINE T == {n - y : y \in s}
<1>1. T \in SUBSET Nat /\ T # {}
  <2>1. \A y \in s : n - y \in Nat
    <3>1. \A y \in s : y \in 1 .. n
      OBVIOUS
    <3> QED
      BY <3>1
  <2> QED
    BY <2>1
<1> HIDE DEF T
<1>2. PICK t \in T : \A u \in T : t <= u
  BY <1>1, LeastNatural
<1>3. PICK x \in s : t = n - x
  BY DEF T
<1>4. \A y \in s : x >= y
  <2> SUFFICES ASSUME NEW y \in s PROVE x >= y
    OBVIOUS
  <2>1. n - y \in T /\ x \in 1 .. n /\ y \in 1 .. n
    BY DEF T
  <2>2. n - x <= n - y
    BY <1>2, <1>3, <2>1
  <2> QED
    BY <2>1, <2>2
<1> QED
  BY <1>4 DEF Max

\* The greatest index taken out, the others are smaller.
LEMMA OthersAreSmaller ==
  ASSUME NEW n \in Nat, NEW s \in SUBSET (1 .. n + 1), s # {}
  PROVE  s \ {Max(s)} \in SUBSET (1 .. n)
<1>1. n + 1 \in Nat
  OBVIOUS
<1>2. Max(s) \in s /\ \A y \in s : Max(s) >= y
  BY <1>1, GreatestIndex
<1>3. ASSUME NEW y \in s, y # Max(s) PROVE y \in 1 .. n
  <2>1. y \in 1 .. n + 1 /\ Max(s) \in 1 .. n + 1 /\ Max(s) >= y
    BY <1>2
  <2> QED
    BY <1>3, <2>1
<1> QED
  BY <1>3

\* Of the first k indices, k is the greatest one.
LEMMA LastOfFirst ==
  ASSUME NEW k \in Nat
  PROVE  /\ Max(1 .. k + 1) = k + 1
         /\ (1 .. k + 1) \ {Max(1 .. k + 1)} = 1 .. k
         /\ 1 .. k + 1 # {}
<1>1. Max(1 .. k + 1) \in 1 .. k + 1 /\ \A y \in 1 .. k + 1 : Max(1 .. k + 1) >= y
  <2>1. k + 1 \in Nat /\ 1 .. k + 1 \in SUBSET (1 .. k + 1) /\ 1 .. k + 1 # {}
    OBVIOUS
  <2> QED
    BY <2>1, GreatestIndex
<1>2. Max(1 .. k + 1) = k + 1
  BY <1>1
<1> QED
  BY <1>2

\* A function that satisfies the recursive equation exists.
LEMMA FoldExists ==
  ASSUME NEW n \in Nat, NEW what, NEW q
  PROVE  \E g : Folds(g, what, q, n)
<1> DEFINE T == {m \in Nat : \E g : Folds(g, what, q, m)}
<1>1. 0 \in T
  <2> DEFINE g == [s \in SUBSET (1 .. 0) |-> Start(what)]
  <2>1. \A s \in SUBSET (1 .. 0) : s = {}
    OBVIOUS
  <2>2. Folds(g, what, q, 0)
    BY <2>1 DEF Folds, FoldStep
  <2> QED
    BY <2>2
<1>2. ASSUME NEW m \in Nat, m \in T PROVE m + 1 \in T
  <2>1. PICK g : Folds(g, what, q, m)
    BY <1>2
  <2> DEFINE h == [s \in SUBSET (1 .. m + 1) |-> FoldStep(g, what, q, s)]
  <2>2. \A s \in SUBSET (1 .. m) : s \in SUBSET (1 .. m + 1) /\ h[s] = g[s]
    BY <2>1 DEF Folds
  <2>3. \A s \in SUBSET (1 .. m + 1) : s # {} => s \ {Max(s)} \in SUBSET (1 .. m)
    BY OthersAreSmaller
  <2>4. \A s \in SUBSET (1 .. m + 1) : FoldStep(h, what, q, s) = FoldStep(g, what, q, s)
    <3> HIDE DEF h
    <3> QED
      BY <2>2, <2>3 DEF FoldStep
  <2>5. Folds(h, what, q, m + 1)
    BY <2>4 DEF Folds
  <2> HIDE DEF h
  <2> QED
    BY <2>5
<1> HIDE DEF T
<1>3. n \in T
  BY <1>1, <1>2, UpwardTo
<1> QED
  BY <1>3 DEF T

\* Of two sequences that agree up to m the folds do, too.
LEMMA FoldsAgree ==
  ASSUME NEW n \in Nat, NEW m \in 0 .. n, NEW what, NEW q, NEW r,
         NEW g, Folds(g, what, q, n), NEW h, Folds(h, what, r, m),
         \A i \in 1 .. m : q[i] = r[i]
  PROVE  g[1 .. m] = h[1 .. m]
<1> DEFINE T == {k \in 0 .. m : g[1 .. k] = h[1 .. k]}
<1>1. \A k \in 0 .. m : 1 .. k \in SUBSET (1 .. n) /\ 1 .. k \in SUBSET (1 .. m)
  OBVIOUS
<1>2. \A k \in 0 .. m : /\ g[1 .. k] = FoldStep(g, what, q, 1 .. k)
                        /\ h[1 .. k] = FoldStep(h, what, r, 1 .. k)
  BY <1>1 DEF Folds
<1>3. 0 \in T
  <2>1. 1 .. 0 = {}
    OBVIOUS
  <2> QED
    BY <1>2, <2>1 DEF FoldStep
<1>4. ASSUME NEW k \in 0 .. m, k \in T, k < m PROVE k + 1 \in T
  <2>1. /\ Max(1 .. k + 1) = k + 1
        /\ (1 .. k + 1) \ {Max(1 .. k + 1)} = 1 .. k
        /\ 1 .. k + 1 # {}
    <3>1. k \in Nat
      OBVIOUS
    <3> QED
      BY <3>1, LastOfFirst
  <2>2. k + 1 \in 0 .. m /\ q[k + 1] = r[k + 1]
    BY <1>4
  <2>3. FoldStep(g, what, q, 1 .. k + 1) = Combine(what, g[1 .. k], q[k + 1])
    BY <2>1 DEF FoldStep
  <2>4. FoldStep(h, what, r, 1 .. k + 1) = Combine(what, h[1 .. k], r[k + 1])
    BY <2>1 DEF FoldStep
  <2> QED
    BY <1>2, <1>4, <2>2, <2>3, <2>4
<1> HIDE DEF T
<1>5. m \in T
  BY <1>3, <1>4, UpwardTo
<1> QED
  BY <1>5 DEF T

IsFold(v, what, q) == \E g : Folds(g, what, q, Len(q)) /\ v = g[1 .. Len(q)]

\* The fold of a sequence is one value; that of a longer sequence is combined
\* from that of the shorter one and the element that was added.
LEMMA FoldOfAppend ==
  ASSUME NEW S, NEW q \in Seq(S), NEW x \in S, NEW what,
         NEW v, IsFold(v, what, q), NEW w, IsFold(w, what, Append(q, x))
  PROVE  w = Combine(what, v, x)
<1> DEFINE n == Len(q)
           r == Append(q, x)
<1>1. n \in Nat /\ Len(r) = n + 1 /\ r[n + 1] = x /\ \A i \in 1 .. n : r[i] = q[i]
  OBVIOUS
<1>2. PICK g : Folds(g, what, q, n) /\ v = g[1 .. n]
  BY DEF IsFold
<1>3. PICK h : Folds(h, what, r, n + 1) /\ w = h[1 .. n + 1]
  BY <1>1 DEF IsFold
<1> HIDE DEF n, r
<1>4. h[1 .. n] = g[1 .. n]
  <2>1. n + 1 \in Nat /\ n \in 0 .. n + 1
    BY <1>1
  <2> QED
    BY <1>1, <1>2, <1>3, <2>1, FoldsAgree
<1>5. h[1 .. n + 1] = FoldStep(h, what, r, 1 .. n + 1)
  <2>1. 1 .. n + 1 \in SUBSET (1 .. n + 1)
    OBVIOUS
  <2> QED
    BY <1>3, <2>1 DEF Folds
<1>6. FoldStep(h, what, r, 1 .. n + 1) = Combine(what, h[1 .. n], r[n + 1])
  BY <1>1, LastOfFirst DEF FoldStep
<1> QED
  BY <1>1, <1>2, <1>3, <1>4, <1>5, <1>6

\* The fold of nothing is where it starts.
LEMMA FoldOfNothing ==
  ASSUME NEW what, NEW v, IsFold(v, what, << >>)
  PROVE  v = Start(what)
<1>1. PICK g : Folds(g, what, << >>, 0) /\ v = g[1 .. 0]
  BY DEF IsFold
<1>2. 1 .. 0 = {} /\ {} \in SUBSET (1 .. 0)
  OBVIOUS
<1> QED
  BY <1>1, <1>2 DEF Folds, FoldStep

\* The sum is such a fold ...
LEMMA SumIsFold ==
  ASSUME NEW S, NEW q \in Seq(S)
  PROVE  IsFold(SumOf(q), "sum", q)
<1> DEFINE P(g) == g = [s \in SUBSET DOMAIN q |->
                          IF s = {} THEN 0 ELSE g[s \ {Max(s)}] + q[Max(s)]]
<1>1. SumOf(q) = (CHOOSE g : P(g))[DOMAIN q]
  BY DEF SumOf, FoldLeft, MapThenFoldSet
<1>2. DOMAIN q = 1 .. Len(q) /\ Len(q) \in Nat
  OBVIOUS
<1>3. ASSUME NEW g PROVE P(g) <=> Folds(g, "sum", q, Len(q))
  BY <1>2 DEF Folds, FoldStep, Start, Combine
<1> HIDE DEF P
<1>4. \E g : P(g)
  BY <1>2, <1>3, FoldExists
<1> QED
  BY <1>1, <1>2, <1>3, <1>4 DEF IsFold

\* ... and so is the quality of a sequence of samples.
LEMMA QualityIsFold ==
  ASSUME NEW S, NEW q \in Seq(S)
  PROVE  IsFold(QualityOf(q), "quality", q)
<1> DEFINE P(g) == g = [s \in SUBSET DOMAIN q |->
                          IF s = {} THEN NewQuality ELSE AddSample(g[s \ {Max(s)}], q[Max(s)])]
<1>1. QualityOf(q) = (CHOOSE g : P(g))[DOMAIN q]
  BY DEF QualityOf, FoldLeft, MapThenFoldSet
<1>2. DOMAIN q = 1 .. Len(q) /\ Len(q) \in Nat
  OBVIOUS
<1>3. ASSUME NEW g PROVE P(g) <=> Folds(g, "quality", q, Len(q))
  BY <1>2 DEF Folds, FoldStep, Start, Combine
<1> HIDE DEF P
<1>4. \E g : P(g)
  BY <1>2, <1>3, FoldExists
<1> QED
  BY <1>1, <1>2, <1>3, <1>4 DEF IsFold

\* Adding an element adds it to the sum.
LEMMA SumOfAppend ==
  ASSUME NEW S, NEW q \in Seq(S), NEW x \in S
  PROVE  SumOf(Append(q, x)) = SumOf(q) + x
<1>1. Append(q, x) \in Seq(S)
  OBVIOUS
<1>2. IsFold(SumOf(q), "sum", q) /\ IsFold(SumOf(Append(q, x)), "sum", Append(q, x))
  BY <1>1, SumIsFold
<1>3. SumOf(Append(q, x)) = Combine("sum", SumOf(q), x)
  BY <1>2, FoldOfAppend
<1> QED
  BY <1>3 DEF Combine

\* The sum of nothing is 0.
LEMMA SumOfEmpty == SumOf(<< >>) = 0
<1>1. IsFold(SumOf(<< >>), "sum", << >>)
  <2>1. << >> \in Seq({})
    OBVIOUS
  <2> QED
    BY <2>1, SumIsFold
<1> QED
  BY <1>1, FoldOfNothing DEF Start

\* Adding a sample adds it to the quality.
LEMMA QualityOfAppend ==
  ASSUME NEW S, NEW q \in Seq(S), NEW x \in S
  PROVE  QualityOf(Append(q, x)) = AddSample(QualityOf(q), x)
<1>1. Append(q, x) \in Seq(S)
  OBVIOUS
<1>2. /\ IsFold(QualityOf(q), "quality", q)
      /\ IsFold(QualityOf(Append(q, x)), "quality", Append(q, x))
  BY <1>1, QualityIsFold
<1>3. QualityOf(Append(q, x)) = Combine("quality", QualityOf(q), x)
  BY <1>2, FoldOfAppend
<1> QED
  BY <1>3 DEF Combine

\* The quality of no sample is the new one.
LEMMA QualityOfEmpty == QualityOf(<< >>) = NewQuality
<1>1. IsFold(QualityOf(<< >>), "quality", << >>)
  <2>1. << >> \in Seq({})
    OBVIOUS
  <2> QED
    BY <2>1, QualityIsFold
<1> QED
  BY <1>1, FoldOfNothing DEF Start

-----------------------------------------------------------------------------
(* The elements at some indices of a sequence that grows.                  *)

\* The n-th of a set of indices is the one up to which there are n.
LEMMA NthOfIs ==
  ASSUME NEW I \in SUBSET Nat, IsFiniteSet(I), NEW i \in I
  PROVE  /\ Cardinality({j \in I : j <= i}) \in 1 .. Cardinality(I)
         /\ NthOf(I, Cardinality({j \in I : j <= i})) = i
<1> DEFINE R == {p \in Nat \X Nat : p[1] <= p[2]}
           rank(x) == Cardinality({j \in I : j <= x})
<1>1. Orders(R, I)
  BY DEF Orders
<1>2. \A x \in I : UpTo(I, R, x) = {j \in I : j <= x}
  BY DEF UpTo
<1> HIDE DEF R
<1>3. \A x \in I : Cardinality(UpTo(I, R, x)) = rank(x)
  BY <1>2
<1>4. \A n : NthOf(I, n) = CHOOSE x \in I : rank(x) = n
  BY DEF NthOf
<1> HIDE DEF rank
<1>5. \A x \in I : rank(x) \in 1 .. Cardinality(I) /\ \A y \in I : rank(x) = rank(y) => x = y
  <2>1. /\ \A x \in I : Cardinality(UpTo(I, R, x)) \in 1 .. Cardinality(I)
        /\ \A x, y \in I : Cardinality(UpTo(I, R, x)) = Cardinality(UpTo(I, R, y)) => x = y
    <3>1. Ranked(I, R)
      BY <1>1, Ranks
    <3> QED
      BY <3>1 DEF Ranked
  <2> QED
    BY <1>3, <2>1, Zenon
<1>6. NthOf(I, rank(i)) = i
  BY <1>4, <1>5
<1> QED
  BY <1>5, <1>6 DEF rank

\* A greater index becomes the last one, the others keep their places.
LEMMA NthOfGrows ==
  ASSUME NEW I \in SUBSET Nat, IsFiniteSet(I), NEW k \in Nat, \A i \in I : i < k
  PROVE  /\ Cardinality(I) \in Nat /\ Cardinality(I \cup {k}) = Cardinality(I) + 1
         /\ \A n \in 1 .. Cardinality(I) : NthOf(I \cup {k}, n) = NthOf(I, n)
         /\ NthOf(I \cup {k}, Cardinality(I) + 1) = k
<1> DEFINE J == I \cup {k}
<1>1. k \notin I /\ J \in SUBSET Nat /\ k \in J
  OBVIOUS
<1>2. /\ Cardinality(I) \in Nat /\ IsFiniteSet(J)
      /\ Cardinality(J) = Cardinality(I) + 1
  BY <1>1, FS_CardinalityType, FS_AddElement
<1>3. ASSUME NEW n \in 1 .. Cardinality(I) PROVE NthOf(J, n) = NthOf(I, n)
  <2>1. PICK i \in I : NthOf(I, n) = i
    BY NthOfEnumerates
  <2>2. Cardinality({j \in I : j <= i}) = n
    <3>1. /\ Cardinality({j \in I : j <= i}) \in 1 .. Cardinality(I)
          /\ NthOf(I, Cardinality({j \in I : j <= i})) = i
      BY NthOfIs
    <3>2. \A m, o \in 1 .. Cardinality(I) : NthOf(I, m) = NthOf(I, o) => m = o
      BY NthOfEnumerates
    <3> QED
      BY <2>1, <3>1, <3>2
  <2>3. {j \in J : j <= i} = {j \in I : j <= i}
    BY <1>1
  <2>4. NthOf(J, Cardinality({j \in J : j <= i})) = i
    <3>1. i \in J
      OBVIOUS
    <3> HIDE DEF J
    <3> QED
      BY <1>1, <1>2, <3>1, NthOfIs
  <2> QED
    BY <2>1, <2>2, <2>3, <2>4
<1>4. NthOf(J, Cardinality(I) + 1) = k
  <2>1. {j \in J : j <= k} = J
    <3>1. \A j \in J : j <= k
      OBVIOUS
    <3> QED
      BY <3>1
  <2>2. NthOf(J, Cardinality({j \in J : j <= k})) = k
    <3> HIDE DEF J
    <3> QED
      BY <1>1, <1>2, NthOfIs
  <2> QED
    BY <1>2, <2>1, <2>2
<1> QED
  BY <1>2, <1>3, <1>4

\* r has the elements of q at the indices in I.
AgreeAt(q, r, I) == \A i \in I : r[i] = q[i]

\* The elements at the same indices are the same ...
LEMMA ElementsAtStay ==
  ASSUME NEW I \in SUBSET Nat, IsFiniteSet(I), NEW q, NEW r, AgreeAt(q, r, I)
  PROVE  ElementsAt(r, I) = ElementsAt(q, I)
<1>1. \A n \in 1 .. Cardinality(I) : NthOf(I, n) \in I
  BY NthOfEnumerates
<1> QED
  BY <1>1 DEF ElementsAt, AgreeAt

\* r has the elements of q at the indices in I, and another one after them.
OneMore(q, r, I, J, k, S) ==
  /\ J = I \cup {k}
  /\ I \in SUBSET Nat /\ IsFiniteSet(I) /\ k \in Nat
  /\ AgreeAt(q, r, I)
  /\ \A i \in I : i < k /\ q[i] \in S
  /\ r[k] \in S

\* ... and one at a greater index comes after them.
LEMMA ElementsAtGrow ==
  ASSUME NEW q, NEW r, NEW I, NEW J, NEW k, NEW S, OneMore(q, r, I, J, k, S)
  PROVE  ElementsAt(r, J) = Append(ElementsAt(q, I), r[k])
<1> USE DEF OneMore
<1> DEFINE c == Cardinality(I)
           e == ElementsAt(q, I)
           f == ElementsAt(r, J)
<1>1. /\ c \in Nat /\ Cardinality(J) = c + 1
      /\ \A n \in 1 .. c : NthOf(J, n) = NthOf(I, n)
      /\ NthOf(J, c + 1) = k
  BY NthOfGrows
<1>2. \A n \in 1 .. c : NthOf(I, n) \in I
  BY NthOfEnumerates
<1>3. e = [n \in 1 .. c |-> q[NthOf(I, n)]] /\ f = [n \in 1 .. Cardinality(J) |-> r[NthOf(J, n)]]
  BY DEF ElementsAt
<1> HIDE DEF c, e, f
<1>4. f = [n \in 1 .. c + 1 |-> r[NthOf(J, n)]]
  BY <1>1, <1>3
<1>5. \A n \in 1 .. c : q[NthOf(I, n)] \in S /\ r[NthOf(J, n)] = q[NthOf(I, n)]
  BY <1>1, <1>2 DEF AgreeAt
<1>6. e \in Seq(S) /\ Len(e) = c /\ \A n \in 1 .. c : e[n] = q[NthOf(I, n)]
  BY <1>1, <1>3, <1>5
<1>7. Append(e, r[k]) = [n \in 1 .. c + 1 |-> IF n = c + 1 THEN r[k] ELSE e[n]]
  BY <1>1, <1>6
<1>8. \A n \in 1 .. c + 1 : r[NthOf(J, n)] = IF n = c + 1 THEN r[k] ELSE e[n]
  <2>1. \A n \in 1 .. c + 1 : n = c + 1 \/ n \in 1 .. c
    BY <1>1
  <2> QED
    BY <1>1, <1>5, <1>6, <2>1
<1>9. f = Append(e, r[k])
  BY <1>4, <1>7, <1>8
<1> QED
  BY <1>9 DEF e, f

\* The elements at some indices are a sequence of as many elements.
LEMMA ElementsAtType ==
  ASSUME NEW I \in SUBSET Nat, IsFiniteSet(I), NEW q, NEW S, \A i \in I : q[i] \in S
  PROVE  ElementsAt(q, I) \in Seq(S) /\ Len(ElementsAt(q, I)) = Cardinality(I)
<1>1. Cardinality(I) \in Nat /\ \A n \in 1 .. Cardinality(I) : NthOf(I, n) \in I
  BY NthOfEnumerates
<1>2. \A n \in 1 .. Cardinality(I) : q[NthOf(I, n)] \in S
  BY <1>1
<1>3. ElementsAt(q, I) = [n \in 1 .. Cardinality(I) |-> q[NthOf(I, n)]]
  BY DEF ElementsAt
<1> QED
  BY <1>1, <1>2, <1>3

\* The indices of a sequence are finitely many natural numbers.
LEMMA IndicesAreFinite ==
  ASSUME NEW S, NEW q \in Seq(S)
  PROVE  /\ Len(q) \in Nat /\ DOMAIN q = 1 .. Len(q)
         /\ DOMAIN q \in SUBSET Nat /\ IsFiniteSet(DOMAIN q)
<1>1. Len(q) \in Nat /\ DOMAIN q = 1 .. Len(q)
  OBVIOUS
<1>2. 1 \in Int /\ Len(q) \in Int
  BY <1>1
<1>3. IsFiniteSet(1 .. Len(q))
  BY <1>2, FS_Interval
<1> QED
  BY <1>1, <1>3

\* The slots that are filled.
Filled(data) == {i \in DOMAIN data : IsSome(data[i].second)}

\* There are as many values as filled slots.
LEMMA ValuesType ==
  ASSUME NEW B \in SUBSET Nat, NEW D, None \notin D, NEW data \in Seq(SlotsOf(B, D))
  PROVE  /\ Filled(data) \in SUBSET Nat /\ IsFiniteSet(Filled(data))
         /\ \A i \in Filled(data) : i \in DOMAIN data /\ GetValues(data)[i] \in D
         /\ ActualValues(data) = ElementsAt(GetValues(data), Filled(data))
         /\ ActualValues(data) \in Seq(D)
         /\ Len(ActualValues(data)) = Cardinality(Filled(data))
<1>1. /\ IsFiniteSet(DOMAIN data) /\ DOMAIN data \in SUBSET Nat
      /\ \A i \in DOMAIN data : data[i].second \in D \cup {None}
  BY SlotFields
<1>2. Filled(data) \in SUBSET DOMAIN data
  BY DEF Filled
<1>3. Filled(data) \in SUBSET Nat /\ IsFiniteSet(Filled(data))
  BY <1>1, <1>2, FS_Subset
<1>4. \A i \in Filled(data) : i \in DOMAIN data /\ GetValues(data)[i] \in D
  BY <1>1 DEF Filled, IsSome, GetValues
<1>5. ActualValues(data) = ElementsAt(GetValues(data), Filled(data))
  BY DEF ActualValues, Filled
<1> QED
  BY <1>3, <1>4, <1>5, ElementsAtType

\* more has the slots of data and that of bucket b with d in it.
SlotMore(more, data, b, d, D) ==
  /\ data \in Seq(SlotsOf(Nat, D)) /\ None \notin D
  /\ b \in Nat /\ d \in D \cup {None}
  /\ more = Append(data, Pair(b, d))

\* A further slot adds its datum to the values, if it is filled.
LEMMA ValuesOfAppend ==
  ASSUME NEW D, NEW data, NEW b, NEW d, NEW more, SlotMore(more, data, b, d, D)
  PROVE  /\ d = None => ActualValues(more) = ActualValues(data)
         /\ d # None => ActualValues(more) = Append(ActualValues(data), d)
<1> DEFINE k == Len(data) + 1
           x == Pair(b, d)
           I == Filled(data)
           q == GetValues(data)
           r == GetValues(more)
           B == Nat
<1>0. /\ data \in Seq(SlotsOf(B, D)) /\ None \notin D /\ B \in SUBSET Nat
      /\ b \in Nat /\ d \in D \cup {None}
  BY DEF SlotMore
<1> HIDE DEF B
<1>1. x \in SlotsOf(B, D) /\ x.second = d /\ more = Append(data, x)
  BY <1>0 DEF Pair, SlotsOf, SlotMore, B
<1> HIDE DEF x
<1>2. /\ more \in Seq(SlotsOf(B, D)) /\ k \in Nat
      /\ DOMAIN more = DOMAIN data \cup {k} /\ k \notin DOMAIN data
      /\ \A i \in DOMAIN data : more[i] = data[i] /\ i < k
      /\ more[k] = x
  BY <1>0, <1>1
<1> HIDE DEF k
<1>3. /\ I \in SUBSET Nat /\ IsFiniteSet(I)
      /\ \A i \in I : i \in DOMAIN data /\ q[i] \in D
      /\ ActualValues(data) = ElementsAt(q, I)
  BY <1>0, ValuesType
<1>4. ActualValues(more) = ElementsAt(r, Filled(more))
  BY <1>0, <1>2, ValuesType
<1>5. AgreeAt(q, r, I) /\ r[k] = d
  BY <1>1, <1>2, <1>3 DEF AgreeAt, GetValues
<1>6. Filled(more) = IF d = None THEN I ELSE I \cup {k}
  BY <1>1, <1>2 DEF Filled, IsSome
<1> DEFINE J == Filled(more)
<1> HIDE DEF I, J, q, r
<1>7. CASE d = None
  BY <1>3, <1>4, <1>5, <1>6, <1>7, ElementsAtStay DEF J
<1>8. CASE d # None
  <2>1. d \in D /\ \A i \in I : i < k
    BY <1>0, <1>2, <1>3, <1>8
  <2>2. ElementsAt(r, J) = Append(ElementsAt(q, I), r[k])
    <3>1. OneMore(q, r, I, J, k, D)
      BY <1>2, <1>3, <1>5, <1>6, <1>8, <2>1 DEF OneMore, J
    <3> QED
      BY <3>1, ElementsAtGrow
  <2> QED
    BY <1>3, <1>4, <1>5, <1>8, <2>2 DEF J
<1> QED
  BY <1>7, <1>8

\* The latencies among the samples, and one sample more.
LEMMA LatenciesType ==
  ASSUME NEW S \in SUBSET Nat, NEW q \in Seq(S)
  PROVE  /\ {i \in DOMAIN q : Latency(q[i])} \in SUBSET Nat
         /\ IsFiniteSet({i \in DOMAIN q : Latency(q[i])})
         /\ LatenciesIn(q) \in Seq(S)
         /\ Len(LatenciesIn(q)) = Cardinality({i \in DOMAIN q : Latency(q[i])})
<1> DEFINE I == {i \in DOMAIN q : Latency(q[i])}
<1>1. DOMAIN q \in SUBSET Nat /\ IsFiniteSet(DOMAIN q) /\ \A i \in DOMAIN q : q[i] \in S
  BY IndicesAreFinite
<1>2. I \in SUBSET Nat /\ IsFiniteSet(I) /\ \A i \in I : q[i] \in S
  BY <1>1, FS_Subset
<1>3. LatenciesIn(q) = ElementsAt(q, I)
  BY DEF LatenciesIn
<1> HIDE DEF I
<1>4. LatenciesIn(q) \in Seq(S) /\ Len(LatenciesIn(q)) = Cardinality(I)
  BY <1>2, <1>3, ElementsAtType
<1> QED
  BY <1>2, <1>4 DEF I

\* A further sample is added to the latencies, unless it is a loss.
LEMMA LatenciesOfAppend ==
  ASSUME NEW D \in SUBSET Nat, NEW q \in Seq(D), NEW x \in D
  PROVE  LatenciesIn(Append(q, x)) =
           IF Latency(x) THEN Append(LatenciesIn(q), x) ELSE LatenciesIn(q)
<1> DEFINE k == Len(q) + 1
           r == Append(q, x)
           I == {i \in DOMAIN q : Latency(q[i])}
           J == {i \in DOMAIN r : Latency(r[i])}
<1>1. /\ k \in Nat /\ DOMAIN r = DOMAIN q \cup {k} /\ k \notin DOMAIN q
      /\ \A i \in DOMAIN q : r[i] = q[i] /\ i < k /\ q[i] \in D
      /\ r[k] = x
  OBVIOUS
<1>2. I \in SUBSET Nat /\ IsFiniteSet(I)
  BY LatenciesType
<1> HIDE DEF k, r
<1>3. J = IF Latency(x) THEN I \cup {k} ELSE I
  BY <1>1
<1>4. AgreeAt(q, r, I) /\ (\A i \in I : i < k /\ q[i] \in D) /\ r[k] \in D
  BY <1>1 DEF AgreeAt
<1>5. LatenciesIn(q) = ElementsAt(q, I) /\ LatenciesIn(r) = ElementsAt(r, J)
  BY DEF LatenciesIn
<1> HIDE DEF I, J
<1>6. CASE Latency(x)
  <2>1. ElementsAt(r, J) = Append(ElementsAt(q, I), r[k])
    <3>1. OneMore(q, r, I, J, k, D)
      BY <1>1, <1>2, <1>3, <1>4, <1>6 DEF OneMore
    <3> QED
      BY <3>1, ElementsAtGrow
  <2> QED
    BY <1>1, <1>3, <1>5, <1>6, <2>1 DEF r
<1>7. CASE ~Latency(x)
  BY <1>2, <1>3, <1>4, <1>5, <1>7, ElementsAtStay DEF r
<1> QED
  BY <1>6, <1>7

-----------------------------------------------------------------------------
(* The invariant: one slot for each probe, in both series, and the quality *)
(* of what the self probes measured.                                       *)

\* The buckets are numbered from 1 on.
Numbered(s, D) ==
  /\ s \in SeriesOf(Nat, D)
  /\ WellFormed(s)
  /\ \A i \in DOMAIN s.data : s.data[i].first = i

\* t is s with a slot for one probe more, which holds d.
OneProbeMore(t, s, d, D) ==
  /\ Numbered(s, D) /\ Numbered(t, D) /\ d \in D \cup {None}
  /\ t.data = Append(s.data, Pair(Len(s.data) + 1, d))

\* What follows for the values and for the slots that are filled.
OneValueMore(t, s, d) ==
  /\ Len(t.data) = Len(s.data) + 1
  /\ Filled(t.data) = Filled(s.data) \cup (IF d = None THEN {} ELSE {Len(s.data) + 1})
  /\ d = None => ActualValues(t.data) = ActualValues(s.data)
  /\ d # None => ActualValues(t.data) = Append(ActualValues(s.data), d)

SameProbesAnswered == Filled(selfRtts.data) = Filled(foreignRtts.data)

IInv ==
  /\ Numbered(selfRtts, SelfTimes) /\ Numbered(foreignRtts, ForeignTimes)
  /\ Len(selfRtts.data) = Len(foreignRtts.data)
  /\ SameProbesAnswered
  /\ quality = QualityOf(ActualValues(selfRtts.data))

\* A new series has no probe.
LEMMA NewIsNumbered ==
  ASSUME NEW D
  PROVE  /\ Numbered(NewForever, D) /\ NewForever.data = << >>
         /\ Filled(NewForever.data) = {} /\ ActualValues(NewForever.data) = << >>
<1>1. NewForever \in SeriesOf(Nat, D) /\ WellFormed(NewForever)
  BY NewIsWellFormed
<1>2. NewForever.data = << >>
  BY DEF NewForever
<1>3. Filled(<< >>) = {}
  BY DEF Filled
<1>4. ActualValues(<< >>) = << >>
  <2>1. {i \in DOMAIN << >> : IsSome(<< >>[i].second)} = {}
    OBVIOUS
  <2>2. Cardinality({}) = 0
    BY FS_EmptySet
  <2>3. \A q : ElementsAt(q, {}) = << >>
    BY <2>2 DEF ElementsAt
  <2> QED
    BY <2>1, <2>3 DEF ActualValues
<1> QED
  BY <1>1, <1>2, <1>3, <1>4 DEF Numbered

\* A probe without an answer has a slot without a datum.
LEMMA ReserveAddsProbe ==
  ASSUME NEW D, NEW s, Numbered(s, D)
  PROVE  OneProbeMore(ForeverReserve(s, Len(s.data) + 1), s, None, D)
<1> DEFINE b == Len(s.data) + 1
           t == ForeverReserve(s, b)
<1>1. s \in SeriesOf(Nat, D) /\ WellFormed(s) /\ s.data \in Seq([first : Nat, second : D \cup {None}])
  BY DEF Numbered, SeriesOf
<1>2. b \in Nat /\ \A i \in DOMAIN s.data : i < b
  BY <1>1
<1>3. Above(b, s)
  BY <1>2 DEF Above, BucketsOf, Numbered
<1> HIDE DEF b
<1>4. IsReserved(t, s, b, Nat, D)
  <2>1. Nat \in SUBSET Nat
    OBVIOUS
  <2> QED
    BY <1>1, <1>2, <1>3, <2>1, ReserveAppends
<1> HIDE DEF t
<1>5. t \in SeriesOf(Nat, D) /\ WellFormed(t) /\ t.data = Append(s.data, Pair(b, None))
  BY <1>4 DEF IsReserved
<1>6. \A i \in DOMAIN t.data : t.data[i].first = i
  <2>1. Pair(b, None) \in [first : Nat, second : D \cup {None}] /\ Pair(b, None).first = b
    BY <1>2 DEF Pair
  <2>2. DOMAIN t.data = DOMAIN s.data \cup {b} /\ t.data[b] = Pair(b, None)
        /\ \A i \in DOMAIN s.data : t.data[i] = s.data[i]
    BY <1>1, <1>5, <2>1 DEF b
  <2> QED
    BY <2>1, <2>2 DEF Numbered
<1> QED
  BY <1>5, <1>6 DEF OneProbeMore, Numbered, b, t

\* A probe with an answer has a slot with it.
LEMMA FillAddsProbe ==
  ASSUME NEW D, NEW s, Numbered(s, D), NEW d \in D
  PROVE  OneProbeMore(ForeverFill(ForeverReserve(s, Len(s.data) + 1), Len(s.data) + 1, d), s, d, D)
<1> DEFINE b == Len(s.data) + 1
           r == ForeverReserve(s, b)
           t == ForeverFill(r, b, d)
           Slot == [first : Nat, second : D \cup {None}]
<1>1. s.data \in Seq(Slot)
  BY DEF Numbered, SeriesOf
<1>2. OneProbeMore(r, s, None, D)
  BY ReserveAddsProbe
<1>3. b \in Nat /\ b \notin DOMAIN s.data
  BY <1>1
<1> HIDE DEF r
<1>4. r \in SeriesOf(Nat, D) /\ WellFormed(r) /\ (\A i \in DOMAIN r.data : r.data[i].first = i)
      /\ r.data = Append(s.data, Pair(b, None)) /\ r.data \in Seq(Slot)
  BY <1>2 DEF OneProbeMore, Numbered, SeriesOf
<1>5. DOMAIN r.data = DOMAIN s.data \cup {b} /\ \A i \in DOMAIN s.data : r.data[i] = s.data[i]
  <2>1. Pair(b, None) \in Slot
    BY <1>3 DEF Pair
  <2> QED
    BY <1>1, <1>4, <2>1
<1>6. IsFilled(t, r, b, d, Nat, D)
  <2>1. Nat \in SUBSET Nat
    OBVIOUS
  <2> HIDE DEF b
  <2> QED
    BY <1>3, <1>4, <2>1, FillStores
<1> HIDE DEF t
<1>7. /\ t \in SeriesOf(Nat, D) /\ WellFormed(t) /\ t.data \in Seq(Slot)
      /\ DOMAIN t.data = DOMAIN r.data
      /\ \A i \in DOMAIN r.data : /\ t.data[i].first = i
                                  /\ t.data[i].second = IF i = b THEN d ELSE r.data[i].second
  BY <1>4, <1>6 DEF IsFilled, SeriesOf
<1> DEFINE u == Append(s.data, Pair(b, d))
<1>8. u \in Seq(Slot) /\ DOMAIN u = DOMAIN s.data \cup {b} /\ u[b] = Pair(b, d)
      /\ \A i \in DOMAIN s.data : u[i] = s.data[i]
  <2>1. Pair(b, d) \in Slot
    BY <1>3 DEF Pair
  <2> QED
    BY <1>1, <2>1
<1>9. \A x, y \in Slot : x.first = y.first /\ x.second = y.second => x = y
  OBVIOUS
<1>10. \A i \in DOMAIN u : t.data[i] = u[i]
  <2> SUFFICES ASSUME NEW i \in DOMAIN u PROVE t.data[i] = u[i]
    OBVIOUS
  <2>1. t.data[i] \in Slot /\ u[i] \in Slot
    <3>1. DOMAIN t.data = DOMAIN u
      BY <1>5, <1>7, <1>8
    <3> HIDE DEF u, Slot
    <3> QED
      BY <1>7, <1>8, <3>1
  <2>2. u[i].first = i /\ u[i].second = IF i = b THEN d ELSE r.data[i].second
    <3>1. CASE i = b
      BY <1>8, <3>1 DEF Pair
    <3>2. CASE i \in DOMAIN s.data
      <4>1. u[i] = r.data[i] /\ r.data[i].first = i
        BY <1>4, <1>5, <1>8, <3>2
      <4> QED
        BY <1>3, <3>2, <4>1
    <3> QED
      BY <1>8, <3>1, <3>2
  <2>3. t.data[i].first = u[i].first /\ t.data[i].second = u[i].second
    BY <1>5, <1>7, <1>8, <2>2
  <2> HIDE DEF u, Slot
  <2> QED
    BY <1>9, <2>1, <2>3
<1>11. t.data = u
  <2> HIDE DEF u, Slot
  <2> QED
    BY <1>5, <1>7, <1>8, <1>10
<1> QED
  BY <1>7, <1>11 DEF OneProbeMore, Numbered, t, r

\* What a probe more adds to the values and to the filled slots.
LEMMA ProbeAddsValue ==
  ASSUME NEW D, None \notin D, NEW s, NEW d, NEW t, OneProbeMore(t, s, d, D)
  PROVE  OneValueMore(t, s, d)
<1> DEFINE next == Len(s.data) + 1
<1>1. /\ s.data \in Seq(SlotsOf(Nat, D)) /\ d \in D \cup {None}
      /\ t.data = Append(s.data, Pair(next, d))
  BY DEF OneProbeMore, Numbered, SeriesOf, SlotsOf
<1>2. next \in Nat /\ Pair(next, d) \in SlotsOf(Nat, D) /\ Pair(next, d).second = d
  BY <1>1 DEF SlotsOf, Pair
<1>3. /\ Len(t.data) = next /\ DOMAIN t.data = DOMAIN s.data \cup {next} /\ next \notin DOMAIN s.data
      /\ t.data[next] = Pair(next, d) /\ \A i \in DOMAIN s.data : t.data[i] = s.data[i]
  BY <1>1, <1>2
<1>4. Filled(t.data) = Filled(s.data) \cup (IF d = None THEN {} ELSE {next})
  BY <1>2, <1>3 DEF Filled, IsSome
<1>5. SlotMore(t.data, s.data, next, d, D)
  BY <1>1, <1>2 DEF SlotMore
<1>6. d = None => ActualValues(t.data) = ActualValues(s.data)
  BY <1>5, ValuesOfAppend
<1>7. d # None => ActualValues(t.data) = Append(ActualValues(s.data), d)
  BY <1>5, ValuesOfAppend
<1> QED
  BY <1>3, <1>4, <1>6, <1>7 DEF OneValueMore

\* The percentages are those that the program accepts, and times are positive.
LEMMA TimesAreNumbers ==
  /\ SelfTimes \in SUBSET Nat /\ ForeignTimes \in SUBSET Nat
  /\ None \notin SelfTimes /\ None \notin ForeignTimes
  /\ \A t \in SelfTimes \cup ForeignTimes : t > 0
  BY TimesAssumption, NoneAssumption

\* The series start without probes.
LEMMA InitHasNoProbe == Init => IInv
<1> SUFFICES ASSUME Init PROVE IInv
  OBVIOUS
<1>1. selfRtts = NewForever /\ foreignRtts = NewForever /\ quality = NewQuality
  BY DEF Init
<1>2. Numbered(NewForever, SelfTimes) /\ Numbered(NewForever, ForeignTimes)
  BY NewIsNumbered
<1>3. ActualValues(NewForever.data) = << >>
  BY NewIsNumbered
<1> QED
  BY <1>1, <1>2, <1>3, QualityOfEmpty DEF IInv, SameProbesAnswered

\* Every probe adds to both series and, if it is answered, to the quality.
LEMMA NextAddsProbe == IInv /\ [Next]_vars => IInv'
<1> SUFFICES ASSUME IInv, [Next]_vars PROVE IInv'
  OBVIOUS
<1> DEFINE n == Len(selfRtts.data) + 1
<1>1. /\ Numbered(selfRtts, SelfTimes) /\ Numbered(foreignRtts, ForeignTimes)
      /\ Len(selfRtts.data) = Len(foreignRtts.data)
      /\ Filled(selfRtts.data) = Filled(foreignRtts.data)
      /\ quality = QualityOf(ActualValues(selfRtts.data))
  BY DEF IInv, SameProbesAnswered
<1>2. ActualValues(selfRtts.data) \in Seq(SelfTimes)
  <2>1. selfRtts.data \in Seq(SlotsOf(Nat, SelfTimes)) /\ Nat \in SUBSET Nat
    BY <1>1 DEF Numbered, SeriesOf, SlotsOf
  <2> QED
    BY <2>1, TimesAreNumbers, ValuesType
<1>3. CASE Unanswered
  <2>1. /\ selfRtts' = ForeverReserve(selfRtts, n)
        /\ foreignRtts' = ForeverReserve(foreignRtts, Len(foreignRtts.data) + 1)
        /\ quality' = quality
    BY <1>1, <1>3 DEF Unanswered, NextBucket
  <2>2. /\ OneProbeMore(selfRtts', selfRtts, None, SelfTimes)
        /\ OneProbeMore(foreignRtts', foreignRtts, None, ForeignTimes)
    BY <1>1, <2>1, ReserveAddsProbe
  <2>3. OneValueMore(selfRtts', selfRtts, None) /\ OneValueMore(foreignRtts', foreignRtts, None)
    BY <2>2, TimesAreNumbers, ProbeAddsValue
  <2>4. /\ Len(selfRtts'.data) = Len(foreignRtts'.data)
        /\ Filled(selfRtts'.data) = Filled(foreignRtts'.data)
        /\ ActualValues(selfRtts'.data) = ActualValues(selfRtts.data)
    BY <1>1, <2>3 DEF OneValueMore
  <2> QED
    BY <1>1, <2>1, <2>2, <2>4 DEF IInv, OneProbeMore, SameProbesAnswered
<1>4. ASSUME NEW self \in SelfTimes, NEW foreign \in ForeignTimes, Answered(self, foreign)
      PROVE  IInv'
  <2>1. /\ selfRtts' = ForeverFill(ForeverReserve(selfRtts, n), n, self)
        /\ foreignRtts' = ForeverFill(ForeverReserve(foreignRtts, Len(foreignRtts.data) + 1),
                                      Len(foreignRtts.data) + 1, foreign)
        /\ quality' = AddSample(quality, self)
    BY <1>1, <1>4 DEF Answered, NextBucket
  <2>2. /\ OneProbeMore(selfRtts', selfRtts, self, SelfTimes)
        /\ OneProbeMore(foreignRtts', foreignRtts, foreign, ForeignTimes)
    BY <1>1, <2>1, FillAddsProbe
  <2>3. self # None /\ foreign # None
    BY TimesAreNumbers
  <2>4. OneValueMore(selfRtts', selfRtts, self) /\ OneValueMore(foreignRtts', foreignRtts, foreign)
    BY <2>2, TimesAreNumbers, ProbeAddsValue
  <2>5. /\ Len(selfRtts'.data) = Len(foreignRtts'.data)
        /\ Filled(selfRtts'.data) = Filled(foreignRtts'.data)
        /\ ActualValues(selfRtts'.data) = Append(ActualValues(selfRtts.data), self)
    BY <1>1, <2>3, <2>4 DEF OneValueMore
  <2>6. quality' = QualityOf(ActualValues(selfRtts'.data))
    BY <1>1, <1>2, <2>1, <2>5, QualityOfAppend
  <2> QED
    BY <1>1, <2>2, <2>5, <2>6 DEF IInv, OneProbeMore, SameProbesAnswered
<1>5. CASE UNCHANGED vars
  BY <1>1, <1>5 DEF vars, IInv, SameProbesAnswered
<1> QED
  BY <1>3, <1>4, <1>5 DEF Next

\* In every reachable state the two series have the same probes, answered
\* alike, and the quality is that of the answers of the self probes.
THEOREM SeriesGrowTogether == Spec => []IInv
<1>1. Init => IInv
  BY InitHasNoProbe
<1>2. IInv /\ [Next]_vars => IInv'
  BY NextAddsProbe
<1> QED
  BY <1>1, <1>2, PTL DEF Spec

-----------------------------------------------------------------------------
(* Induction over sequences that are added to at their ends.               *)

\* A sequence is built up from its first elements.
LEMMA FirstElements ==
  ASSUME NEW S, NEW q \in Seq(S)
  PROVE  /\ Len(q) \in Nat
         /\ SubSeq(q, 1, 0) = << >> /\ SubSeq(q, 1, Len(q)) = q
         /\ \A m \in 0 .. Len(q) : SubSeq(q, 1, m) \in Seq(S) /\ Len(SubSeq(q, 1, m)) = m
         /\ \A m \in 0 .. Len(q) : m < Len(q) =>
              /\ q[m + 1] \in S
              /\ SubSeq(q, 1, m + 1) = Append(SubSeq(q, 1, m), q[m + 1])
<1>1. Len(q) \in Nat /\ \A i \in 1 .. Len(q) : q[i] \in S
  OBVIOUS
<1>2. \A m \in 0 .. Len(q) :
        /\ SubSeq(q, 1, m) \in Seq(S) /\ Len(SubSeq(q, 1, m)) = m
        /\ \A i \in 1 .. m : SubSeq(q, 1, m)[i] = q[i]
  BY <1>1
<1>3. SubSeq(q, 1, 0) = << >>
  OBVIOUS
<1>4. SubSeq(q, 1, Len(q)) = q
  BY <1>1, <1>2
<1>5. ASSUME NEW m \in 0 .. Len(q), m < Len(q)
      PROVE  q[m + 1] \in S /\ SubSeq(q, 1, m + 1) = Append(SubSeq(q, 1, m), q[m + 1])
  <2> DEFINE a == SubSeq(q, 1, m)
             b == SubSeq(q, 1, m + 1)
  <2>1. m + 1 \in 0 .. Len(q) /\ q[m + 1] \in S
    BY <1>1, <1>5
  <2>2. /\ a \in Seq(S) /\ Len(a) = m /\ \A i \in 1 .. m : a[i] = q[i]
        /\ b \in Seq(S) /\ Len(b) = m + 1 /\ \A i \in 1 .. m + 1 : b[i] = q[i]
    BY <1>2, <2>1
  <2> HIDE DEF a, b
  <2>3. b = Append(a, q[m + 1])
    BY <2>1, <2>2
  <2> QED
    BY <2>1, <2>3 DEF a, b
<1> QED
  BY <1>1, <1>2, <1>3, <1>4, <1>5

\* A set of sequences that has the empty one, and with each one the longer
\* ones by an element, has them all.
LEMMA Growing ==
  ASSUME NEW S, NEW T, << >> \in T,
         \A q \in Seq(S), x \in S : q \in T => Append(q, x) \in T
  PROVE  \A q \in Seq(S) : q \in T
<1> SUFFICES ASSUME NEW q \in Seq(S) PROVE q \in T
  OBVIOUS
<1> DEFINE first(m) == SubSeq(q, 1, m)
<1>1. /\ Len(q) \in Nat
      /\ first(0) = << >> /\ first(Len(q)) = q
      /\ \A m \in 0 .. Len(q) : first(m) \in Seq(S)
      /\ \A m \in 0 .. Len(q) : m < Len(q) =>
           q[m + 1] \in S /\ first(m + 1) = Append(first(m), q[m + 1])
  BY FirstElements
<1> HIDE DEF first
<1> DEFINE M == {m \in Nat : first(m) \in T}
<1>2. 0 \in M
  <2>1. first(0) \in T
    BY <1>1, Zenon
  <2> QED
    BY <2>1
<1>3. ASSUME NEW m \in 0 .. Len(q), m \in M, m < Len(q) PROVE m + 1 \in M
  <2>1. /\ first(m) \in Seq(S) /\ first(m) \in T /\ q[m + 1] \in S
        /\ first(m + 1) = Append(first(m), q[m + 1])
    BY <1>1, <1>3
  <2>2. Append(first(m), q[m + 1]) \in T
    BY <2>1, Zenon
  <2>3. first(m + 1) \in T
    BY <2>1, <2>2, Zenon
  <2> QED
    BY <2>3
<1> HIDE DEF M
<1>4. \A m \in 0 .. Len(q) : m \in M
  BY <1>1, <1>2, <1>3, UpwardTo
<1>5. Len(q) \in M
  BY <1>1, <1>4
<1> QED
  BY <1>1, <1>5 DEF M

Positive == Nat \ {0}

\* The sum of positive numbers is at least their number.
LEMMA SumOfPositive ==
  ASSUME NEW q \in Seq(Positive)
  PROVE  SumOf(q) \in Nat /\ SumOf(q) >= Len(q)
<1> DEFINE T == {r \in Seq(Positive) : SumOf(r) \in Nat /\ SumOf(r) >= Len(r)}
<1>1. << >> \in T
  BY SumOfEmpty
<1>2. ASSUME NEW r \in Seq(Positive), NEW x \in Positive, r \in T
      PROVE  Append(r, x) \in T
  <2>1. SumOf(Append(r, x)) = SumOf(r) + x
    BY SumOfAppend
  <2>2. SumOf(r) \in Nat /\ SumOf(r) >= Len(r) /\ x \in Nat /\ x >= 1
    BY <1>2 DEF Positive
  <2>3. Append(r, x) \in Seq(Positive) /\ Len(Append(r, x)) = Len(r) + 1 /\ Len(r) \in Nat
    OBVIOUS
  <2> QED
    BY <2>1, <2>2, <2>3
<1> HIDE DEF T
<1>3. q \in T
  BY <1>1, <1>2, Growing
<1> QED
  BY <1>3 DEF T

-----------------------------------------------------------------------------
(* The round trips of the foreign probes.                                  *)

\* The recursive function behind FlattenSeq.
Flattens(g, q, n) == g = [i \in 1 .. n |-> IF i = 1 THEN q[i] ELSE g[i - 1] \o q[i]]

\* It exists.
LEMMA FlattenExists ==
  ASSUME NEW n \in Nat, NEW q
  PROVE  \E g : Flattens(g, q, n)
<1> DEFINE T == {m \in Nat : \E g : Flattens(g, q, m)}
<1>1. 0 \in T
  <2> DEFINE g == [i \in 1 .. 0 |-> q[i]]
  <2>1. Flattens(g, q, 0)
    BY DEF Flattens
  <2> QED
    BY <2>1
<1>2. ASSUME NEW m \in Nat, m \in T PROVE m + 1 \in T
  <2>1. PICK g : Flattens(g, q, m)
    BY <1>2
  <2> DEFINE h == [i \in 1 .. m + 1 |-> IF i = 1 THEN q[i] ELSE g[i - 1] \o q[i]]
  <2>2. \A i \in 1 .. m : h[i] = g[i]
    <3>1. \A i \in 1 .. m : g[i] = IF i = 1 THEN q[i] ELSE g[i - 1] \o q[i]
      BY <2>1 DEF Flattens
    <3>2. \A i \in 1 .. m : i \in 1 .. m + 1
      OBVIOUS
    <3> QED
      BY <3>1, <3>2
  <2>3. \A i \in 1 .. m + 1 : i # 1 => i - 1 \in 1 .. m
    OBVIOUS
  <2>4. \A i \in 1 .. m + 1 : i # 1 => h[i - 1] = g[i - 1]
    BY <2>2, <2>3
  <2>5. h = [i \in 1 .. m + 1 |-> IF i = 1 THEN q[i] ELSE h[i - 1] \o q[i]]
    BY <2>4
  <2> HIDE DEF h
  <2>6. Flattens(h, q, m + 1)
    BY <2>5 DEF Flattens
  <2> QED
    BY <2>6
<1> HIDE DEF T
<1>3. n \in T
  BY <1>1, <1>2, UpwardTo
<1> QED
  BY <1>3 DEF T

\* Triples put one after the other are three times as many elements.
LEMMA FlattenedTriples ==
  ASSUME NEW S, NEW q \in Seq(Seq(S)), \A i \in DOMAIN q : Len(q[i]) = 3
  PROVE  FlattenSeq(q) \in Seq(S) /\ Len(FlattenSeq(q)) = 3 * Len(q)
<1> DEFINE n == Len(q)
<1>1. n \in Nat /\ DOMAIN q = 1 .. n /\ \A i \in 1 .. n : q[i] \in Seq(S) /\ Len(q[i]) = 3
  OBVIOUS
<1>2. CASE n = 0
  <2>1. FlattenSeq(q) = q
    BY <1>2 DEF FlattenSeq
  <2>2. q \in Seq(S)
    BY <1>1, <1>2
  <2>3. Len(q) = 3 * Len(q)
    BY <1>2
  <2> QED
    BY <2>1, <2>2, <2>3
<1>3. CASE n # 0
  <2> DEFINE P(g) == g = [i \in 1 .. Len(q) |-> IF i = 1 THEN q[i] ELSE g[i - 1] \o q[i]]
             f == CHOOSE g : P(g)
  <2>1. FlattenSeq(q) = f[n]
    BY <1>3 DEF FlattenSeq
  <2>2. \E g : P(g)
    BY <1>1, FlattenExists DEF Flattens
  <2>3. P(f)
    <3> HIDE DEF P
    <3> QED
      BY <2>2
  <2>4. \A i \in 1 .. n : f[i] = IF i = 1 THEN q[i] ELSE f[i - 1] \o q[i]
    BY <2>3
  <2> HIDE DEF P, f, n
  <2> DEFINE T == {m \in 0 .. n : m = 0 \/ (f[m] \in Seq(S) /\ Len(f[m]) = 3 * m)}
  <2>5. 0 \in T
    BY <1>1
  <2>6. ASSUME NEW m \in 0 .. n, m \in T, m < n PROVE m + 1 \in T
    <3>1. m + 1 \in 1 .. n /\ m \in Nat /\ (m + 1) - 1 = m
      BY <1>1, <2>6
    <3>2. q[m + 1] \in Seq(S) /\ Len(q[m + 1]) = 3
      BY <1>1, <3>1
    <3>3. CASE m = 0
      <4>1. f[m + 1] = q[m + 1]
        BY <2>4, <3>1, <3>3
      <4> QED
        BY <3>1, <3>2, <3>3, <4>1
    <3>4. CASE m # 0
      <4>1. f[m + 1] = f[m] \o q[m + 1]
        <5>1. m + 1 # 1
          BY <3>1, <3>4
        <5> QED
          BY <2>4, <3>1, <5>1
      <4>2. f[m] \in Seq(S) /\ Len(f[m]) = 3 * m
        BY <2>6, <3>4
      <4>3. f[m + 1] \in Seq(S) /\ Len(f[m + 1]) = 3 * m + 3
        <5> DEFINE a == f[m]
                   b == q[m + 1]
        <5>1. /\ a \in Seq(S) /\ Len(a) = 3 * m
              /\ b \in Seq(S) /\ Len(b) = 3 /\ f[m + 1] = a \o b
          BY <3>2, <4>1, <4>2
        <5> HIDE DEF a, b
        <5>2. a \o b \in Seq(S) /\ Len(a \o b) = Len(a) + Len(b)
          BY <5>1, ConcatProperties
        <5> QED
          BY <5>1, <5>2
      <4> QED
        BY <3>1, <4>3
    <3> QED
      BY <3>3, <3>4
  <2> HIDE DEF T
  <2>7. n \in T
    <3>1. n \in Nat /\ n \in 0 .. n
      BY <1>1
    <3>2. \A m \in 0 .. n : m \in T
      BY <2>5, <2>6, <3>1, UpwardTo
    <3> QED
      BY <3>1, <3>2
  <2> QED
    BY <1>3, <2>1, <2>7 DEF T, n
<1> QED
  BY <1>2, <1>3

\* Three positive round trips for each answer of a foreign probe.
LEMMA RoundTripsArePositive ==
  ASSUME NEW q \in Seq(ForeignTimes)
  PROVE  RoundTrips(q) \in Seq(Positive) /\ Len(RoundTrips(q)) = 3 * Len(q)
<1> DEFINE third(t) == <<t \div 3, t \div 3, t \div 3>>
           r == [i \in DOMAIN q |-> third(q[i])]
<1>1. ASSUME NEW t \in ForeignTimes PROVE third(t) \in Seq(Positive) /\ Len(third(t)) = 3
  <2>1. t \in Nat /\ t # 0 /\ t % 3 = 0
    BY TimesAssumption
  <2>2. t \div 3 \in Positive
    BY <2>1 DEF Positive
  <2> QED
    BY <2>2
<1>2. Len(q) \in Nat /\ DOMAIN q = 1 .. Len(q) /\ \A i \in 1 .. Len(q) : q[i] \in ForeignTimes
  OBVIOUS
<1>3. RoundTrips(q) = FlattenSeq(r)
  BY DEF RoundTrips
<1> HIDE DEF third
<1>4. r \in Seq(Seq(Positive)) /\ Len(r) = Len(q) /\ \A i \in DOMAIN r : Len(r[i]) = 3
  BY <1>1, <1>2
<1> HIDE DEF r
<1> QED
  BY <1>3, <1>4, FlattenedTriples

-----------------------------------------------------------------------------
(* The statistics of a state's answers.                                    *)

\* What there are of answers in every reachable state: as many of self probes as
\* of foreign probes, and all of them positive.
LEMMA AnswersAre ==
  ASSUME IInv
  PROVE  /\ ActualValues(selfRtts.data) \in Seq(SelfTimes)
         /\ ActualValues(foreignRtts.data) \in Seq(ForeignTimes)
         /\ Len(ActualValues(foreignRtts.data)) = Len(ActualValues(selfRtts.data))
<1>1. /\ selfRtts.data \in Seq(SlotsOf(Nat, SelfTimes))
      /\ foreignRtts.data \in Seq(SlotsOf(Nat, ForeignTimes))
      /\ Nat \in SUBSET Nat
  BY DEF IInv, Numbered, SeriesOf, SlotsOf
<1>2. /\ ActualValues(selfRtts.data) \in Seq(SelfTimes)
      /\ Len(ActualValues(selfRtts.data)) = Cardinality(Filled(selfRtts.data))
  BY <1>1, TimesAreNumbers, ValuesType
<1>3. /\ ActualValues(foreignRtts.data) \in Seq(ForeignTimes)
      /\ Len(ActualValues(foreignRtts.data)) = Cardinality(Filled(foreignRtts.data))
  BY <1>1, TimesAreNumbers, ValuesType
<1> QED
  BY <1>2, <1>3 DEF IInv, SameProbesAnswered

\* The times of the self probes and the round trips of the foreign probes.
LEMMA TimesArePositive ==
  ASSUME IInv
  PROVE  /\ ActualValues(selfRtts.data) \in Seq(Positive)
         /\ RoundTrips(ActualValues(foreignRtts.data)) \in Seq(Positive)
         /\ Len(RoundTrips(ActualValues(foreignRtts.data))) = 3 * Len(ActualValues(selfRtts.data))
<1>1. SelfTimes \subseteq Positive
  BY TimesAssumption DEF Positive
<1>2. Seq(SelfTimes) \subseteq Seq(Positive)
  BY <1>1
<1> QED
  BY <1>2, AnswersAre, RoundTripsArePositive

\* A sequence of positive numbers is one of numbers.
LEMMA PositiveAreNumbers == \A q \in Seq(Positive) : q \in Seq(Nat)
  BY DEF Positive

\* In every reachable state the percentiles of the self probes' times and of the
\* foreign probes' round trips are what they should be (CalculatePercentile).
THEOREM PercentilesAreRanks == Spec => []PercentileIsARank
<1>1. ASSUME IInv PROVE PercentileIsARank
  <2> SUFFICES ASSUME NEW p \in Percentiles, NEW q, q # << >>,
                      q \in {ActualValues(selfRtts.data),
                             RoundTrips(ActualValues(foreignRtts.data))}
               PROVE  IsPercentile(CalculatePercentile(q, p), q, p)
    BY DEF PercentileIsARank
  <2>1. q \in Seq(Nat)
    BY <1>1, TimesArePositive, PositiveAreNumbers
  <2>2. p \in 1 .. 99
    BY ParametersAssumption
  <2> QED
    BY <2>1, <2>2, PercentileIsCorrect
<1> QED
  BY <1>1, SeriesGrowTogether, PTL

\* In every reachable state the trimmed mean is of the smallest of the self
\* probes' times (TrimmedMean).
THEOREM TrimmingKeepsTheSmallest == Spec => []TrimmingDropsTheGreatest
<1>1. ASSUME IInv PROVE TrimmingDropsTheGreatest
  <2> SUFFICES ASSUME NEW t \in Trims
               PROVE  AreSmallest(Trimmed(ActualValues(selfRtts.data), t),
                                  ActualValues(selfRtts.data), SelfTimes)
    BY DEF TrimmingDropsTheGreatest
  <2>1. ActualValues(selfRtts.data) \in Seq(Nat)
    BY <1>1, TimesArePositive, PositiveAreNumbers
  <2>2. t \in 0 .. 100
    BY ParametersAssumption
  <2> QED
    BY <2>1, <2>2, TimesAreNumbers, TrimmingIsCorrect
<1> QED
  BY <1>1, SeriesGrowTogether, PTL

\* A percentile of positive numbers is positive.
LEMMA PercentileIsPositive ==
  ASSUME NEW q \in Seq(Positive), q # << >>, NEW p \in 1 .. 99
  PROVE  CalculatePercentile(q, p) \in Positive
<1> DEFINE r == CalculatePercentile(q, p)
           same == {i \in DOMAIN q : q[i] = r}
<1>1. q \in Seq(Nat)
  BY PositiveAreNumbers
<1>2. Cardinality(same) > 0
  <2>1. IsPercentile(r, q, p)
    BY <1>1, PercentileIsCorrect
  <2> HIDE DEF r
  <2> QED
    BY <2>1 DEF IsPercentile, Occurrences
<1>3. same # {}
  <2>1. Cardinality({}) = 0
    BY FS_EmptySet
  <2> HIDE DEF same
  <2> QED
    BY <1>2, <2>1
<1>4. PICK i \in DOMAIN q : q[i] = r
  BY <1>3
<1> HIDE DEF r
<1>5. r \in Positive
  BY <1>4
<1> QED
  BY <1>5 DEF r

\* If t per cent of some positive numbers make at least one, one of them is kept
\* and their sum is positive, too.
LEMMA AverageIsPositive ==
  ASSUME NEW q \in Seq(Positive), NEW t \in 0 .. 100, Len(q) * t >= 100
  PROVE  Average(Trimmed(q, t))[1] \in Positive /\ Average(Trimmed(q, t))[2] \in Positive
<1> DEFINE a == InAscendingOrder(q)
           w == Len(q) * t
           m == w \div 100
           kept == SubSeq(a, 1, m)
<1>1. /\ Len(q) \in Nat /\ DOMAIN q = 1 .. Len(q) /\ q \in Seq(Nat)
      /\ \A i \in DOMAIN q : q[i] \in Positive
      /\ t \in Nat /\ t <= 100
  BY PositiveAreNumbers
<1>2. a \in Seq(Positive) /\ Len(a) = Len(q)
  <2>1. a \in Seq(Nat) /\ Len(a) = Len(q) /\ \A n \in DOMAIN q : a[n] = q[Place(q, n)]
    BY <1>1, AscendingElements
  <2>2. \A n \in DOMAIN q : a[n] \in Positive
    BY <1>1, <2>1, ElementsArePlaced DEF Placed
  <2>3. DOMAIN a = 1 .. Len(q)
    BY <2>1
  <2> HIDE DEF a
  <2>4. \A n \in 1 .. Len(q) : a[n] \in Positive
    BY <1>1, <2>2
  <2>5. a \in Seq(Positive)
    <3> DEFINE b == [n \in 1 .. Len(q) |-> a[n]]
    <3>1. b \in Seq(Positive) /\ b \in Seq(Nat) /\ Len(b) = Len(q)
      BY <1>1, <2>4 DEF Positive
    <3>2. \A n \in 1 .. Len(a) : a[n] = b[n]
      BY <2>1
    <3> HIDE DEF b
    <3>3. a = b
      BY <2>1, <3>1, <3>2, SeqEqual
    <3> QED
      BY <3>1, <3>3
  <2> QED
    BY <2>1, <2>5
<1>3. w \in Nat /\ 100 <= w /\ w <= 100 * Len(q)
  <2>1. w \in Nat
    BY <1>1
  <2>2. 100 <= w
    OBVIOUS
  <2>3. Len(q) * t <= Len(q) * 100
    BY <1>1
  <2> QED
    BY <1>1, <2>1, <2>2, <2>3
<1>4. Average(Trimmed(q, t)) = <<SumOf(kept), Len(kept)>>
  BY <1>2 DEF Average, Trimmed, TrimBy
<1> HIDE DEF a, w
<1>5. m \in Nat /\ 1 <= m /\ m <= Len(q)
  BY <1>1, <1>3
<1> HIDE DEF m
<1>6. kept \in Seq(Positive) /\ Len(kept) = m
  BY <1>1, <1>2, <1>5
<1> HIDE DEF kept
<1>7. SumOf(kept) \in Nat /\ SumOf(kept) >= m
  BY <1>6, SumOfPositive
<1> QED
  BY <1>4, <1>5, <1>6, <1>7 DEF Positive

\* If they make less than one, nothing is kept: the average is 0/0.
LEMMA AverageOfNothing ==
  ASSUME NEW q \in Seq(Positive), NEW t \in 0 .. 100, Len(q) * t < 100
  PROVE  Average(Trimmed(q, t))[1] = 0 /\ Average(Trimmed(q, t))[2] = 0
<1> DEFINE a == InAscendingOrder(q)
           w == Len(q) * t
<1>1. w \in Nat /\ w < 100 /\ Len(q) \in Nat /\ t \in Nat /\ q \in Seq(Nat)
  BY PositiveAreNumbers
<1>2. a \in Seq(Nat) /\ Len(a) = Len(q)
  BY <1>1, AscendingElements
<1>3. Trimmed(q, t) = SubSeq(a, 1, w \div 100)
  BY <1>2 DEF Trimmed, TrimBy
<1> HIDE DEF a, w
<1>4. w \div 100 = 0
  BY <1>1
<1>5. SubSeq(a, 1, 0) = << >>
  BY <1>2
<1> DEFINE none == << >>
<1>6. Trimmed(q, t) = none /\ SumOf(none) = 0 /\ Len(none) = 0
  BY <1>3, <1>4, <1>5, SumOfEmpty
<1> HIDE DEF none
<1>7. Average(none) = <<0, 0>>
  BY <1>6 DEF Average
<1> QED
  BY <1>6, <1>7

\* From two positive fractions comes a number.
LEMMA PerMinuteIsANumber ==
  ASSUME NEW a, NEW b, a[1] \in Positive, a[2] \in Positive, b[1] \in Positive, b[2] \in Positive
  PROVE  PerMinute(a, b)[2] > 0
<1>1. \A x, y \in Positive : x * y \in Positive
  BY DEF Positive
<1>2. a[1] * b[2] \in Positive /\ b[1] * a[2] \in Positive
  BY <1>1
<1>3. a[1] * b[2] + b[1] * a[2] > 0
  BY <1>2 DEF Positive
<1> QED
  BY <1>3 DEF PerMinute

\* From 0/0 and anything comes none.
LEMMA PerMinuteOfNothing ==
  ASSUME NEW a, NEW b, a[1] = 0, a[2] = 0, b[1] \in Nat, b[2] \in Nat
  PROVE  PerMinute(a, b)[2] = 0
<1>1. \A x, y \in Nat : 0 * x + y * 0 = 0
  OBVIOUS
<1> QED
  BY <1>1 DEF PerMinute

\* The RPM of the percentiles of two series, with three times as many foreign
\* round trips as self probes, is a number exactly if there is any.
LEMMA PercentileRpm ==
  ASSUME NEW q \in Seq(Positive), NEW r \in Seq(Positive), Len(r) = 3 * Len(q),
         NEW p \in 1 .. 99
  PROVE  PerMinute(<<CalculatePercentile(q, p), 1>>, <<CalculatePercentile(r, p), 1>>)[2] > 0
           <=> Len(q) > 0
<1> DEFINE x == CalculatePercentile(q, p)
           y == CalculatePercentile(r, p)
<1>1. CASE Len(q) > 0
  <2>1. q # << >> /\ r # << >>
    BY <1>1
  <2>2. x \in Positive /\ y \in Positive
    BY <2>1, PercentileIsPositive
  <2> HIDE DEF x, y
  <2>3. /\ <<x, 1>>[1] \in Positive /\ <<x, 1>>[2] \in Positive
        /\ <<y, 1>>[1] \in Positive /\ <<y, 1>>[2] \in Positive
    BY <2>2 DEF Positive
  <2>4. PerMinute(<<x, 1>>, <<y, 1>>)[2] > 0
    BY <2>3, PerMinuteIsANumber
  <2> QED
    BY <1>1, <2>4 DEF x, y
<1>2. CASE ~(Len(q) > 0)
  <2>1. Len(q) = 0 /\ Len(r) = 0
    BY <1>2
  <2>2. p * 0 = 0 /\ 0 \div 100 = 0
    OBVIOUS
  <2>3. x = 0 /\ y = 0
    BY <2>1, <2>2 DEF CalculatePercentile
  <2> HIDE DEF x, y
  <2>4. PerMinute(<<0, 1>>, <<0, 1>>)[2] = 0
    BY DEF PerMinute
  <2> QED
    BY <1>2, <2>3, <2>4 DEF x, y
<1> QED
  BY <1>1, <1>2

\* The RPM of their trimmed means is a number exactly if one of the self probes'
\* times is kept: then so are three of the round trips.
LEMMA MeanRpm ==
  ASSUME NEW q \in Seq(Positive), NEW r \in Seq(Positive), Len(r) = 3 * Len(q),
         NEW t \in 0 .. 100
  PROVE  PerMinute(Average(Trimmed(q, t)), Average(Trimmed(r, t)))[2] > 0
           <=> Len(q) * t >= 100
<1> DEFINE a == Average(Trimmed(q, t))
           b == Average(Trimmed(r, t))
<1>1. Len(q) * t \in Nat /\ Len(r) * t \in Nat /\ Len(r) * t = 3 * (Len(q) * t)
  OBVIOUS
<1>2. CASE Len(q) * t >= 100
  <2>1. Len(r) * t >= 100
    BY <1>1, <1>2
  <2>2. /\ a[1] \in Positive /\ a[2] \in Positive
        /\ b[1] \in Positive /\ b[2] \in Positive
    BY <1>2, <2>1, AverageIsPositive
  <2> HIDE DEF a, b
  <2>3. PerMinute(a, b)[2] > 0
    BY <2>2, PerMinuteIsANumber
  <2> QED
    BY <1>2, <2>3 DEF a, b
<1>3. CASE ~(Len(q) * t >= 100)
  <2>0. Len(q) * t < 100
    BY <1>1, <1>3
  <2>1. a[1] = 0 /\ a[2] = 0
    BY <2>0, AverageOfNothing
  <2>2. b[1] \in Nat /\ b[2] \in Nat
    <3>1. CASE Len(r) * t >= 100
      <4>1. b[1] \in Positive /\ b[2] \in Positive
        BY <3>1, AverageIsPositive
      <4> QED
        BY <4>1 DEF Positive
    <3>2. CASE Len(r) * t < 100
      <4>1. b[1] = 0 /\ b[2] = 0
        BY <3>2, AverageOfNothing
      <4> QED
        BY <4>1
    <3> QED
      BY <1>1, <3>1, <3>2
  <2> HIDE DEF a, b
  <2>3. PerMinute(a, b)[2] = 0
    BY <2>1, <2>2, PerMinuteOfNothing
  <2> QED
    BY <1>3, <2>3 DEF a, b
<1> QED
  BY <1>2, <1>3

\* In every reachable state, whatever the flags and the times are: the RPM of the
\* percentiles is a number exactly if a probe was answered, that of the trimmed
\* means exactly if the percentage that is kept of the n self probes' times makes
\* one of them, n * t >= 100.  So with the default of 5 it takes 20 answers.
THEOREM RpmIsANumberIffKept == Spec => []WhenRpmIsANumber
<1>1. ASSUME IInv PROVE WhenRpmIsANumber
  <2> DEFINE self == ActualValues(selfRtts.data)
             foreign == RoundTrips(ActualValues(foreignRtts.data))
  <2>1. self \in Seq(Positive) /\ foreign \in Seq(Positive) /\ Len(foreign) = 3 * Len(self)
    BY <1>1, TimesArePositive
  <2> SUFFICES ASSUME NEW p \in Percentiles, NEW t \in Trims
               PROVE  /\ CalculateRpm(t, p).pnRpm[2] > 0 <=> Len(self) > 0
                      /\ CalculateRpm(t, p).meanRpm[2] > 0 <=> Len(self) * t >= 100
    BY DEF WhenRpmIsANumber
  <2>2. /\ CalculateRpm(t, p).pnRpm =
             PerMinute(<<CalculatePercentile(self, p), 1>>, <<CalculatePercentile(foreign, p), 1>>)
        /\ CalculateRpm(t, p).meanRpm =
             PerMinute(Average(Trimmed(self, t)), Average(Trimmed(foreign, t)))
    BY DEF CalculateRpm
  <2> HIDE DEF self, foreign
  <2>3. p \in 1 .. 99 /\ t \in 0 .. 100
    BY ParametersAssumption
  <2>4. PerMinute(<<CalculatePercentile(self, p), 1>>, <<CalculatePercentile(foreign, p), 1>>)[2] > 0
          <=> Len(self) > 0
    BY <2>1, <2>3, PercentileRpm
  <2>5. PerMinute(Average(Trimmed(self, t)), Average(Trimmed(foreign, t)))[2] > 0
          <=> Len(self) * t >= 100
    BY <2>1, <2>3, MeanRpm
  <2> QED
    BY <2>2, <2>4, <2>5
<1> QED
  BY <1>1, SeriesGrowTogether, PTL

-----------------------------------------------------------------------------
(* The quality of a sequence of samples: sums, extremes and counts.        *)

SquaresIn(q) == [i \in DOMAIN q |-> q[i] * q[i]]

\* The squared distances of the elements, times a, from t.
DistancesIn(q, a, t) == [i \in DOMAIN q |-> (a * q[i] - t) * (a * q[i] - t)]

\* The square of a further element comes after the others.
LEMMA SquaresOfAppend ==
  ASSUME NEW q \in Seq(Nat), NEW x \in Nat
  PROVE  /\ SquaresIn(q) \in Seq(Nat)
         /\ SquaresIn(Append(q, x)) = Append(SquaresIn(q), x * x)
<1>1. Len(q) \in Nat /\ DOMAIN q = 1 .. Len(q) /\ \A i \in 1 .. Len(q) : q[i] \in Nat
  OBVIOUS
<1>2. \A y \in Nat : y * y \in Nat
  OBVIOUS
<1>3. SquaresIn(q) = [i \in 1 .. Len(q) |-> q[i] * q[i]]
  BY <1>1 DEF SquaresIn
<1>4. SquaresIn(q) \in Seq(Nat) /\ Len(SquaresIn(q)) = Len(q)
  BY <1>1, <1>2, <1>3
<1> DEFINE r == Append(q, x)
<1>5. /\ DOMAIN r = 1 .. Len(q) + 1 /\ r[Len(q) + 1] = x
      /\ \A i \in 1 .. Len(q) : r[i] = q[i]
  BY <1>1
<1> HIDE DEF r
<1>6. SquaresIn(r) = [i \in 1 .. Len(q) + 1 |-> r[i] * r[i]]
  BY <1>5 DEF SquaresIn
<1>7. Append(SquaresIn(q), x * x) =
        [i \in 1 .. Len(q) + 1 |-> IF i = Len(q) + 1 THEN x * x ELSE SquaresIn(q)[i]]
  BY <1>1, <1>2, <1>4
<1>8. \A i \in 1 .. Len(q) + 1 :
        r[i] * r[i] = IF i = Len(q) + 1 THEN x * x ELSE SquaresIn(q)[i]
  BY <1>1, <1>3, <1>5
<1> QED
  BY <1>4, <1>6, <1>7, <1>8 DEF r

\* So does its distance.
LEMMA DistancesOfAppend ==
  ASSUME NEW q \in Seq(Nat), NEW x \in Nat, NEW a \in Int, NEW t \in Int
  PROVE  /\ DistancesIn(q, a, t) \in Seq(Int)
         /\ DistancesIn(Append(q, x), a, t) =
              Append(DistancesIn(q, a, t), (a * x - t) * (a * x - t))
<1> DEFINE d(y) == (a * y - t) * (a * y - t)
           e == DistancesIn(q, a, t)
           r == Append(q, x)
<1>1. Len(q) \in Nat /\ DOMAIN q = 1 .. Len(q) /\ \A i \in 1 .. Len(q) : q[i] \in Nat
  OBVIOUS
<1>2. \A y \in Nat : d(y) \in Int
  OBVIOUS
<1>3. e = [i \in 1 .. Len(q) |-> d(q[i])] /\ DistancesIn(r, a, t) = [i \in DOMAIN r |-> d(r[i])]
  BY <1>1 DEF DistancesIn
<1> HIDE DEF d, e
<1>4. e \in Seq(Int) /\ Len(e) = Len(q) /\ \A i \in 1 .. Len(q) : e[i] = d(q[i])
  BY <1>1, <1>2, <1>3
<1>5. /\ DOMAIN r = 1 .. Len(q) + 1 /\ r[Len(q) + 1] = x
      /\ \A i \in 1 .. Len(q) : r[i] = q[i]
  BY <1>1
<1> HIDE DEF r
<1> DEFINE y == d(x)
           f == DistancesIn(r, a, t)
           g == Append(e, y)
<1>6. y \in Int
  BY <1>2
<1>7. f \in Seq(Int) /\ Len(f) = Len(q) + 1 /\ \A i \in 1 .. Len(q) + 1 : f[i] = d(r[i])
  <2>1. \A i \in 1 .. Len(q) + 1 : r[i] \in Nat
    BY <1>1, <1>5
  <2>2. f = [i \in 1 .. Len(q) + 1 |-> d(r[i])]
    BY <1>3, <1>5
  <2>3. \A i \in 1 .. Len(q) + 1 : d(r[i]) \in Int
    BY <1>2, <2>1
  <2> HIDE DEF f
  <2> QED
    BY <1>1, <2>2, <2>3
<1> HIDE DEF y, f
<1>8. /\ g \in Seq(Int) /\ Len(g) = Len(q) + 1 /\ g[Len(q) + 1] = y
      /\ \A i \in 1 .. Len(q) : g[i] = e[i]
  BY <1>4, <1>6, AppendProperties
<1> HIDE DEF g
<1>9. \A i \in 1 .. Len(q) + 1 : f[i] = g[i]
  <2>1. \A i \in 1 .. Len(q) + 1 : i \in 1 .. Len(q) \/ i = Len(q) + 1
    BY <1>1
  <2> QED
    BY <1>4, <1>5, <1>7, <1>8, <2>1 DEF y
<1>10. f = g
  BY <1>7, <1>8, <1>9, SeqEqual
<1> QED
  BY <1>4, <1>10 DEF d, e, f, g, r, y

\* Sums of natural numbers and of their squares are natural numbers, and the sum
\* of the squared distances can be had from the two of them.
LEMMA SumOfDistances ==
  ASSUME NEW q \in Seq(Nat), NEW a \in Int, NEW t \in Int
  PROVE  /\ SumOf(q) \in Nat /\ SumOf(SquaresIn(q)) \in Nat
         /\ SumOf(DistancesIn(q, a, t)) =
              a * a * SumOf(SquaresIn(q)) - 2 * (a * t) * SumOf(q) + Len(q) * (t * t)
<1> DEFINE P(r) == /\ SumOf(r) \in Nat /\ SumOf(SquaresIn(r)) \in Nat
                   /\ SumOf(DistancesIn(r, a, t)) =
                        a * a * SumOf(SquaresIn(r)) - 2 * (a * t) * SumOf(r) + Len(r) * (t * t)
           T == {r \in Seq(Nat) : P(r)}
<1>1. << >> \in T
  <2>1. SquaresIn(<< >>) = << >> /\ DistancesIn(<< >>, a, t) = << >>
    BY DEF SquaresIn, DistancesIn
  <2>2. SumOf(<< >>) = 0 /\ Len(<< >>) = 0 /\ << >> \in Seq(Nat)
    BY SumOfEmpty
  <2>3. 0 = a * a * 0 - 2 * (a * t) * 0 + 0 * (t * t)
    OBVIOUS
  <2> DEFINE none == << >>
  <2>4. /\ SumOf(none) = 0 /\ SumOf(SquaresIn(none)) = 0 /\ Len(none) = 0
        /\ SumOf(DistancesIn(none, a, t)) = 0
    BY <2>1, <2>2
  <2>5. P(none)
    <3> HIDE DEF none
    <3> QED
      BY <2>3, <2>4
  <2> QED
    BY <2>2, <2>5
<1>2. ASSUME NEW r \in Seq(Nat), NEW x \in Nat, r \in T PROVE Append(r, x) \in T
  <2> DEFINE s1 == SumOf(r)
             s2 == SumOf(SquaresIn(r))
             d == (a * x - t) * (a * x - t)
  <2>1. SumOf(Append(r, x)) = s1 + x
    BY SumOfAppend
  <2>2. SumOf(SquaresIn(Append(r, x))) = s2 + x * x
    <3>1. x * x \in Nat
      OBVIOUS
    <3> QED
      BY <3>1, SquaresOfAppend, SumOfAppend
  <2>3. SumOf(DistancesIn(Append(r, x), a, t)) = SumOf(DistancesIn(r, a, t)) + d
    <3>1. d \in Int
      OBVIOUS
    <3>2. DistancesIn(r, a, t) \in Seq(Int)
          /\ DistancesIn(Append(r, x), a, t) = Append(DistancesIn(r, a, t), d)
      BY DistancesOfAppend
    <3> HIDE DEF d
    <3> QED
      BY <3>1, <3>2, SumOfAppend
  <2>4. Append(r, x) \in Seq(Nat) /\ Len(Append(r, x)) = Len(r) + 1 /\ Len(r) \in Nat
    OBVIOUS
  <2>5. /\ s1 \in Nat /\ s2 \in Nat /\ s1 + x \in Nat /\ s2 + x * x \in Nat
        /\ SumOf(DistancesIn(r, a, t)) = a * a * s2 - 2 * (a * t) * s1 + Len(r) * (t * t)
    <3>1. P(r)
      BY <1>2
    <3>2. /\ s1 \in Nat /\ s2 \in Nat
          /\ SumOf(DistancesIn(r, a, t)) = a * a * s2 - 2 * (a * t) * s1 + Len(r) * (t * t)
      BY <3>1
    <3>3. s1 + x \in Nat /\ s2 + x * x \in Nat
      <4> HIDE DEF s1, s2
      <4> QED
        BY <3>2
    <3> QED
      BY <3>2, <3>3
  <2> HIDE DEF s1, s2
  <2>6. (a * a * s2 - 2 * (a * t) * s1 + Len(r) * (t * t)) + d =
          a * a * (s2 + x * x) - 2 * (a * t) * (s1 + x) + (Len(r) + 1) * (t * t)
    BY <2>4, <2>5
  <2>7. P(Append(r, x))
    BY <2>1, <2>2, <2>3, <2>4, <2>5, <2>6
  <2> QED
    BY <2>4, <2>7
<1> HIDE DEF T
<1>3. q \in T
  BY <1>1, <1>2, Growing
<1> QED
  BY <1>3 DEF T

\* x is the least, or the greatest, element of lat.
IsLeast(x, lat) == (\E i \in DOMAIN lat : lat[i] = x) /\ \A i \in DOMAIN lat : x <= lat[i]

IsGreatest(x, lat) == (\E i \in DOMAIN lat : lat[i] = x) /\ \A i \in DOMAIN lat : x >= lat[i]

Summaries == [offsetSum : Nat, offsetSumOfSquares : Nat, numberOfSamples : Nat,
              numberOfLosses : Nat, minimumLatency : Nat, maximumLatency : Nat]

\* Q is the summary of n samples of which lat are latencies.  The sums are kept
\* relative to an offset of 1, the extremes are 0 as long as there is no latency.
Summed(Q, n, lat) ==
  /\ Q \in Summaries
  /\ Q.numberOfSamples = n /\ Q.numberOfLosses + Len(lat) = n
  /\ Q.offsetSum + Len(lat) = SumOf(lat)
  /\ Q.offsetSumOfSquares + 2 * SumOf(lat) = SumOf(SquaresIn(lat)) + Len(lat)
  /\ lat = << >> => Q.minimumLatency = 0 /\ Q.maximumLatency = 0
  /\ lat # << >> => /\ IsLeast(Q.minimumLatency, lat)
                    /\ IsGreatest(Q.maximumLatency, lat)

\* R is the summary with these six fields.
HasFields(R, o, oo, n, m, min, max) ==
  /\ R \in Summaries
  /\ R.offsetSum = o /\ R.offsetSumOfSquares = oo
  /\ R.numberOfSamples = n /\ R.numberOfLosses = m
  /\ R.minimumLatency = min /\ R.maximumLatency = max

\* The fields of a summary after a sample.
LEMMA FieldsOfSample ==
  ASSUME NEW Q \in Summaries, NEW x \in Positive
  PROVE  /\ ~Latency(x) =>
              HasFields(AddSample(Q, x), Q.offsetSum, Q.offsetSumOfSquares,
                        Q.numberOfSamples + 1, Q.numberOfLosses + 1,
                        Q.minimumLatency, Q.maximumLatency)
         /\ Latency(x) =>
              HasFields(AddSample(Q, x),
                        Q.offsetSum + (x - 1), Q.offsetSumOfSquares + (x - 1) * (x - 1),
                        Q.numberOfSamples + 1, Q.numberOfLosses,
                        IF Q.minimumLatency = 0 \/ x < Q.minimumLatency
                          THEN x ELSE Q.minimumLatency,
                        IF Q.maximumLatency = 0 \/ x > Q.maximumLatency
                          THEN x ELSE Q.maximumLatency)
<1>1. x \in Nat /\ x >= 1 /\ ~(x <= 0) /\ (x > LatencyEqLossThreshold <=> ~Latency(x))
  BY DEF Positive, Latency, LatencyEqLossThreshold
<1> DEFINE Record(o, oo, n, m, min, max) ==
             [offsetSum |-> o, offsetSumOfSquares |-> oo, numberOfSamples |-> n,
              numberOfLosses |-> m, minimumLatency |-> min, maximumLatency |-> max]
<1>2. /\ Q.offsetSum \in Nat /\ Q.offsetSumOfSquares \in Nat
      /\ Q.numberOfSamples \in Nat /\ Q.numberOfLosses \in Nat
      /\ Q.minimumLatency \in Nat /\ Q.maximumLatency \in Nat
      /\ Q = Record(Q.offsetSum, Q.offsetSumOfSquares, Q.numberOfSamples,
                    Q.numberOfLosses, Q.minimumLatency, Q.maximumLatency)
  BY DEF Summaries
<1>3. ASSUME NEW o \in Nat, NEW oo \in Nat, NEW n \in Nat, NEW m \in Nat,
             NEW min \in Nat, NEW max \in Nat
      PROVE  HasFields(Record(o, oo, n, m, min, max), o, oo, n, m, min, max)
  BY DEF HasFields, Summaries
<1>4. CASE ~Latency(x)
  <2>1. AddSample(Q, x) = Record(Q.offsetSum, Q.offsetSumOfSquares, Q.numberOfSamples + 1,
                                 Q.numberOfLosses + 1, Q.minimumLatency, Q.maximumLatency)
    BY <1>1, <1>2, <1>4 DEF AddSample
  <2> DEFINE n == Q.numberOfSamples + 1
             m == Q.numberOfLosses + 1
  <2>2. n \in Nat /\ m \in Nat
    BY <1>2
  <2> HIDE DEF n, m, Record
  <2>3. HasFields(Record(Q.offsetSum, Q.offsetSumOfSquares, n, m,
                         Q.minimumLatency, Q.maximumLatency),
                  Q.offsetSum, Q.offsetSumOfSquares, n, m, Q.minimumLatency, Q.maximumLatency)
    BY <1>2, <1>3, <2>2
  <2> QED
    BY <1>4, <2>1, <2>3 DEF n, m
<1>5. CASE Latency(x)
  <2> DEFINE d == x - 1
             e == (x - 1) * (x - 1)
             min == IF Q.minimumLatency = 0 \/ x < Q.minimumLatency THEN x ELSE Q.minimumLatency
             max == IF Q.maximumLatency = 0 \/ x > Q.maximumLatency THEN x ELSE Q.maximumLatency
  <2>1. AddSample(Q, x) = Record(Q.offsetSum + d, Q.offsetSumOfSquares + e,
                                 Q.numberOfSamples + 1, Q.numberOfLosses, min, max)
    BY <1>1, <1>2, <1>5 DEF AddSample, Offset
  <2>2. d \in Nat /\ e \in Nat
    BY <1>1
  <2>3. min \in Nat /\ max \in Nat
    BY <1>1, <1>2
  <2> HIDE DEF d, e, min, max, Record
  <2> DEFINE o == Q.offsetSum + d
             oo == Q.offsetSumOfSquares + e
             n == Q.numberOfSamples + 1
  <2>4. o \in Nat /\ oo \in Nat /\ n \in Nat
    BY <1>2, <2>2
  <2> HIDE DEF o, oo, n
  <2>5. HasFields(Record(o, oo, n, Q.numberOfLosses, min, max),
                  o, oo, n, Q.numberOfLosses, min, max)
    BY <1>2, <1>3, <2>3, <2>4
  <2> QED
    BY <1>5, <2>1, <2>5 DEF d, e, min, max, o, oo, n
<1> QED
  BY <1>4, <1>5

\* A lost sample is counted.
LEMMA LossIsCounted ==
  ASSUME NEW Q, NEW n \in Nat, NEW lat \in Seq(Positive), Summed(Q, n, lat),
         NEW x \in Positive, ~Latency(x)
  PROVE  Summed(AddSample(Q, x), n + 1, lat)
<1> DEFINE R == AddSample(Q, x)
<1>1. /\ Q \in Summaries /\ Q.numberOfSamples \in Nat /\ Q.numberOfLosses \in Nat
  BY DEF Summed, Summaries
<1>2. HasFields(R, Q.offsetSum, Q.offsetSumOfSquares, Q.numberOfSamples + 1,
                Q.numberOfLosses + 1, Q.minimumLatency, Q.maximumLatency)
  BY <1>1, FieldsOfSample
<1>3. Len(lat) \in Nat
  OBVIOUS
<1> HIDE DEF R
<1>4. R.numberOfSamples = n + 1 /\ R.numberOfLosses + Len(lat) = n + 1
  BY <1>1, <1>2, <1>3 DEF Summed, HasFields
<1>5. Summed(R, n + 1, lat)
  BY <1>2, <1>4 DEF Summed, HasFields
<1> QED
  BY <1>5 DEF R

\* Of one element more, the extremes are the old ones or the element.
LEMMA ExtremesOfAppend ==
  ASSUME NEW lat \in Seq(Positive), NEW x \in Positive, NEW min \in Nat, NEW max \in Nat,
         lat = << >> => min = 0 /\ max = 0,
         lat # << >> => IsLeast(min, lat) /\ IsGreatest(max, lat)
  PROVE  /\ IsLeast(IF min = 0 \/ x < min THEN x ELSE min, Append(lat, x))
         /\ IsGreatest(IF max = 0 \/ x > max THEN x ELSE max, Append(lat, x))
<1> DEFINE k == Len(lat)
           r == Append(lat, x)
<1>1. /\ k \in Nat /\ DOMAIN lat = 1 .. k /\ DOMAIN r = 1 .. k + 1 /\ r[k + 1] = x
      /\ \A i \in 1 .. k : r[i] = lat[i] /\ lat[i] \in Nat /\ lat[i] > 0
      /\ x \in Nat /\ x > 0
  BY DEF Positive
<1>2. CASE lat = << >>
  <2>1. k = 0 /\ min = 0 /\ max = 0
    BY <1>2
  <2> HIDE DEF k, r
  <2> QED
    BY <1>1, <2>1 DEF IsLeast, IsGreatest
<1>3. CASE lat # << >>
  <2>1. IsLeast(min, lat) /\ IsGreatest(max, lat)
    BY <1>3
  <2> HIDE DEF k, r
  <2>2. min > 0 /\ max > 0
    BY <1>1, <2>1 DEF IsLeast, IsGreatest
  <2>3. \A i \in 1 .. k + 1 : i \in 1 .. k \/ i = k + 1
    BY <1>1
  <2>4. k + 1 \in 1 .. k + 1 /\ \A i \in 1 .. k : i \in 1 .. k + 1
    BY <1>1
  <2>5. IsLeast(IF x < min THEN x ELSE min, r)
    <3> DEFINE least == IF x < min THEN x ELSE min
    <3>1. least <= x /\ least <= min /\ least \in Nat /\ (least = x \/ least = min)
      BY <1>1
    <3> HIDE DEF least
    <3>2. PICK j \in 1 .. k : lat[j] = min
      BY <1>1, <2>1 DEF IsLeast
    <3>3. r[j] = min /\ j \in DOMAIN r /\ k + 1 \in DOMAIN r
      BY <1>1, <2>4, <3>2
    <3>4. \E i \in DOMAIN r : r[i] = least
      BY <1>1, <3>1, <3>3
    <3>5. ASSUME NEW i \in DOMAIN r PROVE least <= r[i]
      <4>1. CASE i = k + 1
        BY <1>1, <3>1, <4>1
      <4>2. CASE i \in 1 .. k
        <5>1. min <= lat[i] /\ r[i] = lat[i] /\ lat[i] \in Nat
          BY <1>1, <2>1, <4>2 DEF IsLeast
        <5> QED
          BY <3>1, <5>1
      <4> QED
        BY <1>1, <2>3, <4>1, <4>2
    <3>6. IsLeast(least, r)
      BY <3>4, <3>5 DEF IsLeast
    <3> QED
      BY <3>6 DEF least
  <2>6. IsGreatest(IF x > max THEN x ELSE max, r)
    <3> DEFINE greatest == IF x > max THEN x ELSE max
    <3>1. greatest >= x /\ greatest >= max /\ greatest \in Nat /\ (greatest = x \/ greatest = max)
      BY <1>1
    <3> HIDE DEF greatest
    <3>2. PICK j \in 1 .. k : lat[j] = max
      BY <1>1, <2>1 DEF IsGreatest
    <3>3. r[j] = max /\ j \in DOMAIN r /\ k + 1 \in DOMAIN r
      BY <1>1, <2>4, <3>2
    <3>4. \E i \in DOMAIN r : r[i] = greatest
      BY <1>1, <3>1, <3>3
    <3>5. ASSUME NEW i \in DOMAIN r PROVE greatest >= r[i]
      <4>1. CASE i = k + 1
        BY <1>1, <3>1, <4>1
      <4>2. CASE i \in 1 .. k
        <5>1. max >= lat[i] /\ r[i] = lat[i] /\ lat[i] \in Nat
          BY <1>1, <2>1, <4>2 DEF IsGreatest
        <5> QED
          BY <3>1, <5>1
      <4> QED
        BY <1>1, <2>3, <4>1, <4>2
    <3>6. IsGreatest(greatest, r)
      BY <3>4, <3>5 DEF IsGreatest
    <3> QED
      BY <3>6 DEF greatest
  <2> QED
    BY <2>2, <2>5, <2>6 DEF r
<1> QED
  BY <1>2, <1>3

\* A latency enters the sums and the extremes.
LEMMA LatencyIsSummed ==
  ASSUME NEW Q, NEW n \in Nat, NEW lat \in Seq(Positive), Summed(Q, n, lat),
         NEW x \in Positive, Latency(x)
  PROVE  Summed(AddSample(Q, x), n + 1, Append(lat, x))
<1> DEFINE r == Append(lat, x)
           R == AddSample(Q, x)
           min == IF Q.minimumLatency = 0 \/ x < Q.minimumLatency THEN x ELSE Q.minimumLatency
           max == IF Q.maximumLatency = 0 \/ x > Q.maximumLatency THEN x ELSE Q.maximumLatency
<1>1. x \in Nat /\ x >= 1
  BY DEF Positive
<1>2. /\ Q \in Summaries
      /\ Q.offsetSum \in Nat /\ Q.offsetSumOfSquares \in Nat /\ Q.numberOfLosses \in Nat
      /\ Q.minimumLatency \in Nat /\ Q.maximumLatency \in Nat
  BY DEF Summed, Summaries
<1>3. HasFields(R, Q.offsetSum + (x - 1), Q.offsetSumOfSquares + (x - 1) * (x - 1),
                Q.numberOfSamples + 1, Q.numberOfLosses, min, max)
  BY <1>2, FieldsOfSample
<1>4. min \in Nat /\ max \in Nat
  BY <1>1, <1>2
<1>5. IsLeast(min, r) /\ IsGreatest(max, r)
  BY <1>2, ExtremesOfAppend DEF Summed
<1> HIDE DEF R, min, max
<1>6. /\ R \in Summaries
      /\ R.numberOfSamples = Q.numberOfSamples + 1
      /\ R.numberOfLosses = Q.numberOfLosses
      /\ R.minimumLatency = min /\ R.maximumLatency = max
      /\ R.offsetSum = Q.offsetSum + (x - 1)
      /\ R.offsetSumOfSquares = Q.offsetSumOfSquares + (x - 1) * (x - 1)
  BY <1>3 DEF HasFields
<1>7. /\ lat \in Seq(Nat) /\ Len(lat) \in Nat /\ Len(r) = Len(lat) + 1 /\ r # << >>
  BY PositiveAreNumbers
<1>8. SumOf(lat) \in Nat /\ SumOf(SquaresIn(lat)) \in Nat
  BY <1>7, SumOfDistances
<1>9. SumOf(r) = SumOf(lat) + x /\ SumOf(SquaresIn(r)) = SumOf(SquaresIn(lat)) + x * x
  <2>1. x * x \in Nat
    BY <1>1
  <2> QED
    BY <1>1, <1>7, <2>1, SumOfAppend, SquaresOfAppend
<1>10. /\ Q.numberOfSamples = n /\ Q.numberOfLosses + Len(lat) = n
       /\ Q.offsetSum + Len(lat) = SumOf(lat)
       /\ Q.offsetSumOfSquares + 2 * SumOf(lat) = SumOf(SquaresIn(lat)) + Len(lat)
       /\ Q.numberOfLosses \in Nat /\ Q.offsetSum \in Nat /\ Q.offsetSumOfSquares \in Nat
  BY <1>2 DEF Summed
<1>11. /\ R.numberOfSamples = n + 1 /\ R.numberOfLosses + Len(r) = n + 1
       /\ R.offsetSum + Len(r) = SumOf(r)
  <2> DEFINE m == Q.numberOfLosses
             o == Q.offsetSum
             k == Len(lat)
             s1 == SumOf(lat)
  <2>1. /\ m \in Nat /\ o \in Nat /\ k \in Nat /\ s1 \in Nat
        /\ m + k = n /\ o + k = s1
    BY <1>7, <1>8, <1>10
  <2>2. /\ R.numberOfSamples = n + 1 /\ R.numberOfLosses = m /\ Len(r) = k + 1
        /\ R.offsetSum = o + (x - 1) /\ SumOf(r) = s1 + x
    BY <1>6, <1>7, <1>9, <1>10
  <2> HIDE DEF m, o, k, s1
  <2>3. m + (k + 1) = n + 1 /\ o + (x - 1) + (k + 1) = s1 + x
    BY <1>1, <2>1
  <2> QED
    BY <2>2, <2>3
<1>12. R.offsetSumOfSquares + 2 * SumOf(r) = SumOf(SquaresIn(r)) + Len(r)
  <2> DEFINE o == Q.offsetSumOfSquares
             s1 == SumOf(lat)
             s2 == SumOf(SquaresIn(lat))
             k == Len(lat)
  <2>1. /\ o \in Int /\ s1 \in Int /\ s2 \in Int /\ k \in Int /\ x \in Int
        /\ o + 2 * s1 = s2 + k
    BY <1>1, <1>7, <1>8, <1>10
  <2>2. /\ R.offsetSumOfSquares = o + (x - 1) * (x - 1)
        /\ SumOf(r) = s1 + x /\ SumOf(SquaresIn(r)) = s2 + x * x /\ Len(r) = k + 1
    BY <1>6, <1>7, <1>9
  <2> HIDE DEF o, s1, s2, k
  <2>3. o + (x - 1) * (x - 1) + 2 * (s1 + x) = s2 + x * x + (k + 1)
    BY <2>1
  <2> QED
    BY <2>2, <2>3
<1> HIDE DEF r
<1>13. Summed(R, n + 1, r)
  BY <1>5, <1>6, <1>7, <1>11, <1>12 DEF Summed
<1> QED
  BY <1>13 DEF R, r

\* The quality of samples is summed from their latencies.
LEMMA QualityIsSummed ==
  ASSUME NEW q \in Seq(Positive)
  PROVE  LatenciesIn(q) \in Seq(Positive) /\ Summed(QualityOf(q), Len(q), LatenciesIn(q))
<1> DEFINE T == {r \in Seq(Positive) : Summed(QualityOf(r), Len(r), LatenciesIn(r))}
<1>0. Positive \in SUBSET Nat
  BY DEF Positive
<1>1. << >> \in T
  <2>1. LatenciesIn(<< >>) = << >>
    <3>1. {i \in DOMAIN << >> : Latency(<< >>[i])} = {}
      OBVIOUS
    <3>2. Cardinality({}) = 0
      BY FS_EmptySet
    <3> QED
      BY <3>1, <3>2 DEF LatenciesIn, ElementsAt
  <2>2. SquaresIn(<< >>) = << >>
    BY DEF SquaresIn
  <2>3. Summed(NewQuality, 0, << >>)
    <3>1. HasFields(NewQuality, 0, 0, 0, 0, 0, 0)
      BY DEF NewQuality, HasFields, Summaries
    <3>2. Len(<< >>) = 0 /\ SumOf(<< >>) = 0 /\ SumOf(SquaresIn(<< >>)) = 0
      BY <2>2, SumOfEmpty
    <3> DEFINE none == << >>
    <3>3. none = << >>
      OBVIOUS
    <3>4. Len(none) = 0 /\ SumOf(none) = 0 /\ SumOf(SquaresIn(none)) = 0
      BY <3>2
    <3> HIDE DEF none
    <3>5. Summed(NewQuality, 0, none)
      BY <3>1, <3>3, <3>4 DEF Summed, HasFields
    <3> QED
      BY <3>5 DEF none
  <2> QED
    BY <2>1, <2>3, QualityOfEmpty
<1>2. ASSUME NEW r \in Seq(Positive), NEW x \in Positive, r \in T PROVE Append(r, x) \in T
  <2>1. LatenciesIn(r) \in Seq(Positive)
    BY <1>0, LatenciesType
  <2>2. LatenciesIn(Append(r, x)) = IF Latency(x) THEN Append(LatenciesIn(r), x) ELSE LatenciesIn(r)
    BY <1>0, LatenciesOfAppend
  <2>3. QualityOf(Append(r, x)) = AddSample(QualityOf(r), x)
    BY QualityOfAppend
  <2>4. Append(r, x) \in Seq(Positive) /\ Len(Append(r, x)) = Len(r) + 1 /\ Len(r) \in Nat
    OBVIOUS
  <2>5. Summed(QualityOf(r), Len(r), LatenciesIn(r))
    BY <1>2
  <2>6. CASE Latency(x)
    <3>1. Summed(AddSample(QualityOf(r), x), Len(r) + 1, Append(LatenciesIn(r), x))
      BY <2>1, <2>4, <2>5, <2>6, LatencyIsSummed
    <3> QED
      BY <2>2, <2>3, <2>4, <2>6, <3>1
  <2>7. CASE ~Latency(x)
    <3>1. Summed(AddSample(QualityOf(r), x), Len(r) + 1, LatenciesIn(r))
      BY <2>1, <2>4, <2>5, <2>7, LossIsCounted
    <3> QED
      BY <2>2, <2>3, <2>4, <2>7, <3>1
  <2> QED
    BY <2>6, <2>7
<1> HIDE DEF T
<1>3. q \in T
  BY <1>1, <1>2, Growing
<1> QED
  BY <1>0, <1>3, LatenciesType DEF T

\* The least element comes first in ascending order, the greatest last.
LEMMA ExtremesOfOrder ==
  ASSUME NEW lat \in Seq(Nat), lat # << >>, NEW min \in Nat, IsLeast(min, lat),
         NEW max \in Nat, IsGreatest(max, lat)
  PROVE  min = InAscendingOrder(lat)[1] /\ max = InAscendingOrder(lat)[Len(lat)]
<1> DEFINE k == Len(lat)
           first == Place(lat, 1)
           last == Place(lat, k)
<1>1. /\ k \in Nat /\ k >= 1 /\ DOMAIN lat = 1 .. k
      /\ \A i \in DOMAIN lat : i \in Nat /\ lat[i] \in Nat
      /\ 1 \in DOMAIN lat /\ k \in DOMAIN lat
  OBVIOUS
<1>2. /\ \A n \in DOMAIN lat : Place(lat, n) \in DOMAIN lat /\ Rank(lat, Place(lat, n)) = n
      /\ \A i \in DOMAIN lat : Rank(lat, i) \in DOMAIN lat /\ Place(lat, Rank(lat, i)) = i
      /\ \A i, j \in DOMAIN lat : GoesBefore(lat, i, j) => Rank(lat, i) <= Rank(lat, j)
  BY ElementsArePlaced DEF Placed
<1>3. InAscendingOrder(lat)[1] = lat[first] /\ InAscendingOrder(lat)[k] = lat[last]
  BY <1>1, AscendingElements
<1>4. /\ first \in DOMAIN lat /\ Rank(lat, first) = 1
      /\ last \in DOMAIN lat /\ Rank(lat, last) = k
  BY <1>1, <1>2
<1> HIDE DEF first, last, k
<1>5. PICK i \in DOMAIN lat : lat[i] = min
  BY DEF IsLeast
<1>6. PICK j \in DOMAIN lat : lat[j] = max
  BY DEF IsGreatest
<1>7. min <= lat[first] /\ lat[last] <= max
  BY <1>4 DEF IsLeast, IsGreatest
<1>8. ~(min < lat[first])
  <2> SUFFICES ASSUME min < lat[first] PROVE FALSE
    OBVIOUS
  <2>1. GoesBefore(lat, i, first)
    BY <1>5 DEF GoesBefore
  <2>2. Rank(lat, i) <= 1 /\ Rank(lat, i) \in 1 .. k
    BY <1>1, <1>2, <1>4, <2>1
  <2>3. Rank(lat, i) = 1
    BY <1>1, <2>2
  <2>4. i = first
    BY <1>2, <1>4, <2>3
  <2> QED
    BY <1>1, <1>4, <1>5, <2>4
<1>9. ~(lat[last] < max)
  <2> SUFFICES ASSUME lat[last] < max PROVE FALSE
    OBVIOUS
  <2>1. GoesBefore(lat, last, j)
    BY <1>6 DEF GoesBefore
  <2>2. k <= Rank(lat, j) /\ Rank(lat, j) \in 1 .. k
    BY <1>1, <1>2, <1>4, <2>1
  <2>3. Rank(lat, j) = k
    BY <1>1, <2>2
  <2>4. j = last
    BY <1>2, <1>4, <2>3
  <2> QED
    BY <1>1, <1>4, <1>6, <2>4
<1>10. lat[first] \in Nat /\ lat[last] \in Nat
  BY <1>1, <1>4
<1> QED
  BY <1>3, <1>7, <1>8, <1>9, <1>10 DEF k

\* The samples that are no latencies are the others.
LEMMA LossesAre ==
  ASSUME NEW q \in Seq(Positive)
  PROVE  Cardinality({i \in DOMAIN q : ~Latency(q[i])}) = Len(q) - Len(LatenciesIn(q))
<1> DEFINE I == {i \in DOMAIN q : Latency(q[i])}
           J == {i \in DOMAIN q : ~Latency(q[i])}
<1>1. Len(LatenciesIn(q)) = Cardinality(I)
  <2>1. Positive \in SUBSET Nat
    BY DEF Positive
  <2> QED
    BY <2>1, LatenciesType
<1>2. IsFiniteSet(DOMAIN q) /\ Cardinality(DOMAIN q) = Len(q) /\ Len(q) \in Nat
  <2>1. Len(q) \in Nat /\ DOMAIN q = 1 .. Len(q) /\ 1 \in Int /\ Len(q) \in Int
    OBVIOUS
  <2>2. /\ IsFiniteSet(1 .. Len(q))
        /\ Cardinality(1 .. Len(q)) = IF 1 > Len(q) THEN 0 ELSE Len(q) - 1 + 1
    BY <2>1, FS_Interval
  <2> QED
    BY <2>1, <2>2
<1>3. I \in SUBSET DOMAIN q /\ J = DOMAIN q \ I /\ DOMAIN q \cap I = I
  OBVIOUS
<1> HIDE DEF I, J
<1>4. IsFiniteSet(I) /\ Cardinality(I) \in Nat
  BY <1>2, <1>3, FS_Subset, FS_CardinalityType
<1>5. Cardinality(DOMAIN q \ I) = Cardinality(DOMAIN q) - Cardinality(DOMAIN q \cap I)
  BY <1>2, FS_Difference
<1> QED
  BY <1>1, <1>2, <1>3, <1>5 DEF J

\* From the sums come average and variance.
LEMMA FractionsOfSums ==
  ASSUME NEW Q, NEW n \in Nat, NEW lat \in Seq(Nat), Summed(Q, n, lat)
  PROVE  SameFraction(GetAverage(Q), Average(lat)) /\ SameFraction(GetVariance(Q), Variance(lat))
<1> DEFINE k == Len(lat)
           s1 == SumOf(lat)
           s2 == SumOf(SquaresIn(lat))
           v == k * s2 - s1 * s1
           o == Q.offsetSum
           oo == Q.offsetSumOfSquares
<1>1. k \in Nat /\ s1 \in Nat /\ s2 \in Nat
      /\ SumOf(DistancesIn(lat, k, s1)) = k * k * s2 - 2 * (k * s1) * s1 + k * (s1 * s1)
  <2>1. k \in Nat
    OBVIOUS
  <2>2. s1 \in Nat /\ s2 \in Nat
    <3>1. 0 \in Int
      OBVIOUS
    <3> QED
      BY <3>1, SumOfDistances
  <2>3. k \in Int /\ s1 \in Int
    BY <2>1, <2>2
  <2> HIDE DEF s1
  <2>4. SumOf(DistancesIn(lat, k, s1)) = k * k * s2 - 2 * (k * s1) * SumOf(lat) + k * (s1 * s1)
    BY <2>3, SumOfDistances
  <2> QED
    BY <2>1, <2>2, <2>4 DEF s1
<1>2. /\ o \in Nat /\ oo \in Nat /\ Q.numberOfSamples \in Nat /\ Q.numberOfLosses \in Nat
      /\ Q.numberOfSamples = n /\ Q.numberOfLosses + k = n
      /\ o + k = s1 /\ oo + 2 * s1 = s2 + k
  BY DEF Summed, Summaries
<1>3. Average(lat) = <<s1, k>>
  BY DEF Average
<1>4. Variance(lat) = <<SumOf(DistancesIn(lat, k, s1)), k * k * (k - 1)>>
  BY DEF Variance, DistancesIn
<1>5. Latencies(Q) = Q.numberOfSamples - Q.numberOfLosses
  BY DEF Latencies
<1>6. /\ GetAverage(Q) = <<o + Latencies(Q) * 1, Latencies(Q)>>
      /\ GetVariance(Q) = <<Latencies(Q) * oo - o * o, Latencies(Q) * (Latencies(Q) - 1)>>
  BY DEF GetAverage, GetVariance, Offset
<1> HIDE DEF k, s1, s2, o, oo, v
<1>7. Latencies(Q) = k /\ o = s1 - k /\ oo = s2 - 2 * s1 + k /\ o \in Int
  BY <1>1, <1>2, <1>5
<1>8. o + k * 1 = s1
  BY <1>1, <1>2
<1>9. SameFraction(GetAverage(Q), Average(lat))
  BY <1>1, <1>3, <1>6, <1>7, <1>8 DEF SameFraction
<1>10. k * oo - o * o = v
  <2>1. k * (s2 - 2 * s1 + k) - (s1 - k) * (s1 - k) = k * s2 - s1 * s1
    BY <1>1
  <2> QED
    BY <1>7, <2>1 DEF v
<1>11. SumOf(DistancesIn(lat, k, s1)) = k * v
  <2>1. k * k * s2 - 2 * (k * s1) * s1 + k * (s1 * s1) = k * (k * s2 - s1 * s1)
    BY <1>1
  <2> QED
    BY <1>1, <2>1 DEF v
<1>12. v * (k * k * (k - 1)) = (k * v) * (k * (k - 1))
  <2>1. v \in Int
    BY <1>1 DEF v
  <2> QED
    BY <1>1, <2>1
<1>13. /\ GetVariance(Q) = <<v, k * (k - 1)>>
       /\ Variance(lat) = <<k * v, k * k * (k - 1)>>
  BY <1>4, <1>6, <1>7, <1>10, <1>11
<1>14. SameFraction(GetVariance(Q), Variance(lat))
  BY <1>12, <1>13 DEF SameFraction
<1> QED
  BY <1>9, <1>14

\* The quality of any samples summarises them (AddSample): counts, extremes,
\* average and variance are those of the latencies among them.
THEOREM QualitySummarises ==
  ASSUME NEW q \in Seq(Positive)
  PROVE  Summarises(QualityOf(q), q)
<1> DEFINE lat == LatenciesIn(q)
           Q == QualityOf(q)
           losses == Cardinality({i \in DOMAIN q : ~Latency(q[i])})
<1>1. lat \in Seq(Nat) /\ Summed(Q, Len(q), lat) /\ Len(lat) \in Nat /\ Len(q) \in Nat
  <2>1. lat \in Seq(Positive) /\ Summed(Q, Len(q), lat)
    BY QualityIsSummed
  <2> HIDE DEF lat, Q, losses
  <2> QED
    BY <2>1, PositiveAreNumbers
<1>2. losses = Len(q) - Len(lat)
  BY LossesAre
<1> HIDE DEF lat, Q, losses
<1>3. /\ Q.numberOfSamples = Len(q) /\ Q.numberOfLosses + Len(lat) = Len(q)
      /\ Q.numberOfLosses \in Nat /\ Q.minimumLatency \in Nat /\ Q.maximumLatency \in Nat
  BY <1>1 DEF Summed, Summaries
<1>4. Q.numberOfLosses = losses
  BY <1>1, <1>2, <1>3
<1>5. ASSUME Len(lat) > 0
      PROVE  /\ Q.minimumLatency = InAscendingOrder(lat)[1]
             /\ Q.maximumLatency = InAscendingOrder(lat)[Len(lat)]
  <2>1. lat # << >>
    BY <1>5
  <2>2. IsLeast(Q.minimumLatency, lat) /\ IsGreatest(Q.maximumLatency, lat)
    BY <1>1, <2>1 DEF Summed
  <2> QED
    BY <1>1, <1>3, <2>1, <2>2, ExtremesOfOrder
<1>6. SameFraction(GetAverage(Q), Average(lat)) /\ SameFraction(GetVariance(Q), Variance(lat))
  BY <1>1, FractionsOfSums
<1> QED
  BY <1>3, <1>4, <1>5, <1>6 DEF Summarises, lat, Q, losses

\* In every reachable state the quality attenuation is the summary of the self
\* probes' answers.
THEOREM QualityIsOfAnswers == Spec => []QualityOfAnswers
<1>1. ASSUME IInv PROVE QualityOfAnswers
  <2>1. ActualValues(selfRtts.data) \in Seq(Positive)
    BY <1>1, TimesArePositive
  <2>2. quality = QualityOf(ActualValues(selfRtts.data))
    BY <1>1 DEF IInv
  <2> QED
    BY <2>1, <2>2, QualitySummarises DEF QualityOfAnswers
<1> QED
  BY <1>1, SeriesGrowTogether, PTL

-----------------------------------------------------------------------------
(* Merging the qualities of two sequences.                                 *)

\* An element added to the second of two sequences is added to both together.
LEMMA ConcatOfAppend ==
  ASSUME NEW S, NEW q \in Seq(S), NEW r \in Seq(S), NEW x \in S
  PROVE  q \o Append(r, x) = Append(q \o r, x) /\ q \o r \in Seq(S) /\ q \o << >> = q
<1>1. <<x>> \in Seq(S) /\ Append(r, x) = r \o <<x>>
  BY AppendIsConcat
<1>2. q \o r \in Seq(S)
  BY ConcatProperties
<1>3. Append(q \o r, x) = (q \o r) \o <<x>>
  BY <1>2, AppendIsConcat
<1>4. (q \o r) \o <<x>> = q \o (r \o <<x>>)
  BY <1>1, ConcatAssociative
<1>5. q \o << >> = q
  BY ConcatEmptySeq
<1> QED
  BY <1>1, <1>2, <1>3, <1>4, <1>5

\* Sums, also those of the squares, add up.
LEMMA SumsOfConcat ==
  ASSUME NEW q \in Seq(Nat), NEW r \in Seq(Nat)
  PROVE  /\ SumOf(q \o r) = SumOf(q) + SumOf(r)
         /\ SumOf(SquaresIn(q \o r)) = SumOf(SquaresIn(q)) + SumOf(SquaresIn(r))
<1> DEFINE P(t) == /\ SumOf(q \o t) = SumOf(q) + SumOf(t)
                   /\ SumOf(SquaresIn(q \o t)) = SumOf(SquaresIn(q)) + SumOf(SquaresIn(t))
           T == {t \in Seq(Nat) : P(t)}
<1>0. \A t \in Seq(Nat) : SumOf(t) \in Nat /\ SumOf(SquaresIn(t)) \in Nat
  <2>1. 0 \in Int
    OBVIOUS
  <2> QED
    BY <2>1, SumOfDistances
<1>1. << >> \in T
  <2> DEFINE none == << >>
  <2>1. none \in Seq(Nat) /\ SumOf(none) = 0 /\ SumOf(SquaresIn(none)) = 0
    <3>1. SquaresIn(<< >>) = << >>
      BY DEF SquaresIn
    <3> QED
      BY <3>1, SumOfEmpty
  <2>2. q \o none = q
    BY ConcatEmptySeq
  <2> HIDE DEF none
  <2>3. P(none)
    BY <1>0, <2>1, <2>2
  <2>4. none \in T
    BY <2>1, <2>3
  <2> QED
    BY <2>4 DEF none
<1>2. ASSUME NEW t \in Seq(Nat), NEW x \in Nat, t \in T PROVE Append(t, x) \in T
  <2> DEFINE y == x * x
             u == Append(t, x)
             c == q \o t
  <2>1. y \in Nat
    OBVIOUS
  <2>2. P(t)
    BY <1>2
  <2>3. q \o u = Append(c, x) /\ c \in Seq(Nat) /\ u \in Seq(Nat)
    BY ConcatOfAppend
  <2>4. SumOf(u) = SumOf(t) + x /\ SumOf(Append(c, x)) = SumOf(c) + x
    BY <2>3, SumOfAppend
  <2>5. /\ SumOf(SquaresIn(u)) = SumOf(SquaresIn(t)) + y
        /\ SumOf(SquaresIn(Append(c, x))) = SumOf(SquaresIn(c)) + y
    <3>1. /\ SquaresIn(t) \in Seq(Nat) /\ SquaresIn(u) = Append(SquaresIn(t), y)
          /\ SquaresIn(c) \in Seq(Nat) /\ SquaresIn(Append(c, x)) = Append(SquaresIn(c), y)
      BY <2>3, SquaresOfAppend
    <3> HIDE DEF y, u, c
    <3> QED
      BY <2>1, <3>1, SumOfAppend
  <2>6. /\ SumOf(c) = SumOf(q) + SumOf(t)
        /\ SumOf(SquaresIn(c)) = SumOf(SquaresIn(q)) + SumOf(SquaresIn(t))
    BY <2>2
  <2>7. /\ SumOf(q) \in Nat /\ SumOf(t) \in Nat /\ x \in Nat
        /\ SumOf(SquaresIn(q)) \in Nat /\ SumOf(SquaresIn(t)) \in Nat
    BY <1>0
  <2> HIDE DEF y, u, c
  <2>8. SumOf(q \o u) = SumOf(q) + SumOf(u)
    BY <2>3, <2>4, <2>6, <2>7
  <2>9. SumOf(SquaresIn(q \o u)) = SumOf(SquaresIn(q)) + SumOf(SquaresIn(u))
    BY <2>1, <2>3, <2>5, <2>6, <2>7
  <2> QED
    BY <2>3, <2>8, <2>9 DEF u
<1> HIDE DEF T
<1>3. r \in T
  BY <1>1, <1>2, Growing
<1> QED
  BY <1>3 DEF T

\* The latencies of two sequences are those of the one and then of the other.
LEMMA LatenciesOfConcat ==
  ASSUME NEW q \in Seq(Positive), NEW r \in Seq(Positive)
  PROVE  LatenciesIn(q \o r) = LatenciesIn(q) \o LatenciesIn(r)
<1> DEFINE T == {t \in Seq(Positive) : LatenciesIn(q \o t) = LatenciesIn(q) \o LatenciesIn(t)}
<1>0. Positive \in SUBSET Nat
  BY DEF Positive
<1>1. << >> \in T
  <2>1. LatenciesIn(<< >>) = << >>
    <3>1. {i \in DOMAIN << >> : Latency(<< >>[i])} = {}
      OBVIOUS
    <3>2. Cardinality({}) = 0
      BY FS_EmptySet
    <3> QED
      BY <3>1, <3>2 DEF LatenciesIn, ElementsAt
  <2>2. LatenciesIn(q) \in Seq(Positive)
    BY <1>0, LatenciesType
  <2> DEFINE none == << >>
  <2>3. q \o none = q /\ LatenciesIn(q) \o none = LatenciesIn(q)
    BY <2>2, ConcatEmptySeq
  <2>4. none \in Seq(Positive) /\ LatenciesIn(none) = none
    BY <2>1
  <2> HIDE DEF none
  <2>5. none \in T
    BY <2>3, <2>4
  <2> QED
    BY <2>5 DEF none
<1>2. ASSUME NEW t \in Seq(Positive), NEW x \in Positive, t \in T PROVE Append(t, x) \in T
  <2> DEFINE u == Append(t, x)
             c == q \o t
  <2>1. q \o u = Append(c, x) /\ c \in Seq(Positive) /\ u \in Seq(Positive)
    BY ConcatOfAppend
  <2>2. LatenciesIn(c) = LatenciesIn(q) \o LatenciesIn(t)
    BY <1>2
  <2>3. LatenciesIn(q) \in Seq(Positive) /\ LatenciesIn(t) \in Seq(Positive)
    BY <1>0, LatenciesType
  <2>4. /\ Latency(x) => /\ LatenciesIn(u) = Append(LatenciesIn(t), x)
                         /\ LatenciesIn(Append(c, x)) = Append(LatenciesIn(c), x)
        /\ ~Latency(x) => /\ LatenciesIn(u) = LatenciesIn(t)
                          /\ LatenciesIn(Append(c, x)) = LatenciesIn(c)
    BY <1>0, <2>1, LatenciesOfAppend
  <2>5. LatenciesIn(q) \o Append(LatenciesIn(t), x) = Append(LatenciesIn(q) \o LatenciesIn(t), x)
    BY <2>3, ConcatOfAppend
  <2> HIDE DEF u, c
  <2>6. LatenciesIn(q \o u) = LatenciesIn(q) \o LatenciesIn(u)
    BY <2>1, <2>2, <2>4, <2>5
  <2> QED
    BY <2>1, <2>6 DEF u
<1> HIDE DEF T
<1>3. r \in T
  BY <1>1, <1>2, Growing
<1> QED
  BY <1>3 DEF T

\* The latencies determine the summary.
LEMMA SummaryIsUnique ==
  ASSUME NEW n \in Nat, NEW lat \in Seq(Nat), NEW Q, Summed(Q, n, lat), NEW R, Summed(R, n, lat)
  PROVE  Q = R
<1>1. /\ Len(lat) \in Nat /\ SumOf(lat) \in Nat /\ SumOf(SquaresIn(lat)) \in Nat
      /\ \A i \in DOMAIN lat : lat[i] \in Nat
  <2>1. 0 \in Int
    OBVIOUS
  <2> QED
    BY <2>1, SumOfDistances
<1>2. Q \in Summaries /\ R \in Summaries
  BY DEF Summed
<1>3. ASSUME NEW X \in Summaries
      PROVE  /\ X.offsetSum \in Nat /\ X.offsetSumOfSquares \in Nat /\ X.numberOfSamples \in Nat
             /\ X.numberOfLosses \in Nat /\ X.minimumLatency \in Nat /\ X.maximumLatency \in Nat
             /\ X = [offsetSum |-> X.offsetSum, offsetSumOfSquares |-> X.offsetSumOfSquares,
                     numberOfSamples |-> X.numberOfSamples, numberOfLosses |-> X.numberOfLosses,
                     minimumLatency |-> X.minimumLatency, maximumLatency |-> X.maximumLatency]
  BY DEF Summaries
<1>4. Q.numberOfSamples = R.numberOfSamples
  BY DEF Summed
<1>5. /\ Q.numberOfLosses = R.numberOfLosses /\ Q.offsetSum = R.offsetSum
      /\ Q.offsetSumOfSquares = R.offsetSumOfSquares
  <2>1. \A i, j, k \in Nat : i + k = j + k => i = j
    OBVIOUS
  <2>2. 2 * SumOf(lat) \in Nat
    BY <1>1
  <2>3. Q.numberOfLosses + Len(lat) = R.numberOfLosses + Len(lat)
    BY DEF Summed
  <2>4. Q.offsetSum + Len(lat) = R.offsetSum + Len(lat)
    BY DEF Summed
  <2>5. Q.offsetSumOfSquares + 2 * SumOf(lat) = R.offsetSumOfSquares + 2 * SumOf(lat)
    BY DEF Summed
  <2>6. /\ Q.numberOfLosses \in Nat /\ Q.offsetSum \in Nat /\ Q.offsetSumOfSquares \in Nat
        /\ R.numberOfLosses \in Nat /\ R.offsetSum \in Nat /\ R.offsetSumOfSquares \in Nat
    BY <1>2, <1>3
  <2>7. Q.numberOfLosses = R.numberOfLosses
    BY <1>1, <2>1, <2>3, <2>6
  <2>8. Q.offsetSum = R.offsetSum
    BY <1>1, <2>1, <2>4, <2>6
  <2>9. Q.offsetSumOfSquares = R.offsetSumOfSquares
    BY <2>1, <2>2, <2>5, <2>6
  <2> QED
    BY <2>7, <2>8, <2>9
<1>6. Q.minimumLatency = R.minimumLatency /\ Q.maximumLatency = R.maximumLatency
  <2>1. CASE lat = << >>
    BY <2>1 DEF Summed
  <2>2. CASE lat # << >>
    <3>1. /\ IsLeast(Q.minimumLatency, lat) /\ IsLeast(R.minimumLatency, lat)
          /\ IsGreatest(Q.maximumLatency, lat) /\ IsGreatest(R.maximumLatency, lat)
      BY <2>2 DEF Summed
    <3>2. /\ Q.minimumLatency <= R.minimumLatency /\ R.minimumLatency <= Q.minimumLatency
          /\ Q.maximumLatency <= R.maximumLatency /\ R.maximumLatency <= Q.maximumLatency
      BY <3>1 DEF IsLeast, IsGreatest
    <3> QED
      BY <1>2, <1>3, <3>2
  <2> QED
    BY <2>1, <2>2
<1> QED
  BY <1>2, <1>3, <1>4, <1>5, <1>6

\* Of two sequences together, the extremes are those of the one or of the other.
LEMMA ExtremesOfConcat ==
  ASSUME NEW a \in Seq(Nat), NEW b \in Seq(Nat), NEW min \in Nat, NEW max \in Nat,
         NEW min2 \in Nat, NEW max2 \in Nat, IsLeast(min, a), IsGreatest(max, a),
         IsLeast(min2, b), IsGreatest(max2, b)
  PROVE  /\ IsLeast(IF min2 < min THEN min2 ELSE min, a \o b)
         /\ IsGreatest(IF max2 > max THEN max2 ELSE max, a \o b)
<1> DEFINE c == a \o b
           k == Len(a)
           l == Len(b)
<1>1. /\ k \in Nat /\ l \in Nat /\ DOMAIN a = 1 .. k /\ DOMAIN b = 1 .. l
      /\ DOMAIN c = 1 .. k + l
      /\ \A i \in 1 .. k + l : i <= k => c[i] = a[i]
      /\ \A i \in 1 .. k + l : ~(i <= k) => c[i] = b[i - k]
  <2>1. Len(c) = k + l /\ \A i \in 1 .. k + l : c[i] = IF i <= k THEN a[i] ELSE b[i - k]
    BY ConcatProperties
  <2>2. c \in Seq(Nat) /\ k \in Nat /\ l \in Nat /\ DOMAIN a = 1 .. k /\ DOMAIN b = 1 .. l
    BY ConcatProperties
  <2>3. DOMAIN c = 1 .. k + l
    BY <2>1, <2>2
  <2> QED
    BY <2>1, <2>2, <2>3
<1>2. (\A i \in DOMAIN a : a[i] \in Nat) /\ (\A i \in DOMAIN b : b[i] \in Nat)
  OBVIOUS
<1> HIDE DEF c, k, l
<1>3. ASSUME NEW i \in DOMAIN a PROVE i \in DOMAIN c /\ c[i] = a[i]
  <2>1. i \in 1 .. k + l /\ i <= k
    BY <1>1
  <2> QED
    BY <1>1, <2>1
<1>4. ASSUME NEW i \in DOMAIN b PROVE i + k \in DOMAIN c /\ c[i + k] = b[i]
  <2>1. i + k \in 1 .. k + l /\ ~(i + k <= k) /\ (i + k) - k = i
    BY <1>1
  <2>2. c[i + k] = b[(i + k) - k]
    BY <1>1, <2>1
  <2> QED
    BY <1>1, <2>1, <2>2
<1>5. \A i \in DOMAIN b : \E j \in DOMAIN c : c[j] = b[i]
  BY <1>4
<1>6. ASSUME NEW i \in DOMAIN c
      PROVE  (\E j \in DOMAIN a : c[i] = a[j]) \/ (\E j \in DOMAIN b : c[i] = b[j])
  <2>1. CASE i <= k
    <3>1. i \in 1 .. k /\ c[i] = a[i]
      BY <1>1, <2>1
    <3> QED
      BY <1>1, <3>1
  <2>2. CASE ~(i <= k)
    <3>1. i - k \in 1 .. l
      BY <1>1, <2>2
    <3>2. c[i] = b[i - k]
      BY <1>1, <2>2
    <3> QED
      BY <1>1, <3>1, <3>2
  <2> QED
    BY <2>1, <2>2
<1>7. IsLeast(IF min2 < min THEN min2 ELSE min, c)
  <2> DEFINE least == IF min2 < min THEN min2 ELSE min
  <2>1. /\ least \in Nat /\ least <= min /\ least <= min2
        /\ least = min \/ least = min2
    OBVIOUS
  <2> HIDE DEF least
  <2>2. (\E i \in DOMAIN a : a[i] = min) /\ (\E i \in DOMAIN b : b[i] = min2)
    BY DEF IsLeast
  <2>3. \E i \in DOMAIN c : c[i] = least
    BY <1>3, <1>5, <2>1, <2>2
  <2>4. ASSUME NEW i \in DOMAIN a PROVE least <= a[i]
    <3>1. min <= a[i] /\ a[i] \in Nat
      BY <1>2 DEF IsLeast
    <3> QED
      BY <2>1, <3>1
  <2>5. ASSUME NEW i \in DOMAIN b PROVE least <= b[i]
    <3>1. min2 <= b[i] /\ b[i] \in Nat
      BY <1>2 DEF IsLeast
    <3> QED
      BY <2>1, <3>1
  <2>6. \A i \in DOMAIN c : least <= c[i]
    BY <1>6, <2>4, <2>5
  <2>7. IsLeast(least, c)
    BY <2>3, <2>6 DEF IsLeast
  <2> QED
    BY <2>7 DEF least
<1>8. IsGreatest(IF max2 > max THEN max2 ELSE max, c)
  <2> DEFINE greatest == IF max2 > max THEN max2 ELSE max
  <2>1. /\ greatest \in Nat /\ greatest >= max /\ greatest >= max2
        /\ greatest = max \/ greatest = max2
    OBVIOUS
  <2> HIDE DEF greatest
  <2>2. (\E i \in DOMAIN a : a[i] = max) /\ (\E i \in DOMAIN b : b[i] = max2)
    BY DEF IsGreatest
  <2>3. \E i \in DOMAIN c : c[i] = greatest
    BY <1>3, <1>5, <2>1, <2>2
  <2>4. ASSUME NEW i \in DOMAIN a PROVE greatest >= a[i]
    <3>1. max >= a[i] /\ a[i] \in Nat
      BY <1>2 DEF IsGreatest
    <3> QED
      BY <2>1, <3>1
  <2>5. ASSUME NEW i \in DOMAIN b PROVE greatest >= b[i]
    <3>1. max2 >= b[i] /\ b[i] \in Nat
      BY <1>2 DEF IsGreatest
    <3> QED
      BY <2>1, <3>1
  <2>6. \A i \in DOMAIN c : greatest >= c[i]
    BY <1>6, <2>4, <2>5
  <2>7. IsGreatest(greatest, c)
    BY <2>3, <2>6 DEF IsGreatest
  <2> QED
    BY <2>7 DEF greatest
<1> QED
  BY <1>7, <1>8 DEF c

\* The fields of two merged summaries.
LEMMA FieldsOfMerge ==
  ASSUME NEW L \in Summaries, NEW R \in Summaries
  PROVE  /\ HasFields(Merge(L, R), L.offsetSum + R.offsetSum,
                      L.offsetSumOfSquares + R.offsetSumOfSquares,
                      L.numberOfSamples + R.numberOfSamples,
                      L.numberOfLosses + R.numberOfLosses,
                      IF R.minimumLatency < L.minimumLatency THEN R.minimumLatency
                      ELSE L.minimumLatency,
                      IF R.maximumLatency > L.maximumLatency THEN R.maximumLatency
                      ELSE L.maximumLatency)
<1> DEFINE o == L.offsetSum + R.offsetSum
           oo == L.offsetSumOfSquares + R.offsetSumOfSquares
           n == L.numberOfSamples + R.numberOfSamples
           m == L.numberOfLosses + R.numberOfLosses
           min == IF R.minimumLatency < L.minimumLatency THEN R.minimumLatency
                  ELSE L.minimumLatency
           max == IF R.maximumLatency > L.maximumLatency THEN R.maximumLatency
                  ELSE L.maximumLatency
           M == [L EXCEPT !.offsetSum = o, !.offsetSumOfSquares = oo, !.numberOfSamples = n,
                          !.numberOfLosses = m, !.minimumLatency = min, !.maximumLatency = max]
<1>1. o \in Nat /\ oo \in Nat /\ n \in Nat /\ m \in Nat /\ min \in Nat /\ max \in Nat
  BY DEF Summaries
<1>2. Merge(L, R) = M
  BY DEF Merge
<1> HIDE DEF o, oo, n, m, min, max
<1>3. M \in Summaries
  BY <1>1 DEF Summaries
<1>4. /\ M.offsetSum = o /\ M.offsetSumOfSquares = oo /\ M.numberOfSamples = n
      /\ M.numberOfLosses = m /\ M.minimumLatency = min /\ M.maximumLatency = max
  BY <1>1 DEF Summaries
<1> HIDE DEF M
<1>5. HasFields(M, o, oo, n, m, min, max)
  BY <1>3, <1>4 DEF HasFields
<1> QED
  BY <1>2, <1>5 DEF o, oo, n, m, min, max

\* Merged summaries are summed from the latencies of both.
LEMMA MergeIsSummed ==
  ASSUME NEW a \in Seq(Nat), NEW b \in Seq(Nat), a # << >>, b # << >>,
         NEW m \in Nat, NEW n \in Nat, NEW L, Summed(L, m, a), NEW R, Summed(R, n, b)
  PROVE  Summed(Merge(L, R), m + n, a \o b)
<1> DEFINE min == IF R.minimumLatency < L.minimumLatency THEN R.minimumLatency ELSE L.minimumLatency
           max == IF R.maximumLatency > L.maximumLatency THEN R.maximumLatency ELSE L.maximumLatency
           o == L.offsetSum + R.offsetSum
           oo == L.offsetSumOfSquares + R.offsetSumOfSquares
           ss == L.numberOfSamples + R.numberOfSamples
           ll == L.numberOfLosses + R.numberOfLosses
           c == a \o b
           M == Merge(L, R)
<1>1. L \in Summaries /\ R \in Summaries
  BY DEF Summed
<1>2. ASSUME NEW X \in Summaries
      PROVE  /\ X.offsetSum \in Nat /\ X.offsetSumOfSquares \in Nat /\ X.numberOfSamples \in Nat
             /\ X.numberOfLosses \in Nat /\ X.minimumLatency \in Nat /\ X.maximumLatency \in Nat
  BY DEF Summaries
<1>3. HasFields(M, o, oo, ss, ll, min, max)
  BY <1>1, FieldsOfMerge
<1>5. IsLeast(min, c) /\ IsGreatest(max, c)
  <2>1. /\ IsLeast(L.minimumLatency, a) /\ IsGreatest(L.maximumLatency, a)
        /\ IsLeast(R.minimumLatency, b) /\ IsGreatest(R.maximumLatency, b)
    BY DEF Summed
  <2>2. /\ L.minimumLatency \in Nat /\ L.maximumLatency \in Nat
        /\ R.minimumLatency \in Nat /\ R.maximumLatency \in Nat
    BY <1>1, <1>2
  <2> QED
    BY <2>1, <2>2, ExtremesOfConcat
<1>6. Len(c) = Len(a) + Len(b) /\ Len(a) \in Nat /\ Len(b) \in Nat /\ c # << >>
  <2>1. Len(c) = Len(a) + Len(b) /\ Len(a) \in Nat /\ Len(b) \in Nat
    BY ConcatProperties
  <2>2. Len(a) # 0
    OBVIOUS
  <2>3. Len(c) # 0
    BY <2>1, <2>2
  <2> QED
    BY <2>1, <2>3
<1>7. /\ SumOf(c) = SumOf(a) + SumOf(b)
      /\ SumOf(SquaresIn(c)) = SumOf(SquaresIn(a)) + SumOf(SquaresIn(b))
      /\ SumOf(a) \in Nat /\ SumOf(b) \in Nat
      /\ SumOf(SquaresIn(a)) \in Nat /\ SumOf(SquaresIn(b)) \in Nat
  <2>1. 0 \in Int
    OBVIOUS
  <2> QED
    BY <2>1, SumsOfConcat, SumOfDistances
<1>8. /\ ss = m + n /\ ll + Len(c) = m + n
      /\ o + Len(c) = SumOf(c)
      /\ oo + 2 * SumOf(c) = SumOf(SquaresIn(c)) + Len(c)
  <2>1. /\ L.numberOfSamples = m /\ L.numberOfLosses + Len(a) = m
        /\ L.offsetSum + Len(a) = SumOf(a)
        /\ L.offsetSumOfSquares + 2 * SumOf(a) = SumOf(SquaresIn(a)) + Len(a)
        /\ R.numberOfSamples = n /\ R.numberOfLosses + Len(b) = n
        /\ R.offsetSum + Len(b) = SumOf(b)
        /\ R.offsetSumOfSquares + 2 * SumOf(b) = SumOf(SquaresIn(b)) + Len(b)
    BY DEF Summed
  <2>2. /\ L.offsetSum \in Nat /\ L.offsetSumOfSquares \in Nat /\ L.numberOfLosses \in Nat
        /\ R.offsetSum \in Nat /\ R.offsetSumOfSquares \in Nat /\ R.numberOfLosses \in Nat
    BY <1>1, <1>2
  <2> DEFINE k == Len(a)
             k2 == Len(b)
             s == SumOf(a)
             s2 == SumOf(b)
             t == SumOf(SquaresIn(a))
             t2 == SumOf(SquaresIn(b))
             o1 == L.offsetSum
             o2 == R.offsetSum
             oo1 == L.offsetSumOfSquares
             oo2 == R.offsetSumOfSquares
             l1 == L.numberOfLosses
             l2 == R.numberOfLosses
  <2>3. /\ k \in Nat /\ k2 \in Nat /\ s \in Nat /\ s2 \in Nat /\ t \in Nat /\ t2 \in Nat
        /\ Len(c) = k + k2 /\ SumOf(c) = s + s2 /\ SumOf(SquaresIn(c)) = t + t2
    BY <1>6, <1>7
  <2>4. /\ o1 \in Nat /\ o2 \in Nat /\ oo1 \in Nat /\ oo2 \in Nat /\ l1 \in Nat /\ l2 \in Nat
        /\ o = o1 + o2 /\ oo = oo1 + oo2 /\ ll = l1 + l2
    BY <2>2
  <2>5. /\ l1 + k = m /\ l2 + k2 = n /\ o1 + k = s /\ o2 + k2 = s2
        /\ oo1 + 2 * s = t + k /\ oo2 + 2 * s2 = t2 + k2
    BY <2>1
  <2>6. ss = m + n
    BY <2>1
  <2> HIDE DEF o, oo, ss, ll, c, k, k2, s, s2, t, t2, o1, o2, oo1, oo2, l1, l2
  <2>7. ll + (k + k2) = m + n /\ o + (k + k2) = s + s2
    BY <2>3, <2>4, <2>5
  <2>8. oo + 2 * (s + s2) = (t + t2) + (k + k2)
    BY <2>3, <2>4, <2>5
  <2> QED
    BY <2>3, <2>6, <2>7, <2>8
<1> HIDE DEF o, oo, ss, ll, min, max, c, M
<1>9. Summed(M, m + n, c)
  BY <1>3, <1>5, <1>6, <1>8 DEF Summed, HasFields
<1> QED
  BY <1>9 DEF M, c

\* Whatever the samples are and wherever they are parted, the merged qualities of
\* the parts are the quality of the whole, if both have a latency (Merge).
THEOREM MergedPartsAreWhole ==
  ASSUME NEW q \in Seq(Positive)
  PROVE  MergeIsQuality(q)
<1> SUFFICES ASSUME NEW n \in 0 .. Len(q),
                    Latencies(QualityOf(SubSeq(q, 1, n))) > 0,
                    Latencies(QualityOf(SubSeq(q, n + 1, Len(q)))) > 0
             PROVE  Merge(QualityOf(SubSeq(q, 1, n)), QualityOf(SubSeq(q, n + 1, Len(q)))) =
                      QualityOf(q)
  BY DEF MergeIsQuality
<1> DEFINE a == SubSeq(q, 1, n)
           b == SubSeq(q, n + 1, Len(q))
<1>1. a \in Seq(Positive) /\ b \in Seq(Positive)
  BY SubSeqProperties
<1>2. a \o b = q
  <2>1. /\ Len(q) \in Nat /\ 1 \in 1 .. Len(q) + 1 /\ n \in 1 - 1 .. Len(q)
        /\ Len(q) \in n .. Len(q)
    OBVIOUS
  <2>2. a \o b = SubSeq(q, 1, Len(q))
    BY <2>1, ConcatAdjacentSubSeq
  <2> QED
    BY <2>2, FirstElements
<1> HIDE DEF a, b
<1>3. /\ LatenciesIn(a) \in Seq(Nat) /\ Summed(QualityOf(a), Len(a), LatenciesIn(a))
      /\ LatenciesIn(b) \in Seq(Nat) /\ Summed(QualityOf(b), Len(b), LatenciesIn(b))
      /\ LatenciesIn(q) \in Seq(Nat) /\ Summed(QualityOf(q), Len(q), LatenciesIn(q))
  BY <1>1, QualityIsSummed, PositiveAreNumbers
<1>4. ASSUME NEW X, NEW n2 \in Nat, NEW lat \in Seq(Nat), Summed(X, n2, lat), Latencies(X) > 0
      PROVE  lat # << >>
  <2>1. X.numberOfSamples = n2 /\ X.numberOfLosses + Len(lat) = n2 /\ X.numberOfLosses \in Nat
    BY <1>4 DEF Summed, Summaries
  <2>2. Len(lat) > 0
    BY <1>4, <2>1 DEF Latencies
  <2> QED
    BY <2>2
<1>5. Len(a) \in Nat /\ Len(b) \in Nat /\ Len(q) = Len(a) + Len(b) /\ Len(q) \in Nat
  BY <1>1, <1>2, ConcatProperties
<1>6. LatenciesIn(a) # << >> /\ LatenciesIn(b) # << >>
  <2>1. Latencies(QualityOf(a)) > 0 /\ Latencies(QualityOf(b)) > 0
    BY DEF a, b
  <2> QED
    BY <1>3, <1>4, <1>5, <2>1
<1>7. Summed(Merge(QualityOf(a), QualityOf(b)), Len(q), LatenciesIn(a) \o LatenciesIn(b))
  BY <1>3, <1>5, <1>6, MergeIsSummed
<1>8. LatenciesIn(a) \o LatenciesIn(b) = LatenciesIn(q)
  BY <1>1, <1>2, LatenciesOfConcat
<1>9. Merge(QualityOf(a), QualityOf(b)) = QualityOf(q)
  BY <1>3, <1>5, <1>7, <1>8, SummaryIsUnique
<1> QED
  BY <1>9 DEF a, b

\* In every reachable state the quality is that of the answers, and that of any
\* two parts of them merged.
THEOREM MergingIsConcatenating == Spec => []MergeIsConcatenation
<1>1. ASSUME IInv PROVE MergeIsConcatenation
  <2>1. ActualValues(selfRtts.data) \in Seq(Positive)
    BY <1>1, TimesArePositive
  <2>2. quality = QualityOf(ActualValues(selfRtts.data))
    BY <1>1 DEF IInv
  <2> QED
    BY <2>1, <2>2, MergedPartsAreWhole DEF MergeIsConcatenation
<1> QED
  BY <1>1, SeriesGrowTogether, PTL
=============================================================================
