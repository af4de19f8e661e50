---------------------------- MODULE Series_proofs ----------------------------
(***************************************************************************)
(* What the operations of a forever series do to a well-formed one: one    *)
(* whose buckets are in strictly increasing order and whose field `empty`  *)
(* says whether it is; and what extracting and merging, which need the     *)
(* order only (they leave the field `empty` wrong), make of such series.   *)
(* Then what the statistics make of any sequence of natural numbers.       *)
(***************************************************************************)
EXTENDS Series, Statistics, TLAPS, FiniteSetTheorems

\* Forever series with bucket ids in B and data in D.
SeriesOf(B, D) ==
  [data : Seq([first : B, second : D \cup {None}]), empty : BOOLEAN]

WellFormed(s) ==
  /\ s.empty <=> s.data = << >>
  /\ \A i, j \in DOMAIN s.data : i < j => s.data[i].first < s.data[j].first

\* The indices of a sequence are natural numbers.
LEMMA Indices ==
  ASSUME NEW S, NEW q \in Seq(S)
  PROVE  \A i \in DOMAIN q : i \in Nat /\ 1 <= i /\ i <= Len(q) /\ q[i] \in S
  OBVIOUS

\* What a slot of a series holds.
LEMMA SlotsAreTyped ==
  ASSUME NEW B \in SUBSET Nat, NEW D, NEW s \in SeriesOf(B, D)
  PROVE  \A i \in DOMAIN s.data :
           /\ i \in Nat /\ 1 <= i /\ i <= Len(s.data)
           /\ s.data[i] \in [first : B, second : D \cup {None}]
           /\ s.data[i].first \in Nat
           /\ s.data[i].second \in D \cup {None}
<1> DEFINE Slot == [first : B, second : D \cup {None}]
<1>1. \A r \in Slot : r.first \in Nat /\ r.second \in D \cup {None}
  OBVIOUS
<1>2. s.data \in Seq(Slot)
  BY DEF SeriesOf
<1>3. \A i \in DOMAIN s.data : i \in Nat /\ 1 <= i /\ i <= Len(s.data) /\ s.data[i] \in Slot
  <2> HIDE DEF Slot
  <2> QED
    BY <1>2, Indices
<1> QED
  BY <1>1, <1>3

\* The ids of a series' buckets.
LEMMA BucketIdsAreTyped ==
  ASSUME NEW B \in SUBSET Nat, NEW D, NEW s \in SeriesOf(B, D)
  PROVE  BucketsOf(s.data) \subseteq B
<1>1. \A i \in DOMAIN s.data : s.data[i] \in [first : B, second : D \cup {None}]
  BY SlotsAreTyped
<1>2. \A r \in [first : B, second : D \cup {None}] : r.first \in B
  OBVIOUS
<1> QED
  BY <1>1, <1>2 DEF BucketsOf

\* In a well-formed series a bucket has one slot at most.
LEMMA FirstSlotIs ==
  ASSUME NEW B \in SUBSET Nat, NEW D, NEW s \in SeriesOf(B, D), WellFormed(s),
         NEW k \in DOMAIN s.data
  PROVE  /\ FirstSlot(s.data, s.data[k].first) = k
         /\ \A i \in DOMAIN s.data : s.data[i].first = s.data[k].first => i = k
<1> DEFINE b == s.data[k].first
           P(i) == /\ s.data[i].first = b
                   /\ \A j \in DOMAIN s.data : s.data[j].first = b => i <= j
<1>1. \A i \in DOMAIN s.data : i \in Nat /\ s.data[i].first \in Nat
  BY SlotsAreTyped
<1>2. \A i \in DOMAIN s.data : s.data[i].first = b => i = k
  BY <1>1 DEF WellFormed
<1>3. P(k)
  BY <1>1, <1>2
<1>4. \A i \in DOMAIN s.data : P(i) => i = k
  BY <1>2
<1>5. FirstSlot(s.data, b) = CHOOSE i \in DOMAIN s.data : P(i)
  BY DEF FirstSlot
<1> HIDE DEF P
<1>6. FirstSlot(s.data, b) = k
  BY <1>3, <1>4, <1>5
<1> QED
  BY <1>2, <1>6

\* A new series is well-formed.
LEMMA NewIsWellFormed ==
  ASSUME NEW B, NEW D
  PROVE  NewForever \in SeriesOf(B, D) /\ WellFormed(NewForever) /\ BucketsOf(NewForever.data) = {}
  BY DEF NewForever, SeriesOf, WellFormed, BucketsOf

Above(b, s) == \A x \in BucketsOf(s.data) : x < b

\* t is s with the slot of b added, unfilled.
IsReserved(t, s, b, B, D) ==
  /\ t \in SeriesOf(B, D)
  /\ WellFormed(t)
  /\ t.data = Append(s.data, Pair(b, None))
  /\ BucketsOf(t.data) = BucketsOf(s.data) \cup {b}

\* t is s with d in the slot of b, if there is one.
IsFilled(t, s, b, d, B, D) ==
  /\ t \in SeriesOf(B, D)
  /\ WellFormed(t)
  /\ DOMAIN t.data = DOMAIN s.data
  /\ BucketsOf(t.data) = BucketsOf(s.data)
  /\ \A i \in DOMAIN s.data :
       /\ t.data[i].first = s.data[i].first
       /\ t.data[i].second = IF s.data[i].first = b THEN d ELSE s.data[i].second

\* A bucket greater than all others is reserved, at the end and unfilled.
LEMMA ReserveAppends ==
  ASSUME NEW B \in SUBSET Nat, NEW D, NEW s \in SeriesOf(B, D), WellFormed(s),
         NEW b \in B, Above(b, s)
  PROVE  IsReserved(ForeverReserve(s, b), s, b, B, D)
<1> DEFINE Slot == [first : B, second : D \cup {None}]
<1>1. s.data \in Seq(Slot) /\ s.empty \in BOOLEAN
  BY DEF SeriesOf
<1>2. ForeverAccepts(s, b)
  <2>1. CASE s.data = << >>
    BY <2>1 DEF ForeverAccepts, WellFormed
  <2>2. CASE s.data # << >>
    <3>1. Len(s.data) \in DOMAIN s.data
      BY <1>1, <2>2
    <3> QED
      BY <3>1 DEF ForeverAccepts, Newest, BucketsOf, Above
  <2> QED
    BY <2>1, <2>2
<1> DEFINE t == [data |-> Append(s.data, Pair(b, None)), empty |-> FALSE]
<1>3. ForeverReserve(s, b) = t
  BY <1>2 DEF ForeverReserve
<1>4. Pair(b, None) \in Slot
  BY DEF Pair
<1>5. /\ t.data \in Seq(Slot)
      /\ DOMAIN t.data = DOMAIN s.data \cup {Len(s.data) + 1}
      /\ \A i \in DOMAIN s.data : t.data[i] = s.data[i] /\ i < Len(s.data) + 1
      /\ t.data[Len(s.data) + 1] = Pair(b, None)
  BY <1>1, <1>4
<1>6. Pair(b, None).first = b
  BY DEF Pair
<1>7. BucketsOf(t.data) = BucketsOf(s.data) \cup {b}
  BY <1>5, <1>6 DEF BucketsOf
<1>8. WellFormed(t)
  <2>1. ASSUME NEW i \in DOMAIN t.data, NEW j \in DOMAIN t.data, i < j
        PROVE  t.data[i].first < t.data[j].first
    <3>1. i \in DOMAIN s.data
      BY <1>1, <1>5, <2>1
    <3>2. CASE j \in DOMAIN s.data
      BY <1>5, <2>1, <3>1, <3>2 DEF WellFormed
    <3>3. CASE j = Len(s.data) + 1
      BY <1>5, <1>6, <3>1, <3>3 DEF BucketsOf, Above
    <3> QED
      BY <1>5, <3>2, <3>3
  <2>2. t.data # << >>
    BY <1>5
  <2> QED
    BY <2>1, <2>2 DEF WellFormed
<1> QED
  BY <1>3, <1>5, <1>7, <1>8 DEF SeriesOf, IsReserved

\* A datum goes to the slot of its bucket, if there is one, and nowhere else.
LEMMA FillStores ==
  ASSUME NEW B \in SUBSET Nat, NEW D, NEW s \in SeriesOf(B, D), WellFormed(s),
         NEW b \in Nat, NEW d \in D
  PROVE  IsFilled(ForeverFill(s, b, d), s, b, d, B, D)
<1> DEFINE Slot == [first : B, second : D \cup {None}]
           t == ForeverFill(s, b, d)
<1>1. s.data \in Seq(Slot) /\ s.empty \in BOOLEAN
  BY DEF SeriesOf
<1>2. CASE b \notin BucketsOf(s.data)
  <2>1. t = s
    BY <1>2 DEF ForeverFill
  <2>2. \A i \in DOMAIN s.data : s.data[i].first # b
    BY <1>2 DEF BucketsOf
  <2> QED
    BY <2>1, <2>2 DEF IsFilled
<1>3. CASE b \in BucketsOf(s.data)
  <2>1. PICK k \in DOMAIN s.data : s.data[k].first = b
    BY <1>3 DEF BucketsOf
  <2>2. \A i \in DOMAIN s.data : i \in Nat /\ s.data[i] \in Slot /\ s.data[i].first \in Nat
    BY SlotsAreTyped
  <2>3. \A i \in DOMAIN s.data : s.data[i].first = b => i = k
    BY <2>1, FirstSlotIs
  <2>4. FirstSlot(s.data, b) = k
    BY <2>1, FirstSlotIs
  <2>5. t = [s EXCEPT !.data = [s.data EXCEPT ![k] = [s.data[k] EXCEPT !.second = d]]]
    BY <1>3, <2>4 DEF ForeverFill
  <2> DEFINE x == [s.data[k] EXCEPT !.second = d]
  <2>6. x \in Slot /\ x.first = b /\ x.second = d
    BY <2>1, <2>2
  <2> HIDE DEF x
  <2>7. t.data = [s.data EXCEPT ![k] = x] /\ t.empty = s.empty /\ t \in SeriesOf(B, D)
    <3> DEFINE y == [s.data EXCEPT ![k] = x]
    <3>1. y \in Seq(Slot)
      BY <1>1, <2>1, <2>6
    <3>2. t = [s EXCEPT !.data = y]
      BY <2>5 DEF x
    <3>3. t.data = y /\ t.empty = s.empty /\ t \in SeriesOf(B, D)
      <4> HIDE DEF y, t
      <4> QED
        BY <3>1, <3>2 DEF SeriesOf
    <3> QED
      BY <3>3
  <2>8. /\ DOMAIN t.data = DOMAIN s.data
        /\ \A i \in DOMAIN s.data : t.data[i] = IF i = k THEN x ELSE s.data[i]
    BY <1>1, <2>7
  <2> HIDE DEF t
  <2>9. \A i \in DOMAIN s.data :
          /\ t.data[i].first = s.data[i].first
          /\ t.data[i].second = IF s.data[i].first = b THEN d ELSE s.data[i].second
    BY <2>1, <2>3, <2>6, <2>8
  <2>10. BucketsOf(t.data) = BucketsOf(s.data)
    BY <2>8, <2>9 DEF BucketsOf
  <2>11. t.data = << >> <=> s.data = << >>
    BY <1>1, <2>1, <2>8
  <2>12. WellFormed(t)
    BY <2>7, <2>8, <2>9, <2>11 DEF WellFormed
  <2> QED
    BY <2>7, <2>8, <2>9, <2>10, <2>12 DEF t, IsFilled
<1> QED
  BY <1>2, <1>3

\* s holds the buckets bs, each with its value in val, if it has one.
HoldsAll(s, B, D, bs, val) ==
  /\ s \in SeriesOf(B, D)
  /\ WellFormed(s)
  /\ BucketsOf(s.data) = bs
  /\ \A k \in DOMAIN s.data :
       s.data[k].second = IF s.data[k].first \in DOMAIN val THEN val[s.data[k].first] ELSE None

\* Reserving a new bucket adds it, without a value.
LEMMA ReserveHoldsAll ==
  ASSUME NEW B \in SUBSET Nat, NEW D, NEW s, NEW bs, NEW val, HoldsAll(s, B, D, bs, val),
         NEW b \in B, \A r \in bs : r < b, b \notin DOMAIN val
  PROVE  HoldsAll(ForeverReserve(s, b), B, D, bs \cup {b}, val)
<1> DEFINE t == ForeverReserve(s, b)
<1>1. /\ t \in SeriesOf(B, D)
      /\ WellFormed(t)
      /\ t.data = Append(s.data, Pair(b, None))
      /\ BucketsOf(t.data) = BucketsOf(s.data) \cup {b}
  <2>1. s \in SeriesOf(B, D) /\ WellFormed(s) /\ Above(b, s)
    BY DEF HoldsAll, Above
  <2>2. IsReserved(t, s, b, B, D)
    BY <2>1, ReserveAppends
  <2> HIDE DEF t
  <2> QED
    BY <2>2 DEF IsReserved
<1>2. s.data \in Seq([first : B, second : D \cup {None}])
  BY DEF HoldsAll, SeriesOf
<1> HIDE DEF t
<1>3. /\ DOMAIN t.data = DOMAIN s.data \cup {Len(s.data) + 1}
      /\ \A k \in DOMAIN s.data : t.data[k] = s.data[k]
      /\ t.data[Len(s.data) + 1].first = b
      /\ t.data[Len(s.data) + 1].second = None
  <2> DEFINE x == Pair(b, None)
  <2>1. x.first = b /\ x.second = None /\ x \in [first : B, second : D \cup {None}]
    BY DEF Pair
  <2>2. t.data = Append(s.data, x)
    BY <1>1
  <2> HIDE DEF x
  <2> QED
    BY <1>2, <2>1, <2>2
<1>4. \A k \in DOMAIN t.data :
        t.data[k].second = IF t.data[k].first \in DOMAIN val THEN val[t.data[k].first] ELSE None
  BY <1>3 DEF HoldsAll
<1>5. HoldsAll(t, B, D, bs \cup {b}, val)
  BY <1>1, <1>4 DEF HoldsAll
<1> QED
  BY <1>5 DEF t

\* Filling a bucket with its measurement keeps the series in step with the
\* measurements, whether or not the bucket is one of it.
LEMMA FillHoldsAll ==
  ASSUME NEW B \in SUBSET Nat, NEW D, NEW s, NEW bs, NEW val, HoldsAll(s, B, D, bs, val),
         NEW b \in B, NEW d \in D, NEW v,
         DOMAIN v = DOMAIN val \cup {b},
         \A r \in DOMAIN v : v[r] = IF r = b THEN d ELSE val[r]
  PROVE  HoldsAll(ForeverFill(s, b, d), B, D, bs, v)
<1> DEFINE t == ForeverFill(s, b, d)
<1>1. s \in SeriesOf(B, D) /\ WellFormed(s) /\ b \in Nat
  BY DEF HoldsAll
<1>2. /\ t \in SeriesOf(B, D) /\ WellFormed(t)
      /\ DOMAIN t.data = DOMAIN s.data
      /\ BucketsOf(t.data) = BucketsOf(s.data)
      /\ \A i \in DOMAIN s.data :
           /\ t.data[i].first = s.data[i].first
           /\ t.data[i].second = IF s.data[i].first = b THEN d ELSE s.data[i].second
  <2>1. IsFilled(t, s, b, d, B, D)
    BY <1>1, FillStores
  <2> HIDE DEF t
  <2> QED
    BY <2>1 DEF IsFilled
<1> HIDE DEF t
<1>3. \A k \in DOMAIN t.data :
        t.data[k].second = IF t.data[k].first \in DOMAIN v THEN v[t.data[k].first] ELSE None
  BY <1>2 DEF HoldsAll
<1>4. HoldsAll(t, B, D, bs, v)
  BY <1>2, <1>3 DEF HoldsAll
<1> QED
  BY <1>4 DEF t

\* The bounds of a series that is not empty are buckets of it and delimit them.
LEMMA BoundsDelimit ==
  ASSUME NEW B \in SUBSET Nat, NEW D, NEW s \in SeriesOf(B, D), WellFormed(s), s.data # << >>
  PROVE  /\ ForeverBounds(s)[1] \in BucketsOf(s.data)
         /\ ForeverBounds(s)[2] \in BucketsOf(s.data)
         /\ \A b \in BucketsOf(s.data) : ForeverBounds(s)[1] <= b /\ b <= ForeverBounds(s)[2]
<1>1. s.data \in Seq([first : B, second : D \cup {None}])
  BY DEF SeriesOf
<1>2. 1 \in DOMAIN s.data /\ Len(s.data) \in DOMAIN s.data
  BY <1>1
<1>3. ForeverBounds(s)[1] = s.data[1].first /\ ForeverBounds(s)[2] = s.data[Len(s.data)].first
  BY DEF ForeverBounds, Newest, WellFormed
<1>4. \A i \in DOMAIN s.data :
        /\ i \in Nat /\ 1 <= i /\ i <= Len(s.data)
        /\ s.data[i].first \in Nat
  BY SlotsAreTyped
<1>5. \A i \in DOMAIN s.data :
        s.data[1].first <= s.data[i].first /\ s.data[i].first <= s.data[Len(s.data)].first
  <2> SUFFICES ASSUME NEW i \in DOMAIN s.data
               PROVE  /\ s.data[1].first <= s.data[i].first
                      /\ s.data[i].first <= s.data[Len(s.data)].first
    OBVIOUS
  <2>1. i = 1 \/ s.data[1].first < s.data[i].first
    BY <1>2, <1>4 DEF WellFormed
  <2>2. i = Len(s.data) \/ s.data[i].first < s.data[Len(s.data)].first
    <3>1. i < Len(s.data) \/ i = Len(s.data)
      BY <1>1, <1>4
    <3> QED
      BY <1>2, <3>1 DEF WellFormed
  <2> QED
    BY <1>2, <1>4, <2>1, <2>2
<1>6. /\ s.data[1].first \in BucketsOf(s.data)
      /\ s.data[Len(s.data)].first \in BucketsOf(s.data)
  BY <1>2 DEF BucketsOf
<1>7. \A b \in BucketsOf(s.data) :
        s.data[1].first <= b /\ b <= s.data[Len(s.data)].first
  BY <1>5 DEF BucketsOf
<1> QED
  BY <1>3, <1>6, <1>7

-----------------------------------------------------------------------------
(* Ranks: the order of a finite set as a numbering of it.                  *)

\* The members of I that come before i, or are i, in the order R.
UpTo(I, R, i) == {j \in I : <<j, i>> \in R}

Orders(R, I) ==
  /\ \A i, j \in I : <<i, j>> \in R \/ <<j, i>> \in R
  /\ \A i, j \in I : <<i, j>> \in R /\ <<j, i>> \in R => i = j
  /\ \A i, j, k \in I : <<i, j>> \in R /\ <<j, k>> \in R => <<i, k>> \in R

\* Every rank is taken, by one member, and follows the order.
Ranked(I, R) ==
  /\ Cardinality(I) \in Nat
  /\ \A i \in I : Cardinality(UpTo(I, R, i)) \in 1 .. Cardinality(I)
  /\ \A i, j \in I : Cardinality(UpTo(I, R, i)) = Cardinality(UpTo(I, R, j)) => i = j
  /\ \A i, j \in I : <<i, j>> \in R =>
                        Cardinality(UpTo(I, R, i)) <= Cardinality(UpTo(I, R, j))
  /\ \A n \in 1 .. Cardinality(I) : \E i \in I : Cardinality(UpTo(I, R, i)) = n

\* In a finite set that is totally ordered every rank is taken, by one member.
LEMMA Ranks ==
  ASSUME NEW I, IsFiniteSet(I), NEW R, Orders(R, I)
  PROVE  Ranked(I, R)
<1>0. Cardinality(I) \in Nat
  BY FS_CardinalityType
<1>1. ASSUME NEW i \in I
      PROVE  Cardinality(UpTo(I, R, i)) \in 1 .. Cardinality(I) /\ IsFiniteSet(UpTo(I, R, i))
  <2>1. UpTo(I, R, i) \in SUBSET I /\ i \in UpTo(I, R, i)
    BY DEF UpTo, Orders
  <2>2. /\ IsFiniteSet(UpTo(I, R, i))
        /\ Cardinality(UpTo(I, R, i)) <= Cardinality(I)
    BY <2>1, FS_Subset
  <2>3. Cardinality(UpTo(I, R, i)) \in Nat /\ Cardinality(UpTo(I, R, i)) # 0
    BY <2>1, <2>2, FS_CardinalityType, FS_EmptySet
  <2> QED
    BY <1>0, <2>2, <2>3
<1>2. ASSUME NEW i \in I, NEW j \in I, <<i, j>> \in R,
             Cardinality(UpTo(I, R, i)) = Cardinality(UpTo(I, R, j))
      PROVE  i = j
  <2>1. UpTo(I, R, i) \in SUBSET UpTo(I, R, j) /\ j \in UpTo(I, R, j)
    BY <1>2 DEF UpTo, Orders
  <2>2. UpTo(I, R, j) = UpTo(I, R, i)
    BY <1>1, <1>2, <2>1, FS_Subset
  <2>3. <<j, i>> \in R
    BY <2>1, <2>2 DEF UpTo
  <2> QED
    BY <1>2, <2>3 DEF Orders
<1>3. \A i, j \in I : Cardinality(UpTo(I, R, i)) = Cardinality(UpTo(I, R, j)) => i = j
  BY <1>2 DEF Orders
<1> DEFINE f == [i \in I |-> Cardinality(UpTo(I, R, i))]
<1>4. f \in Injection(I, 1 .. Cardinality(I))
  BY <1>1, <1>3 DEF Injection, IsInjective
<1>5. IsFiniteSet(1 .. Cardinality(I)) /\ Cardinality(1 .. Cardinality(I)) = Cardinality(I)
  BY <1>0, FS_Interval
<1>6. f \in Surjection(I, 1 .. Cardinality(I))
  <2> HIDE DEF f
  <2> QED
    BY <1>4, <1>5, FS_Injection
<1>7. \A n \in 1 .. Cardinality(I) : \E i \in I : f[i] = n
  <2> HIDE DEF f
  <2> QED
    BY <1>6 DEF Surjection
<1>8. ASSUME NEW i \in I, NEW j \in I, <<i, j>> \in R
      PROVE  Cardinality(UpTo(I, R, i)) <= Cardinality(UpTo(I, R, j))
  <2>1. UpTo(I, R, i) \in SUBSET UpTo(I, R, j)
    BY <1>8 DEF UpTo, Orders
  <2> QED
    BY <1>1, <2>1, FS_Subset
<1> QED
  BY <1>0, <1>1, <1>3, <1>7, <1>8 DEF Ranked

\* NthOf enumerates a finite set of naturals in increasing order.
LEMMA NthOfEnumerates ==
  ASSUME NEW I \in SUBSET Nat, IsFiniteSet(I)
  PROVE  /\ Cardinality(I) \in Nat
         /\ \A n \in 1 .. Cardinality(I) : NthOf(I, n) \in I
         /\ \A m, n \in 1 .. Cardinality(I) : NthOf(I, m) = NthOf(I, n) => m = n
         /\ \A i \in I : \E n \in 1 .. Cardinality(I) : NthOf(I, n) = i
<1> DEFINE R == {p \in Nat \X Nat : p[1] <= p[2]}
<1>1. Orders(R, I)
  BY DEF Orders
<1>2. \A i \in I : UpTo(I, R, i) = {j \in I : j <= i}
  BY DEF UpTo
<1> HIDE DEF R
<1> DEFINE rank(i) == Cardinality({j \in I : j <= i})
<1>3. \A i \in I : Cardinality(UpTo(I, R, i)) = rank(i)
  BY <1>2
<1>4. \A n : NthOf(I, n) = CHOOSE i \in I : rank(i) = n
  BY DEF NthOf
<1> HIDE DEF rank
<1>5. /\ Cardinality(I) \in Nat
      /\ \A i \in I : rank(i) \in 1 .. Cardinality(I)
      /\ \A i, j \in I : rank(i) = rank(j) => i = j
      /\ \A n \in 1 .. Cardinality(I) : \E i \in I : rank(i) = n
  <2>1. /\ Cardinality(I) \in Nat
        /\ \A i \in I : Cardinality(UpTo(I, R, i)) \in 1 .. Cardinality(I)
        /\ \A i, j \in I : Cardinality(UpTo(I, R, i)) = Cardinality(UpTo(I, R, j)) => i = j
        /\ \A n \in 1 .. Cardinality(I) : \E i \in I : Cardinality(UpTo(I, R, i)) = n
    <3>1. Ranked(I, R)
      BY <1>1, Ranks
    <3> QED
      BY <3>1 DEF Ranked
  <2> QED
    BY <1>3, <2>1, Zenon
<1>6. \A n \in 1 .. Cardinality(I) : NthOf(I, n) \in I /\ rank(NthOf(I, n)) = n
  BY <1>4, <1>5
<1>7. ASSUME NEW i \in I PROVE NthOf(I, rank(i)) = i
  BY <1>5, <1>6
<1> QED
  BY <1>5, <1>6, <1>7

RangeOf(q) == {q[i] : i \in DOMAIN q}

\* e lists the elements of q at the indices in I, each once.
Lists(e, q, I, S) ==
  /\ e \in Seq(S)
  /\ RangeOf(e) = {q[i] : i \in I}
  /\ \A m, n \in DOMAIN e :
       \E i, j \in I : e[m] = q[i] /\ e[n] = q[j] /\ (m # n => i # j)

\* The elements at the indices of I are listed, each once.
LEMMA ElementsAtAre ==
  ASSUME NEW I \in SUBSET Nat, IsFiniteSet(I), NEW q, NEW S, \A i \in I : q[i] \in S
  PROVE  Lists(ElementsAt(q, I), q, I, S)
<1> DEFINE e == ElementsAt(q, I)
           c == Cardinality(I)
<1>1. e = [n \in 1 .. c |-> q[NthOf(I, n)]]
  BY DEF ElementsAt
<1>2. /\ c \in Nat
      /\ \A n \in 1 .. c : NthOf(I, n) \in I
      /\ \A m, n \in 1 .. c : NthOf(I, m) = NthOf(I, n) => m = n
      /\ \A i \in I : \E n \in 1 .. c : NthOf(I, n) = i
  BY NthOfEnumerates
<1> HIDE DEF e, c
<1>4. e \in Seq(S) /\ DOMAIN e = 1 .. c
  <2>1. \A n \in 1 .. c : q[NthOf(I, n)] \in S
    BY <1>2
  <2> QED
    BY <1>1, <1>2, <2>1
<1>5. RangeOf(e) = {q[i] : i \in I}
  <2>1. \A n \in 1 .. c : e[n] = q[NthOf(I, n)]
    BY <1>1
  <2>2. ASSUME NEW i \in I PROVE \E n \in DOMAIN e : e[n] = q[i]
    BY <1>2, <1>4, <2>1
  <2>3. ASSUME NEW n \in DOMAIN e PROVE \E i \in I : e[n] = q[i]
    BY <1>2, <1>4, <2>1
  <2> QED
    BY <2>2, <2>3 DEF RangeOf
<1>6. ASSUME NEW m \in DOMAIN e, NEW n \in DOMAIN e
      PROVE  \E i, j \in I : e[m] = q[i] /\ e[n] = q[j] /\ (m # n => i # j)
  BY <1>1, <1>2
<1>7. Lists(e, q, I, S)
  BY <1>4, <1>5, <1>6 DEF Lists
<1> QED
  BY <1>7 DEF e

-----------------------------------------------------------------------------
(* What is extracted from a series and what merging makes of two.          *)

SlotsOf(B, D) == [first : B, second : D \cup {None}]

\* The bucket ids of a slot array strictly increase.
Ascending(data) == \A i, j \in DOMAIN data : i < j => data[i].first < data[j].first

\* No bucket has two slots.
OneSlotEach(data) == \A i, j \in DOMAIN data : i # j => data[i].first # data[j].first

\* A slot is the pair of its two fields.
LEMMA SlotFields ==
  ASSUME NEW B \in SUBSET Nat, NEW D, NEW data \in Seq(SlotsOf(B, D))
  PROVE  /\ IsFiniteSet(DOMAIN data) /\ DOMAIN data \in SUBSET Nat
         /\ DOMAIN data = 1 .. Len(data) /\ Cardinality(DOMAIN data) = Len(data)
         /\ \A i \in DOMAIN data :
              /\ data[i] \in SlotsOf(B, D)
              /\ data[i].first \in B /\ data[i].first \in Nat
              /\ data[i].second \in D \cup {None}
              /\ data[i] = Pair(data[i].first, data[i].second)
<1>1. DOMAIN data = 1 .. Len(data) /\ Len(data) \in Nat
  OBVIOUS
<1>2. IsFiniteSet(1 .. Len(data)) /\ Cardinality(1 .. Len(data)) = Len(data)
  <2>1. 1 \in Int /\ Len(data) \in Int
    BY <1>1
  <2>2. /\ IsFiniteSet(1 .. Len(data))
        /\ Cardinality(1 .. Len(data)) = IF 1 > Len(data) THEN 0 ELSE Len(data) - 1 + 1
    BY <2>1, FS_Interval
  <2> QED
    BY <1>1, <2>2
<1>3. ASSUME NEW r \in SlotsOf(B, D)
      PROVE  /\ r.first \in B /\ r.first \in Nat /\ r.second \in D \cup {None}
             /\ r = Pair(r.first, r.second)
  <2>1. r \in [first : B, second : D \cup {None}]
    BY DEF SlotsOf
  <2>2. r = [first |-> r.first, second |-> r.second]
    BY <2>1
  <2> QED
    BY <2>1, <2>2 DEF Pair
<1>4. \A i \in DOMAIN data : data[i] \in SlotsOf(B, D)
  OBVIOUS
<1> QED
  BY <1>1, <1>2, <1>3, <1>4

\* x lists the slots of s within the bounds, each once.
Extracts(x, s, lower, upper, S) ==
  /\ x \in Seq(S)
  /\ RangeOf(x) = {s.data[i] : i \in IndicesWithin(s.data, lower, upper)}
  /\ OneSlotEach(x)

\* What is extracted from a series in ascending order is its slots within the
\* bounds: none is refused and each keeps its datum.
LEMMA ExtractedAre ==
  ASSUME NEW B \in SUBSET Nat, NEW D, NEW s, s.data \in Seq(SlotsOf(B, D)), Ascending(s.data),
         NEW lower, NEW upper
  PROVE  Extracts(ExtractBounded(s, lower, upper).data, s, lower, upper, SlotsOf(B, D))
<1> DEFINE inside == IndicesWithin(s.data, lower, upper)
           kept == {i \in inside : \A j \in inside : j < i => s.data[j].first < s.data[i].first}
           data(b) == {i \in inside : s.data[i].first = b /\ IsSome(s.data[i].second)}
           datum(b) == IF data(b) = {} THEN None ELSE s.data[Max(data(b))].second
           again == [i \in inside |-> Pair(s.data[i].first, datum(s.data[i].first))]
<1>1. ExtractBounded(s, lower, upper).data = ElementsAt(again, kept)
  BY DEF ExtractBounded
<1>2. /\ IsFiniteSet(DOMAIN s.data) /\ DOMAIN s.data \in SUBSET Nat
      /\ \A i \in DOMAIN s.data :
           /\ s.data[i] \in SlotsOf(B, D) /\ s.data[i].first \in Nat
           /\ s.data[i] = Pair(s.data[i].first, s.data[i].second)
  BY SlotFields
<1>3. inside \in SUBSET DOMAIN s.data
  BY DEF IndicesWithin
<1>4. IsFiniteSet(inside) /\ inside \in SUBSET Nat
  BY <1>2, <1>3, FS_Subset
<1>5. \A i, j \in inside : s.data[i].first = s.data[j].first => i = j
  BY <1>2, <1>3 DEF Ascending
<1> HIDE DEF inside
<1>6. kept = inside
  BY <1>3 DEF Ascending
<1>7. ASSUME NEW i \in inside PROVE again[i] = s.data[i]
  <2> DEFINE b == s.data[i].first
  <2>1. datum(b) = s.data[i].second
    <3>1. CASE IsSome(s.data[i].second)
      <4>1. data(b) = {i}
        BY <1>5, <3>1
      <4>2. i \in Int
        BY <1>4
      <4>3. Max({i}) = i
        <5>1. i \in {i} /\ \A y \in {i} : i >= y
          BY <4>2
        <5> QED
          BY <5>1 DEF Max
      <4> QED
        BY <4>1, <4>3
    <3>2. CASE ~IsSome(s.data[i].second)
      <4>1. data(b) = {}
        BY <1>5, <3>2
      <4> QED
        BY <4>1, <3>2 DEF IsSome
    <3> QED
      BY <3>1, <3>2
  <2> HIDE DEF datum
  <2>2. again[i] = Pair(b, datum(b))
    OBVIOUS
  <2> QED
    BY <1>2, <1>3, <2>1, <2>2
<1> HIDE DEF kept, again
<1> DEFINE e == ElementsAt(again, inside)
<1>8. /\ e \in Seq(SlotsOf(B, D))
      /\ RangeOf(e) = {again[i] : i \in inside}
      /\ \A m, n \in DOMAIN e :
           \E i, j \in inside : e[m] = again[i] /\ e[n] = again[j] /\ (m # n => i # j)
  <2>1. \A i \in inside : again[i] \in SlotsOf(B, D)
    BY <1>2, <1>3, <1>7
  <2>2. Lists(e, again, inside, SlotsOf(B, D))
    BY <1>4, <2>1, ElementsAtAre
  <2> QED
    BY <2>2 DEF Lists
<1>9. {again[i] : i \in inside} = {s.data[i] : i \in inside}
  BY <1>7
<1>10. OneSlotEach(e)
  BY <1>5, <1>7, <1>8 DEF OneSlotEach
<1>11. RangeOf(e) = {s.data[i] : i \in inside}
  BY <1>8, <1>9
<1>12. ExtractBounded(s, lower, upper).data = e
  BY <1>1, <1>6
<1> HIDE DEF e
<1> QED
  BY <1>8, <1>10, <1>11, <1>12 DEF Extracts, inside

\* o is data in ascending order.
Sorted(o, data, S) ==
  /\ o \in Seq(S)
  /\ RangeOf(o) = RangeOf(data)
  /\ Ascending(o)

\* Slots of different buckets are put in ascending order, none is lost.
LEMMA InBucketOrderSorts ==
  ASSUME NEW B \in SUBSET Nat, NEW D, NEW data \in Seq(SlotsOf(B, D)), OneSlotEach(data)
  PROVE  Sorted(InBucketOrder(data), data, SlotsOf(B, D))
<1> DEFINE I == DOMAIN data
           R == {p \in I \X I : NotAfter(data, p[1], p[2])}
           o == InBucketOrder(data)
<1>1. /\ IsFiniteSet(I) /\ I \in SUBSET Nat
      /\ I = 1 .. Len(data) /\ Cardinality(I) = Len(data) /\ Len(data) \in Nat
      /\ \A i \in I : data[i] \in SlotsOf(B, D) /\ data[i].first \in Nat
  <2>1. Len(data) \in Nat
    OBVIOUS
  <2> HIDE DEF I
  <2>2. /\ IsFiniteSet(DOMAIN data) /\ DOMAIN data \in SUBSET Nat
        /\ DOMAIN data = 1 .. Len(data) /\ Cardinality(DOMAIN data) = Len(data)
        /\ \A i \in DOMAIN data : data[i] \in SlotsOf(B, D) /\ data[i].first \in Nat
    BY SlotFields, Zenon
  <2> QED
    BY <2>1, <2>2, Zenon DEF I
<1>2. \A i, j \in I : <<i, j>> \in R <=> NotAfter(data, i, j)
  OBVIOUS
<1>3. Orders(R, I)
  <2>1. \A i, j \in I : NotAfter(data, i, j) \/ NotAfter(data, j, i)
    BY <1>1 DEF NotAfter
  <2>2. \A i, j \in I : NotAfter(data, i, j) /\ NotAfter(data, j, i) => i = j
    BY <1>1 DEF NotAfter
  <2>3. \A i, j, k \in I : NotAfter(data, i, j) /\ NotAfter(data, j, k) => NotAfter(data, i, k)
    BY <1>1 DEF NotAfter
  <2> HIDE DEF R, I
  <2> QED
    BY <1>2, <2>1, <2>2, <2>3 DEF Orders
<1>4. \A j \in I : UpTo(I, R, j) = {i \in I : NotAfter(data, i, j)}
  BY <1>2 DEF UpTo
<1> HIDE DEF R
<1> DEFINE rank(j) == Cardinality({i \in I : NotAfter(data, i, j)})
           place(n) == CHOOSE j \in I : rank(j) = n
<1>5. \A j \in I : Cardinality(UpTo(I, R, j)) = rank(j)
  BY <1>4
<1>6. o = [n \in I |-> data[place(n)]]
  BY DEF InBucketOrder
<1> HIDE DEF o, rank, I
<1>7. /\ \A i \in I : rank(i) \in 1 .. Len(data)
      /\ \A i, j \in I : rank(i) = rank(j) => i = j
      /\ \A i, j \in I : NotAfter(data, i, j) => rank(i) <= rank(j)
      /\ \A n \in 1 .. Len(data) : \E i \in I : rank(i) = n
  <2>1. Ranked(I, R)
    BY <1>1, <1>3, Ranks
  <2>2. /\ \A i \in I : rank(i) \in 1 .. Cardinality(I)
        /\ \A i, j \in I : rank(i) = rank(j) => i = j
        /\ \A i, j \in I : <<i, j>> \in R => rank(i) <= rank(j)
        /\ \A n \in 1 .. Cardinality(I) : \E i \in I : rank(i) = n
    <3>1. /\ \A i \in I : Cardinality(UpTo(I, R, i)) \in 1 .. Cardinality(I)
          /\ \A i, j \in I : Cardinality(UpTo(I, R, i)) = Cardinality(UpTo(I, R, j)) => i = j
          /\ \A i, j \in I : <<i, j>> \in R =>
                        Cardinality(UpTo(I, R, i)) <= Cardinality(UpTo(I, R, j))
          /\ \A n \in 1 .. Cardinality(I) : \E i \in I : Cardinality(UpTo(I, R, i)) = n
      BY <2>1 DEF Ranked
    <3>2. \A i \in I : rank(i) \in 1 .. Cardinality(I)
      BY <1>5, <3>1, Zenon
    <3>3. ASSUME NEW i \in I, NEW j \in I
          PROVE  /\ rank(i) = rank(j) => i = j
                 /\ <<i, j>> \in R => rank(i) <= rank(j)
      <4> DEFINE Before(x) == Cardinality(UpTo(I, R, x))
      <4>1. Before(i) = rank(i) /\ Before(j) = rank(j)
        BY <1>5
      <4>2. /\ Before(i) = Before(j) => i = j
            /\ <<i, j>> \in R => Before(i) <= Before(j)
        BY <3>1
      <4> HIDE DEF Before
      <4> QED
        BY <4>1, <4>2
    <3>4. ASSUME NEW n \in 1 .. Cardinality(I)
          PROVE  \E i \in I : rank(i) = n
      <4>1. PICK i \in I : Cardinality(UpTo(I, R, i)) = n
        BY <3>1
      <4> QED
        BY <1>5, <4>1
    <3> QED
      BY <3>2, <3>3, <3>4
  <2> QED
    BY <1>1, <1>2, <2>2, Zenon
<1>8. \A n \in I : place(n) \in I /\ rank(place(n)) = n
  BY <1>1, <1>7
<1>9. \A i \in I : rank(i) \in I /\ place(rank(i)) = i
  BY <1>1, <1>7, <1>8
<1> HIDE DEF place
<1>10. o \in Seq(SlotsOf(B, D)) /\ DOMAIN o = I
  <2>1. \A n \in 1 .. Len(data) : data[place(n)] \in SlotsOf(B, D)
    BY <1>1, <1>8
  <2> QED
    BY <1>1, <1>6, <2>1
<1>11. \A n \in I : o[n] = data[place(n)]
  BY <1>6
<1>12. RangeOf(o) = RangeOf(data)
  <2>1. \A n \in I : \E i \in I : o[n] = data[i]
    BY <1>8, <1>11
  <2>2. \A i \in I : \E n \in I : o[n] = data[i]
    BY <1>9, <1>11
  <2> QED
    BY <1>10, <2>1, <2>2 DEF RangeOf, I
<1>13. ASSUME NEW m \in I, NEW n \in I, m < n
       PROVE  o[m].first < o[n].first
  <2>1. /\ m \in Nat /\ n \in Nat
        /\ place(m) \in I /\ place(n) \in I
        /\ rank(place(m)) = m /\ rank(place(n)) = n
    BY <1>1, <1>8
  <2>2. ~NotAfter(data, place(n), place(m))
    <3>1. NotAfter(data, place(n), place(m)) => rank(place(n)) <= rank(place(m))
      BY <1>7, <2>1, Zenon
    <3>2. NotAfter(data, place(n), place(m)) => n <= m
      BY <2>1, <3>1, Zenon
    <3> QED
      BY <1>13, <2>1, <3>2
  <2>3. data[place(m)].first \in Nat /\ data[place(n)].first \in Nat
    BY <1>1, <2>1
  <2>4. data[place(m)].first # data[place(n)].first
    BY <1>13, <2>1 DEF OneSlotEach, I
  <2>5. data[place(m)].first < data[place(n)].first
    BY <2>2, <2>3, <2>4 DEF NotAfter
  <2> QED
    BY <1>11, <2>5
<1> QED
  BY <1>10, <1>12, <1>13 DEF Sorted, Ascending, o

\* u is s with the slots in R merged in.
MergedWith(u, s, R, B, D) ==
  /\ u \in SeriesOf(B, D)
  /\ Ascending(u.data)
  /\ RangeOf(u.data) = RangeOf(s.data) \cup R

\* Ascending slots and others of other buckets are slots of different buckets.
LEMMA Concatenated ==
  ASSUME NEW B \in SUBSET Nat, NEW D, NEW p \in Seq(SlotsOf(B, D)), NEW q \in Seq(SlotsOf(B, D)),
         OneSlotEach(p), OneSlotEach(q), BucketsOf(p) \cap BucketsOf(q) = {}
  PROVE  /\ p \o q \in Seq(SlotsOf(B, D))
         /\ OneSlotEach(p \o q)
         /\ RangeOf(p \o q) = RangeOf(p) \cup RangeOf(q)
<1> DEFINE r == p \o q
           S == SlotsOf(B, D)
<1>1. r \in Seq(S) /\ DOMAIN r = 1 .. (Len(p) + Len(q)) /\ Len(p) \in Nat /\ Len(q) \in Nat
      /\ DOMAIN p = 1 .. Len(p) /\ DOMAIN q = 1 .. Len(q)
  OBVIOUS
<1>2. /\ \A i \in DOMAIN p : i \in DOMAIN r /\ r[i] = p[i]
      /\ \A i \in DOMAIN q : Len(p) + i \in DOMAIN r /\ r[Len(p) + i] = q[i]
  OBVIOUS
<1>3. \A i \in DOMAIN r : i \in DOMAIN p \/ \E j \in DOMAIN q : i = Len(p) + j
  <2> SUFFICES ASSUME NEW i \in DOMAIN r, i \notin DOMAIN p
               PROVE  \E j \in DOMAIN q : i = Len(p) + j
    OBVIOUS
  <2>1. i - Len(p) \in DOMAIN q /\ i = Len(p) + (i - Len(p))
    BY <1>1
  <2> QED
    BY <2>1
<1>4. \A i \in DOMAIN p, j \in DOMAIN q : p[i].first # q[j].first
  BY DEF BucketsOf
<1> HIDE DEF r, S
<1>5. RangeOf(r) = RangeOf(p) \cup RangeOf(q)
  <2>1. \A i \in DOMAIN r : r[i] \in RangeOf(p) \cup RangeOf(q)
    BY <1>2, <1>3 DEF RangeOf
  <2>2. \A i \in DOMAIN p : p[i] \in RangeOf(r)
    BY <1>2 DEF RangeOf
  <2>3. \A i \in DOMAIN q : q[i] \in RangeOf(r)
    BY <1>2 DEF RangeOf
  <2> QED
    BY <2>1, <2>2, <2>3 DEF RangeOf
<1>6. ASSUME NEW i \in DOMAIN r, NEW j \in DOMAIN r, i # j
      PROVE  r[i].first # r[j].first
  <2>1. CASE i \in DOMAIN p /\ j \in DOMAIN p
    BY <1>2, <1>6, <2>1 DEF OneSlotEach
  <2>2. CASE i \in DOMAIN p /\ j \notin DOMAIN p
    BY <1>2, <1>3, <1>4, <2>2
  <2>3. CASE i \notin DOMAIN p /\ j \in DOMAIN p
    BY <1>2, <1>3, <1>4, <2>3
  <2>4. CASE i \notin DOMAIN p /\ j \notin DOMAIN p
    <3>1. PICK a, b \in DOMAIN q : i = Len(p) + a /\ j = Len(p) + b
      BY <1>3, <2>4
    <3>2. a # b
      BY <1>6, <3>1
    <3> QED
      BY <1>2, <3>1, <3>2 DEF OneSlotEach
  <2> QED
    BY <2>1, <2>2, <2>3, <2>4
<1> QED
  BY <1>1, <1>5, <1>6 DEF OneSlotEach, r, S

\* No bucket has two slots where the buckets strictly increase.
LEMMA AscendingSlots ==
  ASSUME NEW B \in SUBSET Nat, NEW D, NEW q \in Seq(SlotsOf(B, D)), Ascending(q)
  PROVE  OneSlotEach(q)
<1>1. \A i \in DOMAIN q : i \in Nat /\ q[i].first \in Nat
  BY SlotFields
<1> QED
  BY <1>1 DEF Ascending, OneSlotEach

\* Merging slots of buckets that the series does not have.
LEMMA Merges ==
  ASSUME NEW B \in SUBSET Nat, NEW D, NEW s \in SeriesOf(B, D), Ascending(s.data),
         NEW q \in Seq(SlotsOf(B, D)), OneSlotEach(q), BucketsOf(s.data) \cap BucketsOf(q) = {}
  PROVE  MergedWith([s EXCEPT !.data = InBucketOrder(@ \o q)], s, RangeOf(q), B, D)
<1>1. s.data \in Seq(SlotsOf(B, D)) /\ s = [data |-> s.data, empty |-> s.empty] /\ s.empty \in BOOLEAN
  BY DEF SeriesOf, SlotsOf
<1>2. OneSlotEach(s.data)
  BY <1>1, AscendingSlots
<1> DEFINE r == s.data \o q
           o == InBucketOrder(r)
           u == [s EXCEPT !.data = o]
<1>3. r \in Seq(SlotsOf(B, D)) /\ OneSlotEach(r) /\ RangeOf(r) = RangeOf(s.data) \cup RangeOf(q)
  BY <1>1, <1>2, Concatenated
<1>4. Sorted(o, r, SlotsOf(B, D))
  <2> HIDE DEF r
  <2> QED
    BY <1>3, InBucketOrderSorts
<1> HIDE DEF r, o
<1>5. u = [data |-> o, empty |-> s.empty]
  BY <1>1
<1>6. MergedWith(u, s, RangeOf(q), B, D)
  BY <1>1, <1>3, <1>4, <1>5 DEF MergedWith, Sorted, SeriesOf, SlotsOf
<1> QED
  BY <1>6 DEF r, o

\* Append merges all slots of the other series.
LEMMA AppendMerges ==
  ASSUME NEW B \in SUBSET Nat, NEW D, NEW s \in SeriesOf(B, D), Ascending(s.data),
         NEW t \in SeriesOf(B, D), Ascending(t.data),
         BucketsOf(s.data) \cap BucketsOf(t.data) = {}
  PROVE  MergedWith(ForeverAppend(s, t), s, RangeOf(t.data), B, D)
<1>1. t.data \in Seq(SlotsOf(B, D))
  BY DEF SeriesOf, SlotsOf
<1>2. OneSlotEach(t.data)
  BY <1>1, AscendingSlots
<1> QED
  BY <1>1, <1>2, Merges DEF ForeverAppend

\* BoundedAppend merges those within the bounds.
LEMMA BoundedAppendMerges ==
  ASSUME NEW B \in SUBSET Nat, NEW D, NEW s \in SeriesOf(B, D), Ascending(s.data),
         NEW t \in SeriesOf(B, D), Ascending(t.data),
         BucketsOf(s.data) \cap BucketsOf(t.data) = {},
         NEW lower, NEW upper
  PROVE  MergedWith(ForeverBoundedAppend(s, t, lower, upper), s,
                    {t.data[i] : i \in IndicesWithin(t.data, lower, upper)}, B, D)
<1> DEFINE I == IndicesWithin(t.data, lower, upper)
           q == ElementsAt(t.data, I)
<1>1. t.data \in Seq(SlotsOf(B, D))
  BY DEF SeriesOf, SlotsOf
<1>2. /\ IsFiniteSet(DOMAIN t.data) /\ DOMAIN t.data \in SUBSET Nat
      /\ \A i \in DOMAIN t.data : t.data[i] \in SlotsOf(B, D)
  BY <1>1, SlotFields
<1>3. I \in SUBSET DOMAIN t.data
  BY DEF IndicesWithin
<1> HIDE DEF I
<1>4. I \in SUBSET Nat /\ IsFiniteSet(I) /\ \A i \in I : t.data[i] \in SlotsOf(B, D)
  BY <1>2, <1>3, FS_Subset
<1>5. Lists(q, t.data, I, SlotsOf(B, D))
  BY <1>4, ElementsAtAre
<1> HIDE DEF q
<1>6. OneSlotEach(t.data)
  BY <1>1, AscendingSlots
<1>7. q \in Seq(SlotsOf(B, D)) /\ OneSlotEach(q) /\ RangeOf(q) = {t.data[i] : i \in I}
  BY <1>3, <1>5, <1>6 DEF Lists, OneSlotEach
<1>8. BucketsOf(q) \subseteq BucketsOf(t.data)
  BY <1>3, <1>5 DEF Lists, BucketsOf
<1>9. BucketsOf(s.data) \cap BucketsOf(q) = {}
  BY <1>8
<1>10. MergedWith([s EXCEPT !.data = InBucketOrder(@ \o q)], s, RangeOf(q), B, D)
  BY <1>7, <1>9, Merges
<1> QED
  BY <1>7, <1>10 DEF ForeverBoundedAppend, Within, I, q

\* The slots of q that are filled.
MeasuredIn(q) == {x \in RangeOf(q) : IsSome(x.second)}

\* t has one measured slot more than s, of a bucket that had none.
MeasuresOneMore(t, s, b, d) ==
  /\ MeasuredIn(t.data) = MeasuredIn(s.data) \cup {Pair(b, d)}
  /\ \A x \in MeasuredIn(s.data) : x.first # b

\* Filling a slot that was not filled adds one measured slot.
LEMMA FillMeasures ==
  ASSUME NEW B \in SUBSET Nat, NEW D, None \notin D, NEW s \in SeriesOf(B, D), WellFormed(s),
         NEW b \in BucketsOf(s.data), ~IsSome(s.data[FirstSlot(s.data, b)].second), NEW d \in D
  PROVE  MeasuresOneMore(ForeverFill(s, b, d), s, b, d)
<1> DEFINE t == ForeverFill(s, b, d)
<1>1. PICK k \in DOMAIN s.data : s.data[k].first = b
  BY DEF BucketsOf
<1>2. /\ \A i \in DOMAIN s.data : s.data[i].first = b => i = k
      /\ s.data[k].second = None
  <2>1. /\ FirstSlot(s.data, b) = k
        /\ \A i \in DOMAIN s.data : s.data[i].first = b => FirstSlot(s.data, b) = i
    BY <1>1, FirstSlotIs
  <2> QED
    BY <2>1 DEF IsSome
<1>3. b \in Nat
  BY <1>1, SlotsAreTyped
<1>4. IsFilled(t, s, b, d, B, D)
  BY <1>3, FillStores
<1> HIDE DEF t
<1>5. /\ t.data \in Seq(SlotsOf(B, D)) /\ s.data \in Seq(SlotsOf(B, D)) /\ DOMAIN t.data = DOMAIN s.data
      /\ \A i \in DOMAIN s.data :
           /\ t.data[i].first = s.data[i].first
           /\ t.data[i].second = IF s.data[i].first = b THEN d ELSE s.data[i].second
  BY <1>4 DEF IsFilled, SeriesOf, SlotsOf
<1>6. \A i \in DOMAIN s.data : /\ s.data[i] = Pair(s.data[i].first, s.data[i].second)
                             /\ t.data[i] = Pair(t.data[i].first, t.data[i].second)
  <2>1. s.data \in Seq(SlotsOf(B, D)) /\ t.data \in Seq(SlotsOf(B, D))
    BY <1>5
  <2>2. \A i \in DOMAIN s.data : s.data[i] = Pair(s.data[i].first, s.data[i].second)
    BY <2>1, SlotFields
  <2>3. \A i \in DOMAIN t.data : t.data[i] = Pair(t.data[i].first, t.data[i].second)
    BY <2>1, SlotFields
  <2> QED
    BY <1>5, <2>2, <2>3
<1>7. /\ t.data[k] = Pair(b, d)
      /\ \A i \in DOMAIN s.data : i # k => t.data[i] = s.data[i]
  BY <1>1, <1>2, <1>5, <1>6
<1>8. IsSome(d) /\ Pair(b, d).second = d /\ ~IsSome(s.data[k].second)
  BY <1>2 DEF IsSome, Pair
<1>9. MeasuredIn(t.data) = MeasuredIn(s.data) \cup {Pair(b, d)}
  <2>1. ASSUME NEW x \in MeasuredIn(t.data)
        PROVE  x \in MeasuredIn(s.data) \cup {Pair(b, d)}
    BY <1>5, <1>7 DEF MeasuredIn, RangeOf
  <2>2. ASSUME NEW x \in MeasuredIn(s.data)
        PROVE  x \in MeasuredIn(t.data)
    <3>1. PICK i \in DOMAIN s.data : x = s.data[i] /\ IsSome(s.data[i].second)
      BY DEF MeasuredIn, RangeOf
    <3>2. i # k
      BY <1>8, <3>1
    <3> QED
      BY <1>5, <1>7, <3>1, <3>2 DEF MeasuredIn, RangeOf
  <2>3. Pair(b, d) \in MeasuredIn(t.data)
    BY <1>1, <1>5, <1>7, <1>8 DEF MeasuredIn, RangeOf
  <2> QED
    BY <2>1, <2>2, <2>3
<1>10. ASSUME NEW x \in MeasuredIn(s.data) PROVE x.first # b
  BY <1>2, <1>8 DEF MeasuredIn, RangeOf
<1> QED
  BY <1>9, <1>10 DEF t, MeasuresOneMore

-----------------------------------------------------------------------------
(* Statistics. *)

\* v has as many values in P as there are slots in M that are filled with one of P.
AsManyIn(P, v, M) ==
  Cardinality({n \in DOMAIN v : v[n] \in P}) = Cardinality({x \in M : x.second \in P})

\* v has the data of the slots in M, each as often as it occurs there.
HasDataOf(v, M, D) ==
  /\ v \in Seq(D)
  /\ IsFiniteSet(M) /\ \A x \in M : x.second \in D
  /\ \A P : AsManyIn(P, v, M)

\* The values that the statistics are computed of are those of the filled slots.
LEMMA ActualValuesAre ==
  ASSUME NEW B \in SUBSET Nat, NEW D, None \notin D, NEW data \in Seq(SlotsOf(B, D)),
         OneSlotEach(data)
  PROVE  HasDataOf(ActualValues(data), MeasuredIn(data), D)
<1> DEFINE I == {i \in DOMAIN data : IsSome(data[i].second)}
           c == Cardinality(I)
           v == ActualValues(data)
           h == [n \in 1 .. c |-> data[NthOf(I, n)]]
<1>1. /\ I \in SUBSET Nat /\ IsFiniteSet(I) /\ I \subseteq DOMAIN data
      /\ \A i \in I : data[i].second \in D
  <2>1. IsFiniteSet(DOMAIN data) /\ DOMAIN data \in SUBSET Nat
        /\ \A i \in DOMAIN data : data[i].second \in D \cup {None}
    BY SlotFields
  <2>2. IsFiniteSet(I)
    BY <2>1, FS_Subset
  <2> QED
    BY <2>1, <2>2 DEF IsSome
<1>2. MeasuredIn(data) = {data[i] : i \in I}
  BY DEF MeasuredIn, RangeOf
<1>3. v = [n \in 1 .. c |-> GetValues(data)[NthOf(I, n)]]
  BY DEF ActualValues, ElementsAt
<1>4. /\ c \in Nat
      /\ \A n \in 1 .. c : NthOf(I, n) \in I
      /\ \A m, n \in 1 .. c : NthOf(I, m) = NthOf(I, n) => m = n
      /\ \A i \in I : \E n \in 1 .. c : NthOf(I, n) = i
  BY <1>1, NthOfEnumerates
<1> HIDE DEF I, c, v, h
<1>5. \A n \in 1 .. c : h[n] = data[NthOf(I, n)] /\ v[n] = h[n].second
  BY <1>1, <1>3, <1>4 DEF GetValues, h
<1>6. v \in Seq(D) /\ DOMAIN v = 1 .. c
  <2>1. \A n \in 1 .. c : GetValues(data)[NthOf(I, n)] \in D
    BY <1>1, <1>4 DEF GetValues
  <2> QED
    BY <1>3, <1>4, <2>1
<1>7. ASSUME NEW m \in 1 .. c, NEW n \in 1 .. c, h[m] = h[n]
      PROVE  m = n
  <2>1. NthOf(I, m) \in DOMAIN data /\ NthOf(I, n) \in DOMAIN data
    BY <1>1, <1>4
  <2>2. data[NthOf(I, m)] = data[NthOf(I, n)]
    BY <1>5, <1>7
  <2>3. NthOf(I, m) = NthOf(I, n)
    BY <2>1, <2>2 DEF OneSlotEach
  <2> QED
    BY <1>4, <2>3
<1>8. MeasuredIn(data) = {h[n] : n \in 1 .. c}
  <2>1. \A n \in 1 .. c : h[n] \in MeasuredIn(data)
    BY <1>2, <1>4, <1>5
  <2>2. ASSUME NEW x \in MeasuredIn(data) PROVE \E n \in 1 .. c : h[n] = x
    BY <1>2, <1>4, <1>5
  <2> QED
    BY <2>1, <2>2
<1>9. IsFiniteSet(1 .. c)
  BY <1>4, FS_Interval
<1>10. IsFiniteSet(MeasuredIn(data))
  <2>1. h \in Surjection(1 .. c, MeasuredIn(data))
    <3>1. h \in [1 .. c -> MeasuredIn(data)]
      BY <1>8 DEF h
    <3> QED
      BY <1>8, <3>1 DEF Surjection
  <2> QED
    BY <1>9, <2>1, FS_Surjection
<1>11. ASSUME NEW P
       PROVE  AsManyIn(P, v, MeasuredIn(data))
  <2> DEFINE N == {n \in DOMAIN v : v[n] \in P}
             M == {x \in MeasuredIn(data) : x.second \in P}
             g == [n \in N |-> h[n]]
  <2>1. \A n \in N : n \in 1 .. c /\ h[n] \in M
    BY <1>5, <1>6, <1>8
  <2>2. ASSUME NEW x \in M PROVE \E n \in N : h[n] = x
    BY <1>5, <1>6, <1>8
  <2>3. IsFiniteSet(N)
    BY <1>6, <1>9, FS_Subset
  <2>4. AsManyIn(P, v, MeasuredIn(data)) <=> Cardinality(N) = Cardinality(M)
    BY DEF AsManyIn
  <2> HIDE DEF N, M
  <2>5. g \in Injection(N, M)
    BY <1>7, <2>1 DEF Injection, IsInjective
  <2>6. g \in Surjection(N, M)
    BY <2>1, <2>2 DEF Surjection
  <2> HIDE DEF g
  <2>7. Cardinality(M) = Cardinality(N)
    BY <2>3, <2>5, <2>6, FS_Surjection
  <2> QED
    BY <2>4, <2>7
<1>12. \A x \in MeasuredIn(data) : x.second \in D
  BY <1>1, <1>2
<1> QED
  BY <1>6, <1>10, <1>11, <1>12 DEF HasDataOf, v

\* The number of elements up to the one at j, in ascending order.
Rank(q, j) == Cardinality({i \in DOMAIN q : GoesBefore(q, i, j)})

\* Ranks and places are inverse to each other and the ranks follow the order.
Placed(q) ==
  /\ \A n \in DOMAIN q : Place(q, n) \in DOMAIN q /\ Rank(q, Place(q, n)) = n
  /\ \A i \in DOMAIN q : Rank(q, i) \in DOMAIN q /\ Place(q, Rank(q, i)) = i
  /\ \A i, j \in DOMAIN q : GoesBefore(q, i, j) => Rank(q, i) <= Rank(q, j)

\* Every element has a place, and every place an element.
LEMMA ElementsArePlaced ==
  ASSUME NEW q \in Seq(Nat)
  PROVE  Placed(q)
<1> DEFINE I == DOMAIN q
           R == {p \in I \X I : GoesBefore(q, p[1], p[2])}
<1>1. /\ I = 1 .. Len(q) /\ Len(q) \in Nat /\ I \in SUBSET Nat
      /\ \A i \in I : q[i] \in Nat /\ i \in Nat
  OBVIOUS
<1>2. IsFiniteSet(I) /\ Cardinality(I) = Len(q)
  <2>1. /\ IsFiniteSet(1 .. Len(q))
        /\ Cardinality(1 .. Len(q)) = IF 1 > Len(q) THEN 0 ELSE Len(q) - 1 + 1
    <3>1. 1 \in Int /\ Len(q) \in Int
      BY <1>1
    <3> QED
      BY <3>1, FS_Interval
  <2> QED
    BY <1>1, <2>1
<1>3. \A i, j \in I : <<i, j>> \in R <=> GoesBefore(q, i, j)
  OBVIOUS
<1>4. Orders(R, I)
  <2>1. \A i, j \in I : GoesBefore(q, i, j) \/ GoesBefore(q, j, i)
    BY <1>1 DEF GoesBefore
  <2>2. \A i, j \in I : GoesBefore(q, i, j) /\ GoesBefore(q, j, i) => i = j
    BY <1>1 DEF GoesBefore
  <2>3. \A i, j, k \in I : GoesBefore(q, i, j) /\ GoesBefore(q, j, k) => GoesBefore(q, i, k)
    BY <1>1 DEF GoesBefore
  <2> HIDE DEF R, I
  <2> QED
    BY <1>3, <2>1, <2>2, <2>3 DEF Orders
<1>5. \A j \in I : UpTo(I, R, j) = {i \in I : GoesBefore(q, i, j)}
  BY <1>3 DEF UpTo
<1>6. \A n : Place(q, n) = CHOOSE j \in I : Rank(q, j) = n
  BY DEF Place, Rank
<1> HIDE DEF R
<1>7. \A j \in I : Cardinality(UpTo(I, R, j)) = Rank(q, j)
  BY <1>5 DEF Rank
<1> HIDE DEF I
<1>8. /\ \A i \in I : Rank(q, i) \in I
      /\ \A i, j \in I : Rank(q, i) = Rank(q, j) => i = j
      /\ \A i, j \in I : GoesBefore(q, i, j) => Rank(q, i) <= Rank(q, j)
      /\ \A n \in I : \E i \in I : Rank(q, i) = n
  <2>1. Ranked(I, R)
    BY <1>2, <1>4, Ranks
  <2>2. /\ \A i \in I : Cardinality(UpTo(I, R, i)) \in 1 .. Cardinality(I)
        /\ \A i, j \in I : Cardinality(UpTo(I, R, i)) = Cardinality(UpTo(I, R, j)) => i = j
        /\ \A i, j \in I : <<i, j>> \in R =>
                      Cardinality(UpTo(I, R, i)) <= Cardinality(UpTo(I, R, j))
        /\ \A n \in 1 .. Cardinality(I) : \E i \in I : Cardinality(UpTo(I, R, i)) = n
    BY <2>1 DEF Ranked
  <2>3. /\ \A i \in I : Rank(q, i) \in 1 .. Cardinality(I)
        /\ \A i, j \in I : Rank(q, i) = Rank(q, j) => i = j
        /\ \A i, j \in I : <<i, j>> \in R => Rank(q, i) <= Rank(q, j)
        /\ \A n \in 1 .. Cardinality(I) : \E i \in I : Rank(q, i) = n
    <3>1. \A i \in I : Rank(q, i) \in 1 .. Cardinality(I)
      BY <1>7, <2>2, Zenon
    <3>2. ASSUME NEW i \in I, NEW j \in I
          PROVE  /\ Rank(q, i) = Rank(q, j) => i = j
                 /\ <<i, j>> \in R => Rank(q, i) <= Rank(q, j)
      <4> DEFINE Before(k) == Cardinality(UpTo(I, R, k))
      <4>1. Before(i) = Rank(q, i) /\ Before(j) = Rank(q, j)
        BY <1>7
      <4>2. /\ Before(i) = Before(j) => i = j
            /\ <<i, j>> \in R => Before(i) <= Before(j)
        BY <2>2
      <4> HIDE DEF Before
      <4> QED
        BY <4>1, <4>2
    <3>3. ASSUME NEW n \in 1 .. Cardinality(I)
          PROVE  \E i \in I : Rank(q, i) = n
      <4>1. PICK i \in I : Cardinality(UpTo(I, R, i)) = n
        BY <2>2
      <4> QED
        BY <1>7, <4>1
    <3> QED
      BY <3>1, <3>2, <3>3
  <2>4. 1 .. Cardinality(I) = I
    BY <1>1, <1>2 DEF I
  <2> QED
    BY <1>3, <2>3, <2>4
<1>9. \A n \in I : Place(q, n) \in I /\ Rank(q, Place(q, n)) = n
  BY <1>6, <1>8
<1>10. \A i \in I : Place(q, Rank(q, i)) = i
  BY <1>8, <1>9
<1> QED
  BY <1>8, <1>9, <1>10 DEF Placed, I

\* In ascending order there are the same elements, each not greater than the next.
LEMMA AscendingElements ==
  ASSUME NEW q \in Seq(Nat)
  PROVE  /\ InAscendingOrder(q) \in Seq(Nat)
         /\ Len(InAscendingOrder(q)) = Len(q)
         /\ \A n \in DOMAIN q : InAscendingOrder(q)[n] = q[Place(q, n)]
<1>1. DOMAIN q = 1 .. Len(q) /\ Len(q) \in Nat /\ \A i \in DOMAIN q : q[i] \in Nat
  OBVIOUS
<1>2. \A n \in 1 .. Len(q) : q[Place(q, n)] \in Nat
  BY <1>1, ElementsArePlaced DEF Placed
<1>3. InAscendingOrder(q) = [n \in 1 .. Len(q) |-> q[Place(q, n)]]
  BY <1>1 DEF InAscendingOrder
<1> HIDE DEF InAscendingOrder
<1> QED
  BY <1>1, <1>2, <1>3

\* CalculatePercentile gives the percentile of any data for any percentage
\* that the program accepts, if there are data.
THEOREM PercentileIsCorrect ==
  ASSUME NEW q \in Seq(Nat), q # << >>, NEW p \in 1 .. 99
  PROVE  IsPercentile(CalculatePercentile(q, p), q, p)
<1> DEFINE w == p * Len(q)
           k == w \div 100 + 1
           j == Place(q, k)
           r == CalculatePercentile(q, p)
<1>1. /\ DOMAIN q = 1 .. Len(q) /\ Len(q) \in Nat /\ Len(q) >= 1
      /\ \A i \in DOMAIN q : q[i] \in Nat /\ i \in Nat
      /\ p \in Nat /\ 1 <= p /\ p <= 99
  OBVIOUS
<1>2. w \in Nat /\ w <= 99 * Len(q)
  BY <1>1
<1> HIDE DEF w
<1>3. /\ k \in Nat /\ 1 <= k /\ k <= Len(q)
      /\ w \div 100 \in Nat /\ 100 * (w \div 100) <= w /\ w < 100 * k
  BY <1>1, <1>2
<1>4. r = InAscendingOrder(q)[k]
  BY <1>1, <1>2, <1>3 DEF CalculatePercentile, w
<1> HIDE DEF k, r
<1>5. k \in DOMAIN q
  BY <1>1, <1>3
<1>6. j \in DOMAIN q /\ Rank(q, j) = k /\ r = q[j]
  BY <1>4, <1>5, AscendingElements, ElementsArePlaced DEF Placed
<1> HIDE DEF j
<1> DEFINE before == {i \in DOMAIN q : GoesBefore(q, i, j)}
           less == {i \in DOMAIN q : q[i] < r}
           upto == {i \in DOMAIN q : q[i] <= r}
           same == {i \in DOMAIN q : q[i] = r}
<1>7. IsFiniteSet(DOMAIN q)
  <2>1. 1 \in Int /\ Len(q) \in Int
    BY <1>1
  <2> QED
    BY <1>1, <2>1, FS_Interval
<1>8. IsFiniteSet(before) /\ Cardinality(before) = k /\ j \in before
  <2>1. before \in SUBSET DOMAIN q
    OBVIOUS
  <2>2. j \in before
    BY <1>1, <1>6 DEF GoesBefore
  <2>3. Cardinality(before) = k
    BY <1>6 DEF Rank
  <2> QED
    BY <1>7, <2>1, <2>2, <2>3, FS_Subset
<1>9. 100 * Cardinality(less) <= w
  <2>1. less \in SUBSET (before \ {j})
    BY <1>1, <1>6 DEF GoesBefore
  <2> HIDE DEF less, before
  <2>2. IsFiniteSet(before \ {j}) /\ Cardinality(before \ {j}) = k - 1
    BY <1>8, FS_RemoveElement
  <2>3. IsFiniteSet(less) /\ Cardinality(less) <= k - 1
    BY <2>1, <2>2, FS_Subset
  <2>4. Cardinality(less) \in Nat
    BY <2>3, FS_CardinalityType
  <2>5. k - 1 = w \div 100
    BY <1>3 DEF k
  <2> QED
    BY <1>2, <1>3, <2>3, <2>4, <2>5
<1>10. 100 * Cardinality(upto) > w
  <2>1. before \in SUBSET upto
    BY <1>1, <1>6 DEF GoesBefore
  <2>2. upto \in SUBSET DOMAIN q
    OBVIOUS
  <2> HIDE DEF upto, before
  <2>3. IsFiniteSet(upto)
    BY <1>7, <2>2, FS_Subset
  <2>4. Cardinality(before) <= Cardinality(upto) /\ Cardinality(upto) \in Nat
    BY <2>1, <2>3, FS_Subset, FS_CardinalityType
  <2> QED
    BY <1>2, <1>3, <1>8, <2>4
<1>11. Cardinality(same) > 0
  <2>1. same \in SUBSET DOMAIN q /\ j \in same
    BY <1>6
  <2> HIDE DEF same
  <2>2. IsFiniteSet(same)
    BY <1>7, <2>1, FS_Subset
  <2>3. Cardinality(same) \in Nat /\ Cardinality(same) # 0
    BY <2>1, <2>2, FS_CardinalityType, FS_EmptySet
  <2> QED
    BY <2>3
<1> QED
  BY <1>9, <1>10, <1>11 DEF IsPercentile, Occurrences, w, r

\* The trimmed mean is of the smallest data, whatever is trimmed.
THEOREM TrimmingIsCorrect ==
  ASSUME NEW q \in Seq(Nat), NEW trim \in 0 .. 100, NEW S \in SUBSET Nat
  PROVE  AreSmallest(Trimmed(q, trim), q, S)
<1> DEFINE a == InAscendingOrder(q)
           w == Len(q) * trim
           m == w \div 100
           kept == Trimmed(q, trim)
<1>1. /\ DOMAIN q = 1 .. Len(q) /\ Len(q) \in Nat /\ trim \in Nat /\ trim <= 100
      /\ \A i \in DOMAIN q : q[i] \in Nat /\ i \in Nat
  OBVIOUS
<1>2. /\ a \in Seq(Nat) /\ Len(a) = Len(q)
      /\ \A n \in DOMAIN q : a[n] = q[Place(q, n)]
  BY AscendingElements
<1>3. w \in Nat /\ w <= 100 * Len(q)
  BY <1>1
<1>4. kept = SubSeq(a, 1, m)
  BY <1>2 DEF Trimmed, TrimBy
<1> HIDE DEF a, w, kept
<1>5. m \in Nat /\ m <= Len(q)
  BY <1>1, <1>3
<1> HIDE DEF m
<1>6. DOMAIN kept = 1 .. m /\ \A n \in 1 .. m : kept[n] = a[n]
  BY <1>2, <1>4, <1>5
<1>7. /\ 1 .. m \subseteq DOMAIN q
      /\ \A n \in 1 .. m : kept[n] = q[Place(q, n)]
  <2>1. \A n \in 1 .. m : n \in DOMAIN q
    BY <1>1, <1>5
  <2> QED
    BY <1>2, <1>6, <2>1
<1>8. /\ \A n \in DOMAIN q : Place(q, n) \in DOMAIN q /\ Rank(q, Place(q, n)) = n
      /\ \A i \in DOMAIN q : Rank(q, i) \in DOMAIN q /\ Place(q, Rank(q, i)) = i
      /\ \A i, j \in DOMAIN q : GoesBefore(q, i, j) => Rank(q, i) <= Rank(q, j)
  BY ElementsArePlaced DEF Placed
<1> SUFFICES ASSUME NEW x \in S
             PROVE  /\ Occurrences(kept, x) <= Occurrences(q, x)
                    /\ Occurrences(kept, x) < Occurrences(q, x) =>
                         \A n \in DOMAIN kept : kept[n] <= x
  BY DEF AreSmallest, kept
<1> DEFINE K == {n \in 1 .. m : kept[n] = x}
           Q == {i \in DOMAIN q : q[i] = x}
           f == [n \in K |-> Place(q, n)]
<1>9. IsFiniteSet(Q)
  <2>1. 1 \in Int /\ Len(q) \in Int
    BY <1>1
  <2>2. IsFiniteSet(DOMAIN q)
    BY <1>1, <2>1, FS_Interval
  <2> QED
    BY <2>2, FS_Subset
<1>10. f \in Injection(K, Q)
  <2>1. \A n \in K : Place(q, n) \in Q
    BY <1>7, <1>8
  <2>2. \A n, o \in K : Place(q, n) = Place(q, o) => n = o
    BY <1>7, <1>8
  <2> QED
    BY <2>1, <2>2 DEF Injection, IsInjective
<1> HIDE DEF f
<1>11. /\ Cardinality(K) <= Cardinality(Q)
       /\ Cardinality(K) = Cardinality(Q) <=> f \in Surjection(K, Q)
  BY <1>9, <1>10, FS_Injection
<1>12. ASSUME Cardinality(K) < Cardinality(Q), NEW n \in 1 .. m
       PROVE  kept[n] <= x
  <2>1. Cardinality(K) # Cardinality(Q)
    <3>1. IsFiniteSet(K)
      BY <1>9, <1>10, FS_Injection
    <3>2. Cardinality(K) \in Nat /\ Cardinality(Q) \in Nat
      BY <1>9, <3>1, FS_CardinalityType
    <3> QED
      BY <1>12, <3>2
  <2>2. f \notin Surjection(K, Q)
    BY <1>11, <2>1
  <2>3. PICK i \in Q : \A o \in K : f[o] # i
    BY <1>10, <2>2 DEF Injection, Surjection
  <2>4. Rank(q, i) \notin K
    BY <1>8, <2>3 DEF f
  <2>5. Rank(q, i) \in DOMAIN q /\ Place(q, Rank(q, i)) = i /\ q[i] = x /\ i \in DOMAIN q
    BY <1>8
  <2>6. Rank(q, i) \notin 1 .. m
    BY <1>7, <2>4, <2>5
  <2>7. n < Rank(q, i)
    BY <1>1, <1>5, <2>5, <2>6
  <2>8. n \in DOMAIN q /\ Place(q, n) \in DOMAIN q /\ Rank(q, Place(q, n)) = n
    BY <1>7, <1>8
  <2>9. ~GoesBefore(q, i, Place(q, n))
    <3>1. GoesBefore(q, i, Place(q, n)) => Rank(q, i) <= n
      BY <1>8, <2>5, <2>8
    <3>2. n \in Nat /\ Rank(q, i) \in Nat
      BY <1>1, <2>5, <2>8
    <3> QED
      BY <2>7, <3>1, <3>2
  <2>10. q[Place(q, n)] <= q[i]
    BY <1>1, <2>5, <2>8, <2>9 DEF GoesBefore
  <2> QED
    BY <1>7, <2>5, <2>10
<1>13. Occurrences(kept, x) = Cardinality(K) /\ Occurrences(q, x) = Cardinality(Q)
  BY <1>6 DEF Occurrences
<1> HIDE DEF K, Q
<1> QED
  BY <1>6, <1>11, <1>12, <1>13
=============================================================================
