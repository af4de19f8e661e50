-------------------------- MODULE Stabilizer_proofs --------------------------
(***************************************************************************)
(* Proofs about Stabilizer, for every ring size, bound, measurement set    *)
(* and cutoff.  The inductive invariant says what each slot of the ring    *)
(* holds: the slot that is a steps older than the newest one holds the     *)
(* interval a before it, and a series holds exactly the buckets that were  *)
(* reserved in its interval, each with what was measured for it.           *)
(***************************************************************************)
EXTENDS Stabilizer, Series_proofs, FiniteSetTheorems

\* s holds the buckets bs, each with its value in val, if it has one.
Holds(s, bs, val) ==
  /\ s \in ForeverSeries
  /\ WellFormed(s)
  /\ BucketsOf(s.data) = bs
  /\ \A k \in DOMAIN s.data :
       s.data[k].second = IF s.data[k].first \in DOMAIN val THEN val[s.data[k].first] ELSE None

BucketsIn(i) == {b \in DOMAIN intervalOf : intervalOf[b] = i}

\* How many steps slot j is behind the newest one.
Behind(j, latest) == IF j <= latest THEN latest - j ELSE latest + Mad - j
Age(j) == Behind(j, aggregates.latestIndex)

\* The interval slot j belongs to, negative if the ring has not come round yet.
IntervalAt(j) == currentInterval - 1 - Age(j)

HistoryInv ==
  /\ currentInterval \in 0 .. MaxInterval
  /\ DOMAIN intervalOf \subseteq Buckets
  /\ \A b \in DOMAIN intervalOf : intervalOf[b] \in 0 .. currentInterval
  /\ \A a, b \in DOMAIN intervalOf : a < b => intervalOf[a] <= intervalOf[b]
  /\ DOMAIN valueOf \subseteq DOMAIN intervalOf
  /\ \A b \in DOMAIN valueOf : valueOf[b] \in Measurements

RingShape ==
  /\ aggregates = [data |-> aggregates.data, latestIndex |-> aggregates.latestIndex,
                   empty |-> aggregates.empty, windowSize |-> Mad]
  /\ aggregates.latestIndex \in 0 .. Mad - 1
  /\ aggregates.empty \in BOOLEAN
  /\ aggregates.empty <=> currentInterval = 0
  /\ aggregates.data \in [0 .. Mad - 1 -> [first : Nat, second : ForeverSeries \cup {None}]]

SlotInv(j) ==
  IF IntervalAt(j) >= 0
  THEN /\ aggregates.data[j].first = IntervalAt(j)
       /\ Holds(aggregates.data[j].second, BucketsIn(IntervalAt(j)), valueOf)
  ELSE aggregates.data[j] = Pair(0, None)

\* The inductive invariant.
StabilizerInv ==
  /\ HistoryInv
  /\ RingShape
  /\ Holds(instantaneousses, BucketsIn(currentInterval), valueOf)
  /\ \A j \in 0 .. Mad - 1 : SlotInv(j)

-----------------------------------------------------------------------------

\* The series of an interval are those of Series_proofs.
LEMMA ForeverSeriesIsSeriesOf == ForeverSeries = SeriesOf(Buckets, Measurements)
  BY DEF ForeverSeries, SeriesOf

\* And so is what they hold.
LEMMA HoldsIsHoldsAll ==
  ASSUME NEW s, NEW bs, NEW val
  PROVE  Holds(s, bs, val) <=> HoldsAll(s, Buckets, Measurements, bs, val)
  BY ForeverSeriesIsSeriesOf DEF Holds, HoldsAll

\* Bucket ids are numbers.
LEMMA BucketsAreNat == Buckets \in SUBSET Nat
  BY BoundsAssumption DEF Buckets

\* None is neither a measurement nor a series.
LEMMA NoneIsNoMeasurement == None \notin Measurements /\ None \notin ForeverSeries
  BY NoneAssumption, MeasurementsAssumption

\* The ring's successor without the remainder.
LEMMA Successor ==
  ASSUME NEW i \in 0 .. Mad - 1
  PROVE  (i + 1) % Mad = IF i + 1 = Mad THEN 0 ELSE i + 1
  BY MadAssumption

\* Only the newest slot of the ring is 0 steps behind, and none a whole ring.
LEMMA Ages ==
  ASSUME NEW latest \in 0 .. Mad - 1, NEW j \in 0 .. Mad - 1
  PROVE  Behind(j, latest) \in Nat /\ Behind(j, latest) < Mad /\ (Behind(j, latest) = 0 <=> j = latest)
  BY MadAssumption DEF Behind

\* A new newest slot makes every other slot one older.
LEMMA AgesGrow ==
  ASSUME NEW latest \in 0 .. Mad - 1, NEW n, n = IF latest + 1 = Mad THEN 0 ELSE latest + 1,
         NEW j \in 0 .. Mad - 1, j # n
  PROVE  Behind(j, n) = Behind(j, latest) + 1
  BY MadAssumption DEF Behind

\* The invariant holds initially.
LEMMA InitInv == Init => StabilizerInv
<1> SUFFICES ASSUME Init PROVE StabilizerInv
  OBVIOUS
<1> USE DEF Init
<1>1. HistoryInv
  BY BoundsAssumption DEF HistoryInv
<1>2. Holds(instantaneousses, BucketsIn(currentInterval), valueOf)
  BY NewIsWellFormed, ForeverSeriesIsSeriesOf DEF Holds, BucketsIn, NewForever, BucketsOf
<1>3. RingShape
  BY MadAssumption DEF RingShape, NewWindow, Pair
<1>4. \A j \in 0 .. Mad - 1 : SlotInv(j)
  BY MadAssumption, Ages DEF NewWindow, SlotInv, IntervalAt, Age
<1> QED
  BY <1>1, <1>2, <1>3, <1>4 DEF StabilizerInv

-----------------------------------------------------------------------------
(* Reserve *)

\* The new bucket is appended, unfilled.
LEMMA ReserveHolds ==
  ASSUME NEW s, NEW bs \in SUBSET Buckets, NEW val, Holds(s, bs, val),
         NEW b \in Buckets, \A r \in bs : r < b, b \notin DOMAIN val
  PROVE  Holds(ForeverReserve(s, b), bs \cup {b}, val)
  BY HoldsIsHoldsAll, ReserveHoldsAll, BucketsAreNat

\* Reserve preserves the invariant.
LEMMA ReserveStep ==
  ASSUME StabilizerInv, NEW b \in Buckets, Reserve(b)
  PROVE  StabilizerInv'
<1> USE DEF StabilizerInv
<1>1. \A r \in DOMAIN intervalOf : r < b
  BY DEF Reserve, Stream!MayReserve
<1>2. b \notin DOMAIN intervalOf /\ b \notin DOMAIN valueOf
  BY <1>1, BucketsAreNat DEF HistoryInv
<1>3. /\ DOMAIN intervalOf' = DOMAIN intervalOf \cup {b}
      /\ intervalOf'[b] = currentInterval
      /\ \A r \in DOMAIN intervalOf : intervalOf'[r] = intervalOf[r]
      /\ UNCHANGED <<aggregates, currentInterval, valueOf>>
  BY <1>2 DEF Reserve, Extend
<1>4. HistoryInv'
  <2>1. /\ currentInterval' \in 0 .. MaxInterval
        /\ DOMAIN intervalOf' \subseteq Buckets
        /\ DOMAIN valueOf' \subseteq DOMAIN intervalOf'
        /\ \A r \in DOMAIN valueOf' : valueOf'[r] \in Measurements
    BY <1>3 DEF HistoryInv
  <2>2. \A r \in DOMAIN intervalOf' : intervalOf'[r] \in 0 .. currentInterval'
    BY <1>3 DEF HistoryInv
  <2>3. ASSUME NEW r \in DOMAIN intervalOf', NEW q \in DOMAIN intervalOf', r < q
        PROVE  intervalOf'[r] <= intervalOf'[q]
    <3>1. CASE q = b
      BY <1>3, <2>2, <3>1 DEF HistoryInv
    <3>2. CASE q \in DOMAIN intervalOf
      <4>1. r # b
        <5>1. q < b /\ q \in Nat /\ b \in Nat
          BY <1>1, <3>2, BucketsAreNat DEF HistoryInv
        <5> QED
          BY <2>3, <5>1
      <4> QED
        BY <1>3, <2>3, <3>2, <4>1 DEF HistoryInv
    <3> QED
      BY <1>3, <3>1, <3>2
  <2> QED
    BY <2>1, <2>2, <2>3 DEF HistoryInv
<1>5. BucketsIn(currentInterval)' = BucketsIn(currentInterval) \cup {b}
  BY <1>2, <1>3 DEF BucketsIn
<1>6. Holds(instantaneousses, BucketsIn(currentInterval), valueOf)'
  <2>1. \A r \in BucketsIn(currentInterval) : r < b
    BY <1>1 DEF BucketsIn
  <2>2. BucketsIn(currentInterval) \in SUBSET Buckets
    BY DEF BucketsIn, HistoryInv
  <2> QED
    BY <1>2, <1>3, <1>5, <2>1, <2>2, ReserveHolds DEF Reserve
<1>7. RingShape'
  BY <1>3 DEF RingShape
<1>8. ASSUME NEW j \in 0 .. Mad - 1 PROVE SlotInv(j)'
  <2>1. IntervalAt(j)' = IntervalAt(j) /\ IntervalAt(j) # currentInterval
    BY <1>3, Ages DEF IntervalAt, Age, RingShape, HistoryInv
  <2>2. BucketsIn(IntervalAt(j))' = BucketsIn(IntervalAt(j))
    BY <1>2, <1>3, <2>1 DEF BucketsIn
  <2> QED
    BY <1>3, <2>1, <2>2 DEF SlotInv
<1> QED
  BY <1>4, <1>6, <1>7, <1>8

-----------------------------------------------------------------------------
(* AddMeasurement *)

\* The measurement goes to its bucket if the series has it.
LEMMA FillHolds ==
  ASSUME NEW s, NEW bs, NEW val, Holds(s, bs, val),
         NEW b \in Buckets, b \notin DOMAIN val, NEW d \in Measurements
  PROVE  Holds(ForeverFill(s, b, d), bs, Extend(val, b, d))
<1> DEFINE v == Extend(val, b, d)
<1>1. /\ DOMAIN v = DOMAIN val \cup {b}
      /\ \A r \in DOMAIN v : v[r] = IF r = b THEN d ELSE val[r]
  BY DEF Extend
<1> HIDE DEF v
<1>2. HoldsAll(s, Buckets, Measurements, bs, val)
  BY HoldsIsHoldsAll
<1>3. HoldsAll(ForeverFill(s, b, d), Buckets, Measurements, bs, v)
  BY <1>1, <1>2, FillHoldsAll, BucketsAreNat
<1> QED
  BY <1>3, HoldsIsHoldsAll DEF v

\* AddMeasurement preserves the invariant.
LEMMA AddMeasurementStep ==
  ASSUME StabilizerInv, NEW b \in Buckets, NEW d \in Measurements, AddMeasurement(b, d)
  PROVE  StabilizerInv'
<1> USE DEF StabilizerInv
<1>1. b \in DOMAIN intervalOf /\ b \notin DOMAIN valueOf
  BY DEF AddMeasurement, Stream!MayMeasure
<1>2. /\ valueOf' = Extend(valueOf, b, d)
      /\ instantaneousses' = ForeverFill(instantaneousses, b, d)
      /\ UNCHANGED <<currentInterval, intervalOf>>
  BY DEF AddMeasurement
<1>3. HistoryInv'
  BY <1>1, <1>2 DEF HistoryInv, Extend
<1>4. \A i : BucketsIn(i)' = BucketsIn(i)
  BY <1>2 DEF BucketsIn
<1>5. Holds(instantaneousses, BucketsIn(currentInterval), valueOf)'
  BY <1>1, <1>2, <1>4, FillHolds
<1>6. /\ aggregates'.latestIndex = aggregates.latestIndex
      /\ aggregates'.empty = aggregates.empty
      /\ aggregates' = [data |-> aggregates'.data, latestIndex |-> aggregates'.latestIndex,
                        empty |-> aggregates'.empty, windowSize |-> Mad]
      /\ aggregates'.data = [j \in 0 .. Mad - 1 |-> FillRetired(aggregates.data[j], b, d)]
  <2>1. /\ DOMAIN aggregates.data = 0 .. Mad - 1
        /\ aggregates' =
             [aggregates EXCEPT !.data =
                [j \in DOMAIN aggregates.data |-> FillRetired(aggregates.data[j], b, d)]]
    BY DEF AddMeasurement, RingShape
  <2> DEFINE ring == [j \in 0 .. Mad - 1 |-> FillRetired(aggregates.data[j], b, d)]
  <2>2. aggregates' = [aggregates EXCEPT !.data = ring]
    BY <2>1
  <2>3. aggregates = [data |-> aggregates.data, latestIndex |-> aggregates.latestIndex,
                      empty |-> aggregates.empty, windowSize |-> Mad]
    BY DEF RingShape
  <2>4. aggregates' = [data |-> ring, latestIndex |-> aggregates.latestIndex,
                       empty |-> aggregates.empty, windowSize |-> Mad]
    <3> HIDE DEF ring
    <3> QED
      BY <2>2, <2>3
  <2> HIDE DEF ring
  <2>5. aggregates'.data = ring
    BY <2>4
  <2> QED
    BY <2>4, <2>5 DEF ring
<1>7. ASSUME NEW j \in 0 .. Mad - 1
      PROVE  SlotInv(j)' /\ aggregates'.data[j] \in [first : Nat, second : ForeverSeries \cup {None}]
  <2>1. IntervalAt(j)' = IntervalAt(j)
    BY <1>2, <1>6 DEF IntervalAt, Age
  <2>2. aggregates'.data[j] = FillRetired(aggregates.data[j], b, d)
    BY <1>6
  <2>3. CASE IntervalAt(j) >= 0
    <3> DEFINE s == aggregates.data[j].second
    <3>1. Holds(s, BucketsIn(IntervalAt(j)), valueOf)
      BY <2>3 DEF SlotInv
    <3>2. IsSome(s)
      BY <3>1, NoneIsNoMeasurement DEF Holds, IsSome
    <3>3. aggregates'.data[j] = [aggregates.data[j] EXCEPT !.second = ForeverFill(s, b, d)]
      BY <2>2, <3>2 DEF FillRetired
    <3>4. aggregates.data[j] \in [first : Nat, second : ForeverSeries \cup {None}]
      BY DEF RingShape
    <3>5. /\ aggregates'.data[j].first = aggregates.data[j].first
          /\ aggregates'.data[j].second = ForeverFill(s, b, d)
          /\ aggregates'.data[j] = [first |-> aggregates.data[j].first,
                                    second |-> ForeverFill(s, b, d)]
      <4> HIDE DEF s
      <4> QED
        BY <3>3, <3>4
    <3>6. Holds(ForeverFill(s, b, d), BucketsIn(IntervalAt(j)), Extend(valueOf, b, d))
      BY <1>1, <3>1, FillHolds
    <3>7. ForeverFill(s, b, d) \in ForeverSeries
      BY <3>6 DEF Holds
    <3> HIDE DEF s
    <3>8. SlotInv(j)'
      BY <1>2, <1>4, <2>1, <2>3, <3>5, <3>6 DEF SlotInv
    <3> QED
      BY <3>4, <3>5, <3>7, <3>8
  <2>4. CASE ~(IntervalAt(j) >= 0)
    <3>1. aggregates.data[j] = Pair(0, None)
      BY <2>4 DEF SlotInv
    <3>2. aggregates'.data[j] = Pair(0, None)
      BY <2>2, <3>1 DEF FillRetired, IsSome, Pair
    <3> QED
      BY <2>1, <2>4, <3>2 DEF SlotInv, Pair
  <2> QED
    BY <2>3, <2>4
<1>8. RingShape'
  <2>1. aggregates'.data \in [0 .. Mad - 1 -> [first : Nat, second : ForeverSeries \cup {None}]]
    <3>1. aggregates'.data = [j \in 0 .. Mad - 1 |-> aggregates'.data[j]]
      BY <1>6
    <3> HIDE DEF StabilizerInv
    <3> QED
      BY <1>7, <3>1
  <2> QED
    BY <1>2, <1>6, <2>1 DEF RingShape
<1> QED
  BY <1>3, <1>5, <1>7, <1>8

-----------------------------------------------------------------------------
(* Interval *)

\* The reservation is accepted.
LEMMA IntervalAccepted == StabilizerInv => WindowAccepts(aggregates, currentInterval)
<1> SUFFICES ASSUME StabilizerInv, ~aggregates.empty
             PROVE  currentInterval > aggregates.data[aggregates.latestIndex].first
  BY DEF WindowAccepts
<1> USE DEF StabilizerInv
<1>1. currentInterval \in Nat /\ currentInterval > 0 /\ aggregates.latestIndex \in 0 .. Mad - 1
  BY DEF RingShape, HistoryInv
<1>2. IntervalAt(aggregates.latestIndex) = currentInterval - 1
  BY <1>1, Ages DEF IntervalAt, Age
<1> QED
  BY <1>1, <1>2 DEF SlotInv

\* The retired series ends up in the slot that was reserved, whole.
LEMMA IntervalRetires ==
  ASSUME StabilizerInv, Interval
  PROVE  /\ ReservedSlot(aggregates) \in 0 .. Mad - 1
         /\ aggregates' =
              [data |-> [aggregates.data EXCEPT ![ReservedSlot(aggregates)] =
                           [first |-> currentInterval, second |-> instantaneousses]],
               latestIndex |-> ReservedSlot(aggregates), empty |-> FALSE, windowSize |-> Mad]
<1> DEFINE n == ReservedSlot(aggregates)
           c == currentInterval
           reserved == [aggregates.data EXCEPT ![n] = Pair(c, None)]
           w == WindowReserve(aggregates, c)
           x == [first |-> c, second |-> instantaneousses]
<1>1. /\ aggregates = [data |-> aggregates.data, latestIndex |-> aggregates.latestIndex,
                       empty |-> aggregates.empty, windowSize |-> Mad]
      /\ aggregates.latestIndex \in 0 .. Mad - 1
      /\ aggregates.data \in [0 .. Mad - 1 -> [first : Nat, second : ForeverSeries \cup {None}]]
  BY DEF StabilizerInv, RingShape
<1>2. n \in 0 .. Mad - 1
  <2>1. aggregates.windowSize = Mad
    BY <1>1
  <2> QED
    BY <1>1, <2>1, Successor, MadAssumption DEF ReservedSlot, NextIndex
<1>3. w = [data |-> reserved, latestIndex |-> n, empty |-> FALSE, windowSize |-> Mad]
  <2>1. aggregates.windowSize = Mad
    BY <1>1
  <2> QED
    BY <2>1, IntervalAccepted DEF WindowReserve
<1>4. w.data = reserved /\ w.latestIndex = n
  <2> HIDE DEF reserved, n, w
  <2> QED
    BY <1>3
<1>5. DOMAIN reserved = 0 .. Mad - 1 /\ reserved[n] = [first |-> c, second |-> None]
  BY <1>1, <1>2 DEF Pair
<1>6. reserved[n].first = c
  BY <1>5
<1>7. c \in BucketsOf(w.data) /\ FilledSlot(w, c) = n
  <2> HIDE DEF reserved, n, w
  <2> QED
    BY <1>2, <1>4, <1>5, <1>6 DEF BucketsOf, FilledSlot
<1>8. [reserved EXCEPT ![n].second = instantaneousses] = [aggregates.data EXCEPT ![n] = x]
  <2>1. [reserved[n] EXCEPT !.second = instantaneousses] = x
    BY <1>5
  <2> HIDE DEF n, x
  <2> QED
    BY <1>1, <1>2, <2>1
<1>9. aggregates' = [w EXCEPT !.data = [w.data EXCEPT ![n].second = instantaneousses]]
  <2>1. aggregates' = WindowFill(w, c, instantaneousses)
    BY DEF Interval
  <2> HIDE DEF w, n
  <2> QED
    BY <1>7, <2>1 DEF WindowFill
<1>10. aggregates' = [w EXCEPT !.data = [aggregates.data EXCEPT ![n] = x]]
  <2> HIDE DEF reserved, n, w, x
  <2> QED
    BY <1>4, <1>8, <1>9
<1>11. aggregates' = [data |-> [aggregates.data EXCEPT ![n] = x], latestIndex |-> n,
                      empty |-> FALSE, windowSize |-> Mad]
  <2> DEFINE ring == [aggregates.data EXCEPT ![n] = x]
  <2> HIDE DEF reserved, n, w, x, ring
  <2> QED
    BY <1>3, <1>10 DEF ring
<1> QED
  BY <1>2, <1>11

\* Interval preserves the invariant.
LEMMA IntervalStep ==
  ASSUME StabilizerInv, Interval
  PROVE  StabilizerInv'
<1> DEFINE x == [first |-> currentInterval, second |-> instantaneousses]
<1>1. PICK n \in 0 .. Mad - 1 :
      /\ n = ReservedSlot(aggregates)
      /\ aggregates' = [data |-> [aggregates.data EXCEPT ![n] = x],
                        latestIndex |-> n, empty |-> FALSE, windowSize |-> Mad]
  BY IntervalRetires
<1>2. /\ aggregates.data \in [0 .. Mad - 1 -> [first : Nat, second : ForeverSeries \cup {None}]]
      /\ aggregates.latestIndex \in 0 .. Mad - 1
      /\ aggregates.windowSize = Mad
      /\ aggregates.empty <=> currentInterval = 0
  BY DEF StabilizerInv, RingShape
<1>3. /\ currentInterval \in Nat /\ currentInterval' \in 0 .. MaxInterval
      /\ currentInterval' = currentInterval + 1
      /\ instantaneousses' = NewForever
      /\ UNCHANGED <<intervalOf, valueOf>>
  BY BoundsAssumption DEF Interval, StabilizerInv, HistoryInv
<1>4. HistoryInv'
  BY <1>3 DEF StabilizerInv, HistoryInv
<1>5. \A i : BucketsIn(i)' = BucketsIn(i)
  BY <1>3 DEF BucketsIn
<1>6. Holds(instantaneousses, BucketsIn(currentInterval), valueOf)'
  <2>1. BucketsIn(currentInterval + 1) = {}
    BY <1>3 DEF StabilizerInv, HistoryInv, BucketsIn
  <2>2. BucketsIn(currentInterval)' = {}
    BY <1>3, <2>1 DEF BucketsIn
  <2>3. NewForever \in ForeverSeries /\ WellFormed(NewForever) /\ BucketsOf(NewForever.data) = {}
    BY NewIsWellFormed, ForeverSeriesIsSeriesOf
  <2>4. DOMAIN NewForever.data = {}
    BY DEF NewForever
  <2> QED
    BY <1>3, <2>2, <2>3, <2>4 DEF Holds
<1>7. /\ aggregates'.data = [aggregates.data EXCEPT ![n] = x]
      /\ aggregates'.latestIndex = n
      /\ aggregates'.empty = FALSE
  <2> DEFINE ring == [aggregates.data EXCEPT ![n] = x]
  <2> HIDE DEF ring
  <2> QED
    BY <1>1 DEF ring
<1>8. x \in [first : Nat, second : ForeverSeries \cup {None}]
  BY <1>3 DEF StabilizerInv, Holds
<1>9. RingShape'
  <2>1. aggregates'.data \in [0 .. Mad - 1 -> [first : Nat, second : ForeverSeries \cup {None}]]
    <3> HIDE DEF x
    <3> QED
      BY <1>1, <1>2, <1>7, <1>8
  <2>2. aggregates' = [data |-> aggregates'.data, latestIndex |-> aggregates'.latestIndex,
                       empty |-> aggregates'.empty, windowSize |-> Mad]
    <3> HIDE DEF x
    <3> QED
      BY <1>1, <1>7
  <2> QED
    BY <1>1, <1>3, <1>7, <2>1, <2>2 DEF RingShape
<1>10. n = IF currentInterval = 0 THEN aggregates.latestIndex
           ELSE IF aggregates.latestIndex + 1 = Mad THEN 0 ELSE aggregates.latestIndex + 1
  BY <1>1, <1>2, Successor DEF ReservedSlot, NextIndex
<1>11. IntervalAt(n)' = currentInterval
  BY <1>1, <1>3, <1>7, Ages DEF IntervalAt, Age
<1>12. ASSUME NEW j \in 0 .. Mad - 1, j # n
       PROVE  IF IntervalAt(j) >= 0 THEN IntervalAt(j)' = IntervalAt(j) ELSE IntervalAt(j)' < 0
  <2>1. /\ IntervalAt(j) = currentInterval - 1 - Behind(j, aggregates.latestIndex)
        /\ IntervalAt(j)' = currentInterval' - 1 - Behind(j, n)
    BY <1>7 DEF IntervalAt, Age
  <2>2. Behind(j, aggregates.latestIndex) \in Nat /\ Behind(j, n) \in Nat
    BY <1>1, <1>2, Ages
  <2>3. CASE currentInterval = 0
    <3>1. Behind(j, n) > 0
      BY <1>1, <1>12, <2>2, Ages
    <3> QED
      BY <1>3, <2>1, <2>2, <2>3, <3>1
  <2>4. CASE currentInterval # 0
    <3>1. Behind(j, n) = Behind(j, aggregates.latestIndex) + 1
      BY <1>1, <1>2, <1>10, <1>12, <2>4, AgesGrow
    <3> QED
      BY <1>3, <2>1, <2>2, <3>1
  <2> QED
    BY <2>3, <2>4
<1>13. ASSUME NEW j \in 0 .. Mad - 1 PROVE SlotInv(j)'
  <2>1. CASE j = n
    <3>1. aggregates'.data[j] = x
      BY <1>1, <1>2, <1>7, <2>1
    <3>2. Holds(instantaneousses, BucketsIn(currentInterval), valueOf)
      BY DEF StabilizerInv
    <3>3. IntervalAt(j)' = currentInterval
      BY <1>11, <2>1
    <3>4. BucketsIn(IntervalAt(j))' = BucketsIn(currentInterval)
      BY <1>3, <3>3 DEF BucketsIn
    <3> QED
      BY <1>3, <3>1, <3>2, <3>3, <3>4 DEF SlotInv
  <2>2. CASE j # n
    <3>1. aggregates'.data[j] = aggregates.data[j]
      BY <1>1, <1>2, <1>7, <2>2
    <3>2. SlotInv(j)
      BY DEF StabilizerInv
    <3>3. IntervalAt(j) >= 0 => BucketsIn(IntervalAt(j))' = BucketsIn(IntervalAt(j))
      BY <1>3, <1>12, <2>2 DEF BucketsIn
    <3>4. IntervalAt(j) \in Int /\ IntervalAt(j)' \in Int
      <4>1. /\ IntervalAt(j) = currentInterval - 1 - Behind(j, aggregates.latestIndex)
            /\ IntervalAt(j)' = currentInterval' - 1 - Behind(j, n)
        BY <1>7 DEF IntervalAt, Age
      <4>2. Behind(j, aggregates.latestIndex) \in Nat /\ Behind(j, n) \in Nat
        BY <1>1, <1>2, Ages
      <4> QED
        BY <1>3, <4>1, <4>2
    <3> QED
      BY <1>3, <1>12, <2>2, <3>1, <3>2, <3>3, <3>4 DEF SlotInv
  <2> QED
    BY <2>1, <2>2
<1> QED
  BY <1>4, <1>6, <1>9, <1>13 DEF StabilizerInv

-----------------------------------------------------------------------------

\* Every step preserves the invariant.
LEMMA StepInv == StabilizerInv /\ [Next]_vars => StabilizerInv'
<1> SUFFICES ASSUME StabilizerInv, [Next]_vars PROVE StabilizerInv'
  OBVIOUS
<1>1. CASE UNCHANGED vars
  BY <1>1 DEF vars, StabilizerInv, HistoryInv, RingShape, SlotInv, IntervalAt, Age, BucketsIn
<1>2. CASE Next
  BY <1>2, ReserveStep, AddMeasurementStep, IntervalStep DEF Next
<1> QED
  BY <1>1, <1>2

\* The invariant holds in every state.
LEMMA Invariance == Spec => []StabilizerInv
  BY InitInv, StepInv, PTL DEF Spec

\* The invariant gives every variable its type.
LEMMA InvIsTyped == StabilizerInv => TypeOK
<1> SUFFICES ASSUME StabilizerInv PROVE TypeOK
  OBVIOUS
<1>1. aggregates.windowSize = Mad
  BY DEF StabilizerInv, RingShape
<1> QED
  BY <1>1 DEF StabilizerInv, HistoryInv, RingShape, Holds, TypeOK

\* Type correctness.
THEOREM TypeCorrect == Spec => []TypeOK
  BY InvIsTyped, Invariance, PTL

-----------------------------------------------------------------------------
(* The verdict *)

\* Some slot is a steps behind the newest one.
LEMMA SlotBehind ==
  ASSUME NEW latest \in 0 .. Mad - 1, NEW a \in 0 .. Mad - 1
  PROVE  \E j \in 0 .. Mad - 1 : Behind(j, latest) = a
<1>1. CASE a <= latest
  <2>1. latest - a \in 0 .. Mad - 1 /\ Behind(latest - a, latest) = a
    BY <1>1, MadAssumption DEF Behind
  <2> QED
    BY <2>1
<1>2. CASE a > latest
  <2>1. latest + Mad - a \in 0 .. Mad - 1 /\ Behind(latest + Mad - a, latest) = a
    BY <1>2, MadAssumption DEF Behind
  <2> QED
    BY <2>1
<1> QED
  BY <1>1, <1>2, MadAssumption

\* When every slot is filled the ring holds the series of the last Mad
\* intervals, one per slot.
LEMMA JudgedSlots ==
  ASSUME StabilizerInv, AllComplete
  PROVE  /\ Slots = 0 .. Mad - 1 /\ Occupied = Slots
         /\ currentInterval \in Nat /\ Mad <= currentInterval
         /\ JudgedIntervals = (currentInterval - Mad) .. (currentInterval - 1)
         /\ \A j \in Slots : /\ IntervalAt(j) \in JudgedIntervals
                            /\ Holds(Retired(j), BucketsIn(IntervalAt(j)), valueOf)
         /\ \A i \in JudgedIntervals : \E j \in Slots : IntervalAt(j) = i
<1>1. /\ currentInterval \in Nat
      /\ aggregates.latestIndex \in 0 .. Mad - 1
      /\ aggregates.data \in [0 .. Mad - 1 -> [first : Nat, second : ForeverSeries \cup {None}]]
  BY BoundsAssumption DEF StabilizerInv, HistoryInv, RingShape
<1>2. Slots = 0 .. Mad - 1 /\ Occupied = Slots
  BY <1>1 DEF Slots, Occupied, AllComplete
<1>3. \A j \in Slots : IntervalAt(j) = currentInterval - 1 - Behind(j, aggregates.latestIndex)
  BY DEF IntervalAt, Age
<1>4. \A j \in Slots : /\ Behind(j, aggregates.latestIndex) \in Nat
                     /\ Behind(j, aggregates.latestIndex) < Mad
  BY <1>1, <1>2, Ages
<1>5. ASSUME NEW j \in Slots
      PROVE  IntervalAt(j) >= 0 /\ Holds(Retired(j), BucketsIn(IntervalAt(j)), valueOf)
  <2>1. SlotInv(j)
    BY <1>2 DEF StabilizerInv
  <2>2. Retired(j) # None
    BY DEF AllComplete, IsSome
  <2>3. IntervalAt(j) >= 0
    BY <2>1, <2>2 DEF SlotInv, Pair, Retired
  <2> QED
    BY <2>1, <2>3 DEF SlotInv, Retired
<1>6. Mad <= currentInterval
  <2>1. PICK j \in Slots : Behind(j, aggregates.latestIndex) = Mad - 1
    <3>1. Mad - 1 \in 0 .. Mad - 1
      BY MadAssumption
    <3> QED
      BY <1>1, <1>2, <3>1, SlotBehind
  <2> QED
    BY <1>1, <1>3, <1>5, <2>1, MadAssumption
<1>7. JudgedIntervals = (currentInterval - Mad) .. (currentInterval - 1)
  BY <1>1, <1>6, MadAssumption DEF JudgedIntervals
<1>8. \A j \in Slots : IntervalAt(j) \in JudgedIntervals
  BY <1>1, <1>3, <1>4, <1>7, MadAssumption
<1>9. ASSUME NEW i \in JudgedIntervals PROVE \E j \in Slots : IntervalAt(j) = i
  <2>1. currentInterval - 1 - i \in 0 .. Mad - 1 /\ i \in Int
    BY <1>1, <1>7, MadAssumption
  <2>2. PICK j \in Slots : Behind(j, aggregates.latestIndex) = currentInterval - 1 - i
    BY <1>1, <1>2, <2>1, SlotBehind
  <2>3. IntervalAt(j) = i
    BY <1>1, <1>3, <2>1, <2>2
  <2> QED
    BY <2>3
<1> QED
  BY <1>1, <1>2, <1>5, <1>6, <1>7, <1>8, <1>9

\* A judged bucket is in the slot of its interval.
LEMMA JudgedBucketSlot ==
  ASSUME StabilizerInv, AllComplete, NEW b \in JudgedBuckets
  PROVE  \E j \in Slots : b \in BucketsOf(Retired(j).data)
<1>1. PICK j \in Slots : IntervalAt(j) = intervalOf[b]
  BY JudgedSlots DEF JudgedBuckets
<1> QED
  BY <1>1, JudgedSlots DEF JudgedBuckets, BucketsIn, Holds

\* What IsStable requires besides the cutoff.
Answered == AllComplete /\ ~SomeAverageIsNaN

\* Then every judged interval has a probe, and every judged probe its answer.
LEMMA JudgedAreAnswered ==
  ASSUME StabilizerInv, Answered
  PROVE  /\ Cardinality(JudgedIntervals) = Mad
         /\ \A i \in JudgedIntervals : \E b \in JudgedBuckets : intervalOf[b] = i
         /\ JudgedBuckets \subseteq DOMAIN valueOf
<1>1. AllComplete /\ \A j \in Slots : Retired(j).data # << >>
  BY DEF Answered, SomeAverageIsNaN
<1>2. Cardinality(JudgedIntervals) = Mad
  <2>1. /\ currentInterval \in Nat
        /\ JudgedIntervals = (currentInterval - Mad) .. (currentInterval - 1)
    BY <1>1, JudgedSlots
  <2>2. currentInterval - Mad \in Int /\ currentInterval - 1 \in Int
    BY <2>1, MadAssumption
  <2>3. Cardinality(JudgedIntervals)
          = IF currentInterval - Mad > currentInterval - 1 THEN 0
            ELSE (currentInterval - 1) - (currentInterval - Mad) + 1
    BY <2>1, <2>2, FS_Interval
  <2> QED
    BY <2>1, <2>3, MadAssumption
<1>3. ASSUME NEW i \in JudgedIntervals PROVE \E b \in JudgedBuckets : intervalOf[b] = i
  <2>1. PICK j \in Slots : IntervalAt(j) = i
    BY <1>1, JudgedSlots
  <2>2. Holds(Retired(j), BucketsIn(i), valueOf) /\ Retired(j).data # << >>
    BY <1>1, <2>1, JudgedSlots
  <2>3. PICK b \in BucketsOf(Retired(j).data) : TRUE
    <3>1. Retired(j) \in SeriesOf(Buckets, Measurements) /\ WellFormed(Retired(j))
      BY <2>2, ForeverSeriesIsSeriesOf DEF Holds
    <3> QED
      BY <2>2, <3>1, BoundsDelimit, BucketsAreNat
  <2>4. b \in DOMAIN intervalOf /\ intervalOf[b] = i
    BY <2>2, <2>3 DEF Holds, BucketsIn
  <2> QED
    BY <2>4 DEF JudgedBuckets
<1>4. ASSUME NEW b \in JudgedBuckets PROVE b \in DOMAIN valueOf
  <2>1. PICK j \in Slots : b \in BucketsOf(Retired(j).data)
    BY <1>1, JudgedBucketSlot
  <2>2. PICK k \in DOMAIN Retired(j).data : Retired(j).data[k].first = b
    BY <2>1 DEF BucketsOf
  <2>3. Retired(j).data[k].second # None
    BY <1>1 DEF AllComplete, Complete, IsSome
  <2> QED
    BY <1>1, <2>2, <2>3, JudgedSlots DEF Holds
<1> QED
  BY <1>2, <1>3, <1>4

\* No premature verdict: stable means that Mad intervals have ended, that a
\* probe began in each of the last Mad, and that each probe that did was
\* answered.
THEOREM StableMeansAnsweredInvariant == Spec => []StableMeansAnswered
<1>1. StabilizerInv => StableMeansAnswered
  BY JudgedAreAnswered DEF StableMeansAnswered, IsStable, Answered
<1> QED
  BY <1>1, Invariance, PTL

-----------------------------------------------------------------------------
(* The bounds *)

\* A least element is the minimum.
LEMMA MinIs ==
  ASSUME NEW S \in SUBSET Int, NEW m \in S, \A x \in S : m <= x
  PROVE  Min(S) = m
<1> DEFINE P(x) == \A y \in S : x =< y
<1>1. P(m) /\ \A x \in S : P(x) => x = m
  OBVIOUS
<1>2. Min(S) = CHOOSE x \in S : P(x)
  BY DEF Min
<1> HIDE DEF P
<1> QED
  BY <1>1, <1>2

\* A greatest element is the maximum.
LEMMA MaxIs ==
  ASSUME NEW S \in SUBSET Int, NEW m \in S, \A x \in S : x <= m
  PROVE  Max(S) = m
<1> DEFINE P(x) == \A y \in S : x >= y
<1>1. P(m) /\ \A x \in S : P(x) => x = m
  OBVIOUS
<1>2. Max(S) = CHOOSE x \in S : P(x)
  BY DEF Max
<1> HIDE DEF P
<1> QED
  BY <1>1, <1>2

\* A finite set of naturals that is not empty has a least and a greatest member.
LEMMA Extremes ==
  ASSUME NEW S \in SUBSET Nat, IsFiniteSet(S), S # {}
  PROVE  /\ \E m \in S : \A x \in S : m <= x
         /\ \E m \in S : \A x \in S : x <= m
<1> DEFINE R == {p \in Nat \X Nat : p[1] <= p[2]}
           rank == [i \in S |-> Cardinality(UpTo(S, R, i))]
           c == Cardinality(S)
<1>1. Orders(R, S) /\ \A i, j \in S : <<i, j>> \in R <=> i <= j
  BY DEF Orders
<1> HIDE DEF R
<1>2. Ranked(S, R)
  BY <1>1, Ranks
<1>3. c \in Nat /\ c # 0
  BY FS_CardinalityType, FS_EmptySet
<1>4. /\ \A i \in S : rank[i] \in 1 .. c
      /\ \A i, j \in S : rank[i] = rank[j] => i = j
      /\ \A i, j \in S : <<i, j>> \in R => rank[i] <= rank[j]
      /\ \A n \in 1 .. c : \E i \in S : rank[i] = n
  BY <1>2 DEF Ranked
<1> HIDE DEF rank, c
<1>5. ASSUME NEW i \in S, NEW j \in S, i < j
      PROVE  rank[i] < rank[j]
  <2>1. rank[i] \in Nat /\ rank[j] \in Nat
    BY <1>4
  <2>2. i <= j /\ i # j
    BY <1>5
  <2>3. rank[i] <= rank[j]
    BY <1>1, <1>4, <2>2
  <2>4. rank[i] # rank[j]
    BY <1>4, <2>2
  <2> QED
    BY <2>1, <2>3, <2>4
<1>6. PICK l, g \in S : rank[l] = 1 /\ rank[g] = c
  BY <1>3, <1>4
<1>7. \A x \in S : l <= x
  BY <1>3, <1>4, <1>5, <1>6
<1>8. \A x \in S : x <= g
  BY <1>3, <1>4, <1>5, <1>6
<1> QED
  BY <1>7, <1>8

\* Whatever the series hold, the bounds are bucket ids, or zero.
LEMMA BoundsAreTyped ==
  ASSUME StabilizerInv
  PROVE  GetBounds \in (0 .. MaxBucket) \X (0 .. MaxBucket)
<1>1. MaxBucket \in Nat
  BY BoundsAssumption
<1>2. ASSUME NEW j \in Occupied
      PROVE  ForeverBounds(Retired(j))[1] \in 0 .. MaxBucket
             /\ ForeverBounds(Retired(j))[2] \in 0 .. MaxBucket
  <2>1. j \in 0 .. Mad - 1 /\ Retired(j) # None
    BY DEF StabilizerInv, RingShape, Occupied, Slots, IsSome
  <2>2. Holds(Retired(j), BucketsIn(IntervalAt(j)), valueOf)
    BY <2>1 DEF StabilizerInv, SlotInv, Retired, Pair
  <2>3. Retired(j) \in SeriesOf(Buckets, Measurements) /\ WellFormed(Retired(j))
    BY <2>2, ForeverSeriesIsSeriesOf DEF Holds
  <2>4. CASE Retired(j).empty
    BY <1>1, <2>4 DEF ForeverBounds
  <2>5. CASE ~Retired(j).empty
    <3>1. Retired(j).data # << >>
      BY <2>3, <2>5 DEF WellFormed
    <3>2. /\ ForeverBounds(Retired(j))[1] \in BucketsOf(Retired(j).data)
          /\ ForeverBounds(Retired(j))[2] \in BucketsOf(Retired(j).data)
      BY <2>3, <3>1, BoundsDelimit, BucketsAreNat
    <3>3. BucketsOf(Retired(j).data) \subseteq Buckets
      BY <2>2 DEF Holds, BucketsIn, StabilizerInv, HistoryInv
    <3> QED
      BY <1>1, <3>2, <3>3 DEF Buckets
  <2> QED
    BY <2>4, <2>5
<1>3. IsFiniteSet(0 .. MaxBucket)
  BY <1>1, FS_Interval
<1> DEFINE L == {ForeverBounds(Retired(j))[1] : j \in Occupied}
           U == {ForeverBounds(Retired(j))[2] : j \in Occupied} \cup {0}
<1>4. L \in SUBSET (0 .. MaxBucket) /\ U \in SUBSET (0 .. MaxBucket)
  BY <1>1, <1>2
<1>5. U # {} /\ (Occupied # {} => L # {})
  OBVIOUS
<1>6. GetBounds = IF Occupied = {} THEN <<0, 0>> ELSE <<Min(L), Max(U)>>
  BY DEF GetBounds
<1> HIDE DEF L, U
<1>7. IsFiniteSet(L) /\ IsFiniteSet(U) /\ L \in SUBSET Nat /\ U \in SUBSET Nat
      /\ L \in SUBSET Int /\ U \in SUBSET Int
  <2>1. IsFiniteSet(L) /\ IsFiniteSet(U)
    BY <1>3, <1>4, FS_Subset
  <2>2. \A x \in 0 .. MaxBucket : x \in Nat /\ x \in Int
    BY <1>1
  <2> QED
    BY <1>4, <2>1, <2>2
<1>8. Max(U) \in 0 .. MaxBucket
  <2>1. PICK m \in U : \A x \in U : x <= m
    BY <1>5, <1>7, Extremes
  <2> QED
    BY <1>4, <1>7, <2>1, MaxIs
<1>9. ASSUME Occupied # {} PROVE Min(L) \in 0 .. MaxBucket
  <2>1. PICK m \in L : \A x \in L : m <= x
    BY <1>5, <1>7, <1>9, Extremes
  <2> QED
    BY <1>4, <1>7, <2>1, MinIs
<1> QED
  BY <1>1, <1>6, <1>8, <1>9

Lower(j) == ForeverBounds(Retired(j))[1]
Upper(j) == ForeverBounds(Retired(j))[2]

\* The ends of a judged series are buckets of its interval and delimit it.
LEMMA SlotEnds ==
  ASSUME StabilizerInv, Answered, NEW j \in Slots
  PROVE  /\ Lower(j) \in BucketsIn(IntervalAt(j)) /\ Upper(j) \in BucketsIn(IntervalAt(j))
         /\ \A b \in BucketsIn(IntervalAt(j)) : Lower(j) <= b /\ b <= Upper(j)
<1>1. AllComplete /\ Retired(j).data # << >>
  BY DEF Answered, SomeAverageIsNaN
<1>2. Holds(Retired(j), BucketsIn(IntervalAt(j)), valueOf)
  BY <1>1, JudgedSlots
<1>3. Retired(j) \in SeriesOf(Buckets, Measurements) /\ WellFormed(Retired(j))
  BY <1>2, ForeverSeriesIsSeriesOf DEF Holds
<1>4. BucketsOf(Retired(j).data) = BucketsIn(IntervalAt(j))
  BY <1>2 DEF Holds
<1>5. /\ ForeverBounds(Retired(j))[1] \in BucketsIn(IntervalAt(j))
      /\ ForeverBounds(Retired(j))[2] \in BucketsIn(IntervalAt(j))
      /\ \A b \in BucketsIn(IntervalAt(j)) :
           ForeverBounds(Retired(j))[1] <= b /\ b <= ForeverBounds(Retired(j))[2]
  BY <1>1, <1>3, <1>4, BoundsDelimit, BucketsAreNat
<1> QED
  BY <1>5 DEF Lower, Upper

\* What the arithmetic on the history needs of it, without its quantifiers.
LEMMA HistoryIsTyped ==
  ASSUME StabilizerInv
  PROVE  /\ currentInterval \in Nat
         /\ \A b \in DOMAIN intervalOf : b \in Nat /\ intervalOf[b] \in Nat
<1>1. HistoryInv
  BY DEF StabilizerInv
<1>2. \A b \in DOMAIN intervalOf : b \in 1 .. MaxBucket
  BY <1>1 DEF HistoryInv, Buckets
<1>3. currentInterval \in Nat
  BY <1>1, BoundsAssumption DEF HistoryInv
<1>4. \A b \in DOMAIN intervalOf : intervalOf[b] \in 0 .. currentInterval
  BY <1>1 DEF HistoryInv
<1> QED
  BY <1>2, <1>3, <1>4, BoundsAssumption

\* Buckets are handed out in order, across intervals too.
LEMMA IntervalsGrow ==
  ASSUME StabilizerInv
  PROVE  \A a, b \in DOMAIN intervalOf : a < b => intervalOf[a] <= intervalOf[b]
<1>1. HistoryInv
  BY DEF StabilizerInv
<1> QED
  BY <1>1 DEF HistoryInv

\* A bucket of an earlier interval is smaller.
LEMMA EarlierIsSmaller ==
  ASSUME StabilizerInv, NEW a \in DOMAIN intervalOf, NEW b \in DOMAIN intervalOf,
         intervalOf[a] < intervalOf[b]
  PROVE  a < b
<1>1. /\ a \in Nat /\ b \in Nat /\ intervalOf[a] \in Int /\ intervalOf[b] \in Int
  BY HistoryIsTyped
<1>2. b < a => intervalOf[b] <= intervalOf[a]
  BY IntervalsGrow
<1> QED
  BY <1>1, <1>2

\* When stable, the bounds are the lower end of the oldest judged series and
\* the upper end of the newest.
LEMMA BoundsWhenAnswered ==
  ASSUME StabilizerInv, Answered
  PROVE  \E o, n \in Slots :
           /\ IntervalAt(o) = currentInterval - Mad
           /\ IntervalAt(n) = currentInterval - 1
           /\ GetBounds = <<Lower(o), Upper(n)>>
<1>1. /\ AllComplete /\ Occupied = Slots
      /\ currentInterval \in Nat /\ Mad \in Nat /\ Mad > 0
      /\ JudgedIntervals = (currentInterval - Mad) .. (currentInterval - 1)
  BY JudgedSlots, MadAssumption DEF Answered
<1>2. PICK o \in Slots : IntervalAt(o) = currentInterval - Mad
  <2>1. currentInterval - Mad \in JudgedIntervals
    BY <1>1
  <2> QED
    BY <1>1, <2>1, JudgedSlots
<1>3. PICK n \in Slots : IntervalAt(n) = currentInterval - 1
  <2>1. currentInterval - 1 \in JudgedIntervals
    BY <1>1
  <2> QED
    BY <1>1, <2>1, JudgedSlots
<1>4. \A j \in Slots : /\ IntervalAt(j) \in Int
                     /\ currentInterval - Mad <= IntervalAt(j)
                     /\ IntervalAt(j) <= currentInterval - 1
  <2>1. \A j \in Slots : IntervalAt(j) \in JudgedIntervals
    BY <1>1, JudgedSlots
  <2> QED
    BY <1>1, <2>1
<1>5. \A j \in Slots :
        /\ Lower(j) \in DOMAIN intervalOf /\ intervalOf[Lower(j)] = IntervalAt(j)
        /\ Upper(j) \in DOMAIN intervalOf /\ intervalOf[Upper(j)] = IntervalAt(j)
  BY SlotEnds DEF BucketsIn
<1>6. \A b \in DOMAIN intervalOf : b \in Nat
  BY HistoryIsTyped
<1>7. ASSUME NEW j \in Slots PROVE Lower(o) <= Lower(j)
  <2>1. CASE IntervalAt(j) = IntervalAt(o)
    <3>1. Lower(j) \in BucketsIn(IntervalAt(o))
      BY <2>1, SlotEnds
    <3> QED
      BY <3>1, SlotEnds
  <2>2. CASE IntervalAt(o) < IntervalAt(j)
    <3>1. Lower(o) < Lower(j)
      BY <1>5, <2>2, EarlierIsSmaller
    <3> QED
      BY <1>5, <1>6, <3>1
  <2> QED
    BY <1>1, <1>2, <1>4, <2>1, <2>2
<1>8. ASSUME NEW j \in Slots PROVE Upper(j) <= Upper(n)
  <2>1. CASE IntervalAt(j) = IntervalAt(n)
    <3>1. Upper(j) \in BucketsIn(IntervalAt(n))
      BY <2>1, SlotEnds
    <3> QED
      BY <3>1, SlotEnds
  <2>2. CASE IntervalAt(j) < IntervalAt(n)
    <3>1. Upper(j) < Upper(n)
      BY <1>5, <2>2, EarlierIsSmaller
    <3> QED
      BY <1>5, <1>6, <3>1
  <2> QED
    BY <1>1, <1>3, <1>4, <2>1, <2>2
<1>9. Min({Lower(j) : j \in Occupied}) = Lower(o)
  <2> DEFINE S == {Lower(j) : j \in Occupied}
  <2>1. S \in SUBSET Int /\ Lower(o) \in S /\ \A x \in S : Lower(o) <= x
    BY <1>1, <1>5, <1>6, <1>7
  <2> HIDE DEF S
  <2>2. Min(S) = Lower(o)
    BY <2>1, MinIs
  <2> QED
    BY <2>2 DEF S
<1>10. Max({Upper(j) : j \in Occupied} \cup {0}) = Upper(n)
  <2> DEFINE S == {Upper(j) : j \in Occupied} \cup {0}
  <2>1. S \in SUBSET Int /\ Upper(n) \in S /\ \A x \in S : x <= Upper(n)
    <3>1. Upper(n) \in Nat
      BY <1>5, <1>6
    <3> QED
      BY <1>1, <1>5, <1>6, <1>8, <3>1
  <2> HIDE DEF S
  <2>2. Max(S) = Upper(n)
    BY <2>1, MaxIs
  <2> QED
    BY <2>2 DEF S
<1>11. GetBounds = <<Lower(o), Upper(n)>>
  <2>1. Occupied # {}
    BY <1>1, <1>2
  <2> QED
    BY <1>9, <1>10, <2>1 DEF GetBounds, Lower, Upper
<1> QED
  BY <1>2, <1>3, <1>11

\* The bounds that trim the RTTs let exactly the judged buckets through.
LEMMA BoundsAreExactWhenAnswered ==
  ASSUME StabilizerInv, Answered
  PROVE  {b \in DOMAIN intervalOf : GetBounds[1] <= b /\ b <= GetBounds[2]} = JudgedBuckets
<1>1. PICK o, n \in Slots : /\ IntervalAt(o) = currentInterval - Mad
                           /\ IntervalAt(n) = currentInterval - 1
                           /\ GetBounds = <<Lower(o), Upper(n)>>
  BY BoundsWhenAnswered
<1>2. /\ AllComplete
      /\ currentInterval \in Nat /\ Mad \in Nat /\ Mad > 0
      /\ JudgedIntervals = (currentInterval - Mad) .. (currentInterval - 1)
  BY JudgedSlots, MadAssumption DEF Answered
<1>3. /\ Lower(o) \in DOMAIN intervalOf /\ intervalOf[Lower(o)] = currentInterval - Mad
      /\ Upper(n) \in DOMAIN intervalOf /\ intervalOf[Upper(n)] = currentInterval - 1
  BY <1>1, SlotEnds DEF BucketsIn
<1>4. /\ \A b \in DOMAIN intervalOf : b \in Nat /\ intervalOf[b] \in Nat
      /\ \A a, b \in DOMAIN intervalOf : a < b => intervalOf[a] <= intervalOf[b]
  BY HistoryIsTyped, IntervalsGrow
<1>5. GetBounds[1] = Lower(o) /\ GetBounds[2] = Upper(n)
  BY <1>1
<1>6. ASSUME NEW b \in DOMAIN intervalOf, Lower(o) <= b, b <= Upper(n)
      PROVE  b \in JudgedBuckets
  <2>1. Lower(o) = b \/ Lower(o) < b
    BY <1>3, <1>4, <1>6
  <2>2. b = Upper(n) \/ b < Upper(n)
    BY <1>3, <1>4, <1>6
  <2>3. currentInterval - Mad <= intervalOf[b] /\ intervalOf[b] <= currentInterval - 1
    BY <1>2, <1>3, <1>4, <2>1, <2>2
  <2> QED
    BY <1>2, <1>4, <2>3 DEF JudgedBuckets
<1>7. ASSUME NEW b \in JudgedBuckets
      PROVE  b \in DOMAIN intervalOf /\ Lower(o) <= b /\ b <= Upper(n)
  <2>1. b \in DOMAIN intervalOf /\ intervalOf[b] \in JudgedIntervals
    BY DEF JudgedBuckets
  <2>2. Lower(o) <= b
    <3>1. CASE intervalOf[b] = currentInterval - Mad
      BY <1>1, <2>1, <3>1, SlotEnds DEF BucketsIn
    <3>2. CASE intervalOf[b] # currentInterval - Mad
      <4>1. intervalOf[Lower(o)] < intervalOf[b]
        BY <1>2, <1>3, <2>1, <3>2
      <4>2. Lower(o) < b
        BY <1>3, <2>1, <4>1, EarlierIsSmaller
      <4> QED
        BY <1>3, <1>4, <2>1, <4>2
    <3> QED
      BY <3>1, <3>2
  <2>3. b <= Upper(n)
    <3>1. CASE intervalOf[b] = currentInterval - 1
      BY <1>1, <2>1, <3>1, SlotEnds DEF BucketsIn
    <3>2. CASE intervalOf[b] # currentInterval - 1
      <4>1. intervalOf[b] < intervalOf[Upper(n)]
        BY <1>2, <1>3, <2>1, <3>2
      <4>2. b < Upper(n)
        BY <1>3, <2>1, <4>1, EarlierIsSmaller
      <4> QED
        BY <1>3, <1>4, <2>1, <4>2
    <3> QED
      BY <3>1, <3>2
  <2> QED
    BY <2>1, <2>2, <2>3
<1>8. {b \in DOMAIN intervalOf : Lower(o) <= b /\ b <= Upper(n)} = JudgedBuckets
  <2> DEFINE S == {b \in DOMAIN intervalOf : Lower(o) <= b /\ b <= Upper(n)}
  <2>1. S \subseteq JudgedBuckets
    BY <1>6
  <2>2. JudgedBuckets \subseteq S
    BY <1>7
  <2> HIDE DEF S
  <2>3. S = JudgedBuckets
    BY <2>1, <2>2
  <2> QED
    BY <2>3 DEF S
<1> QED
  BY <1>5, <1>8, Zenon

\* No probe of the running interval or of an expelled one is counted in the
\* RPM, and none of a judged interval is left out.
THEOREM BoundsAreExactInvariant == Spec => []BoundsAreExact
<1>1. StabilizerInv => BoundsAreExact
  BY BoundsAreExactWhenAnswered DEF BoundsAreExact, IsStable, Answered
<1> QED
  BY <1>1, Invariance, PTL

-----------------------------------------------------------------------------
(* The verdict between two boundaries *)

\* A late answer finds nothing to fill in a ring that is stable.
LEMMA LateAnswerLeavesRing ==
  ASSUME StabilizerInv, IsStable, NEW b \in Buckets, NEW d \in Measurements,
         AddMeasurement(b, d)
  PROVE  aggregates' = aggregates
<1>1. AllComplete /\ JudgedBuckets \subseteq DOMAIN valueOf
  BY JudgedAreAnswered DEF IsStable, Answered
<1>2. b \notin DOMAIN valueOf
  BY DEF AddMeasurement, Stream!MayMeasure
<1>3. ASSUME NEW j \in Slots PROVE FillRetired(aggregates.data[j], b, d) = aggregates.data[j]
  <2>1. /\ IntervalAt(j) \in JudgedIntervals
        /\ BucketsOf(Retired(j).data) = BucketsIn(IntervalAt(j))
    BY <1>1, JudgedSlots DEF Holds
  <2>2. b \notin BucketsOf(Retired(j).data)
    BY <1>1, <1>2, <2>1 DEF BucketsIn, JudgedBuckets
  <2>3. ForeverFill(Retired(j), b, d) = Retired(j)
    BY <2>2 DEF ForeverFill
  <2>4. aggregates.data[j] \in [first : Nat, second : ForeverSeries \cup {None}]
    BY <1>1, JudgedSlots DEF StabilizerInv, RingShape
  <2> QED
    BY <2>3, <2>4 DEF FillRetired, Retired
<1>4. /\ aggregates = [data |-> aggregates.data, latestIndex |-> aggregates.latestIndex,
                       empty |-> aggregates.empty, windowSize |-> Mad]
      /\ aggregates.data \in [Slots -> [first : Nat, second : ForeverSeries \cup {None}]]
  BY <1>1, JudgedSlots DEF StabilizerInv, RingShape
<1>5. [j \in DOMAIN aggregates.data |-> FillRetired(aggregates.data[j], b, d)] = aggregates.data
  BY <1>3, <1>4 DEF Slots
<1>6. aggregates' = [aggregates EXCEPT !.data = aggregates.data]
  BY <1>5 DEF AddMeasurement
<1> QED
  BY <1>4, <1>6

\* A stable ring stays as it is until the interval ends.
LEMMA StableUntilBoundary ==
  ASSUME StabilizerInv, IsStable, [Next]_vars, currentInterval' = currentInterval
  PROVE  aggregates' = aggregates
<1>1. ASSUME NEW b \in Buckets, Reserve(b) PROVE aggregates' = aggregates
  BY <1>1 DEF Reserve
<1>2. ASSUME NEW b \in Buckets, NEW d \in Measurements, AddMeasurement(b, d)
      PROVE  aggregates' = aggregates
  BY <1>2, LateAnswerLeavesRing
<1>3. ~ Interval
  <2>1. currentInterval \in Nat
    BY HistoryIsTyped
  <2> QED
    BY <2>1 DEF Interval
<1>4. CASE UNCHANGED vars
  BY <1>4 DEF vars
<1> QED
  BY <1>1, <1>2, <1>3, <1>4 DEF Next

\* The verdict and the bounds are read off the ring alone.
LEMMA VerdictOfRing ==
  ASSUME aggregates' = aggregates
  PROVE  IsStable' = IsStable /\ GetBounds' = GetBounds
<1>1. IsStable' = IsStable
  BY Zenon DEF IsStable, AllComplete, SomeAverageIsNaN, Slots, Retired
<1>2. GetBounds' = GetBounds
  BY Zenon DEF GetBounds, Occupied, Slots, Retired
<1> QED
  BY <1>1, <1>2

\* Once stable, the verdict and the bounds stand until the next boundary,
\* whatever probes begin and whatever late answers come in.
THEOREM VerdictIsSettledInvariant == Spec => VerdictIsSettled
<1>1. StabilizerInv /\ [Next]_vars
        => [IsStable /\ currentInterval' = currentInterval
              => IsStable' /\ GetBounds' = GetBounds]_vars
  BY StableUntilBoundary, VerdictOfRing
<1> QED
  BY <1>1, Invariance, PTL DEF Spec, VerdictIsSettled

-----------------------------------------------------------------------------
(* The sliding window of intervals.                                        *)

\* The measurements of the buckets of one interval.
Answers(i) == [b \in BucketsIn(i) |-> IF b \in DOMAIN valueOf THEN valueOf[b] ELSE None]

\* A series that holds buckets with their values is, as a map, those values.
LEMMA HeldAsMap ==
  ASSUME NEW s, NEW bs, NEW val, Holds(s, bs, val)
  PROVE  AsMap(s) = [b \in bs |-> IF b \in DOMAIN val THEN val[b] ELSE None]
<1>1. \A i \in DOMAIN s.data : i \in Nat /\ s.data[i].first \in Nat
  BY SlotsAreTyped, ForeverSeriesIsSeriesOf, BucketsAreNat DEF Holds
<1>2. ASSUME NEW b \in bs
      PROVE  s.data[FirstSlot(s.data, b)].second
               = IF b \in DOMAIN val THEN val[b] ELSE None
  <2>1. PICK k \in DOMAIN s.data : s.data[k].first = b
    BY DEF Holds, BucketsOf
  <2>2. \A i \in DOMAIN s.data : s.data[i].first = b => i = k
    BY <1>1, <2>1 DEF Holds, WellFormed
  <2>3. \A j \in DOMAIN s.data : s.data[j].first = b => k <= j
    BY <1>1, <2>2
  <2>4. FirstSlot(s.data, b) \in DOMAIN s.data /\ s.data[FirstSlot(s.data, b)].first = b
    BY <2>1, <2>3 DEF FirstSlot
  <2> QED
    BY <2>4 DEF Holds
<1> QED
  BY <1>2 DEF AsMap, Holds

\* The slot of a judged interval holds its series, whether or not the ring has
\* come round.
LEMMA SlotOfInterval ==
  ASSUME StabilizerInv, NEW i \in JudgedIntervals
  PROVE  Holds(Retired(SlotOf(i)), BucketsIn(i), valueOf)
<1>1. /\ currentInterval \in Nat /\ Mad \in Nat
      /\ aggregates.latestIndex \in 0 .. Mad - 1
      /\ DOMAIN aggregates.data = 0 .. Mad - 1
  BY HistoryIsTyped, MadAssumption DEF StabilizerInv, RingShape
<1>2. i \in 0 .. currentInterval - 1 /\ i + Mad >= currentInterval
  BY DEF JudgedIntervals
<1>3. PICK j \in 0 .. Mad - 1 : Behind(j, aggregates.latestIndex) = currentInterval - 1 - i
  <2>1. currentInterval - 1 - i \in 0 .. Mad - 1
    BY <1>1, <1>2
  <2> QED
    BY <1>1, <2>1, SlotBehind
<1>4. IntervalAt(j) = i
  BY <1>1, <1>2, <1>3 DEF IntervalAt, Age
<1>5. j \in Occupied /\ aggregates.data[j].first = i
  <2>1. SlotInv(j) /\ i >= 0
    BY <1>2 DEF StabilizerInv
  <2>2. aggregates.data[j].second # None
    BY <1>4, <2>1, NoneIsNoMeasurement DEF SlotInv, Holds
  <2> QED
    BY <1>1, <1>4, <2>1, <2>2 DEF SlotInv, Occupied, Slots, Retired, IsSome
<1>6. SlotOf(i) \in Occupied /\ aggregates.data[SlotOf(i)].first = i
  BY <1>5 DEF SlotOf
<1>7. SlotOf(i) \in 0 .. Mad - 1 /\ aggregates.data[SlotOf(i)].second # None
  BY <1>1, <1>6 DEF Occupied, Slots, Retired, IsSome
<1>8. SlotInv(SlotOf(i))
  BY <1>7 DEF StabilizerInv
<1>9. IntervalAt(SlotOf(i)) >= 0
  BY <1>7, <1>8 DEF SlotInv, Pair
<1> QED
  BY <1>6, <1>8, <1>9 DEF SlotInv, Retired

\* What the ring keeps, in terms of the history: for each remembered interval
\* the buckets reserved in it, with all the answers that have come in.
KeepsHistory == Kept = [i \in Window!Remembered(currentInterval) |-> Answers(i)]

\* What the ring keeps is what the history says was measured.
LEMMA KeptIsHistory == StabilizerInv => KeepsHistory
<1> SUFFICES ASSUME StabilizerInv PROVE KeepsHistory
  OBVIOUS
<1>1. currentInterval \in Nat /\ Mad \in Nat /\ Mad > 0
  BY HistoryIsTyped, MadAssumption
<1>2. JudgedIntervals \cup {currentInterval} = Window!Remembered(currentInterval)
  BY <1>1 DEF JudgedIntervals, Window!Remembered
<1>3. AsMap(instantaneousses) = Answers(currentInterval)
  BY HeldAsMap DEF StabilizerInv, Answers
<1>4. \A i \in JudgedIntervals : AsMap(Retired(SlotOf(i))) = Answers(i)
  BY SlotOfInterval, HeldAsMap DEF Answers
<1> QED
  BY <1>2, <1>3, <1>4 DEF Kept, KeepsHistory

\* The ring starts as the abstract window does.
LEMMA WindowInit == Init => Window!Init
<1> SUFFICES ASSUME Init PROVE Window!Init
  OBVIOUS
<1>1. StabilizerInv
  BY InitInv
<1>2. currentInterval = 0 /\ valueOf = [b \in {} |-> 0] /\ DOMAIN intervalOf = {}
  BY DEF Init
<1>3. Window!Remembered(currentInterval) = {0}
  BY <1>2, MadAssumption DEF Window!Remembered
<1>4. Answers(0) = [b \in {} |-> None]
  BY <1>2 DEF Answers, BucketsIn
<1>5. Kept = [i \in {0} |-> [b \in {} |-> None]]
  BY <1>1, <1>3, <1>4, KeptIsHistory DEF KeepsHistory
<1>6. valueOf = [b \in {} |-> None]
  BY <1>2
<1> QED
  BY <1>2, <1>5, <1>6 DEF Window!Init

\* A new bucket is kept under the running interval.
LEMMA WindowReserves ==
  ASSUME StabilizerInv, KeepsHistory, KeepsHistory', NEW b \in Buckets, Reserve(b)
  PROVE  Window!Reserve(b)
<1>1. /\ \A r \in DOMAIN intervalOf : r < b
      /\ UNCHANGED <<currentInterval, valueOf>>
      /\ intervalOf' = Extend(intervalOf, b, currentInterval)
  BY DEF Reserve, Stream!MayReserve
<1>2. b \notin DOMAIN intervalOf /\ b \notin DOMAIN valueOf
  BY <1>1, BucketsAreNat DEF StabilizerInv, HistoryInv
<1>3. \A i : BucketsIn(i)' = IF i = currentInterval THEN BucketsIn(i) \cup {b} ELSE BucketsIn(i)
  BY <1>1, <1>2 DEF BucketsIn, Extend
<1> DEFINE R == Window!Remembered(currentInterval)
<1>4. /\ Kept = [i \in R |-> Answers(i)]
      /\ Kept' = [i \in R |-> Answers(i)']
  BY <1>1 DEF KeepsHistory
<1>5. \A i \in R : i # currentInterval => Answers(i)' = Answers(i)
  BY <1>1, <1>3 DEF Answers
<1>6. currentInterval \in R
  BY HistoryIsTyped, MadAssumption DEF Window!Remembered
<1>7. Answers(currentInterval)'
        = [r \in DOMAIN Answers(currentInterval) \cup {b} |->
             IF r = b THEN None ELSE Answers(currentInterval)[r]]
  BY <1>1, <1>2, <1>3 DEF Answers
<1> HIDE DEF R
<1>8. \A i \in DOMAIN Kept : \A r \in DOMAIN Kept[i] : r < b
  BY <1>1, <1>4 DEF Answers, BucketsIn
<1>9. Kept' = [Kept EXCEPT ![currentInterval] =
                 [r \in DOMAIN Kept[currentInterval] \cup {b} |->
                    IF r = b THEN None ELSE Kept[currentInterval][r]]]
  <2> DEFINE old == Answers(currentInterval)
             new == [r \in DOMAIN old \cup {b} |-> IF r = b THEN None ELSE old[r]]
  <2>1. Kept[currentInterval] = old
    BY <1>4, <1>6
  <2>2. Kept' = [i \in R |-> IF i = currentInterval THEN new ELSE Answers(i)]
    <3>1. Answers(currentInterval)' = new
      BY <1>7
    <3> HIDE DEF new
    <3>2. \A i \in R : Answers(i)' = IF i = currentInterval THEN new ELSE Answers(i)
      BY <1>1, <1>5, <3>1
    <3> QED
      BY <1>4, <3>2
  <2> HIDE DEF new
  <2>3. Kept' = [Kept EXCEPT ![currentInterval] = new]
    BY <1>4, <2>2
  <2> QED
    BY <2>1, <2>3 DEF new
<1> QED
  BY <1>1, <1>8, <1>9 DEF Window!Reserve

\* A measurement is kept wherever its bucket is, and dropped with its interval.
LEMMA WindowMeasures ==
  ASSUME StabilizerInv, KeepsHistory, KeepsHistory', NEW b \in Buckets, NEW d \in Measurements,
         AddMeasurement(b, d)
  PROVE  Window!Measure(b, d)
<1>1. /\ b \notin DOMAIN valueOf
      /\ UNCHANGED <<currentInterval, intervalOf>>
      /\ valueOf' = Extend(valueOf, b, d)
  BY DEF AddMeasurement, Stream!MayMeasure
<1>2. \A i : BucketsIn(i)' = BucketsIn(i)
  BY <1>1 DEF BucketsIn
<1> DEFINE R == Window!Remembered(currentInterval)
<1>3. /\ Kept = [i \in R |-> Answers(i)]
      /\ Kept' = [i \in R |-> Answers(i)']
  BY <1>1 DEF KeepsHistory
<1>4. \A i \in R : Answers(i)' = [r \in DOMAIN Answers(i) |-> IF r = b THEN d ELSE Answers(i)[r]]
  BY <1>1, <1>2 DEF Answers, Extend
<1> HIDE DEF R
<1>5. Kept' = [i \in DOMAIN Kept |-> [r \in DOMAIN Kept[i] |-> IF r = b THEN d ELSE Kept[i][r]]]
  BY <1>3, <1>4
<1>6. valueOf' = [r \in DOMAIN valueOf \cup {b} |-> IF r = b THEN d ELSE valueOf[r]]
  BY <1>1 DEF Extend
<1> QED
  BY <1>1, <1>5, <1>6 DEF Window!Measure

\* At the boundary the oldest interval is forgotten and no other is altered.
LEMMA WindowAdvances ==
  ASSUME StabilizerInv, KeepsHistory, KeepsHistory', Interval
  PROVE  Window!Advance
<1>1. currentInterval' = currentInterval + 1 /\ UNCHANGED <<intervalOf, valueOf>>
  BY DEF Interval
<1>2. currentInterval \in Nat /\ Mad \in Nat /\ Mad > 0
  BY HistoryIsTyped, MadAssumption
<1>3. \A i : Answers(i)' = Answers(i)
  BY <1>1 DEF Answers, BucketsIn
<1>4. Answers(currentInterval + 1) = [b \in {} |-> None]
  <2>1. BucketsIn(currentInterval + 1) = {}
    BY <1>2 DEF BucketsIn, StabilizerInv, HistoryInv
  <2> QED
    BY <2>1 DEF Answers
<1>5. /\ Kept = [i \in Window!Remembered(currentInterval) |-> Answers(i)]
      /\ Kept' = [i \in Window!Remembered(currentInterval + 1) |-> Answers(i)]
  BY <1>1, <1>3 DEF KeepsHistory
<1>6. \A i \in Window!Remembered(currentInterval + 1) :
        i # currentInterval + 1 => i \in Window!Remembered(currentInterval)
  BY <1>2 DEF Window!Remembered
<1>7. Kept' = [i \in Window!Remembered(currentInterval + 1) |->
                 IF i = currentInterval + 1 THEN [b \in {} |-> None] ELSE Kept[i]]
  BY <1>4, <1>5, <1>6
<1> QED
  BY <1>1, <1>7 DEF Window!Advance

\* The ring of series, the late fills into it and the overwriting of its oldest
\* slot implement the sliding window of intervals.
THEOREM StabilizerImplementsWindow == Spec => ImplementsSlidingIntervals
<1>1. Init => Window!Init
  BY WindowInit
<1>2. StabilizerInv /\ KeepsHistory /\ KeepsHistory' /\ [Next]_vars => [Window!Next]_(Window!vars)
  <2> SUFFICES ASSUME StabilizerInv, KeepsHistory, KeepsHistory', [Next]_vars
               PROVE  [Window!Next]_(Window!vars)
    OBVIOUS
  <2>1. ASSUME NEW b \in Buckets, Reserve(b) PROVE Window!Next
    BY <2>1, WindowReserves DEF Window!Next
  <2>2. ASSUME NEW b \in Buckets, NEW d \in Measurements, AddMeasurement(b, d)
        PROVE  Window!Next
    BY <2>2, WindowMeasures DEF Window!Next
  <2>3. CASE Interval
    BY <2>3, WindowAdvances DEF Window!Next
  <2>4. CASE UNCHANGED vars
    <3>1. UNCHANGED Kept
      <4>1. \A i : Answers(i)' = Answers(i)
        BY <2>4 DEF vars, Answers, BucketsIn
      <4> QED
        BY <2>4, <4>1 DEF vars, KeepsHistory
    <3> QED
      BY <2>4, <3>1 DEF vars, Window!vars
  <2> QED
    BY <2>1, <2>2, <2>3, <2>4 DEF Next
<1> QED
  BY <1>1, <1>2, KeptIsHistory, Invariance, PTL DEF Spec, Window!Spec, ImplementsSlidingIntervals
=============================================================================
