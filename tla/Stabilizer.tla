----------------------------- MODULE Stabilizer -----------------------------
(***************************************************************************)
(* stabilizer.MeasurementStablizer (stabilizer/algorithm.go).  Its methods *)
(* hold the mutex m from entry to return, so each one is one action.       *)
(*                                                                         *)
(* The coordinator calls Reserve and AddMeasurement for the messages of a  *)
(* measurement stream (MeasurementStream) and Interval on a timer, in any  *)
(* interleaving: a probe may be answered after the interval in which it    *)
(* began has been retired, or even expelled from the ring.                 *)
(*                                                                         *)
(* intervalOf and valueOf are history: what was reserved, in which         *)
(* interval, and what was measured.  The code does not keep them; the      *)
(* stream's state and the properties are stated with them.                 *)
(***************************************************************************)
EXTENDS Series, FiniteSets, FiniteSetsExt, Functions

CONSTANTS
  Mad,            \* how many completed intervals are judged (the ring's size)
  Sdt,            \* stability cutoff, per cent of the average
  Measurements,   \* the values a measurement may have
  MaxBucket,      \* bound: bucket ids are 1 .. MaxBucket
  MaxInterval     \* bound: intervals are 0 .. MaxInterval

Buckets == 1 .. MaxBucket

ASSUME MadAssumption == Mad \in Nat \ {0}
ASSUME BoundsAssumption == MaxBucket \in Nat /\ MaxInterval \in Nat
ASSUME MeasurementsAssumption == Measurements \subseteq Nat

\* What an aggregate slot may hold besides None: a forever series.
ForeverSeries ==
  [data : Seq([first : Buckets, second : Measurements \cup {None}]),
   empty : BOOLEAN]

ASSUME NoneAssumption == None \notin Nat /\ None \notin ForeverSeries

VARIABLES
  instantaneousses,  \* forever series of the current interval
  aggregates,        \* window-only series: interval number -> retired series
  currentInterval,
  intervalOf,        \* history: reserved bucket -> its interval
  valueOf            \* history: measured bucket -> its measurement

vars == <<instantaneousses, aggregates, currentInterval, intervalOf, valueOf>>

Stream == INSTANCE MeasurementStream
            WITH reserved <- DOMAIN intervalOf, measured <- DOMAIN valueOf,
                 messages <- Cardinality(DOMAIN intervalOf) + Cardinality(DOMAIN valueOf)

Init ==
  /\ instantaneousses = NewForever
  /\ aggregates = NewWindow(Mad)
  /\ currentInterval = 0
  /\ intervalOf = [b \in {} |-> 0]
  /\ valueOf = [b \in {} |-> 0]

-----------------------------------------------------------------------------
\* f with x mapped to y.
Extend(f, x, y) == [z \in DOMAIN f \cup {x} |-> IF z = x THEN y ELSE f[z]]

Reserve(b) ==
  /\ Stream!MayReserve(b)
  /\ instantaneousses' = ForeverReserve(instantaneousses, b)
  /\ intervalOf' = Extend(intervalOf, b, currentInterval)
  /\ UNCHANGED <<aggregates, currentInterval, valueOf>>

\* Mutant: a late answer is looked for in the current interval only.
FillRetired_Skipped(slot, b, d) == slot

\* The retired series are looked up too, each filled in place.
FillRetired(slot, b, d) ==
  IF IsSome(slot.second)
  THEN [slot EXCEPT !.second = ForeverFill(slot.second, b, d)]
  ELSE slot

AddMeasurement(b, d) ==
  /\ Stream!MayMeasure(b)
  /\ instantaneousses' = ForeverFill(instantaneousses, b, d)
  /\ aggregates' =
       [aggregates EXCEPT !.data =
          [j \in DOMAIN aggregates.data |-> FillRetired(aggregates.data[j], b, d)]]
  /\ valueOf' = Extend(valueOf, b, d)
  /\ UNCHANGED <<currentInterval, intervalOf>>

\* At the boundary the instantaneous series is moved to the ring, where it
\* takes the place of the oldest one, and a new one is started.
Interval ==
  /\ currentInterval < MaxInterval
  /\ aggregates' = WindowFill(WindowReserve(aggregates, currentInterval),
                              currentInterval, instantaneousses)
  /\ instantaneousses' = NewForever
  /\ currentInterval' = currentInterval + 1
  /\ UNCHANGED <<intervalOf, valueOf>>

Next == \/ \E b \in Buckets : Reserve(b)
        \/ \E b \in Buckets, d \in Measurements : AddMeasurement(b, d)
        \/ Interval

Spec == Init /\ [][Next]_vars

-----------------------------------------------------------------------------
(* IsStable and GetBounds, which only read.                                *)

Slots == DOMAIN aggregates.data
Retired(j) == aggregates.data[j].second
Occupied == {j \in Slots : IsSome(Retired(j))}

AllComplete == \A j \in Slots : IsSome(Retired(j)) /\ Complete(Retired(j))

\* Mutant: an empty interval counts as one whose average is zero.
SomeAverageIsNaN_Ignored == FALSE

\* The average of an empty series is 0/0: every comparison with a NaN fails.
SomeAverageIsNaN == \E j \in Slots : Retired(j).data = << >>

\* sd(averages) <= average(averages) * Sdt/100, over the rationals: the
\* averages are brought to a common denominator (scaled), both sides squared.
Total(s) == SumFunction([i \in DOMAIN s.data |-> s.data[i].second])

WithinCutoff(ring) ==
  LET count(j)  == Len(ring[j].second.data)
      others(j) == [k \in DOMAIN ring \ {j} |-> count(k)]
      scaled    == [j \in DOMAIN ring |->
                      Total(ring[j].second)
                        * FoldFunction(LAMBDA x, y : x * y, 1, others(j))]
      sum       == SumFunction(scaled)
      deviation == [j \in DOMAIN ring |->
                      (Mad * scaled[j] - sum) * (Mad * scaled[j] - sum)]
  IN 10000 * SumFunction(deviation) <= Mad * sum * sum * Sdt * Sdt

IsStable == AllComplete /\ ~SomeAverageIsNaN /\ WithinCutoff(aggregates.data)

\* Mutant: the lower bound starts at zero (no haveMinimum).
GetBounds_FromZero ==
  <<Min({ForeverBounds(Retired(j))[1] : j \in Occupied} \cup {0}),
    Max({ForeverBounds(Retired(j))[2] : j \in Occupied} \cup {0})>>

\* Mutant: the running interval is taken into account as well.
GetBounds_WithCurrent ==
  IF Occupied = {} THEN <<0, 0>>
  ELSE <<Min({ForeverBounds(Retired(j))[1] : j \in Occupied}),
         Max({ForeverBounds(Retired(j))[2] : j \in Occupied}
               \cup {ForeverBounds(instantaneousses)[2]})>>

\* The least lower and the greatest upper bound of the retired series; an
\* empty one contributes (0, 0).
GetBounds ==
  IF Occupied = {} THEN <<0, 0>>
  ELSE <<Min({ForeverBounds(Retired(j))[1] : j \in Occupied}),
         Max({ForeverBounds(Retired(j))[2] : j \in Occupied} \cup {0})>>

-----------------------------------------------------------------------------
(* Properties *)

\* Type invariant of the fields of MeasurementStablizer and of the history.
TypeOK ==
  /\ instantaneousses \in ForeverSeries
  /\ aggregates.latestIndex \in 0 .. Mad - 1
  /\ aggregates.windowSize = Mad
  /\ aggregates.empty \in BOOLEAN
  /\ aggregates.data \in
       [0 .. Mad - 1 -> [first : Nat, second : ForeverSeries \cup {None}]]
  /\ currentInterval \in 0 .. MaxInterval
  /\ DOMAIN intervalOf \subseteq Buckets
  /\ \A b \in DOMAIN intervalOf : intervalOf[b] \in 0 .. currentInterval
  /\ DOMAIN valueOf \subseteq DOMAIN intervalOf
  /\ \A b \in DOMAIN valueOf : valueOf[b] \in Measurements

\* The intervals the verdict is about, and the buckets reserved in them.
JudgedIntervals == {i \in 0 .. currentInterval - 1 : i + Mad >= currentInterval}
JudgedBuckets == {b \in DOMAIN intervalOf : intervalOf[b] \in JudgedIntervals}

\* IsStable answers true only when Mad intervals have ended, each of the last
\* Mad saw a probe begin, and every probe that began in them was answered --
\* however late the answers came.
StableMeansAnswered ==
  IsStable => /\ Cardinality(JudgedIntervals) = Mad
              /\ \A i \in JudgedIntervals : \E b \in JudgedBuckets : intervalOf[b] = i
              /\ JudgedBuckets \subseteq DOMAIN valueOf

\* When stable, GetBounds delimits exactly the judged buckets: no bucket of
\* the running interval or of an expelled one lies between the bounds that
\* trim the RTTs from which the RPM is computed.
BoundsAreExact ==
  IsStable =>
    {b \in DOMAIN intervalOf : GetBounds[1] <= b /\ b <= GetBounds[2]} = JudgedBuckets

\* Once stable, neither a new reservation nor a late answer changes the
\* verdict or the bounds: only an interval boundary can.  The coordinator
\* leaves its loop on the verdict and reads the bounds afterwards.
VerdictIsSettled ==
  [][IsStable /\ currentInterval' = currentInterval
       => IsStable' /\ GetBounds' = GetBounds]_vars

\* The ring of series keeps exactly the sliding window of intervals.
AsMap(s) == [b \in BucketsOf(s.data) |-> s.data[FirstSlot(s.data, b)].second]

SlotOf(i) == CHOOSE j \in Occupied : aggregates.data[j].first = i

Kept == [i \in JudgedIntervals \cup {currentInterval} |->
           IF i = currentInterval THEN AsMap(instantaneousses)
           ELSE AsMap(Retired(SlotOf(i)))]

Window == INSTANCE SlidingIntervals
            WITH current <- currentInterval, kept <- Kept, answers <- valueOf

ImplementsSlidingIntervals == Window!Spec
=============================================================================
