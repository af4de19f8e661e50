-------------------------- MODULE Direction_proofs --------------------------
(***************************************************************************)
(* What is proved about module Direction, for every bound, every set of    *)
(* measurements, both execution policies and the baseline: the order in    *)
(* which a direction winds down, that its RTT series keep every probe, and *)
(* that its RPM is computed from the probes it was judged on.              *)
(***************************************************************************)
EXTENDS Direction, Series_proofs

\* The contexts that are cancelled when a direction, or the baseline, has come
\* to a phase.
CancelledAt(p, m) ==
  IF p = "cancelNetwork" /\ m # "baseline" THEN {"prober", "throughputOperator"}
  ELSE IF p = "cancelOperators" /\ m = "baseline" THEN {"probeNetwork"}
  ELSE IF p \notin {"calculate", "done"} THEN {}
  ELSE IF m = "serial" THEN Contexts
  ELSE IF m = "parallel" THEN Contexts \ {"throughput"}
  ELSE {"probeNetwork", "prober"}

WindingDown ==
  /\ mode \in {"serial", "parallel", "baseline"}
  /\ cancelled = CancelledAt(phase, mode)

\* Nothing is cancelled before the loops are left, and nothing is cancelled
\* twice or in another order: the set of cancelled contexts is a function of
\* the place in the execution unit and of the execution policy.
LEMMA CancelledIsWindingDown == Spec => []WindingDown
<1>1. Init => WindingDown
  BY DEF Init, IsBaseline, WindingDown, CancelledAt
<1>2. WindingDown /\ [Next]_vars => WindingDown'
  <2> SUFFICES ASSUME WindingDown, [Next]_vars
               PROVE  WindingDown'
    OBVIOUS
  <2>1. CASE UNCHANGED <<phase, cancelled, mode>>
    BY <2>1 DEF WindingDown, CancelledAt
  <2>2. CASE TimerExpires
    BY <2>2, <2>1 DEF TimerExpires
  <2>3. CASE ThroughputTick
    BY <2>3, <2>1 DEF ThroughputTick
  <2>4. CASE ThroughputTimeout
    BY <2>4 DEF ThroughputTimeout, WindingDown, CancelledAt
  <2>5. ASSUME NEW b \in Responsiveness!Buckets, ReserveMessage(b)
        PROVE  WindingDown'
    BY <2>5, <2>1 DEF ReserveMessage
  <2>6. ASSUME NEW b \in Responsiveness!Buckets, NEW d \in Measurements,
               MeasureMessage(b, d)
        PROVE  WindingDown'
    BY <2>6, <2>1 DEF MeasureMessage
  <2>7. CASE ResponsivenessTick
    BY <2>7, <2>1 DEF ResponsivenessTick
  <2>8. CASE ResponsivenessTimeout
    BY <2>8 DEF ResponsivenessTimeout, InLoop, FirstToCancel, IsBaseline, WindingDown, CancelledAt
  <2>9. CASE ThroughputStable
    BY <2>9 DEF ThroughputStable, WindingDown, CancelledAt
  <2>10. CASE StartProber
    BY <2>10 DEF StartProber, WindingDown, CancelledAt
  <2>11. CASE ResponsivenessStable
    BY <2>11 DEF ResponsivenessStable, FirstToCancel, IsBaseline, WindingDown, CancelledAt
  <2>12. CASE CancelOperators
    BY <2>12 DEF CancelOperators, IsBaseline, WindingDown, CancelledAt
  <2>13. CASE CancelNetwork
    BY <2>13 DEF CancelNetwork, IsBaseline, WindingDown, CancelledAt, Contexts
  <2>14. CASE CalculateRpm
    BY <2>14 DEF CalculateRpm, WindingDown, CancelledAt
  <2>15. CASE UNCHANGED vars
    BY <2>15, <2>1 DEF vars
  <2>16. CASE BaselineCancelNetwork
    BY <2>16 DEF BaselineCancelNetwork, IsBaseline, WindingDown, CancelledAt
  <2>17. CASE BaselineCancelProber
    BY <2>17 DEF BaselineCancelProber, IsBaseline, WindingDown, CancelledAt
  <2> QED
    BY <2>2, <2>3, <2>4, <2>5, <2>6, <2>7, <2>8, <2>9, <2>10, <2>11, <2>12,
       <2>13, <2>14, <2>15, <2>16, <2>17 DEF Next, Advance
<1> QED
  BY <1>1, <1>2, PTL DEF Spec

\* "First, stop the load generator and the probe operators (but *not* the
\* network activity)": whatever the timers, the probes and the two verdicts
\* do, no connection of a direction is cut before those that use it are told to
\* stop, only the load of parallel directions is left on, and the baseline
\* leaves nothing on.
THEOREM CancellationOrder == Spec => []ConnectionsOutliveTheirUsers
<1>1. WindingDown => ConnectionsOutliveTheirUsers
  <2> SUFFICES ASSUME WindingDown PROVE ConnectionsOutliveTheirUsers
    OBVIOUS
  <2>1. CASE mode = "serial"
    BY <2>1 DEF WindingDown, CancelledAt, ConnectionsOutliveTheirUsers, IsBaseline, Contexts
  <2>2. CASE mode = "parallel"
    BY <2>2 DEF WindingDown, CancelledAt, ConnectionsOutliveTheirUsers, IsBaseline, Contexts
  <2>3. CASE mode = "baseline"
    BY <2>3 DEF WindingDown, CancelledAt, ConnectionsOutliveTheirUsers, IsBaseline
  <2> QED
    BY <2>1, <2>2, <2>3 DEF WindingDown
<1> QED
  BY <1>1, CancelledIsWindingDown, PTL

-----------------------------------------------------------------------------
(* The RTT series.                                                         *)

\* The RTT series hold what the stabilizer was given, which is nothing before
\* the prober is started (that is when the series are created).
RttsInv ==
  /\ HoldsAll(rtts, Responsiveness!Buckets, Measurements, DOMAIN intervalOf, valueOf)
  /\ DOMAIN valueOf \subseteq DOMAIN intervalOf
  /\ phase \in {"throughput", "between"} => DOMAIN intervalOf = {}

\* Bucket ids are numbers.
LEMMA BucketsAreNat == Responsiveness!Buckets \in SUBSET Nat
  BY MaxBucketAssumption DEF Responsiveness!Buckets

\* A new series holds nothing.
LEMMA NewHoldsAll ==
  ASSUME NEW val, DOMAIN val = {}
  PROVE  HoldsAll(NewForever, Responsiveness!Buckets, Measurements, {}, val)
<1>1. DOMAIN NewForever.data = {}
  BY DEF NewForever
<1> QED
  BY <1>1, NewIsWellFormed DEF HoldsAll

\* A reserve message adds its bucket to the RTT series.
LEMMA RttsReserve ==
  ASSUME RttsInv, NEW b \in Responsiveness!Buckets, ReserveMessage(b)
  PROVE  RttsInv'
<1>1. /\ \A r \in DOMAIN intervalOf : r < b
      /\ intervalOf' = Responsiveness!Extend(intervalOf, b, currentInterval)
      /\ UNCHANGED valueOf
      /\ rtts' = ForeverReserve(rtts, b)
      /\ phase = "responsiveness" /\ phase' = phase
  BY DEF ReserveMessage, InLoop, Responsiveness!Reserve, Responsiveness!Stream!MayReserve
<1>2. DOMAIN intervalOf' = DOMAIN intervalOf \cup {b}
  BY <1>1 DEF Responsiveness!Extend
<1>3. b \notin DOMAIN intervalOf
  BY <1>1, BucketsAreNat
<1>4. HoldsAll(rtts, Responsiveness!Buckets, Measurements, DOMAIN intervalOf, valueOf)
      /\ b \notin DOMAIN valueOf
  BY <1>3 DEF RttsInv
<1>5. HoldsAll(rtts', Responsiveness!Buckets, Measurements, DOMAIN intervalOf', valueOf)
  BY <1>1, <1>2, <1>4, BucketsAreNat, ReserveHoldsAll
<1> QED
  BY <1>1, <1>2, <1>5 DEF RttsInv

\* A measure message puts its datum where its bucket is.
LEMMA RttsMeasure ==
  ASSUME RttsInv, NEW b \in Responsiveness!Buckets, NEW d \in Measurements,
         MeasureMessage(b, d)
  PROVE  RttsInv'
<1>1. /\ b \in DOMAIN intervalOf /\ b \notin DOMAIN valueOf
      /\ valueOf' = Responsiveness!Extend(valueOf, b, d)
      /\ UNCHANGED intervalOf
      /\ rtts' = ForeverFill(rtts, b, d)
      /\ phase = "responsiveness" /\ phase' = phase
  BY DEF MeasureMessage, InLoop, Responsiveness!AddMeasurement,
         Responsiveness!Stream!MayMeasure
<1>2. /\ DOMAIN valueOf' = DOMAIN valueOf \cup {b}
      /\ \A r \in DOMAIN valueOf' : valueOf'[r] = IF r = b THEN d ELSE valueOf[r]
  BY <1>1 DEF Responsiveness!Extend
<1>3. HoldsAll(rtts, Responsiveness!Buckets, Measurements, DOMAIN intervalOf, valueOf)
  BY DEF RttsInv
<1>4. HoldsAll(rtts', Responsiveness!Buckets, Measurements, DOMAIN intervalOf, valueOf')
  BY <1>1, <1>2, <1>3, BucketsAreNat, FillHoldsAll
<1> QED
  BY <1>1, <1>2, <1>4 DEF RttsInv

\* The RTT series hold every probe, in every state.
LEMMA RttsInvariance == Spec => []RttsInv
<1>1. Init => RttsInv
  <2> SUFFICES ASSUME Init PROVE RttsInv
    OBVIOUS
  <2>1. rtts = NewForever /\ DOMAIN intervalOf = {} /\ DOMAIN valueOf = {}
    BY DEF Init, Responsiveness!Init
  <2> QED
    BY <2>1, NewHoldsAll DEF RttsInv
<1>2. RttsInv /\ [Next]_vars => RttsInv'
  <2> SUFFICES ASSUME RttsInv, [Next]_vars
               PROVE  RttsInv'
    OBVIOUS
  <2>1. CASE /\ UNCHANGED <<rtts, intervalOf, valueOf>>
             /\ phase' \in {"throughput", "between"} => phase \in {"throughput", "between"}
    BY <2>1 DEF RttsInv
  <2>2. CASE TimerExpires
    BY <2>2, <2>1 DEF TimerExpires, stabilizerVars
  <2>3. CASE ThroughputTick
    BY <2>3, <2>1 DEF ThroughputTick, stabilizerVars
  <2>4. CASE ThroughputTimeout
    BY <2>4, <2>1 DEF ThroughputTimeout, stabilizerVars
  <2>5. ASSUME NEW b \in Responsiveness!Buckets, ReserveMessage(b)
        PROVE  RttsInv'
    BY <2>5, RttsReserve
  <2>6. ASSUME NEW b \in Responsiveness!Buckets, NEW d \in Measurements,
               MeasureMessage(b, d)
        PROVE  RttsInv'
    BY <2>6, RttsMeasure
  <2>7. CASE ResponsivenessTick
    BY <2>7, <2>1 DEF ResponsivenessTick, Responsiveness!Interval, stabilizerVars
  <2>8. CASE ResponsivenessTimeout
    BY <2>8, <2>1 DEF ResponsivenessTimeout, FirstToCancel, stabilizerVars
  <2>9. CASE ThroughputStable
    BY <2>9, <2>1 DEF ThroughputStable, stabilizerVars
  <2>10. CASE StartProber
    <3>1. DOMAIN intervalOf = {} /\ DOMAIN valueOf = {} /\ rtts' = NewForever
          /\ UNCHANGED <<intervalOf, valueOf>>
      BY <2>10 DEF StartProber, stabilizerVars, RttsInv
    <3> QED
      BY <3>1, NewHoldsAll DEF RttsInv
  <2>11. CASE ResponsivenessStable
    BY <2>11, <2>1 DEF ResponsivenessStable, FirstToCancel, stabilizerVars
  <2>12. CASE CancelOperators
    BY <2>12, <2>1 DEF CancelOperators, stabilizerVars
  <2>13. CASE CancelNetwork
    BY <2>13, <2>1 DEF CancelNetwork, stabilizerVars
  <2>14. CASE CalculateRpm
    BY <2>14, <2>1 DEF CalculateRpm, stabilizerVars
  <2>15. CASE UNCHANGED vars
    BY <2>15, <2>1 DEF vars, stabilizerVars
  <2>16. CASE BaselineCancelNetwork \/ BaselineCancelProber
    BY <2>16, <2>1 DEF BaselineCancelNetwork, BaselineCancelProber, stabilizerVars
  <2> QED
    BY <2>2, <2>3, <2>4, <2>5, <2>6, <2>7, <2>8, <2>9, <2>10, <2>11, <2>12,
       <2>13, <2>14, <2>15, <2>16 DEF Next, Advance
<1> QED
  BY <1>1, <1>2, PTL DEF Spec

\* The series the RPM is computed from hold every probe the stabilizer was
\* told of, with its measurement if it had one, however late and whatever the
\* stabilizer has expelled since.
THEOREM RttsKeepEveryProbeInvariant == Spec => []RttsKeepEveryProbe
<1>1. RttsInv => RttsKeepEveryProbe
  BY DEF RttsInv, HoldsAll, RttsKeepEveryProbe
<1> QED
  BY <1>1, RttsInvariance, PTL

-----------------------------------------------------------------------------
(* The direction's stabilizer is the one of module Stabilizer, and what is *)
(* proved there holds of it.  To the provers the operators of the two      *)
(* instances are different names: these lemmas say that they are the same. *)

SP == INSTANCE Stabilizer_proofs

\* What module Stabilizer assumes of its constants.
LEMMA AssumptionsHold ==
  /\ SP!MadAssumption /\ SP!BoundsAssumption /\ SP!MeasurementsAssumption /\ SP!NoneAssumption
BY StabilizerAssumptions, MaxBucketAssumption
   DEF SP!MadAssumption, SP!BoundsAssumption, SP!MeasurementsAssumption, SP!NoneAssumption,
       SP!ForeverSeries, Responsiveness!ForeverSeries, SP!Buckets, Responsiveness!Buckets

\* The operations on series.
LEMMA SameSeries ==
  /\ Responsiveness!NewForever = SP!NewForever
  /\ \A s, b : Responsiveness!ForeverReserve(s, b) = SP!ForeverReserve(s, b)
  /\ \A s, b, d : Responsiveness!ForeverFill(s, b, d) = SP!ForeverFill(s, b, d)
  /\ \A w, b : Responsiveness!WindowReserve(w, b) = SP!WindowReserve(w, b)
  /\ \A w, b, d : Responsiveness!WindowFill(w, b, d) = SP!WindowFill(w, b, d)
  /\ \A s : Responsiveness!ForeverBounds(s) = SP!ForeverBounds(s)
<1>1. Responsiveness!NewForever = SP!NewForever
  BY Zenon DEF Responsiveness!NewForever, SP!NewForever
<1>2. \A s, b : Responsiveness!ForeverReserve(s, b) = SP!ForeverReserve(s, b)
  BY Zenon
     DEF Responsiveness!ForeverReserve, SP!ForeverReserve, Responsiveness!ForeverAccepts,
         SP!ForeverAccepts, Responsiveness!Newest, SP!Newest, Responsiveness!Pair, SP!Pair
<1>3. \A s, b, d : Responsiveness!ForeverFill(s, b, d) = SP!ForeverFill(s, b, d)
  BY Zenon
     DEF Responsiveness!ForeverFill, SP!ForeverFill, Responsiveness!BucketsOf, SP!BucketsOf,
         Responsiveness!FirstSlot, SP!FirstSlot
<1>4. \A w, b : Responsiveness!WindowReserve(w, b) = SP!WindowReserve(w, b)
  BY Zenon
     DEF Responsiveness!WindowReserve, SP!WindowReserve, Responsiveness!WindowAccepts,
         SP!WindowAccepts, Responsiveness!ReservedSlot, SP!ReservedSlot,
         Responsiveness!NextIndex, SP!NextIndex, Responsiveness!Pair, SP!Pair
<1>5. \A w, b, d : Responsiveness!WindowFill(w, b, d) = SP!WindowFill(w, b, d)
  BY Zenon
     DEF Responsiveness!WindowFill, SP!WindowFill, Responsiveness!FilledSlot, SP!FilledSlot,
         Responsiveness!SearchDistance, SP!SearchDistance, Responsiveness!BucketsOf,
         SP!BucketsOf
<1>6. \A s : Responsiveness!ForeverBounds(s) = SP!ForeverBounds(s)
  BY Zenon DEF Responsiveness!ForeverBounds, SP!ForeverBounds, Responsiveness!Newest, SP!Newest
<1> QED
  BY <1>1, <1>2, <1>3, <1>4, <1>5, <1>6

\* The steps.
LEMMA SameActions ==
  /\ \A b : Responsiveness!Reserve(b) => SP!Reserve(b)
  /\ \A b, d : Responsiveness!AddMeasurement(b, d) => SP!AddMeasurement(b, d)
  /\ Responsiveness!Interval => SP!Interval
  /\ Responsiveness!Init => SP!Init
  /\ Responsiveness!Buckets = SP!Buckets
<1>1. \A f, x, y : Responsiveness!Extend(f, x, y) = SP!Extend(f, x, y)
  BY Zenon DEF Responsiveness!Extend, SP!Extend
<1>2. \A s, b, d : Responsiveness!FillRetired(s, b, d) = SP!FillRetired(s, b, d)
  <2>1. \A s : Responsiveness!IsSome(s) = SP!IsSome(s)
    BY Zenon DEF Responsiveness!IsSome, SP!IsSome
  <2> QED
    BY <2>1, SameSeries, Zenon DEF Responsiveness!FillRetired, SP!FillRetired
<1>3. ASSUME NEW b, Responsiveness!Reserve(b) PROVE SP!Reserve(b)
  BY <1>1, <1>3, SameSeries, Zenon
     DEF Responsiveness!Reserve, SP!Reserve, Responsiveness!Stream!MayReserve, SP!Stream!MayReserve
<1>4. ASSUME NEW b, NEW d, Responsiveness!AddMeasurement(b, d) PROVE SP!AddMeasurement(b, d)
  <2>1. [j \in DOMAIN aggregates.data |-> Responsiveness!FillRetired(aggregates.data[j], b, d)]
          = [j \in DOMAIN aggregates.data |-> SP!FillRetired(aggregates.data[j], b, d)]
    BY <1>2
  <2> QED
    BY <1>1, <2>1, <1>4, SameSeries, Zenon
       DEF Responsiveness!AddMeasurement, SP!AddMeasurement,
           Responsiveness!Stream!MayMeasure, SP!Stream!MayMeasure
<1>5. Responsiveness!Interval => SP!Interval
  BY SameSeries, Zenon DEF Responsiveness!Interval, SP!Interval
<1>6. Responsiveness!NewWindow(Mad) = SP!NewWindow(Mad)
  BY Zenon DEF Responsiveness!NewWindow, SP!NewWindow, Responsiveness!Pair, SP!Pair
<1>7. Responsiveness!Init => SP!Init
  BY <1>6, SameSeries, Zenon DEF Responsiveness!Init, SP!Init
<1>8. Responsiveness!Buckets = SP!Buckets
  BY DEF Responsiveness!Buckets, SP!Buckets
<1> QED
  BY <1>3, <1>4, <1>5, <1>7, <1>8

\* What the direction reads of the stabilizer.
LEMMA SameReads ==
  /\ Responsiveness!IsStable => SP!Answered
  /\ Responsiveness!GetBounds = SP!GetBounds
  /\ Responsiveness!JudgedBuckets = SP!JudgedBuckets
  /\ SP!TypeOK => Responsiveness!TypeOK
<1>1. /\ Responsiveness!Slots = SP!Slots
      /\ \A j : Responsiveness!Retired(j) = SP!Retired(j)
      /\ \A d : Responsiveness!IsSome(d) = SP!IsSome(d)
  BY Zenon DEF Responsiveness!Slots, SP!Slots, Responsiveness!Retired, SP!Retired,
         Responsiveness!IsSome, SP!IsSome
<1>2. Responsiveness!IsStable => SP!Answered
  <2>1. \A s : Responsiveness!Complete(s) = SP!Complete(s)
    BY Zenon DEF Responsiveness!Complete, SP!Complete, Responsiveness!IsSome, SP!IsSome
  <2> QED
    BY <1>1, <2>1
       DEF Responsiveness!IsStable, SP!Answered, Responsiveness!AllComplete, SP!AllComplete,
           Responsiveness!SomeAverageIsNaN, SP!SomeAverageIsNaN
<1>3. Responsiveness!GetBounds = SP!GetBounds
  <2>1. Responsiveness!Occupied = SP!Occupied
    BY <1>1 DEF Responsiveness!Occupied, SP!Occupied
  <2>2. \A S : Responsiveness!Min(S) = SP!Min(S) /\ Responsiveness!Max(S) = SP!Max(S)
    BY Zenon DEF Responsiveness!Min, SP!Min, Responsiveness!Max, SP!Max
  <2>3. {Responsiveness!ForeverBounds(Responsiveness!Retired(j))[1] : j \in Responsiveness!Occupied}
          = {SP!ForeverBounds(SP!Retired(j))[1] : j \in SP!Occupied}
    BY <1>1, <2>1, SameSeries
  <2>4. {Responsiveness!ForeverBounds(Responsiveness!Retired(j))[2] : j \in Responsiveness!Occupied}
          = {SP!ForeverBounds(SP!Retired(j))[2] : j \in SP!Occupied}
    BY <1>1, <2>1, SameSeries
  <2> QED
    BY <2>1, <2>2, <2>3, <2>4, Zenon DEF Responsiveness!GetBounds, SP!GetBounds
<1>4. Responsiveness!JudgedBuckets = SP!JudgedBuckets
  BY Zenon DEF Responsiveness!JudgedBuckets, SP!JudgedBuckets,
         Responsiveness!JudgedIntervals, SP!JudgedIntervals
<1>5. SP!TypeOK => Responsiveness!TypeOK
  BY Zenon DEF Responsiveness!TypeOK, SP!TypeOK, Responsiveness!ForeverSeries, SP!ForeverSeries,
         Responsiveness!Buckets, SP!Buckets
<1> QED
  BY <1>2, <1>3, <1>4, <1>5

-----------------------------------------------------------------------------
(* The probes the RPM is computed from.                                    *)

\* What the direction has of the stabilizer: its invariant, the verdict with
\* which the loop was left, and the bounds read afterwards.
JudgedInv ==
  /\ SP!StabilizerInv
  /\ stableResponsiveness => SP!Answered
  /\ phase = "done" => /\ bounds = SP!GetBounds
                       /\ used = ExtractBounded(rtts, bounds[1], bounds[2]).data

\* A step that leaves the stabilizer alone.
LEMMA StabilizerStays ==
  ASSUME UNCHANGED stabilizerVars
  PROVE  /\ SP!StabilizerInv => SP!StabilizerInv'
         /\ SP!Answered' = SP!Answered
         /\ SP!GetBounds' = SP!GetBounds
<1> USE DEF stabilizerVars
<1>1. SP!StabilizerInv => SP!StabilizerInv'
  <2>1. UNCHANGED SP!vars
    BY DEF SP!vars
  <2> QED
    BY <2>1, SP!StepInv, AssumptionsHold
<1>2. SP!Answered' = SP!Answered
  BY Zenon DEF SP!Answered, SP!AllComplete, SP!SomeAverageIsNaN, SP!Slots, SP!Retired
<1>3. SP!GetBounds' = SP!GetBounds
  BY Zenon DEF SP!GetBounds, SP!Occupied, SP!Slots, SP!Retired
<1> QED
  BY <1>1, <1>2, <1>3

\* Initially nothing has been judged.
LEMMA JudgedInit == Init => JudgedInv
<1> SUFFICES ASSUME Init PROVE JudgedInv
  OBVIOUS
<1>1. SP!StabilizerInv
  BY SP!InitInv, AssumptionsHold, SameActions DEF Init
<1> QED
  BY <1>1 DEF Init, JudgedInv

\* The messages come only while the loop is running.
LEMMA MessageKeepsJudged ==
  ASSUME JudgedInv, InLoop, phase' = phase, stableResponsiveness' = stableResponsiveness, 
         \/ \E b \in SP!Buckets : SP!Reserve(b)
         \/ \E b \in SP!Buckets, d \in Measurements : SP!AddMeasurement(b, d)
  PROVE  JudgedInv'
<1>1. SP!StabilizerInv'
  BY SP!StepInv, AssumptionsHold DEF JudgedInv, SP!Next
<1>2. phase' # "done" /\ ~stableResponsiveness'
  BY DEF InLoop
<1> QED
  BY <1>1, <1>2 DEF JudgedInv

\* Nothing but the loop touches the stabilizer, and it does so only until the
\* verdict.
LEMMA JudgedStep == JudgedInv /\ [Next]_vars => JudgedInv'
<1> SUFFICES ASSUME JudgedInv, [Next]_vars
             PROVE  JudgedInv'
  OBVIOUS
<1>1. CASE /\ UNCHANGED stabilizerVars
           /\ UNCHANGED <<stableResponsiveness, rtts, bounds, used>>
           /\ phase' = "done" => phase = "done"
  BY <1>1, StabilizerStays DEF JudgedInv
<1>2. CASE /\ phase' # "done"
           /\ UNCHANGED <<stabilizerVars, stableResponsiveness>>
  BY <1>2, StabilizerStays DEF JudgedInv
<1>3. CASE TimerExpires \/ ThroughputTick
  BY <1>1, <1>3 DEF TimerExpires, ThroughputTick
<1>4. CASE ThroughputTimeout \/ ThroughputStable \/ StartProber
  BY <1>2, <1>4 DEF ThroughputTimeout, ThroughputStable, StartProber
<1>5. ASSUME NEW b \in Responsiveness!Buckets, ReserveMessage(b)
      PROVE  JudgedInv'
  BY <1>5, SameActions, MessageKeepsJudged DEF ReserveMessage
<1>6. ASSUME NEW b \in Responsiveness!Buckets, NEW d \in Measurements, MeasureMessage(b, d)
      PROVE  JudgedInv'
  BY <1>6, SameActions, MessageKeepsJudged DEF MeasureMessage
<1>7. CASE ResponsivenessTick
  <2>1. phase' # "done" /\ stableResponsiveness' = Responsiveness!IsStable
    BY <1>7 DEF ResponsivenessTick, InLoop
  <2>2. CASE Responsiveness!IsStable
    <3>1. UNCHANGED stabilizerVars
      BY <1>7, <2>2 DEF ResponsivenessTick
    <3>2. SP!Answered'
      BY <2>2, <3>1, SameReads, StabilizerStays
    <3> QED
      BY <2>1, <3>1, <3>2, StabilizerStays DEF JudgedInv
  <2>3. CASE ~Responsiveness!IsStable
    <3>1. SP!Interval /\ ~stableResponsiveness'
      BY <1>7, <2>1, <2>3, SameActions DEF ResponsivenessTick
    <3>2. SP!StabilizerInv'
      BY <3>1, SP!StepInv, AssumptionsHold DEF JudgedInv, SP!Next
    <3> QED
      BY <2>1, <3>1, <3>2 DEF JudgedInv
  <2> QED
    BY <2>2, <2>3
<1>8. CASE ResponsivenessTimeout \/ ResponsivenessStable
  BY <1>2, <1>8 DEF ResponsivenessTimeout, ResponsivenessStable, FirstToCancel
<1>9. CASE CancelOperators \/ CancelNetwork
  BY <1>2, <1>9 DEF CancelOperators, CancelNetwork
<1>10. CASE BaselineCancelNetwork \/ BaselineCancelProber
  BY <1>2, <1>10 DEF BaselineCancelNetwork, BaselineCancelProber
<1>11. CASE CalculateRpm
  <2>1. /\ UNCHANGED <<stabilizerVars, stableResponsiveness, rtts>>
        /\ bounds' = SP!GetBounds
        /\ used' = ExtractBounded(rtts, bounds'[1], bounds'[2]).data
    BY <1>11, SameReads DEF CalculateRpm
  <2>2. bounds' = SP!GetBounds' /\ SP!StabilizerInv' /\ (stableResponsiveness' => SP!Answered')
    BY <2>1, StabilizerStays DEF JudgedInv
  <2>3. used' = ExtractBounded(rtts', bounds'[1], bounds'[2]).data
    BY <2>1
  <2> QED
    BY <2>2, <2>3 DEF JudgedInv
<1>12. CASE UNCHANGED vars
  BY <1>1, <1>12 DEF vars
<1> QED
  BY <1>3, <1>4, <1>5, <1>6, <1>7, <1>8, <1>9, <1>10, <1>11, <1>12 DEF Next, Advance

\* JudgedInv holds in every state.
LEMMA JudgedInvariance == Spec => []JudgedInv
  BY JudgedInit, JudgedStep, PTL DEF Spec

\* The RPM of a direction that left its loop on a stable verdict is computed
\* from all probes of the judged intervals, each with its measurement, and from
\* no others.
THEOREM RpmFromJudgedProbesInvariant == Spec => []RpmFromJudgedProbes
<1>1. JudgedInv /\ RttsInv => RpmFromJudgedProbes
  <2> SUFFICES ASSUME JudgedInv, RttsInv, phase = "done", stableResponsiveness
               PROVE  {used[i] : i \in DOMAIN used}
                        = {Pair(b, valueOf[b]) : b \in Responsiveness!JudgedBuckets}
    BY DEF RpmFromJudgedProbes
  <2> DEFINE lower == SP!GetBounds[1]
             upper == SP!GetBounds[2]
             judged == Responsiveness!JudgedBuckets
             B == Responsiveness!Buckets
             inside == IndicesWithin(rtts.data, lower, upper)
  <2>1. /\ SP!StabilizerInv /\ SP!Answered
        /\ used = ExtractBounded(rtts, lower, upper).data
    BY DEF JudgedInv
  <2>2. /\ judged = {b \in DOMAIN intervalOf : lower <= b /\ b <= upper}
        /\ judged \subseteq DOMAIN valueOf
    BY <2>1, SP!JudgedAreAnswered, SP!BoundsAreExactWhenAnswered, AssumptionsHold, SameReads
  <2>3. /\ B \in SUBSET Nat
        /\ rtts.data \in Seq(SlotsOf(B, Measurements))
        /\ Ascending(rtts.data)
        /\ BucketsOf(rtts.data) = DOMAIN intervalOf
        /\ \A i \in DOMAIN rtts.data :
             rtts.data[i].second = IF rtts.data[i].first \in DOMAIN valueOf
                                   THEN valueOf[rtts.data[i].first] ELSE None
    BY BucketsAreNat DEF RttsInv, HoldsAll, SeriesOf, SlotsOf, WellFormed, Ascending
  <2> HIDE DEF lower, upper, B, judged
  <2>4. {used[i] : i \in DOMAIN used} = {rtts.data[i] : i \in inside}
    <3>1. Extracts(ExtractBounded(rtts, lower, upper).data, rtts, lower, upper,
                   SlotsOf(B, Measurements))
      BY <2>3, ExtractedAre
    <3> QED
      BY <2>1, <3>1, Zenon DEF Extracts, RangeOf, inside
  <2>5. \A i \in DOMAIN rtts.data : rtts.data[i] = Pair(rtts.data[i].first, rtts.data[i].second)
    BY <2>3, SlotFields
  <2>6. ASSUME NEW i \in inside
        PROVE  rtts.data[i].first \in judged
               /\ rtts.data[i] = Pair(rtts.data[i].first, valueOf[rtts.data[i].first])
    <3>1. /\ i \in DOMAIN rtts.data
          /\ lower <= rtts.data[i].first /\ rtts.data[i].first <= upper
          /\ rtts.data[i].first \in DOMAIN intervalOf
      BY <2>3 DEF IndicesWithin, BucketsOf
    <3>2. rtts.data[i].first \in judged
      BY <2>2, <3>1
    <3> QED
      BY <2>2, <2>3, <2>5, <3>1, <3>2
  <2>7. ASSUME NEW b \in judged
        PROVE  \E i \in inside : rtts.data[i].first = b
    <3>1. b \in DOMAIN intervalOf /\ lower <= b /\ b <= upper
      BY <2>2
    <3> QED
      BY <2>3, <3>1 DEF BucketsOf, IndicesWithin
  <2> HIDE DEF inside
  <2>8. {rtts.data[i] : i \in inside} = {Pair(b, valueOf[b]) : b \in judged}
    BY <2>6, <2>7
  <2> QED
    BY <2>4, <2>8 DEF judged
<1> QED
  BY <1>1, JudgedInvariance, RttsInvariance, PTL

-----------------------------------------------------------------------------
(* Type correctness.                                                       *)

\* The types of the local variables; the bounds are set in the end.
LocalsInv ==
  /\ phase \in {"throughput", "between", "responsiveness", "cancelOperators",
                "cancelNetwork", "calculate", "done"}
  /\ timer \in {"armed", "expired", "consumed"}
  /\ throughputIntervals \in 0 .. Mad
  /\ stableThroughput \in BOOLEAN /\ stableResponsiveness \in BOOLEAN
  /\ phase # "done" => bounds = <<0, 0>>

\* The local variables keep these types.
LEMMA LocalsInvariance == Spec => []LocalsInv
<1>1. Init => LocalsInv
  <2>1. 0 \in 0 .. Mad
    BY StabilizerAssumptions
  <2>2. ASSUME Init PROVE phase \in {"responsiveness", "throughput"}
    BY <2>2 DEF Init
  <2> QED
    BY <2>1, <2>2 DEF Init, LocalsInv
<1>2. LocalsInv /\ [Next]_vars => LocalsInv'
  <2> SUFFICES ASSUME LocalsInv, [Next]_vars
               PROVE  LocalsInv'
    OBVIOUS
  <2>1. CASE UNCHANGED <<phase, timer, throughputIntervals, stableThroughput,
                         stableResponsiveness, bounds>>
    BY <2>1 DEF LocalsInv
  <2>2. CASE TimerExpires
    BY <2>2 DEF TimerExpires, LocalsInv
  <2>3. CASE ThroughputTick
    <3>1. throughputIntervals' \in 0 .. Mad
      BY <2>3, StabilizerAssumptions DEF ThroughputTick, LocalsInv
    <3>2. stableThroughput' \in BOOLEAN
      BY <2>3 DEF ThroughputTick
    <3> QED
      BY <2>3, <3>1, <3>2 DEF ThroughputTick, LocalsInv
  <2>4. CASE ThroughputTimeout \/ ThroughputStable
    BY <2>4 DEF ThroughputTimeout, ThroughputStable, LocalsInv
  <2>5. CASE StartProber
    BY <2>5 DEF StartProber, LocalsInv
  <2>6. ASSUME NEW b \in Responsiveness!Buckets, ReserveMessage(b)
        PROVE  LocalsInv'
    BY <2>6, <2>1 DEF ReserveMessage
  <2>7. ASSUME NEW b \in Responsiveness!Buckets, NEW d \in Measurements,
               MeasureMessage(b, d)
        PROVE  LocalsInv'
    BY <2>7, <2>1 DEF MeasureMessage
  <2>8. CASE ResponsivenessTick
    <3>1. Responsiveness!IsStable \in BOOLEAN
      BY DEF Responsiveness!IsStable
    <3>2. /\ stableResponsiveness' \in BOOLEAN
          /\ UNCHANGED <<phase, timer, throughputIntervals, stableThroughput, bounds>>
      BY <2>8, <3>1 DEF ResponsivenessTick
    <3> QED
      BY <3>2 DEF LocalsInv
  <2>9. CASE ResponsivenessTimeout \/ ResponsivenessStable
    BY <2>9 DEF ResponsivenessTimeout, ResponsivenessStable, FirstToCancel, InLoop, LocalsInv
  <2>10. CASE CancelOperators \/ CancelNetwork
    BY <2>10 DEF CancelOperators, CancelNetwork, LocalsInv
  <2>11. CASE BaselineCancelNetwork \/ BaselineCancelProber
    BY <2>11 DEF BaselineCancelNetwork, BaselineCancelProber, LocalsInv
  <2>12. CASE CalculateRpm
    BY <2>12 DEF CalculateRpm, LocalsInv
  <2>13. CASE UNCHANGED vars
    BY <2>13, <2>1 DEF vars
  <2> QED
    BY <2>2, <2>3, <2>4, <2>5, <2>6, <2>7, <2>8, <2>9, <2>10, <2>11, <2>12,
       <2>13 DEF Next, Advance
<1> QED
  BY <1>1, <1>2, PTL DEF Spec

\* The direction's fields have their types, those of its stabilizer, its series
\* and its bounds included.
THEOREM TypeCorrect == Spec => []TypeOK
<1>1. WindingDown => mode \in {"serial", "parallel", "baseline"} /\ cancelled \subseteq Contexts
  BY DEF WindingDown, CancelledAt, Contexts
<1>2. RttsInv => rtts \in Responsiveness!ForeverSeries
  BY DEF RttsInv, HoldsAll, SeriesOf, Responsiveness!ForeverSeries
<1>3. JudgedInv => Responsiveness!TypeOK
  BY SP!InvIsTyped, AssumptionsHold, SameReads DEF JudgedInv
<1>4. JudgedInv /\ LocalsInv => bounds \in (0 .. MaxBucket) \X (0 .. MaxBucket)
  <2> SUFFICES ASSUME JudgedInv, LocalsInv
               PROVE  bounds \in (0 .. MaxBucket) \X (0 .. MaxBucket)
    OBVIOUS
  <2>1. CASE phase = "done"
    BY <2>1, SP!BoundsAreTyped, AssumptionsHold DEF JudgedInv
  <2>2. CASE phase # "done"
    BY <2>2, MaxBucketAssumption DEF LocalsInv
  <2> QED
    BY <2>1, <2>2
<1>5. WindingDown /\ RttsInv /\ JudgedInv /\ LocalsInv => TypeOK
  BY <1>1, <1>2, <1>3, <1>4 DEF LocalsInv, TypeOK
<1> QED
  BY <1>5, CancelledIsWindingDown, RttsInvariance, JudgedInvariance, LocalsInvariance, PTL
=============================================================================
