------------------------ MODULE NetworkQuality_proofs ------------------------
(***************************************************************************)
(* What is proved about module NetworkQuality, for every number of         *)
(* directions, every bound and both execution policies: the conditions     *)
(* under which directions measure, the loads that main finds, the probes   *)
(* the final RPM is computed from, its percentile and trimmed data, and    *)
(* the measurements that are exported.                                     *)
(***************************************************************************)
EXTENDS NetworkQuality, Series_proofs

\* The load of a direction follows from where its unit is and from the policy.
LoadAt(u, par) ==
  IF u = "ready" THEN "none"
  ELSE IF u = "done" /\ ~par THEN "cancelled"
  ELSE "on"

\* Until main stops the loads they are as the units have left them.
LoadsFollowUnits ==
  main \in {"waiting", "stopping"} => load = [d \in Units |-> LoadAt(unit[d], parallel)]

\* A serial unit has been started only if those before it have returned.
OneAfterTheOther ==
  ~parallel => \A i, j \in DOMAIN Directions :
                 i < j /\ unit[Directions[j]] # "ready" => unit[Directions[i]] = "done"

\* Main has passed the wait group only if every unit has returned.
AllReturned == main # "waiting" => \A d \in Units : unit[d] = "done"

WorldInv ==
  /\ unit \in [Units -> {"ready", "throughput", "responsiveness", "ending", "done"}]
  /\ parallel \in BOOLEAN
  /\ main \in {"waiting", "stopping", "aggregating", "exporting", "done"}
  /\ ~warned
  /\ LoadsFollowUnits
  /\ OneAfterTheOther
  /\ AllReturned

\* Every direction has one index in the list of directions.
LEMMA UnitsOfIndices ==
  /\ DOMAIN Directions \subseteq Nat
  /\ \A i \in DOMAIN Directions : Directions[i] \in Units
  /\ \A d \in Units : \E i \in DOMAIN Directions : Directions[i] = d
  /\ \A i, j \in DOMAIN Directions : Directions[i] = Directions[j] => i = j
<1>1. DOMAIN Directions \subseteq Nat
  BY DirectionsAssumption
<1> QED
  BY <1>1, DirectionsAssumption DEF Units, Range, IsInjective

\* Initially nothing has been started and no load exists.
LEMMA WorldInit == Init => WorldInv
<1> SUFFICES ASSUME Init PROVE WorldInv
  OBVIOUS
<1>1. \A d \in Units : unit[d] = "ready" /\ LoadAt(unit[d], parallel) = "none"
  BY DEF Init, LoadAt
<1>2. LoadsFollowUnits
  BY <1>1 DEF Init, LoadsFollowUnits
<1>3. OneAfterTheOther
  BY <1>1, UnitsOfIndices DEF OneAfterTheOther
<1> QED
  BY <1>2, <1>3 DEF Init, WorldInv, AllReturned

\* A step of one unit d, from u to v, while main waits.
LEMMA UnitMoves ==
  ASSUME WorldInv, NEW d \in Units, NEW v, unit[d] # "done",
         v \in {"throughput", "responsiveness", "ending", "done"},
         unit' = [unit EXCEPT ![d] = v],
         load' = [load EXCEPT ![d] = LoadAt(v, parallel)],
         UNCHANGED <<main, parallel, warned>>,
         unit[d] # "ready" \/ parallel \/
           \A i, j \in DOMAIN Directions :
             Directions[i] = d /\ j < i => unit[Directions[j]] = "done"
  PROVE  WorldInv'
<1>1. main = "waiting"
  BY DEF WorldInv, AllReturned
<1>2. unit' \in [Units -> {"ready", "throughput", "responsiveness", "ending", "done"}]
  BY DEF WorldInv
<1>3. LoadsFollowUnits'
  <2>1. load = [e \in Units |-> LoadAt(unit[e], parallel)]
    BY <1>1 DEF WorldInv, LoadsFollowUnits
  <2>2. load' = [e \in Units |-> IF e = d THEN LoadAt(v, parallel) ELSE LoadAt(unit[e], parallel)]
    BY <2>1
  <2>3. \A e \in Units : unit'[e] = IF e = d THEN v ELSE unit[e]
    BY DEF WorldInv
  <2>4. \A e \in Units : LoadAt(unit'[e], parallel')
                            = IF e = d THEN LoadAt(v, parallel) ELSE LoadAt(unit[e], parallel)
    BY <2>3
  <2>5. load' = [e \in Units |-> LoadAt(unit'[e], parallel')]
    BY <2>2, <2>4, Zenon
  <2> QED
    BY <2>5 DEF LoadsFollowUnits
<1>4. OneAfterTheOther'
  <2> SUFFICES ASSUME ~parallel, NEW i \in DOMAIN Directions, NEW j \in DOMAIN Directions,
                      i < j, unit'[Directions[j]] # "ready"
               PROVE  unit'[Directions[i]] = "done"
    BY DEF OneAfterTheOther
  <2>1. \A k \in DOMAIN Directions :
          unit'[Directions[k]] = IF Directions[k] = d THEN v ELSE unit[Directions[k]]
    BY UnitsOfIndices DEF WorldInv
  <2>2. unit[Directions[i]] = "done"
    <3>1. CASE unit[Directions[j]] # "ready"
      BY <3>1 DEF WorldInv, OneAfterTheOther
    <3>2. CASE unit[Directions[j]] = "ready"
      BY <3>2, <2>1
    <3> QED
      BY <3>1, <3>2
  <2> QED
    BY <2>1, <2>2
<1> QED
  BY <1>1, <1>2, <1>3, <1>4 DEF WorldInv, AllReturned

\* A step that moves no unit and touches no load.
LEMMA UnitsStay ==
  ASSUME WorldInv, UNCHANGED <<unit, load, main, parallel, warned>>
  PROVE  WorldInv'
  BY DEF WorldInv, LoadsFollowUnits, OneAfterTheOther, AllReturned

\* Every step of a unit is a move or leaves unit and load alone; main's steps
\* come when all have returned.
LEMMA WorldStep == WorldInv /\ [Next]_vars => WorldInv'
<1> SUFFICES ASSUME WorldInv, [Next]_vars
             PROVE  WorldInv'
  OBVIOUS
<1>0. \A d \in Units : main = "waiting" \/ unit[d] = "done"
  BY DEF WorldInv, AllReturned
<1>1. \A d \in Units : main = "waiting" => load[d] = LoadAt(unit[d], parallel)
  BY DEF WorldInv, LoadsFollowUnits
<1>2. load \in [Units -> {"none", "on", "cancelled"}] \/ main # "waiting"
  BY DEF WorldInv, LoadsFollowUnits, LoadAt
<1>3. ASSUME NEW d \in Units, Start(d)
      PROVE  WorldInv'
  BY <1>3, UnitMoves DEF Start, LoadAt
<1>4. ASSUME NEW d \in Units, StartProber(d)
      PROVE  WorldInv'
  <2>1. load' = [load EXCEPT ![d] = LoadAt("responsiveness", parallel)]
    BY <1>0, <1>1, <1>2, <1>4 DEF StartProber, LoadAt
  <2> QED
    BY <2>1, <1>4, UnitMoves DEF StartProber
<1>5. ASSUME NEW d \in Units, OthersGenerate(d)
      PROVE  WorldInv'
  BY <1>5, UnitsStay DEF OthersGenerate
<1>6. ASSUME NEW d \in Units, ReserveMessage(d)
      PROVE  WorldInv'
  BY <1>6, UnitsStay DEF ReserveMessage
<1>7. ASSUME NEW d \in Units, NEW b \in 1 .. MaxBucket, NEW m \in Measurements,
             MeasureMessage(d, b, m)
      PROVE  WorldInv'
  BY <1>7, UnitsStay DEF MeasureMessage
<1>8. ASSUME NEW d \in Units, BecomesStable(d) \/ TimesOut(d)
      PROVE  WorldInv'
  <2>1. /\ unit[d] = "responsiveness"
        /\ unit' = [unit EXCEPT ![d] = "ending"]
        /\ UNCHANGED <<main, parallel, load, warned>>
    BY <1>8 DEF BecomesStable, TimesOut
  <2>2. load' = [load EXCEPT ![d] = LoadAt("ending", parallel)]
    BY <1>0, <1>1, <1>2, <2>1 DEF LoadAt
  <2> QED
    BY <2>1, <2>2, UnitMoves
<1>9. ASSUME NEW d \in Units, Finish(d)
      PROVE  WorldInv'
  <2>1. load' = [load EXCEPT ![d] = LoadAt("done", parallel)]
    BY <1>0, <1>1, <1>2, <1>9 DEF Finish, LoadAt
  <2> QED
    BY <2>1, <1>9, UnitMoves DEF Finish
<1>10. CASE WaitReturns
  BY <1>10 DEF WaitReturns, WorldInv, LoadsFollowUnits, OneAfterTheOther, AllReturned
<1>11. CASE StopLoads
  <2>1. \A d \in Units : load[d] = IF parallel THEN "on" ELSE "cancelled"
    BY <1>11 DEF StopLoads, WorldInv, LoadsFollowUnits, LoadAt, AllReturned
  <2>2. ~warned'
    BY <2>1, <1>11 DEF StopLoads
  <2> QED
    BY <2>2, <1>11 DEF StopLoads, WorldInv, LoadsFollowUnits, OneAfterTheOther, AllReturned
<1>12. CASE MergeNext
  BY <1>12, UnitsStay DEF MergeNext
<1>13. CASE Aggregate
  BY <1>13 DEF Aggregate, WorldInv, LoadsFollowUnits, OneAfterTheOther, AllReturned
<1>14. CASE ExportProbes
  BY <1>14 DEF ExportProbes, WorldInv, LoadsFollowUnits, OneAfterTheOther, AllReturned
<1>15. CASE UNCHANGED vars
  BY <1>15, UnitsStay DEF vars
<1> QED
  BY <1>3, <1>4, <1>5, <1>6, <1>7, <1>8, <1>9, <1>10, <1>11, <1>12, <1>13, <1>14, <1>15 DEF Next, Unit

\* The inductive invariant holds of every reachable state.
LEMMA WorldInvariant == Spec => []WorldInv
<1> QED
  BY WorldInit, WorldStep, PTL DEF Spec

\* Main never finds a load in another state than it expects, whatever the
\* policy and however the directions end.
THEOREM LoadsAsExpectedInvariant == Spec => []LoadsAsExpected
<1>1. WorldInv => LoadsAsExpected
  BY DEF WorldInv, LoadsAsExpected
<1> QED
  BY <1>1, WorldInvariant, PTL

\* A direction measures under its own load, in parallel under that of all that
\* have been started, one after the other under no other one's.
THEOREM WorkingConditionsInvariant == Spec => []WorkingConditions
<1>1. WorldInv => WorkingConditions
  <2> SUFFICES ASSUME WorldInv, NEW d \in Units, NEW e \in Units,
                      unit[d] = "responsiveness"
               PROVE  /\ load[d] = "on"
                      /\ parallel /\ unit[e] # "ready" => load[e] = "on"
                      /\ ~parallel /\ e # d => load[e] # "on"
    BY DEF WorkingConditions
  <2>1. main = "waiting"
    BY DEF WorldInv, AllReturned
  <2>2. load[d] = LoadAt(unit[d], parallel) /\ load[e] = LoadAt(unit[e], parallel)
    BY <2>1 DEF WorldInv, LoadsFollowUnits
  <2>3. ASSUME ~parallel, e # d
        PROVE  unit[e] \in {"ready", "done"}
    <3>1. PICK i, j \in DOMAIN Directions : Directions[i] = d /\ Directions[j] = e
      BY UnitsOfIndices
    <3>2. i \in Nat /\ j \in Nat /\ i # j
      BY <3>1, <2>3, UnitsOfIndices
    <3>3. CASE i < j
      BY <3>1, <3>3, <2>3 DEF WorldInv, OneAfterTheOther
    <3>4. CASE j < i
      BY <3>1, <3>4, <2>3 DEF WorldInv, OneAfterTheOther
    <3> QED
      BY <3>2, <3>3, <3>4
  <2> QED
    BY <2>2, <2>3 DEF LoadAt
<1> QED
  BY <1>1, WorldInvariant, PTL

-----------------------------------------------------------------------------
(* The series. *)

\* The buckets that can be generated.
Ids == 1 .. MaxBucket

\* The directions that have created their series.
Probing == {d \in Units : unit[d] \notin {"ready", "throughput"}}

\* The directions share the generator: each has buckets of its own.
RttsInv ==
  /\ generator \in 0 .. MaxBucket
  /\ rtts = [d \in Units |-> rtts[d]]
  /\ \A d \in Probing : /\ rtts[d] \in SeriesOf(Ids, Measurements)
                        /\ WellFormed(rtts[d])
                        /\ \A b \in BucketsOf(rtts[d].data) : b <= generator
  /\ \A d, e \in Probing : d # e => BucketsOf(rtts[d].data) \cap BucketsOf(rtts[e].data) = {}

\* Bucket ids are numbers.
LEMMA IdsAreNat == Ids \in SUBSET Nat
  BY MaxBucketAssumption DEF Ids

\* A step that creates or changes the series of one direction.
LEMMA SeriesChanges ==
  ASSUME RttsInv, NEW d \in Units, NEW s \in SeriesOf(Ids, Measurements), WellFormed(s),
         rtts' = [rtts EXCEPT ![d] = s],
         generator' \in 0 .. MaxBucket, generator <= generator',
         \A b \in BucketsOf(s.data) : b <= generator',
         \A e \in Probing : e # d => BucketsOf(s.data) \cap BucketsOf(rtts[e].data) = {},
         Probing' \subseteq Probing \cup {d}
  PROVE  RttsInv'
<1>1. /\ rtts' = [e \in Units |-> rtts'[e]]
      /\ \A e \in Units : rtts'[e] = IF e = d THEN s ELSE rtts[e]
  BY DEF RttsInv
<1>2. ASSUME NEW e \in Probing'
      PROVE  /\ rtts'[e] \in SeriesOf(Ids, Measurements)
             /\ WellFormed(rtts'[e])
             /\ \A b \in BucketsOf(rtts'[e].data) : b <= generator'
  <2>1. e \in Units
    BY DEF Probing
  <2>2. CASE e = d
    BY <1>1, <2>1, <2>2
  <2>3. CASE e # d
    <3>1. e \in Probing /\ rtts'[e] = rtts[e]
      BY <1>1, <2>1, <2>3
    <3>2. rtts[e] \in SeriesOf(Ids, Measurements) /\ WellFormed(rtts[e])
          /\ \A b \in BucketsOf(rtts[e].data) : b <= generator
      BY <3>1 DEF RttsInv
    <3>3. \A b \in BucketsOf(rtts[e].data) : b \in Nat
      BY <3>2, BucketIdsAreTyped, IdsAreNat
    <3>4. generator \in Nat /\ generator' \in Nat
      BY MaxBucketAssumption DEF RttsInv
    <3>5. \A b \in BucketsOf(rtts[e].data) : b <= generator'
      BY <3>2, <3>3, <3>4
    <3> QED
      BY <3>1, <3>2, <3>5
  <2> QED
    BY <2>2, <2>3
<1>3. ASSUME NEW e \in Probing', NEW f \in Probing', e # f
      PROVE  BucketsOf(rtts'[e].data) \cap BucketsOf(rtts'[f].data) = {}
  <2>1. e \in Units /\ f \in Units
    BY DEF Probing
  <2>2. CASE e = d
    <3>1. f \in Probing /\ rtts'[f] = rtts[f] /\ rtts'[e] = s
      BY <1>1, <1>3, <2>1, <2>2
    <3> QED
      BY <1>3, <2>2, <3>1
  <2>3. CASE f = d
    <3>1. e \in Probing /\ rtts'[e] = rtts[e] /\ rtts'[f] = s
      BY <1>1, <1>3, <2>1, <2>3
    <3> QED
      BY <1>3, <2>3, <3>1
  <2>4. CASE e # d /\ f # d
    <3>1. e \in Probing /\ f \in Probing /\ rtts'[e] = rtts[e] /\ rtts'[f] = rtts[f]
      BY <1>1, <2>1, <2>4
    <3> QED
      BY <1>3, <3>1 DEF RttsInv
  <2> QED
    BY <2>2, <2>3, <2>4
<1> QED
  BY <1>1, <1>2, <1>3 DEF RttsInv

\* A step that leaves the series alone.
LEMMA SeriesStay ==
  ASSUME RttsInv, rtts' = rtts, Probing' = Probing,
         generator' \in 0 .. MaxBucket, generator <= generator'
  PROVE  RttsInv'
<1>1. ASSUME NEW d \in Probing
      PROVE  \A b \in BucketsOf(rtts[d].data) : b <= generator'
  <2>1. rtts[d] \in SeriesOf(Ids, Measurements)
        /\ \A b \in BucketsOf(rtts[d].data) : b <= generator
    BY DEF RttsInv
  <2>2. \A b \in BucketsOf(rtts[d].data) : b \in Nat
    BY <2>1, BucketIdsAreTyped, IdsAreNat
  <2>3. generator \in Nat /\ generator' \in Nat
    BY MaxBucketAssumption DEF RttsInv
  <2> QED
    BY <2>1, <2>2, <2>3
<1> QED
  BY <1>1 DEF RttsInv

\* Where a unit goes, the others stay.
LEMMA ProbingMoves ==
  ASSUME WorldInv, NEW d \in Units, NEW v, unit' = [unit EXCEPT ![d] = v]
  PROVE  /\ unit[d] \notin {"ready", "throughput"} /\ v \notin {"ready", "throughput"}
              => Probing' = Probing
         /\ unit[d] \in {"ready", "throughput"} /\ v \in {"ready", "throughput"}
              => Probing' = Probing
         /\ Probing' \subseteq Probing \cup {d}
<1>1. \A e \in Units : unit'[e] = IF e = d THEN v ELSE unit[e]
  BY DEF WorldInv
<1>2. Probing' = {e \in Units : unit'[e] \notin {"ready", "throughput"}}
  BY DEF Probing
<1> QED
  BY <1>1, <1>2 DEF Probing

\* There are no series yet.
LEMMA RttsInit == Init => RttsInv
<1> SUFFICES ASSUME Init PROVE RttsInv
  OBVIOUS
<1>1. Probing = {}
  BY DEF Init, Probing
<1> QED
  BY <1>1, MaxBucketAssumption DEF Init, RttsInv

\* A reservation takes a bucket greater than all that any series has.
LEMMA RttsReserve ==
  ASSUME RttsInv, NEW d \in Units, ReserveMessage(d)
  PROVE  RttsInv'
<1> DEFINE s == ForeverReserve(rtts[d], generator + 1)
           g == generator + 1
<1>1. d \in Probing /\ Probing' = Probing
  BY DEF ReserveMessage, Probing
<1>2. generator \in Nat /\ g \in Ids /\ g \in 0 .. MaxBucket /\ generator <= g /\ generator' = g
  BY MaxBucketAssumption DEF RttsInv, Ids, ReserveMessage
<1>3. rtts[d] \in SeriesOf(Ids, Measurements) /\ WellFormed(rtts[d])
  BY <1>1 DEF RttsInv
<1>4. \A e \in Probing : \A b \in BucketsOf(rtts[e].data) : b <= generator /\ b \in Nat
  <2> SUFFICES ASSUME NEW e \in Probing, NEW b \in BucketsOf(rtts[e].data)
               PROVE  b <= generator /\ b \in Nat
    OBVIOUS
  <2>1. rtts[e] \in SeriesOf(Ids, Measurements) /\ b <= generator
    BY DEF RttsInv
  <2> QED
    BY <2>1, BucketIdsAreTyped, IdsAreNat
<1>5. \A e \in Probing : \A b \in BucketsOf(rtts[e].data) : b < g /\ b <= g
  BY <1>2, <1>4
<1>6. Above(g, rtts[d])
  BY <1>1, <1>5 DEF Above
<1>7. IsReserved(s, rtts[d], g, Ids, Measurements)
  BY <1>2, <1>3, <1>6, IdsAreNat, ReserveAppends
<1>8. rtts' = [rtts EXCEPT ![d] = s]
  BY DEF ReserveMessage
<1> HIDE DEF s
<1>9. /\ s \in SeriesOf(Ids, Measurements) /\ WellFormed(s)
      /\ BucketsOf(s.data) = BucketsOf(rtts[d].data) \cup {g}
  BY <1>7 DEF IsReserved
<1>10. g \in Nat
  BY <1>2
<1> HIDE DEF g
<1>11. \A b \in BucketsOf(s.data) : b <= g
  BY <1>1, <1>5, <1>9, <1>10
<1>12. ASSUME NEW e \in Probing, e # d
       PROVE  BucketsOf(s.data) \cap BucketsOf(rtts[e].data) = {}
  <2>1. BucketsOf(rtts[d].data) \cap BucketsOf(rtts[e].data) = {}
    BY <1>1, <1>12 DEF RttsInv
  <2>2. g \notin BucketsOf(rtts[e].data)
    BY <1>5, <1>10
  <2> QED
    BY <1>9, <2>1, <2>2
<1> QED
  BY <1>1, <1>2, <1>8, <1>9, <1>11, <1>12, SeriesChanges

\* A measurement is stored in its bucket's slot; the buckets stay.
LEMMA RttsFill ==
  ASSUME RttsInv, NEW d \in Units, NEW b \in 1 .. MaxBucket, NEW m \in Measurements,
         MeasureMessage(d, b, m)
  PROVE  RttsInv'
<1> DEFINE s == ForeverFill(rtts[d], b, m)
<1>1. d \in Probing /\ Probing' = Probing
  BY DEF MeasureMessage, Probing
<1>2. b \in Nat /\ generator' = generator /\ generator \in 0 .. MaxBucket /\ generator \in Nat
  BY MaxBucketAssumption DEF RttsInv, MeasureMessage
<1>3. rtts[d] \in SeriesOf(Ids, Measurements) /\ WellFormed(rtts[d])
  BY <1>1 DEF RttsInv
<1>4. IsFilled(s, rtts[d], b, m, Ids, Measurements)
  BY <1>2, <1>3, IdsAreNat, FillStores
<1>5. rtts' = [rtts EXCEPT ![d] = s]
  BY DEF MeasureMessage
<1> HIDE DEF s
<1>6. /\ s \in SeriesOf(Ids, Measurements) /\ WellFormed(s)
      /\ BucketsOf(s.data) = BucketsOf(rtts[d].data)
  BY <1>4 DEF IsFilled
<1>7. \A x \in BucketsOf(s.data) : x <= generator'
  BY <1>1, <1>2, <1>6 DEF RttsInv
<1>8. \A e \in Probing : e # d => BucketsOf(s.data) \cap BucketsOf(rtts[e].data) = {}
  BY <1>1, <1>6 DEF RttsInv
<1>9. generator <= generator'
  BY <1>2
<1> QED
  BY <1>1, <1>2, <1>5, <1>6, <1>7, <1>8, <1>9, SeriesChanges

\* A direction creates its series.
LEMMA RttsStart ==
  ASSUME WorldInv, RttsInv, NEW d \in Units, StartProber(d)
  PROVE  RttsInv'
<1>1. generator \in Nat /\ generator \in 0 .. MaxBucket /\ generator' = generator
  BY MaxBucketAssumption DEF RttsInv, StartProber
<1>2. generator <= generator'
  BY <1>1
<1>3. /\ NewForever \in SeriesOf(Ids, Measurements) /\ WellFormed(NewForever)
      /\ BucketsOf(NewForever.data) = {}
  BY NewIsWellFormed
<1>4. rtts' = [rtts EXCEPT ![d] = NewForever] /\ unit' = [unit EXCEPT ![d] = "responsiveness"]
  BY DEF StartProber
<1>5. Probing' \subseteq Probing \cup {d}
  BY <1>4, ProbingMoves
<1> QED
  BY <1>1, <1>2, <1>3, <1>4, <1>5, SeriesChanges

\* Only reservations, measurements and new series change the series.
LEMMA RttsStep == WorldInv /\ RttsInv /\ [Next]_vars => RttsInv'
<1> SUFFICES ASSUME WorldInv, RttsInv, [Next]_vars
             PROVE  RttsInv'
  OBVIOUS
<1>0. generator \in Nat /\ generator \in 0 .. MaxBucket /\ generator <= generator
  BY MaxBucketAssumption DEF RttsInv
<1>1. ASSUME UNCHANGED <<rtts, unit, generator>>
      PROVE  RttsInv'
  <2>1. Probing' = Probing
    BY <1>1 DEF Probing
  <2> QED
    BY <1>0, <1>1, <2>1, SeriesStay
<1>2. ASSUME NEW d \in Units, NEW v, UNCHANGED <<rtts, generator>>, unit' = [unit EXCEPT ![d] = v],
             \/ unit[d] \notin {"ready", "throughput"} /\ v \notin {"ready", "throughput"}
             \/ unit[d] \in {"ready", "throughput"} /\ v \in {"ready", "throughput"}
      PROVE  RttsInv'
  <2>1. Probing' = Probing
    BY <1>2, ProbingMoves
  <2> QED
    BY <1>0, <1>2, <2>1, SeriesStay
<1>3. ASSUME NEW d \in Units, Start(d)
      PROVE  RttsInv'
  BY <1>2, <1>3 DEF Start
<1>4. ASSUME NEW d \in Units, StartProber(d)
      PROVE  RttsInv'
  BY <1>4, RttsStart
<1>5. ASSUME NEW d \in Units, OthersGenerate(d)
      PROVE  RttsInv'
  <2>1. generator' \in 0 .. MaxBucket /\ generator <= generator'
    BY <1>0, <1>5, MaxBucketAssumption DEF OthersGenerate
  <2>2. Probing' = Probing /\ rtts' = rtts
    BY <1>5 DEF OthersGenerate, Probing
  <2> QED
    BY <2>1, <2>2, SeriesStay
<1>6. ASSUME NEW d \in Units, ReserveMessage(d)
      PROVE  RttsInv'
  BY <1>6, RttsReserve
<1>7. ASSUME NEW d \in Units, NEW b \in 1 .. MaxBucket, NEW m \in Measurements,
             MeasureMessage(d, b, m)
      PROVE  RttsInv'
  BY <1>7, RttsFill
<1>8. ASSUME NEW d \in Units, BecomesStable(d)
      PROVE  RttsInv'
  BY <1>2, <1>8 DEF BecomesStable
<1>9. ASSUME NEW d \in Units, TimesOut(d)
      PROVE  RttsInv'
  BY <1>2, <1>9 DEF TimesOut
<1>10. ASSUME NEW d \in Units, Finish(d)
       PROVE  RttsInv'
  BY <1>2, <1>10 DEF Finish
<1>11. CASE WaitReturns \/ StopLoads \/ MergeNext \/ Aggregate \/ ExportProbes \/ UNCHANGED vars
  <2>1. UNCHANGED <<rtts, unit, generator>>
    BY <1>11 DEF WaitReturns, StopLoads, MergeNext, Aggregate, ExportProbes, vars
  <2> QED
    BY <1>1, <2>1
<1> QED
  BY <1>3, <1>4, <1>5, <1>6, <1>7, <1>8, <1>9, <1>10, <1>11 DEF Next, Unit

-----------------------------------------------------------------------------
(* The log. *)

\* A set as a bag: adding what it does not have yet.
LEMMA AddNewToBag ==
  ASSUME NEW S, NEW x, x \notin S
  PROVE  SetToBag(S) (+) SetToBag({x}) = SetToBag(S \cup {x})
  BY DEF SetToBag, (+)

\* An empty bag adds nothing.
LEMMA BagOfNothing ==
  ASSUME NEW S
  PROVE  EmptyBag (+) SetToBag(S) = SetToBag(S) /\ SetToBag({}) = EmptyBag
<1>1. SetToBag({}) = EmptyBag
  BY DEF SetToBag, EmptyBag
<1> QED
  BY <1>1 DEF SetToBag, (+)

\* The set of a set as a bag.
LEMMA SetOfBag ==
  ASSUME NEW S
  PROVE  BagToSet(SetToBag(S)) = S
  BY DEF BagToSet, SetToBag

\* The measurements that the series of both directions hold.
AllMeasured == UNION {MeasuredIn(rtts[d].data) : d \in Probing}

\* Until it is exported the log has them, each once; so has the file in the end.
LogInv ==
  /\ logger = [data |-> SetToBag(AllMeasured), isOpen |-> (main # "done")]
  /\ exported = IF main = "done" THEN SetToBag(AllMeasured) ELSE EmptyBag

\* A step that changes one series and adds the measurements R to it.
LEMMA AllMeasuredGrows ==
  ASSUME RttsInv, NEW d \in Units, NEW s, NEW R, rtts' = [rtts EXCEPT ![d] = s],
         Probing' = Probing \cup {d},
         MeasuredIn(s.data) = (IF d \in Probing THEN MeasuredIn(rtts[d].data) ELSE {}) \cup R
  PROVE  AllMeasured' = AllMeasured \cup R
<1>1. \A e \in Units : rtts'[e] = IF e = d THEN s ELSE rtts[e]
  BY DEF RttsInv
<1>2. Probing \subseteq Units /\ Probing' \subseteq Units
  BY DEF Probing
<1>3. ASSUME NEW x \in AllMeasured'
      PROVE  x \in AllMeasured \cup R
  <2>1. PICK e \in Probing' : x \in MeasuredIn(rtts'[e].data)
    BY <1>3 DEF AllMeasured, MeasuredIn
  <2>2. CASE e = d
    BY <1>1, <1>2, <2>1, <2>2 DEF AllMeasured
  <2>3. CASE e # d
    <3>1. e \in Probing /\ rtts'[e] = rtts[e]
      BY <1>1, <1>2, <2>3
    <3> QED
      BY <2>1, <3>1 DEF AllMeasured
  <2> QED
    BY <2>2, <2>3
<1>4. ASSUME NEW x \in R
      PROVE  x \in AllMeasured'
  <2>1. d \in Probing' /\ rtts'[d] = s /\ x \in MeasuredIn(s.data)
    BY <1>1, <1>4
  <2>2. x \in MeasuredIn(rtts'[d].data)
    BY <2>1
  <2> QED
    BY <2>1, <2>2 DEF AllMeasured, MeasuredIn
<1>5. ASSUME NEW x \in AllMeasured
      PROVE  x \in AllMeasured'
  <2>1. PICK e \in Probing : x \in MeasuredIn(rtts[e].data)
    BY <1>5 DEF AllMeasured
  <2>2. e \in Probing' /\ x \in MeasuredIn(rtts'[e].data)
    BY <1>1, <1>2, <2>1
  <2> QED
    BY <2>2 DEF AllMeasured, MeasuredIn
<1> QED
  BY <1>3, <1>4, <1>5

\* A reservation is not a measurement.
LEMMA ReserveMeasuresNothing ==
  ASSUME NEW S, NEW q \in Seq(S), NEW b
  PROVE  MeasuredIn(Append(q, Pair(b, None))) = MeasuredIn(q)
<1> DEFINE p == Append(q, Pair(b, None))
<1>1. /\ DOMAIN p = DOMAIN q \cup {Len(q) + 1}
      /\ \A i \in DOMAIN q : p[i] = q[i]
      /\ p[Len(q) + 1] = Pair(b, None)
  OBVIOUS
<1>2. ~IsSome(Pair(b, None).second)
  BY DEF IsSome, Pair
<1> HIDE DEF p
<1> QED
  BY <1>1, <1>2 DEF MeasuredIn, RangeOf

\* A measurement that no series holds yet goes to one of them and to the log.
LEMMA LogMeasure ==
  ASSUME RttsInv, LogInv, main # "done", NEW d \in Units, NEW b \in 1 .. MaxBucket,
         NEW m \in Measurements, MeasureMessage(d, b, m)
  PROVE  LogInv'
<1> DEFINE s == ForeverFill(rtts[d], b, m)
<1>1. d \in Probing /\ Probing' = Probing
  BY DEF MeasureMessage, Probing
<1>2. rtts[d] \in SeriesOf(Ids, Measurements) /\ WellFormed(rtts[d])
  BY <1>1 DEF RttsInv
<1>3. b \in BucketsOf(rtts[d].data) /\ ~IsSome(rtts[d].data[FirstSlot(rtts[d].data, b)].second)
  BY DEF MeasureMessage, Unanswered
<1>4. /\ MeasuredIn(s.data) = MeasuredIn(rtts[d].data) \cup {Pair(b, m)}
      /\ \A x \in MeasuredIn(rtts[d].data) : x.first # b
  <2>1. MeasuresOneMore(ForeverFill(rtts[d], b, m), rtts[d], b, m)
    BY <1>2, <1>3, IdsAreNat, NoneAssumption, FillMeasures
  <2> QED
    BY <2>1 DEF MeasuresOneMore
<1>5. rtts' = [rtts EXCEPT ![d] = s]
  BY DEF MeasureMessage
<1> HIDE DEF s
<1>6. Probing' = Probing \cup {d}
  BY <1>1
<1>7. AllMeasured' = AllMeasured \cup {Pair(b, m)}
  BY <1>1, <1>4, <1>5, <1>6, AllMeasuredGrows
<1>8. Pair(b, m) \notin AllMeasured
  <2> SUFFICES ASSUME NEW e \in Probing, Pair(b, m) \in MeasuredIn(rtts[e].data)
               PROVE  FALSE
    BY DEF AllMeasured
  <2>1. Pair(b, m).first = b
    BY DEF Pair
  <2>2. e # d
    BY <1>4, <2>1
  <2>3. b \in BucketsOf(rtts[e].data)
    BY <2>1 DEF MeasuredIn, RangeOf, BucketsOf
  <2> QED
    BY <1>1, <1>3, <2>2, <2>3 DEF RttsInv
<1>9. SetToBag(AllMeasured) (+) SetToBag({Pair(b, m)}) = SetToBag(AllMeasured')
  BY <1>7, <1>8, AddNewToBag
<1>10. /\ logger' = [logger EXCEPT !.data = logger.data (+) SetToBag({Pair(b, m)})]
       /\ exported' = exported /\ main' = main
  BY DEF MeasureMessage, LogRecord
<1>11. logger = [data |-> SetToBag(AllMeasured), isOpen |-> TRUE] /\ exported = EmptyBag
  BY DEF LogInv
<1>12. logger' = [data |-> SetToBag(AllMeasured'), isOpen |-> TRUE]
  BY <1>9, <1>10, <1>11
<1> QED
  BY <1>10, <1>11, <1>12 DEF LogInv

\* Nothing is measured and the log is empty.
LEMMA LogInit == Init => LogInv
<1> SUFFICES ASSUME Init PROVE LogInv
  OBVIOUS
<1>1. Probing = {}
  BY DEF Init, Probing
<1>2. AllMeasured = {}
  BY <1>1 DEF AllMeasured
<1> QED
  BY <1>2, BagOfNothing DEF Init, LogInv, CreateLogger

\* Only measurements are logged, none after the log was exported.
LEMMA LogStep == WorldInv /\ RttsInv /\ LogInv /\ [Next]_vars => LogInv'
<1> SUFFICES ASSUME WorldInv, RttsInv, LogInv, [Next]_vars
             PROVE  LogInv'
  OBVIOUS
<1>1. ASSUME AllMeasured' = AllMeasured, main' = main \/ (main # "done" /\ main' # "done"),
             UNCHANGED logVars
      PROVE  LogInv'
  BY <1>1 DEF LogInv, logVars
<1>2. ASSUME NEW d \in Units, NEW v, UNCHANGED <<rtts, main, logVars>>, unit' = [unit EXCEPT ![d] = v],
             \/ unit[d] \notin {"ready", "throughput"} /\ v \notin {"ready", "throughput"}
             \/ unit[d] \in {"ready", "throughput"} /\ v \in {"ready", "throughput"}
      PROVE  LogInv'
  <2>1. Probing' = Probing
    BY <1>2, ProbingMoves
  <2>2. AllMeasured' = AllMeasured
    BY <1>2, <2>1 DEF AllMeasured
  <2> QED
    BY <1>1, <1>2, <2>2
<1>3. ASSUME UNCHANGED <<rtts, unit, logVars>>, main' = main \/ (main # "done" /\ main' # "done")
      PROVE  LogInv'
  <2>1. AllMeasured' = AllMeasured
    BY <1>3 DEF AllMeasured, Probing
  <2> QED
    BY <1>1, <1>3, <2>1
<1>4. ASSUME NEW d \in Units, Start(d)
      PROVE  LogInv'
  BY <1>2, <1>4 DEF Start
<1>5. ASSUME NEW d \in Units, StartProber(d)
      PROVE  LogInv'
  <2>1. /\ rtts' = [rtts EXCEPT ![d] = NewForever] /\ unit' = [unit EXCEPT ![d] = "responsiveness"]
        /\ unit[d] = "throughput"
    BY <1>5 DEF StartProber
  <2>2. Probing' = Probing \cup {d} /\ d \notin Probing
    <3>1. \A e \in Units : unit'[e] = IF e = d THEN "responsiveness" ELSE unit[e]
      BY <2>1 DEF WorldInv
    <3>2. Probing' = {e \in Units : unit'[e] \notin {"ready", "throughput"}}
      BY DEF Probing
    <3> QED
      BY <2>1, <3>1, <3>2 DEF Probing
  <2>3. MeasuredIn(NewForever.data) = {}
    BY DEF MeasuredIn, RangeOf, NewForever
  <2>4. MeasuredIn(NewForever.data) = (IF d \in Probing THEN MeasuredIn(rtts[d].data) ELSE {}) \cup {}
    BY <2>2, <2>3
  <2>5. AllMeasured' = AllMeasured \cup {}
    BY <2>1, <2>2, <2>4, AllMeasuredGrows
  <2> QED
    BY <1>1, <1>5, <2>5 DEF StartProber
<1>6. ASSUME NEW d \in Units, OthersGenerate(d)
      PROVE  LogInv'
  BY <1>3, <1>6 DEF OthersGenerate
<1>7. ASSUME NEW d \in Units, ReserveMessage(d)
      PROVE  LogInv'
  <2> DEFINE s == ForeverReserve(rtts[d], generator + 1)
  <2>1. d \in Probing /\ Probing' = Probing \cup {d}
    BY <1>7 DEF ReserveMessage, Probing
  <2>2. rtts[d].data \in Seq(SlotsOf(Ids, Measurements))
    BY <2>1 DEF RttsInv, SeriesOf, SlotsOf
  <2>3. s.data = rtts[d].data \/ s.data = Append(rtts[d].data, Pair(generator + 1, None))
    BY DEF ForeverReserve
  <2>4. MeasuredIn(s.data) = MeasuredIn(rtts[d].data)
    BY <2>2, <2>3, ReserveMeasuresNothing
  <2>5. rtts' = [rtts EXCEPT ![d] = s]
    BY <1>7 DEF ReserveMessage
  <2> HIDE DEF s
  <2>6. MeasuredIn(s.data) = (IF d \in Probing THEN MeasuredIn(rtts[d].data) ELSE {}) \cup {}
    BY <2>1, <2>4
  <2>7. AllMeasured' = AllMeasured \cup {}
    BY <2>1, <2>5, <2>6, AllMeasuredGrows
  <2> QED
    BY <1>1, <1>7, <2>7 DEF ReserveMessage
<1>8. ASSUME NEW d \in Units, NEW b \in 1 .. MaxBucket, NEW m \in Measurements,
             MeasureMessage(d, b, m)
      PROVE  LogInv'
  <2>1. main # "done"
    BY <1>8 DEF MeasureMessage, WorldInv, AllReturned
  <2> QED
    BY <1>8, <2>1, LogMeasure
<1>9. ASSUME NEW d \in Units, BecomesStable(d)
      PROVE  LogInv'
  BY <1>2, <1>9 DEF BecomesStable
<1>10. ASSUME NEW d \in Units, TimesOut(d)
       PROVE  LogInv'
  BY <1>2, <1>10 DEF TimesOut
<1>11. ASSUME NEW d \in Units, Finish(d)
       PROVE  LogInv'
  BY <1>2, <1>11 DEF Finish
<1>12. CASE WaitReturns \/ StopLoads \/ MergeNext \/ Aggregate \/ UNCHANGED vars
  BY <1>3, <1>12 DEF WaitReturns, StopLoads, MergeNext, Aggregate, vars
<1>13. CASE ExportProbes
  <2>1. AllMeasured' = AllMeasured
    BY <1>13 DEF ExportProbes, AllMeasured, Probing
  <2>2. logger = [data |-> SetToBag(AllMeasured), isOpen |-> TRUE] /\ exported = EmptyBag
    BY <1>13 DEF LogInv, ExportProbes
  <2>3. exported' = exported (+) logger.data /\ logger' = [logger EXCEPT !.isOpen = FALSE]
        /\ main' = "done"
    BY <1>13, <2>2 DEF ExportProbes, ExportAndClose
  <2>4. exported' = SetToBag(AllMeasured)
    BY <2>2, <2>3, BagOfNothing
  <2>5. logger' = [data |-> SetToBag(AllMeasured), isOpen |-> FALSE]
    BY <2>2, <2>3, Zenon
  <2>6. logger' = [data |-> SetToBag(AllMeasured'), isOpen |-> (main' # "done")]
    BY <2>1, <2>3, <2>5
  <2> QED
    BY <2>1, <2>3, <2>4, <2>6 DEF LogInv
<1> QED
  BY <1>4, <1>5, <1>6, <1>7, <1>8, <1>9, <1>10, <1>11, <1>12, <1>13 DEF Next, Unit

\* The fields of the directions that the proofs above do not need.
FieldsInv ==
  /\ load \in [Units -> {"none", "on", "cancelled"}]
  /\ stable \in [Units -> BOOLEAN]
  /\ bounds \in [Units -> (0 .. MaxBucket) \X (0 .. MaxBucket)]
  /\ warned \in BOOLEAN

\* Initially.
LEMMA FieldsInit == Init => FieldsInv
<1> SUFFICES ASSUME Init PROVE FieldsInv
  OBVIOUS
<1>1. <<0, 0>> \in (0 .. MaxBucket) \X (0 .. MaxBucket)
  <2>1. 0 \in 0 .. MaxBucket
    BY MaxBucketAssumption
  <2> QED
    BY <2>1
<1> QED
  BY <1>1 DEF Init, FieldsInv

\* The bounds of a stable verdict are buckets.
LEMMA FieldsStep == RttsInv /\ FieldsInv /\ [Next]_vars => FieldsInv'
<1> SUFFICES ASSUME RttsInv, FieldsInv, [Next]_vars
             PROVE  FieldsInv'
  OBVIOUS
<1>1. ASSUME NEW d \in Units, BecomesStable(d)
      PROVE  FieldsInv'
  <2>1. PICK lower, upper \in BucketsOf(rtts[d].data) :
          bounds' = [bounds EXCEPT ![d] = <<lower, upper>>]
    BY <1>1 DEF BecomesStable
  <2>2. rtts[d] \in SeriesOf(Ids, Measurements)
    BY <1>1 DEF BecomesStable, RttsInv, Probing
  <2>3. BucketsOf(rtts[d].data) \subseteq Ids
    BY <2>2, IdsAreNat, BucketIdsAreTyped
  <2>4. Ids \subseteq 0 .. MaxBucket
    BY MaxBucketAssumption DEF Ids
  <2>5. <<lower, upper>> \in (0 .. MaxBucket) \X (0 .. MaxBucket)
    BY <2>3, <2>4
  <2>6. bounds' \in [Units -> (0 .. MaxBucket) \X (0 .. MaxBucket)]
    BY <2>1, <2>5 DEF FieldsInv
  <2>7. stable' \in [Units -> BOOLEAN]
    BY <1>1 DEF BecomesStable, FieldsInv
  <2> QED
    BY <1>1, <2>6, <2>7 DEF BecomesStable, FieldsInv
<1>2. ASSUME NEW d \in Units, Unit(d), ~BecomesStable(d)
      PROVE  FieldsInv'
  <2>1. UNCHANGED <<stable, bounds, warned>>
    BY <1>2 DEF Unit, Start, StartProber, OthersGenerate, ReserveMessage, MeasureMessage,
                TimesOut, Finish
  <2>2. \/ load' = load
        \/ load' = [load EXCEPT ![d] = "on"]
        \/ load' = [load EXCEPT ![d] = "cancelled"]
    BY <1>2 DEF Unit, Start, StartProber, OthersGenerate, ReserveMessage, MeasureMessage,
                TimesOut, Finish
  <2>3. load' \in [Units -> {"none", "on", "cancelled"}]
    BY <2>2 DEF FieldsInv
  <2> QED
    BY <2>1, <2>3 DEF FieldsInv
<1>3. CASE WaitReturns \/ StopLoads \/ MergeNext \/ Aggregate \/ ExportProbes \/ UNCHANGED vars
  <2>1. UNCHANGED <<stable, bounds>>
    BY <1>3 DEF WaitReturns, StopLoads, MergeNext, Aggregate, ExportProbes, vars
  <2>2. warned' = warned \/ warned' = \E d \in Units : load[d] # (IF parallel THEN "on" ELSE "cancelled")
    BY <1>3 DEF WaitReturns, StopLoads, MergeNext, Aggregate, ExportProbes, vars
  <2>3. warned' \in BOOLEAN
    BY <2>2 DEF FieldsInv
  <2>4. load' = load \/ load' = [d \in Units |-> "cancelled"]
    BY <1>3 DEF WaitReturns, StopLoads, MergeNext, Aggregate, ExportProbes, vars
  <2>5. load' \in [Units -> {"none", "on", "cancelled"}]
    BY <2>4 DEF FieldsInv
  <2> QED
    BY <2>1, <2>3, <2>5 DEF FieldsInv
<1> QED
  BY <1>1, <1>2, <1>3 DEF Next

-----------------------------------------------------------------------------
(* The merged series. *)

\* The probes that are considered of the directions merged so far.
ConsideredSoFar == UNION {Considered(Directions[i]) : i \in 1 .. merged}

\* The merged series has them; what is computed from has what is merged.
MergeInv ==
  /\ merged \in 0 .. Len(Directions)
  /\ main \in {"waiting", "stopping"} => merged = 0
  /\ allRtts \in SeriesOf(Ids, Measurements)
  /\ Ascending(allRtts.data)
  /\ RangeOf(allRtts.data) = ConsideredSoFar
  /\ main \notin {"exporting", "done"} => final = << >>
  /\ main \in {"exporting", "done"} =>
       /\ merged = Len(Directions)
       /\ final \in Seq(SlotsOf(Ids, Measurements))
       /\ RangeOf(final) = RangeOf(allRtts.data)
       /\ OneSlotEach(final)

\* Initially nothing is merged.
LEMMA MergeInit == Init => MergeInv
<1> SUFFICES ASSUME Init PROVE MergeInv
  OBVIOUS
<1>1. Len(Directions) \in Nat
  BY DirectionsAssumption
<1>2. merged = 0 /\ 0 \in 0 .. Len(Directions)
  BY <1>1 DEF Init
<1>3. ConsideredSoFar = {}
  BY <1>2 DEF ConsideredSoFar
<1>4. allRtts \in SeriesOf(Ids, Measurements) /\ WellFormed(allRtts) /\ allRtts.data = << >>
  BY NewIsWellFormed DEF Init, NewForever
<1>5. Ascending(allRtts.data) /\ RangeOf(allRtts.data) = {}
  BY <1>4 DEF WellFormed, Ascending, RangeOf
<1> QED
  BY <1>2, <1>3, <1>4, <1>5 DEF Init, MergeInv

\* A step of main that merges nothing, or of a unit while nothing is merged.
LEMMA MergedStay ==
  ASSUME MergeInv, UNCHANGED finalVars,
         merged = 0 \/ UNCHANGED <<rtts, stable, bounds>>,
         main' = main \/ (main = "waiting" /\ main' = "stopping")
                      \/ (main = "stopping" /\ main' = "aggregating")
                      \/ (main = "exporting" /\ main' = "done")
  PROVE  MergeInv'
<1>1. ConsideredSoFar' = ConsideredSoFar
  <2>1. CASE merged = 0
    BY <2>1 DEF ConsideredSoFar, finalVars
  <2>2. CASE UNCHANGED <<rtts, stable, bounds>>
    BY <2>2 DEF ConsideredSoFar, Considered, finalVars
  <2> QED
    BY <2>1, <2>2
<1> QED
  BY <1>1 DEF MergeInv, finalVars

\* Of a stable direction the probes within the bounds are considered.
LEMMA ConsideredAre ==
  ASSUME NEW d \in Units
  PROVE  /\ stable[d] => Considered(d) = {rtts[d].data[i] :
                           i \in IndicesWithin(rtts[d].data, bounds[d][1], bounds[d][2])}
         /\ ~stable[d] => Considered(d) = RangeOf(rtts[d].data)
         /\ Considered(d) \subseteq RangeOf(rtts[d].data)
  BY DEF Considered, IndicesWithin, RangeOf

\* The next direction is merged in: it has buckets of its own.
LEMMA MergeNextStep ==
  ASSUME WorldInv, RttsInv, MergeInv, MergeNext
  PROVE  MergeInv'
<1> DEFINE n == merged + 1
           d == Directions[n]
<1>1. /\ merged \in Nat /\ n \in Nat /\ Len(Directions) \in Nat
      /\ n \in 1 .. Len(Directions) /\ n \in 0 .. Len(Directions)
      /\ DOMAIN Directions = 1 .. Len(Directions)
  BY DirectionsAssumption DEF MergeInv, MergeNext
<1>2. d \in Units
  BY <1>1, UnitsOfIndices
<1>3. \A e \in Units : e \in Probing
  BY DEF MergeNext, WorldInv, AllReturned, Probing
<1>4. /\ rtts[d] \in SeriesOf(Ids, Measurements) /\ Ascending(rtts[d].data)
      /\ allRtts \in SeriesOf(Ids, Measurements) /\ Ascending(allRtts.data)
  BY <1>2, <1>3 DEF RttsInv, MergeInv, WellFormed, Ascending
<1>5. BucketsOf(allRtts.data) \cap BucketsOf(rtts[d].data) = {}
  <2> SUFFICES ASSUME NEW b \in BucketsOf(allRtts.data), b \in BucketsOf(rtts[d].data)
               PROVE  FALSE
    OBVIOUS
  <2>1. PICK x \in RangeOf(allRtts.data) : x.first = b
    BY DEF BucketsOf, RangeOf
  <2>2. PICK i \in 1 .. merged : x \in Considered(Directions[i])
    BY DEF MergeInv, ConsideredSoFar
  <2>3. i \in DOMAIN Directions /\ i # n
    BY <1>1, <2>2
  <2>4. Directions[i] \in Units /\ Directions[i] # d
    BY <1>1, <2>3, UnitsOfIndices
  <2>5. x \in RangeOf(rtts[Directions[i]].data)
    BY <2>2, <2>4, ConsideredAre
  <2>6. b \in BucketsOf(rtts[Directions[i]].data)
    BY <2>1, <2>5 DEF RangeOf, BucketsOf
  <2> QED
    BY <1>2, <1>3, <2>4, <2>6 DEF RttsInv
<1>6. allRtts' = Merge(allRtts, d) /\ merged' = n /\ main' = main /\ final' = final
      /\ UNCHANGED <<rtts, stable, bounds>> /\ main = "aggregating"
  BY DEF MergeNext
<1> HIDE DEF n, d
<1>7. MergedWith(allRtts', allRtts, Considered(d), Ids, Measurements)
  <2>1. CASE stable[d]
    <3>1. MergedWith(ForeverBoundedAppend(allRtts, rtts[d], bounds[d][1], bounds[d][2]), allRtts,
                     {rtts[d].data[i] : i \in IndicesWithin(rtts[d].data, bounds[d][1], bounds[d][2])},
                     Ids, Measurements)
      BY <1>4, <1>5, IdsAreNat, BoundedAppendMerges
    <3>2. Considered(d) = {rtts[d].data[i] :
            i \in IndicesWithin(rtts[d].data, bounds[d][1], bounds[d][2])}
      BY <1>2, <2>1, ConsideredAre
    <3>3. allRtts' = ForeverBoundedAppend(allRtts, rtts[d], bounds[d][1], bounds[d][2])
      BY <1>6, <2>1 DEF Merge
    <3> QED
      BY <3>1, <3>2, <3>3, Zenon
  <2>2. CASE ~stable[d]
    <3>1. MergedWith(ForeverAppend(allRtts, rtts[d]), allRtts, RangeOf(rtts[d].data), Ids, Measurements)
      BY <1>4, <1>5, IdsAreNat, AppendMerges
    <3>2. Considered(d) = RangeOf(rtts[d].data)
      BY <1>2, <2>2, ConsideredAre
    <3>3. allRtts' = ForeverAppend(allRtts, rtts[d])
      BY <1>6, <2>2 DEF Merge
    <3> QED
      BY <3>1, <3>2, <3>3, Zenon
  <2> QED
    BY <2>1, <2>2
<1>8. /\ allRtts' \in SeriesOf(Ids, Measurements) /\ Ascending(allRtts'.data)
      /\ RangeOf(allRtts'.data) = ConsideredSoFar \cup Considered(d)
  BY <1>7 DEF MergedWith, MergeInv
<1>9. ConsideredSoFar' = ConsideredSoFar \cup Considered(d)
  <2>1. 1 .. merged' = (1 .. merged) \cup {n}
    BY <1>1, <1>6 DEF n
  <2>2. ConsideredSoFar' = UNION {Considered(Directions[i]) : i \in 1 .. merged'}
    BY <1>6 DEF ConsideredSoFar, Considered
  <2> QED
    BY <2>1, <2>2 DEF ConsideredSoFar, d
<1> QED
  BY <1>1, <1>6, <1>8, <1>9 DEF MergeInv, RangeOf

\* Every bucket is extracted of the merged series.
LEMMA AggregateStep ==
  ASSUME MergeInv, Aggregate
  PROVE  MergeInv'
<1> DEFINE x == ExtractBounded(allRtts, 0, MaxBucket).data
<1>1. allRtts.data \in Seq(SlotsOf(Ids, Measurements)) /\ Ascending(allRtts.data)
  BY DEF MergeInv, SeriesOf, SlotsOf
<1>2. Extracts(x, allRtts, 0, MaxBucket, SlotsOf(Ids, Measurements))
  BY <1>1, IdsAreNat, ExtractedAre
<1>3. final' = x /\ main' = "exporting" /\ merged = Len(Directions)
      /\ UNCHANGED <<rtts, stable, bounds, allRtts, merged>>
  BY DEF Aggregate
<1> HIDE DEF x
<1>4. IndicesWithin(allRtts.data, 0, MaxBucket) = DOMAIN allRtts.data
  <2>1. \A i \in DOMAIN allRtts.data : allRtts.data[i].first \in Ids
    BY <1>1, IdsAreNat, SlotFields
  <2>2. \A b \in Ids : 0 <= b /\ b <= MaxBucket
    BY MaxBucketAssumption DEF Ids
  <2> QED
    BY <2>1, <2>2 DEF IndicesWithin
<1>5. /\ x \in Seq(SlotsOf(Ids, Measurements)) /\ OneSlotEach(x)
      /\ RangeOf(x) = RangeOf(allRtts.data)
  BY <1>2, <1>4 DEF Extracts, RangeOf
<1>6. ConsideredSoFar' = ConsideredSoFar
  BY <1>3 DEF ConsideredSoFar, Considered
<1>7. /\ final' \in Seq(SlotsOf(Ids, Measurements)) /\ OneSlotEach(final')
      /\ RangeOf(final') = RangeOf(allRtts'.data)
  BY <1>3, <1>5
<1>8. /\ merged' \in 0 .. Len(Directions) /\ merged' = Len(Directions)
      /\ allRtts' \in SeriesOf(Ids, Measurements) /\ Ascending(allRtts'.data)
      /\ RangeOf(allRtts'.data) = ConsideredSoFar'
  BY <1>3, <1>6 DEF MergeInv
<1>9. main' \notin {"waiting", "stopping"} /\ main' \in {"exporting", "done"}
  BY <1>3
<1> QED
  BY <1>7, <1>8, <1>9 DEF MergeInv, Ascending, OneSlotEach, RangeOf

\* While units run nothing is merged; afterwards their series stay.
LEMMA MergeStep == WorldInv /\ RttsInv /\ MergeInv /\ [Next]_vars => MergeInv'
<1> SUFFICES ASSUME WorldInv, RttsInv, MergeInv, [Next]_vars
             PROVE  MergeInv'
  OBVIOUS
<1>1. ASSUME NEW d \in Units, OthersGenerate(d)
      PROVE  MergeInv'
  BY <1>1, MergedStay DEF OthersGenerate
<1>2. ASSUME NEW d \in Units, Unit(d), ~OthersGenerate(d)
      PROVE  MergeInv'
  <2>1. UNCHANGED <<main, finalVars>> /\ unit[d] # "done"
    BY <1>2 DEF Unit, Start, StartProber, ReserveMessage, MeasureMessage, BecomesStable, TimesOut, Finish
  <2>2. main = "waiting"
    BY <2>1 DEF WorldInv, AllReturned
  <2>3. merged = 0
    BY <2>2 DEF MergeInv
  <2> QED
    BY <2>1, <2>3, MergedStay
<1>3. CASE WaitReturns \/ StopLoads \/ ExportProbes \/ UNCHANGED vars
  BY <1>3, MergedStay DEF WaitReturns, StopLoads, ExportProbes, vars
<1>4. CASE MergeNext
  BY <1>4, MergeNextStep
<1>5. CASE Aggregate
  BY <1>5, AggregateStep
<1> QED
  BY <1>1, <1>2, <1>3, <1>4, <1>5 DEF Next

\* The parts hold together.
SeriesInv == WorldInv /\ RttsInv /\ LogInv /\ FieldsInv /\ MergeInv

\* The invariants about the series, the log and the merge hold in every state.
LEMMA SeriesInvariant == Spec => []SeriesInv
<1>1. Init => SeriesInv
  BY WorldInit, RttsInit, LogInit, FieldsInit, MergeInit DEF SeriesInv
<1>2. SeriesInv /\ [Next]_vars => SeriesInv'
  BY WorldStep, RttsStep, LogStep, FieldsStep, MergeStep DEF SeriesInv
<1> QED
  BY <1>1, <1>2, PTL DEF Spec

\* When main is done the final series has the probes to consider.
LEMMA FinalIsConsidered == SeriesInv => FinalRpmFromConsideredProbes
<1> SUFFICES ASSUME SeriesInv, main = "done"
             PROVE  /\ RangeOf(final) = UNION {Considered(d) : d \in Units}
                    /\ OneSlotEach(final)
  BY DEF FinalRpmFromConsideredProbes, RangeOf, OneSlotEach
<1>1. merged = Len(Directions) /\ RangeOf(final) = ConsideredSoFar /\ OneSlotEach(final)
  BY DEF SeriesInv, MergeInv
<1>2. DOMAIN Directions = 1 .. Len(Directions)
  BY DirectionsAssumption
<1>3. ConsideredSoFar = UNION {Considered(Directions[i]) : i \in DOMAIN Directions}
  BY <1>1, <1>2 DEF ConsideredSoFar
<1>4. {Considered(Directions[i]) : i \in DOMAIN Directions} = {Considered(d) : d \in Units}
  BY UnitsOfIndices
<1> QED
  BY <1>1, <1>3, <1>4

\* The final RPM is computed from the probes to consider of every direction,
\* each once and with its measurement.
THEOREM FinalRpmFromConsideredProbesInvariant == Spec => []FinalRpmFromConsideredProbes
  BY FinalIsConsidered, SeriesInvariant, PTL

-----------------------------------------------------------------------------
(* What is computed of the final series, end to end: the statistics of     *)
(* Series_proofs, applied to the measurements that are to be considered.   *)

\* The probes to consider that were answered.
ConsideredMeasurements ==
  {x \in UNION {Considered(d) : d \in Units} : IsSome(x.second)}

\* How many of them took a time in P.
CountedIn(P) == Cardinality({x \in ConsideredMeasurements : x.second \in P})

\* r is the time of one of them, at most p per cent of them took less and more
\* than p per cent did not take more.
IsPercentileOfConsidered(r, p) ==
  /\ \E x \in ConsideredMeasurements : x.second = r
  /\ 100 * CountedIn({t \in Nat : t < r}) <= p * Cardinality(ConsideredMeasurements)
  /\ 100 * CountedIn({t \in Nat : t <= r}) > p * Cardinality(ConsideredMeasurements)

\* kept has no time more often than it was measured, and if less often, nothing
\* that is greater.
AreSmallestOfConsidered(kept) ==
  \A t \in Nat : /\ Occurrences(kept, t) <= CountedIn({t})
                 /\ Occurrences(kept, t) < CountedIn({t}) => \A i \in DOMAIN kept : kept[i] <= t

\* The data of the final series are the measurements to consider.
LEMMA FinalValues ==
  ASSUME SeriesInv, main = "done"
  PROVE  HasDataOf(ActualValues(final), ConsideredMeasurements, Measurements)
<1>1. /\ final \in Seq(SlotsOf(Ids, Measurements)) /\ OneSlotEach(final)
      /\ RangeOf(final) = UNION {Considered(d) : d \in Units}
  <2>1. final \in Seq(SlotsOf(Ids, Measurements))
    BY DEF SeriesInv, MergeInv
  <2> QED
    BY <2>1, FinalIsConsidered DEF FinalRpmFromConsideredProbes, RangeOf, OneSlotEach
<1>2. MeasuredIn(final) = ConsideredMeasurements
  BY <1>1 DEF MeasuredIn, ConsideredMeasurements
<1> QED
  BY <1>1, <1>2, IdsAreNat, NoneAssumption, ActualValuesAre

\* The percentile in the final RPM is that of the measurements to consider, of
\* all directions, whatever the order in which they were made and merged.
THEOREM FinalPercentileIsOfConsidered ==
  ASSUME Measurements \subseteq Nat, NEW p \in 1 .. 99
  PROVE  Spec => [](main = "done" /\ ConsideredMeasurements # {} =>
                      IsPercentileOfConsidered(CalculatePercentile(ActualValues(final), p), p))
<1>1. ASSUME SeriesInv, main = "done", ConsideredMeasurements # {}
      PROVE  IsPercentileOfConsidered(CalculatePercentile(ActualValues(final), p), p)
  <2> DEFINE q == ActualValues(final)
             r == CalculatePercentile(q, p)
             C == ConsideredMeasurements
  <2>1. /\ q \in Seq(Measurements)
        /\ IsFiniteSet(C)
        /\ \A x \in C : x.second \in Measurements
        /\ \A P : Cardinality({n \in DOMAIN q : q[n] \in P}) = CountedIn(P)
    BY <1>1, FinalValues DEF HasDataOf, AsManyIn, CountedIn
  <2> HIDE DEF q, C
  <2>2. /\ q \in Seq(Nat)
        /\ DOMAIN q = 1 .. Len(q) /\ Len(q) \in Nat
        /\ \A n \in DOMAIN q : q[n] \in Measurements
    <3>1. /\ DOMAIN q = 1 .. Len(q) /\ Len(q) \in Nat
          /\ \A n \in DOMAIN q : q[n] \in Measurements
          /\ q \in [1 .. Len(q) -> Measurements]
      BY <2>1
    <3>2. q \in [1 .. Len(q) -> Nat]
      BY <3>1
    <3> QED
      BY <3>1, <3>2
  <2>3. Cardinality(C) = Len(q)
    <3>1. {n \in DOMAIN q : q[n] \in Measurements} = 1 .. Len(q)
      BY <2>2
    <3>2. {x \in C : x.second \in Measurements} = C
      BY <2>1
    <3>3. Cardinality(1 .. Len(q)) = Len(q)
      <4>1. 1 \in Int /\ Len(q) \in Int
        BY <2>2
      <4>2. Cardinality(1 .. Len(q)) = IF 1 > Len(q) THEN 0 ELSE Len(q) - 1 + 1
        BY <4>1, FS_Interval
      <4> QED
        BY <2>2, <4>2
    <3> QED
      BY <2>1, <3>1, <3>2, <3>3 DEF CountedIn, C
  <2>4. q # << >>
    <3>1. Cardinality(C) # 0
      BY <1>1, <2>1, FS_EmptySet DEF C
    <3> QED
      BY <2>3, <3>1
  <2>5. /\ Occurrences(q, r) > 0
        /\ 100 * Cardinality({i \in DOMAIN q : q[i] < r}) <= p * Len(q)
        /\ 100 * Cardinality({i \in DOMAIN q : q[i] <= r}) > p * Len(q)
    BY <2>2, <2>4, PercentileIsCorrect DEF IsPercentile
  <2> HIDE DEF r
  <2>6. \E x \in C : x.second = r
    <3>1. Occurrences(q, r) = CountedIn({r})
      BY <2>1 DEF Occurrences
    <3>2. CountedIn({r}) # 0
      BY <2>5, <3>1
    <3>3. {x \in C : x.second \in {r}} # {}
      BY <3>2, FS_EmptySet DEF CountedIn, C
    <3> QED
      BY <3>3
  <2>7. /\ {i \in DOMAIN q : q[i] < r} = {i \in DOMAIN q : q[i] \in {t \in Nat : t < r}}
        /\ {i \in DOMAIN q : q[i] <= r} = {i \in DOMAIN q : q[i] \in {t \in Nat : t <= r}}
    BY <2>2
  <2>8. /\ Cardinality({i \in DOMAIN q : q[i] < r}) = CountedIn({t \in Nat : t < r})
        /\ Cardinality({i \in DOMAIN q : q[i] <= r}) = CountedIn({t \in Nat : t <= r})
    BY <2>1, <2>7
  <2> QED
    BY <2>3, <2>5, <2>6, <2>8 DEF IsPercentileOfConsidered, C, r, q
<1> QED
  BY <1>1, SeriesInvariant, PTL

\* The final trimmed mean is of the least of the measurements to consider.
THEOREM FinalMeanIsOfSmallest ==
  ASSUME Measurements \subseteq Nat, NEW trim \in 0 .. 100
  PROVE  Spec => [](main = "done" => AreSmallestOfConsidered(Trimmed(ActualValues(final), trim)))
<1>1. ASSUME SeriesInv, main = "done"
      PROVE  AreSmallestOfConsidered(Trimmed(ActualValues(final), trim))
  <2> DEFINE q == ActualValues(final)
             kept == Trimmed(q, trim)
  <2>1. /\ q \in Seq(Measurements)
        /\ \A P : Cardinality({n \in DOMAIN q : q[n] \in P}) = CountedIn(P)
    BY <1>1, FinalValues DEF HasDataOf, AsManyIn, CountedIn
  <2> HIDE DEF q
  <2>2. q \in Seq(Nat)
    <3>1. Len(q) \in Nat /\ q \in [1 .. Len(q) -> Measurements]
      BY <2>1
    <3>2. q \in [1 .. Len(q) -> Nat]
      BY <3>1
    <3> QED
      BY <3>1, <3>2
  <2>3. AreSmallest(kept, q, Nat)
    BY <2>2, TrimmingIsCorrect
  <2>4. \A t : Occurrences(q, t) = CountedIn({t})
    BY <2>1 DEF Occurrences
  <2> HIDE DEF kept
  <2> QED
    BY <2>3, <2>4 DEF AreSmallest, AreSmallestOfConsidered, kept, q
<1> QED
  BY <1>1, SeriesInvariant, PTL

-----------------------------------------------------------------------------
\* The exported log has the measurements that the series hold, each once.
THEOREM ExportHasEveryMeasurementInvariant == Spec => []ExportHasEveryMeasurement
<1>1. SeriesInv => ExportHasEveryMeasurement
  <2> SUFFICES ASSUME SeriesInv, main = "done"
               PROVE  exported = SetToBag(UNION {Measured(d) : d \in Units})
    BY DEF ExportHasEveryMeasurement
  <2>1. exported = SetToBag(AllMeasured)
    BY DEF SeriesInv, LogInv
  <2>2. Probing = Units
    BY DEF SeriesInv, WorldInv, AllReturned, Probing
  <2>3. \A d : Measured(d) = MeasuredIn(rtts[d].data)
    BY DEF Measured, MeasuredIn, RangeOf
  <2>4. AllMeasured = UNION {Measured(d) : d \in Units}
    BY <2>2, <2>3 DEF AllMeasured
  <2> QED
    BY <2>1, <2>4
<1> QED
  BY <1>1, SeriesInvariant, PTL

\* The directions' fields, main's locals and the log have the values they may
\* have, for every number of directions and every bound.
THEOREM TypeCorrect == Spec => []TypeOK
<1>1. SeriesInv => TypeOK
  <2> SUFFICES ASSUME SeriesInv PROVE TypeOK
    OBVIOUS
  <2>1. Slots = SlotsOf(Ids, Measurements)
    BY DEF Slots, SlotsOf, Ids
  <2>2. \A d \in Probing : rtts[d].empty \in BOOLEAN /\ rtts[d].data \in Seq(Slots)
    BY <2>1 DEF SeriesInv, RttsInv, SeriesOf, SlotsOf
  <2>3. /\ allRtts.empty \in BOOLEAN /\ allRtts.data \in Seq(Slots)
        /\ merged \in 0 .. Len(Directions)
    BY <2>1 DEF SeriesInv, MergeInv, SeriesOf, SlotsOf
  <2>4. final \in Seq(Slots)
    <3>1. final = << >> \/ final \in Seq(SlotsOf(Ids, Measurements))
      BY DEF SeriesInv, MergeInv
    <3>2. << >> \in Seq(Slots)
      OBVIOUS
    <3> QED
      BY <2>1, <3>1, <3>2, Zenon
  <2>5. AllMeasured \subseteq Slots
    <3> SUFFICES ASSUME NEW d \in Probing, NEW x \in MeasuredIn(rtts[d].data)
                 PROVE  x \in Slots
      BY DEF AllMeasured
    <3>1. PICK i \in DOMAIN rtts[d].data : x = rtts[d].data[i]
      BY DEF MeasuredIn, RangeOf
    <3>2. rtts[d].data \in Seq(Slots)
      BY <2>2
    <3> QED
      BY <3>1, <3>2
  <2>6. BagToSet(logger.data) = AllMeasured /\ logger.isOpen \in BOOLEAN
    <3>1. logger.data = SetToBag(AllMeasured) /\ logger.isOpen \in BOOLEAN
      BY DEF SeriesInv, LogInv
    <3> QED
      BY <3>1, SetOfBag
  <2>7. BagToSet(exported) \subseteq Slots
    <3>1. exported = SetToBag(AllMeasured) \/ exported = SetToBag({})
      BY BagOfNothing DEF SeriesInv, LogInv
    <3> QED
      BY <2>5, <3>1, SetOfBag
  <2>8. \A d \in Units : unit[d] \notin {"ready", "throughput"} =>
                          rtts[d].empty \in BOOLEAN /\ rtts[d].data \in Seq(Slots)
    BY <2>2 DEF Probing
  <2>9. /\ main \in {"waiting", "stopping", "aggregating", "exporting", "done"}
        /\ parallel \in BOOLEAN
        /\ unit \in [Units -> {"ready", "throughput", "responsiveness", "ending", "done"}]
        /\ load \in [Units -> {"none", "on", "cancelled"}]
        /\ stable \in [Units -> BOOLEAN]
        /\ bounds \in [Units -> (0 .. MaxBucket) \X (0 .. MaxBucket)]
        /\ generator \in 0 .. MaxBucket
        /\ warned \in BOOLEAN
    BY DEF SeriesInv, WorldInv, FieldsInv, RttsInv
  <2>10. BagToSet(logger.data) \subseteq Slots
    BY <2>5, <2>6
  <2> QED
    BY <2>3, <2>4, <2>6, <2>7, <2>8, <2>9, <2>10, Zenon DEF TypeOK
<1> QED
  BY <1>1, SeriesInvariant, PTL
=============================================================================
