--------------------------- MODULE NetworkQuality ---------------------------
(***************************************************************************)
(* The program around the directions (main in networkQuality.go): the      *)
(* executor runs the execution units of the download and the upload, one   *)
(* after the other or in parallel, with one bucket generator for both;     *)
(* main waits for them, stops the load of parallel directions and merges   *)
(* the directions' RTT series into the one the final RPM is computed from. *)
(* The directions also record their probes in one log, which main exports  *)
(* in the end (datalogger/logger.go).                                      *)
(*                                                                         *)
(* Each unit is module Direction reduced to what main and the other        *)
(* direction can see of it.  What it is assumed to do here is what is      *)
(* checked there: its series hold every probe (RttsKeepEveryProbe), its    *)
(* bounds, if it is stable, delimit answered probes (RpmFromJudgedProbes), *)
(* and it ends (DirectionEnds).                                            *)
(*                                                                         *)
(* SelfRtts and ForeignRtts are reserved, filled and merged alike: rtts    *)
(* stands for both.  So are SelfProbeDataLogger and                        *)
(* ForeignProbeDataLogger, each one object for both directions: logger     *)
(* stands for both.  It is a CSVDataLogger; a NullDataLogger, without the  *)
(* flag for the log, keeps nothing.                                        *)
(***************************************************************************)
EXTENDS Series, FiniteSets

CONSTANTS
  Directions,     \* the execution units, in the order of Execute's loop
  Measurements,
  MaxBucket       \* bound: the generator stops at this bucket id

Units == Range(Directions)

ASSUME DirectionsAssumption ==
  /\ Directions \in Seq(Units)
  /\ IsInjective(Directions)
  /\ Units # {}
ASSUME MaxBucketAssumption == MaxBucket \in Nat
ASSUME NoneAssumption == None \notin Measurements

VARIABLES
  main,        \* "waiting" (Execute, Wait), "stopping", "aggregating", "exporting", "done"
  parallel,    \* parallelTestExecutionPolicy
  unit,        \* per direction: where its execution unit is
  load,        \* per direction: its ThroughputActivityCtx
  stable,      \* per direction: StableResponsiveness
  rtts,        \* per direction: its RTT series, None until it is created
  bounds,      \* per stable direction: LowerBucketBound, UpperBucketBound
  generator,   \* globalNumericBucketGenerator
  warned,      \* main has warned about the state of a load
  allRtts,     \* boundedAllSelfRtts
  merged,      \* the number of directions merged into it
  final,       \* the slots from which the final RPM is computed
  logger,      \* the log of the probes: its data and whether it is open
  exported     \* the rows of the log's file

logVars == <<logger, exported>>
finalVars == <<allRtts, merged, final>>
vars == <<main, parallel, unit, load, stable, rtts, bounds, generator, warned, finalVars, logVars>>

-----------------------------------------------------------------------------
(* The data logger.  Its methods hold its mutex throughout.  The order of  *)
(* the rows is left out: the log is a bag of records.                      *)

CreateLogger == [data |-> EmptyBag, isOpen |-> TRUE]

LogRecord(record) ==
  /\ logger' = [logger EXCEPT !.data = @ (+) SetToBag({record})]
  /\ UNCHANGED exported

\* Export, and then Close.
ExportAndClose ==
  /\ exported' = IF logger.isOpen THEN exported (+) logger.data ELSE exported
  /\ logger' = [logger EXCEPT !.isOpen = FALSE]

-----------------------------------------------------------------------------

Init ==
  /\ main = "waiting"
  /\ parallel \in BOOLEAN
  /\ unit = [d \in Units |-> "ready"]
  /\ load = [d \in Units |-> "none"]
  /\ stable = [d \in Units |-> FALSE]
  /\ rtts = [d \in Units |-> None]
  /\ bounds = [d \in Units |-> <<0, 0>>]
  /\ generator = 0
  /\ warned = FALSE
  /\ allRtts = NewForever
  /\ merged = 0
  /\ final = << >>
  /\ logger = CreateLogger
  /\ exported = EmptyBag

-----------------------------------------------------------------------------
(* The execution units.                                                    *)

\* Mutant: every unit is started in a goroutine, whatever the policy.
Start_Concurrently(d) ==
  /\ unit[d] = "ready"
  /\ unit' = [unit EXCEPT ![d] = "throughput"]
  /\ load' = [load EXCEPT ![d] = "on"]
  /\ UNCHANGED <<main, parallel, stable, rtts, bounds, generator, warned, finalVars, logVars>>

\* Execute: a serial unit is called when those before it have returned.
\* The first thing a unit does is to create its contexts and its load.
Start(d) ==
  /\ unit[d] = "ready"
  /\ parallel \/ \A i, j \in DOMAIN Directions :
                   Directions[i] = d /\ j < i => unit[Directions[j]] = "done"
  /\ unit' = [unit EXCEPT ![d] = "throughput"]
  /\ load' = [load EXCEPT ![d] = "on"]
  /\ UNCHANGED <<main, parallel, stable, rtts, bounds, generator, warned, finalVars, logVars>>

\* The throughput loop is left, the series are created.
StartProber(d) ==
  /\ unit[d] = "throughput"
  /\ unit' = [unit EXCEPT ![d] = "responsiveness"]
  /\ rtts' = [rtts EXCEPT ![d] = NewForever]
  /\ UNCHANGED <<main, parallel, load, stable, bounds, generator, warned, finalVars, logVars>>

\* A load generator, or a prober nobody receives from any more, takes a bucket.
OthersGenerate(d) ==
  /\ unit[d] # "ready"
  /\ generator < MaxBucket
  /\ generator' = generator + 1
  /\ UNCHANGED <<main, parallel, unit, load, stable, rtts, bounds, warned, finalVars, logVars>>

\* A probe takes a bucket and the direction receives its reservation.  (The
\* prober holds its lock from the one to the other, so a direction's buckets
\* come in the order of generation; the other direction's steps in between
\* do not touch this direction's series.)
ReserveMessage(d) ==
  /\ unit[d] = "responsiveness"
  /\ generator < MaxBucket
  /\ generator' = generator + 1
  /\ rtts' = [rtts EXCEPT ![d] = ForeverReserve(@, generator + 1)]
  /\ UNCHANGED <<main, parallel, unit, load, stable, bounds, warned, finalVars, logVars>>

Unanswered(d) ==
  {b \in BucketsOf(rtts[d].data) :
     ~IsSome(rtts[d].data[FirstSlot(rtts[d].data, b)].second)}

\* The measurement goes to the series and to the log.  (A record has the
\* measurement; its bucket is kept with it to tell records apart.)
MeasureMessage(d, b, m) ==
  /\ unit[d] = "responsiveness"
  /\ b \in Unanswered(d)
  /\ rtts' = [rtts EXCEPT ![d] = ForeverFill(@, b, m)]
  /\ LogRecord(Pair(b, m))
  /\ UNCHANGED <<main, parallel, unit, load, stable, bounds, generator, warned, finalVars>>

\* The loop ends on a stable verdict: the judged probes are all answered and
\* the bounds are the first and the last of them.
BecomesStable(d) ==
  /\ unit[d] = "responsiveness"
  /\ \E lower, upper \in BucketsOf(rtts[d].data) :
       /\ lower <= upper
       /\ \A b \in Unanswered(d) : ~(lower <= b /\ b <= upper)
       /\ bounds' = [bounds EXCEPT ![d] = <<lower, upper>>]
  /\ stable' = [stable EXCEPT ![d] = TRUE]
  /\ unit' = [unit EXCEPT ![d] = "ending"]
  /\ UNCHANGED <<main, parallel, load, rtts, generator, warned, finalVars, logVars>>

\* Mutant: a loop that is never stable is never left.
TimesOut_Never(d) == FALSE /\ UNCHANGED vars

\* The loop ends on its timeout.  (The bounds are set here as well, for the
\* direction's own result: main does not look at them and they are left out.)
TimesOut(d) ==
  /\ unit[d] = "responsiveness"
  /\ unit' = [unit EXCEPT ![d] = "ending"]
  /\ UNCHANGED <<main, parallel, load, stable, rtts, bounds, generator, warned, finalVars, logVars>>

\* Mutant: the load is taken away whatever the policy.
Finish_StopsLoad(d) ==
  /\ unit[d] = "ending"
  /\ load' = [load EXCEPT ![d] = "cancelled"]
  /\ unit' = [unit EXCEPT ![d] = "done"]
  /\ UNCHANGED <<main, parallel, stable, rtts, bounds, generator, warned, finalVars, logVars>>

\* Mutant: the unit exports and closes the probes' log as it does its own logs.
Finish_Exports(d) ==
  /\ unit[d] = "ending"
  /\ load' = IF parallel THEN load ELSE [load EXCEPT ![d] = "cancelled"]
  /\ unit' = [unit EXCEPT ![d] = "done"]
  /\ ExportAndClose
  /\ UNCHANGED <<main, parallel, stable, rtts, bounds, generator, warned, finalVars>>

\* A serial direction takes its load away; the wait group is told.  (Before
\* that the unit exports and closes its own throughput logs, which nobody
\* shares.)
Finish(d) ==
  /\ unit[d] = "ending"
  /\ load' = IF parallel THEN load ELSE [load EXCEPT ![d] = "cancelled"]
  /\ unit' = [unit EXCEPT ![d] = "done"]
  /\ UNCHANGED <<main, parallel, stable, rtts, bounds, generator, warned, finalVars, logVars>>

-----------------------------------------------------------------------------
(* Main.                                                                   *)

WaitReturns ==
  /\ main = "waiting"
  /\ \A d \in Units : unit[d] = "done"
  /\ main' = "stopping"
  /\ UNCHANGED <<parallel, unit, load, stable, rtts, bounds, generator, warned, finalVars, logVars>>

\* The loads of parallel directions were left on, those of serial ones were
\* not: main warns if it finds otherwise.
StopLoads ==
  /\ main = "stopping"
  /\ warned' = \E d \in Units : load[d] # (IF parallel THEN "on" ELSE "cancelled")
  /\ load' = IF parallel THEN [d \in Units |-> "cancelled"] ELSE load
  /\ main' = "aggregating"
  /\ UNCHANGED <<parallel, unit, stable, rtts, bounds, generator, finalVars, logVars>>

\* s with direction d merged in: the judged probes of a stable direction, all
\* probes of one that is not.
Merge(s, d) ==
  IF stable[d]
  THEN ForeverBoundedAppend(s, rtts[d], bounds[d][1], bounds[d][2])
  ELSE ForeverAppend(s, rtts[d])

\* The next of the directions is merged.
MergeNext ==
  /\ main = "aggregating"
  /\ merged < Len(Directions)
  /\ allRtts' = Merge(allRtts, Directions[merged + 1])
  /\ merged' = merged + 1
  /\ UNCHANGED <<main, parallel, unit, load, stable, rtts, bounds, generator, warned, final, logVars>>

\* boundedAllSelfRtts, which has no trimming bounds itself, goes through
\* CalculateRpm: every bucket is extracted.  Then operatingCtx is cancelled.
Aggregate ==
  /\ main = "aggregating"
  /\ merged = Len(Directions)
  /\ final' = ExtractBounded(allRtts, 0, MaxBucket).data
  /\ load' = [d \in Units |-> "cancelled"]
  /\ main' = "exporting"
  /\ UNCHANGED <<parallel, unit, stable, rtts, bounds, generator, warned, allRtts, merged, logVars>>

\* "Closing/exporting one will close/export the other": the upload's logger is
\* the download's as well.
ExportProbes ==
  /\ main = "exporting"
  /\ ExportAndClose
  /\ main' = "done"
  /\ UNCHANGED <<parallel, unit, load, stable, rtts, bounds, generator, warned, finalVars>>

Unit(d) == \/ Start(d) \/ StartProber(d) \/ OthersGenerate(d) \/ ReserveMessage(d)
           \/ \E b \in 1 .. MaxBucket, m \in Measurements : MeasureMessage(d, b, m)
           \/ BecomesStable(d) \/ TimesOut(d) \/ Finish(d)

Next == \/ \E d \in Units : Unit(d)
        \/ WaitReturns \/ StopLoads \/ MergeNext \/ Aggregate \/ ExportProbes

Spec == Init /\ [][Next]_vars

\* Both loops of a unit have a timeout (Direction, DirectionEnds); a unit that
\* has left them, and main, run on.  No message need ever arrive.
FairSpec ==
  /\ Spec
  /\ \A d \in Units : /\ WF_vars(Start(d)) /\ WF_vars(StartProber(d))
                      /\ WF_vars(TimesOut(d)) /\ WF_vars(Finish(d))
  /\ WF_vars(WaitReturns \/ StopLoads \/ MergeNext \/ Aggregate \/ ExportProbes)

-----------------------------------------------------------------------------
(* Properties *)

Slots == [first : 1 .. MaxBucket, second : Measurements \cup {None}]

\* The policy, the fields of the directions and main's locals.
TypeOK ==
  /\ main \in {"waiting", "stopping", "aggregating", "exporting", "done"}
  /\ parallel \in BOOLEAN
  /\ unit \in [Units -> {"ready", "throughput", "responsiveness", "ending", "done"}]
  /\ load \in [Units -> {"none", "on", "cancelled"}]
  /\ stable \in [Units -> BOOLEAN]
  /\ \A d \in Units : unit[d] \notin {"ready", "throughput"} =>
                        rtts[d].empty \in BOOLEAN /\ rtts[d].data \in Seq(Slots)
  /\ bounds \in [Units -> (0 .. MaxBucket) \X (0 .. MaxBucket)]
  /\ generator \in 0 .. MaxBucket
  /\ warned \in BOOLEAN
  /\ allRtts.empty \in BOOLEAN /\ allRtts.data \in Seq(Slots)
  /\ merged \in 0 .. Len(Directions)
  /\ final \in Seq(Slots)
  /\ BagToSet(logger.data) \subseteq Slots /\ logger.isOpen \in BOOLEAN
  /\ BagToSet(exported) \subseteq Slots

\* "If the test had a stable responsiveness measurement, then only consider the
\* probe measurements that are in the MAD intervals.  [If it] did not
\* stabilize, use all measurements": each considered probe is in the final RPM
\* once and with its measurement, although the buckets of parallel directions
\* interleave and a series refuses those that come out of order.
Considered(d) ==
  {s \in {rtts[d].data[i] : i \in DOMAIN rtts[d].data} :
     stable[d] => bounds[d][1] <= s.first /\ s.first <= bounds[d][2]}

FinalRpmFromConsideredProbes ==
  main = "done" =>
    /\ {final[i] : i \in DOMAIN final} = UNION {Considered(d) : d \in Units}
    /\ \A i, j \in DOMAIN final : i # j => final[i].first # final[j].first

\* A direction that measures does so under its working conditions: its own
\* load is on; in parallel the load of the directions that are done is still on
\* ("left running in case one of the directions reached stability before the
\* other"), and one after the other no other direction's is.
WorkingConditions ==
  \A d, e \in Units :
    unit[d] = "responsiveness" =>
      /\ load[d] = "on"
      /\ parallel /\ unit[e] # "ready" => load[e] = "on"
      /\ ~parallel /\ e # d => load[e] # "on"

\* Main finds the loads as it expects them ("was already cancelled but should
\* have been ongoing", "should have already been stopped but it was not").
LoadsAsExpected == ~warned

\* The log's file has each measurement of both directions once, the same that
\* the series hold: none is recorded after the log was exported, in whatever
\* order the directions end.
Measured(d) == {s \in {rtts[d].data[i] : i \in DOMAIN rtts[d].data} : IsSome(s.second)}

ExportHasEveryMeasurement ==
  main = "done" => exported = SetToBag(UNION {Measured(d) : d \in Units})

\* The program comes to its end, whatever the network does.
FinalRpmIsReported == <>(main = "done")
=============================================================================
