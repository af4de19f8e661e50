----------------------------- MODULE Direction -----------------------------
(***************************************************************************)
(* The execution unit of one direction (download or upload), the closure   *)
(* directionExecutionUnit in networkQuality.go: a first loop that waits    *)
(* for stable throughput, a second one that waits for stable               *)
(* responsiveness, and the winding down after them.                        *)
(*                                                                         *)
(* The responsiveness stabilizer is the one of module Stabilizer, fed with *)
(* the messages of the prober (a MeasurementStream, which                  *)
(* ResponsivenessProber is shown to implement).  The throughput stabilizer *)
(* is abstracted to its verdict, which cannot be "stable" before Mad       *)
(* intervals have ended (Stabilizer, StableMeansAnswered).                 *)
(*                                                                         *)
(* SelfRtts and ForeignRtts are reserved and filled with the same buckets  *)
(* at the same points: rtts stands for both.                               *)
(*                                                                         *)
(* The baseline measurement before the directions (relative RPM) is the    *)
(* second loop without a load and without self probes, with an order of    *)
(* cancellation of its own; its faux self RTTs are thirds of the foreign   *)
(* ones.                                                                   *)
(***************************************************************************)
EXTENDS Series, FiniteSets

CONSTANTS Mad, Sdt, Measurements, MaxBucket, MaxInterval   \* as in Stabilizer

ASSUME MaxBucketAssumption == MaxBucket \in Nat

VARIABLES
  phase,                \* where the direction's goroutine is
  timer,                \* timeoutChannel: "armed", "expired" or "consumed"
  throughputIntervals,  \* throughput intervals ended so far, up to Mad
  stableThroughput,
  stableResponsiveness,
  rtts,                 \* direction.SelfRtts / direction.ForeignRtts
  cancelled,            \* the contexts that have been cancelled
  mode,                 \* "serial" or "parallel" directions, or the "baseline"
  bounds,               \* LowerBucketBound, UpperBucketBound
  used,                 \* the slots from which the direction's RPM is computed
  instantaneousses, aggregates, currentInterval, intervalOf, valueOf

stabilizerVars == <<instantaneousses, aggregates, currentInterval, intervalOf, valueOf>>
vars == <<phase, timer, throughputIntervals, stableThroughput, stableResponsiveness,
          rtts, cancelled, mode, bounds, used, stabilizerVars>>

Responsiveness == INSTANCE Stabilizer

\* What module Stabilizer assumes of the constants.
ASSUME StabilizerAssumptions ==
  /\ Mad \in Nat \ {0}
  /\ MaxInterval \in Nat
  /\ Measurements \subseteq Nat
  /\ None \notin Nat /\ None \notin Responsiveness!ForeverSeries

IsBaseline == mode = "baseline"

Init ==
  /\ mode \in {"serial", "parallel", "baseline"}
  /\ phase = IF IsBaseline THEN "responsiveness" ELSE "throughput"
  /\ timer = "armed"
  /\ throughputIntervals = 0
  /\ stableThroughput = FALSE
  /\ stableResponsiveness = FALSE
  /\ rtts = NewForever
  /\ cancelled = {}
  /\ bounds = <<0, 0>>
  /\ used = << >>
  /\ Responsiveness!Init

\* TimeoutAt: its goroutine offers the expiry until it is received.
TimerExpires ==
  /\ timer = "armed"
  /\ timer' = "expired"
  /\ UNCHANGED <<phase, throughputIntervals, stableThroughput, stableResponsiveness,
                 rtts, cancelled, mode, bounds, used, stabilizerVars>>

-----------------------------------------------------------------------------
(* The loop lg_timeout.  (Throughput messages only feed the stabilizer and *)
(* the log.)                                                               *)

\* A stability tick: the verdict is taken, then the interval is ended.
ThroughputTick ==
  /\ phase = "throughput" /\ ~stableThroughput
  /\ \E verdict \in BOOLEAN :
       /\ verdict => throughputIntervals >= Mad
       /\ stableThroughput' = verdict
  /\ throughputIntervals' =
       IF throughputIntervals < Mad THEN throughputIntervals + 1 ELSE Mad
  /\ UNCHANGED <<phase, timer, stableResponsiveness, rtts, cancelled, mode,
                 bounds, used, stabilizerVars>>

\* The timeout ends the loop, and a speculative one is armed in its place.
ThroughputTimeout ==
  /\ phase = "throughput" /\ ~stableThroughput
  /\ timer = "expired"
  /\ timer' = "consumed"
  /\ phase' = "between"
  /\ UNCHANGED <<throughputIntervals, stableThroughput, stableResponsiveness, rtts,
                 cancelled, mode, bounds, used, stabilizerVars>>

ThroughputStable ==
  /\ phase = "throughput" /\ stableThroughput
  /\ phase' = "between"
  /\ UNCHANGED <<timer, throughputIntervals, stableThroughput, stableResponsiveness,
                 rtts, cancelled, mode, bounds, used, stabilizerVars>>

\* Mutant: no new timeout after an unstable throughput loop.
StartProber_NoTimeout ==
  /\ phase = "between"
  /\ rtts' = NewForever
  /\ phase' = "responsiveness"
  /\ UNCHANGED <<timer, throughputIntervals, stableThroughput, stableResponsiveness,
                 cancelled, mode, bounds, used, stabilizerVars>>

\* Between the loops: only an unstable throughput gives the test more time.
\* The series are created and the prober is started.
StartProber ==
  /\ phase = "between"
  /\ timer' = IF stableThroughput THEN timer ELSE "armed"
  /\ rtts' = NewForever
  /\ phase' = "responsiveness"
  /\ UNCHANGED <<throughputIntervals, stableThroughput, stableResponsiveness,
                 cancelled, mode, bounds, used, stabilizerVars>>

-----------------------------------------------------------------------------
(* The loop responsiveness_timeout: a select over the prober's messages,   *)
(* the timeout and the stability tick.                                     *)

InLoop == phase = "responsiveness" /\ ~stableResponsiveness

\* What is cancelled first when the loop is left.
FirstToCancel == IF IsBaseline THEN "cancelNetwork" ELSE "cancelOperators"

ReserveMessage(b) ==
  /\ InLoop
  /\ Responsiveness!Reserve(b)
  /\ rtts' = ForeverReserve(rtts, b)
  /\ UNCHANGED <<phase, timer, throughputIntervals, stableThroughput,
                 stableResponsiveness, cancelled, mode, bounds, used>>

\* Mutant: only the stabilizer is given the measurement.
MeasureMessage_NotKept(b, d) ==
  /\ InLoop
  /\ Responsiveness!AddMeasurement(b, d)
  /\ UNCHANGED <<phase, timer, throughputIntervals, stableThroughput, rtts,
                 stableResponsiveness, cancelled, mode, bounds, used>>

MeasureMessage(b, d) ==
  /\ InLoop
  /\ Responsiveness!AddMeasurement(b, d)
  /\ rtts' = ForeverFill(rtts, b, d)
  /\ UNCHANGED <<phase, timer, throughputIntervals, stableThroughput,
                 stableResponsiveness, cancelled, mode, bounds, used>>

\* Mutant: the interval is ended whatever the verdict.
ResponsivenessTick_Always ==
  /\ InLoop
  /\ stableResponsiveness' = Responsiveness!IsStable
  /\ Responsiveness!Interval
  /\ UNCHANGED <<phase, timer, throughputIntervals, stableThroughput, rtts,
                 cancelled, mode, bounds, used>>

\* "Do not tick an interval if we are stable."
ResponsivenessTick ==
  /\ InLoop
  /\ stableResponsiveness' = Responsiveness!IsStable
  /\ IF Responsiveness!IsStable
     THEN UNCHANGED stabilizerVars
     ELSE Responsiveness!Interval
  /\ UNCHANGED <<phase, timer, throughputIntervals, stableThroughput, rtts,
                 cancelled, mode, bounds, used>>

ResponsivenessTimeout ==
  /\ InLoop
  /\ timer = "expired"
  /\ timer' = "consumed"
  /\ phase' = FirstToCancel
  /\ UNCHANGED <<throughputIntervals, stableThroughput, stableResponsiveness, rtts,
                 cancelled, mode, bounds, used, stabilizerVars>>

ResponsivenessStable ==
  /\ phase = "responsiveness" /\ stableResponsiveness
  /\ phase' = FirstToCancel
  /\ UNCHANGED <<timer, throughputIntervals, stableThroughput, stableResponsiveness,
                 rtts, cancelled, mode, bounds, used, stabilizerVars>>

-----------------------------------------------------------------------------
(* Winding down.                                                           *)

\* First the prober and the load generator, but not the network activity.
CancelOperators ==
  /\ ~IsBaseline /\ phase = "cancelOperators"
  /\ cancelled' = cancelled \cup {"prober", "throughputOperator"}
  /\ phase' = "cancelNetwork"
  /\ UNCHANGED <<timer, throughputIntervals, stableThroughput, stableResponsiveness,
                 rtts, mode, bounds, used, stabilizerVars>>

\* Mutant: the load is taken away whatever the execution policy.
CancelNetwork_Always ==
  /\ ~IsBaseline /\ phase = "cancelNetwork"
  /\ cancelled' = cancelled \cup {"probeNetwork", "throughput"}
  /\ phase' = "calculate"
  /\ UNCHANGED <<timer, throughputIntervals, stableThroughput, stableResponsiveness,
                 rtts, mode, bounds, used, stabilizerVars>>

\* Always the foreign probes' network activity; the load-generating
\* connections' own only when the directions run one after the other.
CancelNetwork ==
  /\ ~IsBaseline /\ phase = "cancelNetwork"
  /\ cancelled' = cancelled \cup {"probeNetwork"}
                    \cup (IF mode = "parallel" THEN {} ELSE {"throughput"})
  /\ phase' = "calculate"
  /\ UNCHANGED <<timer, throughputIntervals, stableThroughput, stableResponsiveness,
                 rtts, mode, bounds, used, stabilizerVars>>

\* The baseline cuts the probes' connections first ...
BaselineCancelNetwork ==
  /\ IsBaseline /\ phase = "cancelNetwork"
  /\ cancelled' = cancelled \cup {"probeNetwork"}
  /\ phase' = "cancelOperators"
  /\ UNCHANGED <<timer, throughputIntervals, stableThroughput, stableResponsiveness,
                 rtts, mode, bounds, used, stabilizerVars>>

\* ... and then stops the prober.
BaselineCancelProber ==
  /\ IsBaseline /\ phase = "cancelOperators"
  /\ cancelled' = cancelled \cup {"prober"}
  /\ phase' = "calculate"
  /\ UNCHANGED <<timer, throughputIntervals, stableThroughput, stableResponsiveness,
                 rtts, mode, bounds, used, stabilizerVars>>

\* GetBounds; CalculateRpm twice, the second time with the trimming bounds
\* set: it is that one's result which is kept.  (The self RTTs go through
\* ExtractBoundedSeries and the foreign ones through GetValues: with bounds
\* set, both let the same slots pass.)
CalculateRpm ==
  /\ phase = "calculate"
  /\ bounds' = Responsiveness!GetBounds
  /\ used' = ExtractBounded(rtts, bounds'[1], bounds'[2]).data
  /\ phase' = "done"
  /\ UNCHANGED <<timer, throughputIntervals, stableThroughput, stableResponsiveness,
                 rtts, cancelled, mode, stabilizerVars>>

Advance == \/ ThroughputStable \/ StartProber
           \/ ResponsivenessStable
           \/ CancelOperators \/ CancelNetwork
           \/ BaselineCancelNetwork \/ BaselineCancelProber
           \/ CalculateRpm

Next ==
  \/ TimerExpires
  \/ ThroughputTick \/ ThroughputTimeout
  \/ \E b \in Responsiveness!Buckets : ReserveMessage(b)
  \/ \E b \in Responsiveness!Buckets, d \in Measurements : MeasureMessage(b, d)
  \/ ResponsivenessTick \/ ResponsivenessTimeout
  \/ Advance

Spec == Init /\ [][Next]_vars

\* Timers expire, and a select whose timeout case stays ready takes it in the
\* end, however many messages and ticks are ready too (Go chooses at random).
\* No message need ever arrive and no tick need ever be taken.
FairSpec == /\ Spec
            /\ WF_vars(TimerExpires)
            /\ WF_vars(ThroughputTimeout)
            /\ WF_vars(ResponsivenessTimeout)
            /\ WF_vars(Advance)

-----------------------------------------------------------------------------
(* Properties *)

Contexts == {"prober", "throughputOperator", "probeNetwork", "throughput"}

\* The locals of the execution unit and the fields of the direction.
TypeOK ==
  /\ phase \in {"throughput", "between", "responsiveness", "cancelOperators",
                "cancelNetwork", "calculate", "done"}
  /\ timer \in {"armed", "expired", "consumed"}
  /\ throughputIntervals \in 0 .. Mad
  /\ stableThroughput \in BOOLEAN /\ stableResponsiveness \in BOOLEAN
  /\ mode \in {"serial", "parallel", "baseline"}
  /\ cancelled \subseteq Contexts
  /\ rtts \in Responsiveness!ForeverSeries
  /\ bounds \in (0 .. MaxBucket) \X (0 .. MaxBucket)
  /\ Responsiveness!TypeOK

\* The RPM of a direction that ran to stable responsiveness is computed from
\* all the probes that began in the judged intervals, each with the value that
\* was measured, and from no other probe: an interval that was judged has not
\* been expelled in the meantime, a probe of the running interval does not
\* slip in, and none is counted without its measurement.
RpmFromJudgedProbes ==
  phase = "done" /\ stableResponsiveness =>
    {used[i] : i \in DOMAIN used}
      = {Pair(b, valueOf[b]) : b \in Responsiveness!JudgedBuckets}

\* What the RPM is computed from and what stability is judged on stay in step:
\* the RTT series hold every reservation and every measurement that the
\* stabilizer was given, those it has expelled included.
RttsKeepEveryProbe ==
  /\ BucketsOf(rtts.data) = DOMAIN intervalOf
  /\ \A i \in DOMAIN rtts.data :
       rtts.data[i].second =
         IF rtts.data[i].first \in DOMAIN valueOf THEN valueOf[rtts.data[i].first] ELSE None

\* "First, stop the load generator and the probe operators (but *not* the
\* network activity)": no connection is cut under a prober or a generator of a
\* direction that may still begin to use it, and with parallel directions a
\* direction that is done leaves its load on for the others.  (The baseline
\* cuts the connections first; what its probes report then is not received.)
\* Nothing that was started is left running otherwise.
ConnectionsOutliveTheirUsers ==
  /\ ~IsBaseline /\ cancelled \cap {"probeNetwork", "throughput"} # {} =>
       {"prober", "throughputOperator"} \subseteq cancelled
  /\ cancelled # {} => phase \notin {"throughput", "between", "responsiveness"}
  /\ phase = "done" =>
       cancelled = CASE mode = "serial"   -> Contexts
                     [] mode = "parallel" -> Contexts \ {"throughput"}
                     [] mode = "baseline" -> {"probeNetwork", "prober"}

\* Every direction, and the baseline, comes to an end, whatever the network
\* does: each loop has a timeout that is still to come.
DirectionEnds == <>(phase = "done")
=============================================================================
