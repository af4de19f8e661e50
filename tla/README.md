# A verification project for goresponsiveness

goresponsiveness measures how responsive a network stays under load. It opens
connections that transfer as much as they can, sends small probes next to them,
waits until throughput and then responsiveness are stable, and computes round
trips per minute (RPM) from the probes of the stable period. The program is
concurrent throughout: its results depend on the order in which goroutines,
timers and the network act. This project models that part in TLA+, checks the
models with TLC and proves the main results with TLAPS.

## 1. Inventory

### Components, their state and their operations

| Component | Source | State | Operations |
|---|---|---|---|
| Window series | `series/series.go` | slots (bucket id, optional datum), `empty`, ring index, trimming bounds | `Reserve`, `Fill`, `Complete`, `GetBucketBounds`, `ExtractBoundedSeries`, `Append`, `BoundedAppend`, `GetValues` |
| Bucket generator | `series/series.go` | `currentValue` | `Generate`; one for the whole program |
| Stabilizer | `stabilizer/algorithm.go` | running series, ring of the last MAD retired series, interval number | `Reserve`, `AddMeasurement`, `Interval`, `IsStable`, `GetBounds` |
| Responsiveness prober | `rpm/rpm.go` 93-338 | channel, lock, wait group, one goroutine per probe | start a probe per interval, reserve, foreign probe, self probe, report, close |
| Load generator | `rpm/rpm.go` 340-555 | next sample time, connections | sample all connections, send, add connections |
| Load-generating connections | `lgc/` | status, byte counter, condition variable | `Start`, `Read`, `TransferredInInterval`, `Status`, `WaitUntilStarted`, `GetRandom` |
| Direction execution unit | `networkQuality.go` 680-1179 | stability flags, RTT series, bounds, five contexts, timers | throughput loop, responsiveness loop, cancellation, RPM |
| Baseline measurement | `networkQuality.go` 514-667 | as one direction, without load | responsiveness loop |
| Main program, executor | `networkQuality.go` 1183-1305, `executor/` | wait group, directions | serial or parallel execution, final aggregation |
| RPM calculation | `rpm/calculations.go`, `series/statistics.go`, `utilities/math.go` | none | trimmed mean, percentile, standard deviation |
| Timeouts | `timeoutat/`, `utilities.OrTimeout` | a goroutine that offers an expiry | |
| Waiting for a connection | `utilities/`, `lgc/` | the status' mutex and condition variable, a context | `WaitWithContext`, `ContextSignaler`, `WaitUntilStarted` |
| Probe, tracer, traceable, stats | `probe/`, `traceable/`, `stats/` | time stamps | one HTTP request, its callbacks, the sum of its times |
| Quality attenuation | `qualityattenuation/` | counts, extremes, sums relative to an offset | `AddSample`, `GetAverage`, `GetVariance`, `Merge` |
| Data logger | `datalogger/` | records, open or closed | `LogRecord`, `Export`, `Close` |
| Saturating counter, key-log writer | own directories | a number, a file | |
| Configuration, L4S, extended statistics, constants, debug, tools | own directories | | I/O before, beside or after the test |

### How they interact

The coordinator of a direction starts a load generator and, when throughput is
stable, a prober. Each owns one unbuffered channel of `series.SeriesMessage`
values: a *reserve* message names a new bucket, a *measure* message fills it.
The coordinator feeds them to a stabilizer and to two RTT series, and ticks the
stabilizer on a timer. All producers, of both directions, draw bucket ids from
one generator. Probes run concurrently, share a lock with the prober's driver
across their blocking sends, and borrow a connection from the collection that
the load generator fills. The coordinator stops receiving when it is satisfied
or out of time, and only afterwards cancels contexts: first those of the prober
and the load generator, then those of the network activity.

A probe hands its tracer's callbacks to `net/http`, which calls them from its own
goroutines, also after it has decided to use another connection. The directions
record their probes in the same two loggers and add the self probes to one
quality attenuation object; main exports the logs when both are done.

### What is hard about it

* **Late results.** A probe may be answered several intervals after it began.
* **Verdict, then use.** The bounds are read after the verdict on which the loop
  was left; ticking in between would expel an interval that was judged.
* **A channel that is closed while senders exist,** and a lock that is held
  across a send which may have no receiver.
* **Unlocked reads** of a connection's status, used later.
* **Counters that are read and cleared** by one goroutine and added to by another.
* **Empty intervals**, whose average is 0/0, and bounds of empty series.
* **Timers** that have been received and must be armed again.
* **Callbacks of abandoned work:** racing connection attempts, dials that go on
  beside a reused connection, redirects and retries, all into the same time stamps.
* **A condition variable with two reasons to wake up,** one of which is
  broadcast once and without the mutex.

`PROJECT.json` lists these and the others at their lines, each with the
properties that would catch it, or the reason why none does.

### What makes each component correct

* A series refuses a bucket that is not greater than the last, and fills at most
  the slot it is asked to.
* A stabilizer's verdict is about complete, non-empty intervals; the bounds it
  gives select the probes of exactly those.
* A prober's and a generator's messages form a *measurement stream*: buckets are
  reserved in increasing order, each is measured at most once and only after
  its reservation.
* A prober never sends on its closed channel; it ends when it is told to.
* A generator opens at most the given number of connections and reports every
  byte once.
* A probe's duration is the time of the round trips it stands for, and nothing
  else's.
* A wait for a connection says what is true and ends when it should.
* The log has every measurement once; the quality attenuation is that of all
  answers.
* A direction ends; its RPM comes from the judged probes and no others; nothing
  is cut off under a user of it.

## 2. Plan

The order in which the modules were written; all of it is done.

1. `Series` -- operators for both kinds of series.
2. `MeasurementStream`, `SlidingIntervals` -- abstract specifications: what the
   coordinator relies on, and what a stabilizer promises.
3. `Stabilizer` (on `Series`), implements `SlidingIntervals`, assumes the stream.
4. `ResponsivenessProber`, `LoadGenerator` -- both implement `MeasurementStream`.
5. `Direction` -- composes the coordinator with an instance of `Stabilizer`.
6. `NetworkQuality` -- two directions, serial and parallel, the cancellation
   after both, and the final aggregation with `Append` and `BoundedAppend`.
7. `Statistics`, `RpmCalculation` -- trim, percentile and RPM against their definitions.
8. The baseline as a mode of `Direction`; the shared probe log in `NetworkQuality`.
9. `ProbeTrace` -- what a probe's duration measures, under the transport's callbacks.
10. `StatusWait` -- `WaitWithContext` and `ContextSignaler` on the connections' status.
11. `QualityAttenuation` -- counts, extremes, moments and `Merge`.
12. Proof modules for 1, 3, 4, 5, 6 and 9; the theorems about 10 are in
    `LoadGenerator_proofs`, beside the connections whose status it is, and those about
    7's statistics in `Series_proofs`.
13. `RpmCalculation_proofs` -- 7 and 11 as a whole: folds of sequences of any length,
    the sums behind the mean and the quality attenuation, and merging.

## 3. The modules

**`Series`.** A forever series is `[data, empty]` with `data` a sequence of
slots; a window-only series is `[data, latestIndex, empty, windowSize]` with
`data` indexed from 0 and filled with Go's zero values. Each operation of the
code holds the series' lock, so it is an operator from a series to a series.
An operation that returns an error in the code leaves the series as it is.
`FirstSlot` and `FilledSlot` state which slot the code's search loops find. What a
filter keeps and what a sort returns is stated through ranks: `NthOf(I, n)` is the
*n*-th of some indices, `ElementsAt` the elements there, and `InBucketOrder` puts
the slot at its number of predecessors. That is how the results of the code's loops
can be reasoned about without recursion.

**`MeasurementStream`** and **`SlidingIntervals`** are the abstract
specifications. In the first a bucket is reserved only if it is greater than all
before it, and measured only if it is reserved and not yet measured. `messages`
counts what was received, so that a message that is received again is neither a
step of the stream nor a stuttering step: a producer's `received` is a sequence,
and its length is mapped to the count. The second knows neither rings nor slots: it is a map from the
last MAD intervals and the current one to what was measured in them. Its
`answers` records every answer, also one for an interval that has been expelled:
an answer leaves everything else alone but the interval it belongs to.

**`Stabilizer`.** `instantaneousses`, `aggregates` and `currentInterval` are the
fields of the code's type. Every method holds the mutex throughout and is one
action or one operator. `AddMeasurement` fills the running series and every
retired one, in place. The parameters of the cutoff are compared over the
rationals: averages are brought to a common denominator and both sides squared,
so no rounding is involved (the code uses float64). A comparison with the
average of an empty interval fails, as with a NaN. `intervalOf` and `valueOf`
are history variables: the code has no such state.

**`ResponsivenessProber`.** One driver, a set of probe goroutines, the
connections' statuses and the coordinator. A status may change as that of either
kind of connection: that an ended connection runs again happens to uploads only,
and the model allows it of any. In a direction the collection has a connection
before the prober starts, so `GetRandom` finds one, and its branches for an empty
collection and an error are left out. A send on the unbuffered channel is a
state (`reserve`, `send`) that the probe enters with the lock held, and leaves in
one action together with the receiver. The lock, the channel's closing and the
two-second limit are explicit. A foreign probe may never return; a self probe is
answered, fails or panics. The initial states cover both uses: with a
connection collection (a direction) and without (the baseline), each with its
own order of cancellation. `probeCount`, a racy label, is left out.

**`LoadGenerator`.** The generator goroutine, the connections it opens and the
coordinator. A download is one goroutine; an upload is two, because the
transport reads the request body on its own while `Do` waits: the check of the
counter and the setting of the status are two actions there. Bytes are counted
in reads. The scan takes the connections one at a time, and reading a status and
taking the bytes are two actions (`SeeRunning`, `CollectOne`): a connection may
end in between, and others change during the scan. A sample is the total of the scan; the division by the interval
is left out.

**`Direction`.** The coordinator with the responsiveness stabilizer as an
instance of `Stabilizer`. `mode` says whether the directions are serial or
parallel, or whether this is the baseline, which is the second loop alone, with
a stabilizer and a timeout of its own and the other order of cancellation
(`FirstToCancel`, `BaselineCancelNetwork`, `BaselineCancelProber`). The two
`select` loops are sets of actions with a
common guard; the timer is armed, expired or consumed. The throughput
stabilizer is abstracted to its verdict, which cannot be positive before MAD
intervals have ended -- that is `StableMeansAnswered`, proved of `Stabilizer`.
A measurement has one datum, which stands for the times of the self and of the
foreign probe, for their sum and for the data of both RTT series: which probes go
where is modelled, that self and foreign times are not mixed up is not.
`used` holds the slots the RPM is computed from. `StabilizerAssumptions` are the
assumptions of the instance, which an `INSTANCE` does not bring along.

**`NetworkQuality`.** The executor, main and the directions, each reduced to
what main and the other direction see of it: its load, its series, its bounds
and whether it is stable. What is assumed of a direction here is checked of it in
`Direction`, whose properties the header of the module names. A self probe on a
new connection panics and ends the program (`probe.go` 163): `ResponsivenessProber`
has that end, `Direction` and `NetworkQuality` are about runs without it. The policy is chosen
initially. `Execute`'s loop is the guard of `Start`: a serial unit waits for those
before it. `stable[d]` is `StableResponsiveness`; `StableThroughput` has no
consequence but output and is left out. `SelfRtts` and `ForeignRtts` have the same
buckets and one variable stands for both, and so do the two probe loggers. A
logger is a bag of records and whether it is open: its methods hold its mutex, so
they are operators and parts of the actions that call them, and the order of the
rows is left out. A record keeps the bucket of its measurement to tell equal
measurements apart. After the wait group main takes the directions one at a time
(`MergeNext`), as its loop does, and `Aggregate` follows the last one: `merged`
counts those it has taken and `allRtts` is the series it appends to.

**`ProbeTrace`.** `Probe` with its tracer. The program's part are the setters,
the three differences and the steps of `Probe`; the two places where it reads
`ConnectDoneTime` are two actions, because a callback may come in between. The
environment is `net/http`: it reuses a connection or dials; a dialer spawns
attempts, whose `ConnectStart` and `ConnectDone` come in any order and may come
after another attempt has been used or the whole dial has been abandoned; a
redirect or a retry is a further request. A retry after a reused connection is
what `net/http` does when it is lost before an answer. A clock is needed here
and nowhere else: the properties compare durations. `begunAt`, `endedAt`,
`winner`, `fresh` and `takenAt` are history variables. A time stamp is read and
written atomically (in Go it is not: it is a struct that is stored without a lock).

**`StatusWait`.** The setters of a connection's status, `WaitUntilStarted`,
`WaitWithContext` and `ContextSignaler`, with the mutex and the condition
variable as Go's library defines them. Its names (`WaitInit`, `WaitSpec`, ...) are
other ones than those of `LoadGenerator`, so that one module can extend both.
`SignalerSees` and `SignalerDecides` are two actions: what the signaler saw need not
hold any more. `WaitWithContext` returns with the mutex locked and no caller unlocks it, so the first waiter that
returns stops everybody else; the liveness properties end there. `missed` is a
history variable. The program itself does not call `WaitUntilStarted`.

**`QualityAttenuation`.** Operators on a record, used by `RpmCalculation`, which
feeds it the answers of the self probes as a direction does. Latencies are tenths
of a second.

**`Statistics`.** Ascending order, percentile, trim and average of a sequence of
numbers, and next to them what a percentile and a trimmed sequence should be
(`IsPercentile`, `AreSmallest`). `Place(q, n)` is the index of the element that is
*n*-th in ascending order, equal elements in the order in which they are. The index
of a percentile or of a trim is the exact quotient; the code truncates a
floating-point product, which for some percentages and lengths may be one less
(not for the defaults, a trim of 5 and a percentile of 90, and fewer than 2000
data).
`SumOf` is the loop of `CalculateAverage`.

**`RpmCalculation`.** `CalculateRpm`, as an operator over a pair of series that a
direction could have filled. Times are whole numbers; an average is a pair of
numerator and denominator, so that a division by zero is visible as a denominator
of 0. Beside it are the definitions the quality attenuation is held against:
`LatenciesIn` keeps the samples below the loss threshold, `Variance` is the textbook
formula over all of them at once, `Summarises` relates both to the counters, and
`QualityOf` adds samples one by one.

**`MC*`** give the constants values; **`*_proofs`** hold the theorems.

Operators with a suffix such as `GetBounds_FromZero` are mutants: plausible
mistakes in the definition they precede. Each property is violated when one of
them takes the place of the original (`PROJECT.json`, "mutants").

## 4. The runs

| Run | Instance | What it shows |
|---|---|---|
| `stabilizer` | MAD 2, 4 buckets, 4 intervals, values 10 and 12, cutoff 5 % | `StableMeansAnswered`, `BoundsAreExact`, `VerdictIsSettled`, `ImplementsSlidingIntervals` |
| `prober` | 2 probes, 1 connection, 3 bucket ids | `NeverSendsOnClosedChannel`, `SelfPresentInDirections`, `ImplementsMeasurementStream`, `ResultsAreDelivered`, `WindsDownUnlessStuck` |
| `load_generator` | at most 2 connections, 2 reads, 2 samples | `AtMostMnpConnections`, `EveryByteReportedOnce`, `ImplementsMeasurementStream`, `EndedDownloadStaysEnded`, `RampsUpToMnp` |
| `direction` | serial, parallel, baseline; MAD 2, 4 buckets, 4 intervals, values 10 and 12 | `RpmFromJudgedProbes`, `RttsKeepEveryProbe`, `ConnectionsOutliveTheirUsers`, `DirectionEnds` |
| `network_quality` | 2 directions, both policies, 4 buckets, values 1 and 2 | `FinalRpmFromConsideredProbes`, `WorkingConditions`, `LoadsAsExpected`, `ExportHasEveryMeasurement`, `FinalRpmIsReported` |
| `rpm_calculation` | up to 4 probes in all combinations of 4 self times (one of them a loss) and 2 foreign times, and up to 20 alike; percentiles 1, 50, 90, trims 0, 5, 50, 100 | `PercentileIsARank`, `TrimmingDropsTheGreatest`, `WhenRpmIsANumber`, `QualityOfAnswers`, `MergeIsConcatenation` |
| `probe_trace` | 2 attempts, 2 requests, times up to 5 | `ReusedMeasuresOneRoundTrip`, `FreshMeasuresItsConnection` |
| `status_wait` | 2 waiters, 2 reads, both kinds of connection | `TrueMeansStarted`, `StartIsSeen`, `CancelIsSeenUnlessMissed` |
| `prober_status` | as `prober` | violated: `SelfProbesStartOnRunning` |
| `load_generator_gives_up` | as `load_generator` | violated: `GivesUpOnlyOnInvalid` |
| `rpm_percentage` | as `rpm_calculation`, trim 5 | violated: `TrimsThePercentage` |
| `probe_trace_racing` | 2 attempts, 1 request, times up to 4 | violated: `ForeignMeasuresThreeRoundTrips` |

**Bounds.** `MaxBucket`, `MaxInterval` and `MaxBytes` cap what would otherwise
grow for ever; they appear as guards of the actions that generate, tick and
read. MAD 2 with 4 intervals lets the ring come round, so that slots are reused,
intervals are expelled and answers come for probes of an expelled one. Of the
values 10 and 12 the averages 10 and 12 are more than 5 % apart, 10 and 11 (or
11 and 12) are within it: stable and unstable complete rings both occur. Two
probes are enough for overtaking, for contention on the lock and for a probe
that outlives the two-second limit; three ids leave room for one that another
user of the generator takes in between. Two connections give a scan during
which the other one changes and a collection that reaches its maximum. Four
buckets give two directions two probes each, in every order of interleaving, and
a bound that cuts one off. Four probes of three latencies and a loss give data with ties, in
every order, and percentiles that fall on the first, an inner and the last one;
twenty are the fewest of which the default trim of 5 % keeps one, and from the
fifth on all probes have the same answers. Two
attempts can race, and one can fail before the other begins; two requests give a
redirect and a retry; five points of time tell all callbacks of an attempt apart.
Two waiters are needed for one that is woken by the other's context, two reads for
a status that is set again after it was set. Every
action of every module occurs in its run.

**Deadlock** is not checked: all these systems stop in the end (the programs
end, or a bound is reached), and a stuck state that matters is the subject of
the liveness properties.

**Fairness.** The Go scheduler runs every goroutine that can run: weak fairness
of the driver, of a probe's own steps and of the generator. Timers fire:
`WaitTimesOut`, `TimerExpires`. A `select` picks at random among its ready cases,
so a case that stays ready is taken in the end: the two timeouts of `Direction`.
`NetworkQuality` rests on that: a direction's `TimesOut` is fair there, because
`DirectionEnds` holds, and so are the steps of main, which never waits for
anything but the directions.
Nothing is assumed of the network, of the transport or of the time at which the
coordinator leaves its loop: foreign probes, connections, `LeaveLoop` and the
arrival of messages have no fairness. A self probe returns after its context has
been cancelled, because `http.Client.Do` does. In `StatusWait` taking the mutex is
strongly fair: `sync.Mutex` starves nobody, but is not free all the time. The
worker need not come to its end and no context need be cancelled.
`ProbeTrace` states no fairness and no liveness.

**What the violations say.** `prober_status`: the check in `rpm.go` 234 is
made without a lock and the status may change before the self probe starts;
the comment above it promises a running connection (and a TODO concedes that it
is "just a check"). `load_generator_gives_up`: a connection that is still
starting does not clear `allInvalid`, so a generator that finds all its
connections starting at its first sample stops for good, although the message it
prints says that such a connection merely does not contribute to this interval.
`RampsUpToMnp` therefore has the generator's end as one of its outcomes.
`rpm_percentage`: the help text of `-rpm.tmp` calls
its value the percentage to trim; it is the percentage that is kept. With the
default of 5 (`constants.go` 61) only the smallest twentieth of the times is
kept, where the text says that all but a twentieth is, and of fewer than 20
answers nothing: the mean RPM is then 0/0, a NaN. `WhenRpmIsANumber` says exactly
when it is a number, for this percentage and for others; the RPM of the percentile
needs one answer only. (Likewise the comment above the trimming, `calculations.go` 60, speaks of the top and the bottom
10 %: `TrimmingDropsTheGreatest` shows that only the greatest values go.)
`probe_trace_racing`: with two connection attempts at the same time, as Go makes
them for a host with IPv6 and IPv4 addresses, the start of the later one replaces
the start of the one that is used; the duration of a foreign probe then misses
some or all of the TCP round trip, although its data point still counts three.
`FreshMeasuresItsConnection` therefore has `MadeAlone` as its condition, and
allows attempts that failed before the one that is used began.

Two more things the models show without a violated run. After a redirect the last
request of a foreign probe reuses the connection: what is measured is one round
trip (`ReusedMeasuresOneRoundTrip`), what is counted is three. And
`CancelIsSeenUnlessMissed` has its exception because a cancellation that is
broadcast between a waiter's look at its context and its entry in the list wakes
nobody: the wait goes on until the connection's status is set.

`WindsDownUnlessStuck` names the one way in which a prober does not wind down: a
probe in a send that nobody receives holds the lock which the driver needs to
close the channel. TLC shows that it happens (without the exception the property
is violated); in the program the goroutines are then left behind until it exits.

## 5. What is proved

For all values of the constants that satisfy the named assumptions, in
`Series_proofs`, `Stabilizer_proofs`, `ResponsivenessProber_proofs`,
`LoadGenerator_proofs` (which also has those of `StatusWait`), `Direction_proofs`,
`NetworkQuality_proofs`, `ProbeTrace_proofs` and `RpmCalculation_proofs`, every
safety property that a passing run checks, invariants, action properties and
refinements alike:

* **Series.** Lemmas: `Reserve` of a greater bucket appends one unfilled slot,
  `Fill` changes the datum of its bucket's slot only, `GetBucketBounds` delimits
  the buckets of a well-formed series, extraction keeps exactly the slots within
  the bounds, a sort is a permutation in bucket order, and `Append` and
  `BoundedAppend` give the slots of both, and a series' values are the data of its
  filled slots. All of what is stated through ranks rests
  on one fact (`Ranks`): in a finite linear order the number of predecessors
  numbers the elements from 1, each once.
* **Statistics.** `PercentileIsCorrect` and `TrimmingIsCorrect`: for every sequence
  of natural numbers and every percentage the flags allow, ties included, the
  percentile is the right element and trimming leaves the smallest ones. They
  follow because the elements that are not after a place are as many as its number.
* **Stabilizer.** `TypeCorrect`, `StableMeansAnsweredInvariant`,
  `BoundsAreExactInvariant`, `VerdictIsSettledInvariant` and the refinement,
  `StabilizerImplementsWindow`. None of these is
  inductive. The inductive invariant `StabilizerInv` says what each slot of the
  ring holds: the slot that is *a* steps behind the newest one holds the
  interval *a* before it (`Behind`, `Age`, `IntervalAt`), and its series holds
  exactly the buckets reserved in that interval, each with its measurement if it
  has one (`Holds`). `ReserveStep`, `AddMeasurementStep` and `IntervalStep`
  preserve it; the wrap-around of the ring is in `AgesGrow`. The bounds follow
  because buckets grow with intervals. For the refinement, `KeepsHistory` reads the
  abstract map off the ring: what it has for an interval that is kept is what the
  history says was measured in it, so each step of the ring is that of the map.
* **Prober.** `TypeCorrect`, `ClosedChannelSafety`, `SelfPresence`,
  `ProberImplementsStream`. The invariant `ProberInv` says that a sender holds
  the lock, with the channel open, and at which positions a probe has a self point.
  For the refinement `StreamInv` adds that buckets of different probes differ and are at
  most the generator's value, and which messages have been received for a probe at
  each of its positions: none before its reservation is sent, that one alone until
  its measurement is, so that each is received once.
* **Generator.** `TypeCorrect`, `ConnectionLimit`, `DownloadsStayEnded`,
  `GeneratorImplementsStream`, `BytesReportedOnce`. In the last one every byte read
  is in exactly one place: a connection's counter, the sample that is being taken
  or sent, or one that was received (`BytesInv`). The sum over the connections is a
  fold, whose definition is recursive: that the recursive function exists, and that one connection's change
  changes the sum by as much, is proved by taking a least subset for which it
  would fail (`LeastSubset`, `PartialSums`, `SumOfChange`).
* **Probe.** `TypeCorrect`, `ReusedIsExact`, `FreshIsExact`, for any number of
  attempts and requests. The invariant says of each attempt that the tracer's
  times are not before its own (`TimesCover`) and, if it was made alone, equal to
  them (`AttemptsInv`); that whether the connection is reused is settled from the
  moment there is one (`TakenInv`); and what the sum is between its two steps
  (`SumInv`): a callback in between changes nothing it still needs.
* **Waiting.** `WaitTypeCorrect`, `WaitIsTruthful`, for any number of waiters. The
  invariant `MutexInv` makes the holder of the mutex a function of everyone's
  place; `ReturnInv` carries what a waiter saw to its return, which rests on a
  status that never goes back to "not started" (`OutcomeInv`).
* **Direction.** `TypeCorrect`. `CancellationOrder`: connections outlive their
  users; the invariant `WindingDown` makes the set of cancelled contexts a function of the
  phase. `RttsKeepEveryProbeInvariant`: the RTT series hold every probe; its
  invariant `RttsInv` adds that nothing reaches the stabilizer before the series
  are created. `RpmFromJudgedProbesInvariant`: the probes behind a stable RPM are
  those of the judged intervals, each with its answer. Every step is one of the
  stabilizer or leaves it alone, so `StabilizerInv` and what follows from it are
  taken over from an instance of `Stabilizer_proofs`. `JudgedInv` adds that a
  verdict on which the loop was left still is about answered intervals, and that the
  bounds and the slots used are those the stabilizer gives now: nothing moves it
  between the verdict and their use.
* **Main.** `TypeCorrect`, `LoadsAsExpectedInvariant`, `WorkingConditionsInvariant`,
  `FinalRpmFromConsideredProbesInvariant`, `ExportHasEveryMeasurementInvariant`,
  for any number of directions. The inductive invariant `WorldInv` says that a load is a
  function of its unit's place and of the policy (`LoadsFollowUnits`), that a
  serial unit has been started only if those before it have returned
  (`OneAfterTheOther`), and that main is past the wait group only if all have
  (`AllReturned`). Every step of a unit is an instance of `UnitMoves`. `RttsInv`
  adds that the series of different directions share no bucket, because the ids
  come from one generator; `LogInv` that the log has one record of each
  measurement, of whichever direction; `MergeInv` that the series main
  appends to holds the considered probes of the directions it has taken
  (`ConsideredSoFar`), which needs that nothing else moves once all have returned.
  End to end, for times that are natural numbers: `FinalPercentileIsOfConsidered` and
  `FinalMeanIsOfSmallest` say what is computed of the final series -- the percentile
  and the trimmed data of the considered probes of all directions together. They
  join `FinalRpmFromConsideredProbesInvariant` to the two theorems on statistics by
  `ActualValuesAre`: filtering keeps every datum as often as a slot holds it.
* **RPM and quality.** `PercentilesAreRanks`, `TrimmingKeepsTheSmallest`,
  `RpmIsANumberIffKept`, `QualityIsOfAnswers` and `MergingIsConcatenating`, for any
  times, percentages, trimmings and number of probes. The inductive invariant
  (`SeriesGrowTogether`) says that both series have one slot per probe, numbered from
  1, that the same ones are filled in both, and that the quality is the one that
  adding the answers one after the other makes. The other
  theorems are about sequences: `QualitySummarises` and `MergedPartsAreWhole` hold of
  every sequence of positive samples, reachable or not.
  Behind them is `Summed`: the counters are the sums over the latencies, displaced by
  the offset; this is kept by each sample, is additive over a concatenation
  (`MergeIsSummed`) and determines the summary (`SummaryIsUnique`), so merging is
  concatenating. Mean and variance follow by expanding the square.
  `RpmIsANumberIffKept` holds for every percentage, the default of 5 included: *n*
  answers of which *t* % are kept give a mean RPM that is a number exactly if
  *n t* is at least 100. If so, what is left is positive, so that no sum is 0
  (`AverageIsPositive`); if not, the self probes' average is 0/0
  (`AverageOfNothing`), and no foreign one makes up for it. Percentile and trimming apply
  `PercentileIsCorrect` and `TrimmingIsCorrect`.
  *Induction.* The library's induction theorems take the predicate as an operator,
  which the provers cannot instantiate. Here an induction is over a set instead:
  the numbers (`UpwardTo`) or the sequences (`Growing`) of which a claim holds; a
  number it lacked would have a least one before which it fails. `FoldLeft` and
  `FlattenSeq` are defined by a `CHOOSE` of a recursive function; that there is
  exactly one, and what it gives for one element more, is proved first.

Only model-checked: the liveness properties `ResultsAreDelivered`,
`WindsDownUnlessStuck`, `RampsUpToMnp`, `DirectionEnds`, `FinalRpmIsReported`,
`StartIsSeen` and `CancelIsSeenUnlessMissed`; the prover does not handle fairness and
`ENABLED`.

Assumptions: the ring has at least one slot, `None` is not a measurement,
measurements and round-trip times are natural numbers (milliseconds, bytes), those an
RPM is computed from not 0 and those of foreign probes divisible by 3 (a third of any
other would be a fraction), the
bounds on buckets and bytes are natural numbers (any), the maximum number of
connections is positive and the starting number within it, connections are added
one at a time (`constants.go`), the generator's ids do not run out before every
probe has one, the directions are a non-empty list without repetition, a probe
sends at least one request and the clock has a point of time.

## 6. Not modelled

Time itself, except in `ProbeTrace`: sleeps, timers and intervals may take any
time, so no other property is about durations or rates. Floating point. HTTP, TLS
and sockets: a request succeeds, fails or hangs. The memory model of Go: a data
race (the quality attenuation of parallel directions, `probeCount`, time stamps)
is not given a meaning; a status that is read without its lock is read whole. The
percentiles, the histogram and the quality-of-outcome table of the quality
attenuation, which are read from a library's t-digest and printed. Output,
formatting, the columns of the logs, the throughput logs and the statistics file.
`ccw` (one mutex around a file write), configuration, L4S, extended statistics and
the Python tools are I/O around the test; `saturating` is not used by the program.
