--------------------------- MODULE RpmCalculation ---------------------------
(***************************************************************************)
(* CalculateRpm (rpm/calculations.go), which applies the statistics to the *)
(* data of series (series/statistics.go), over series that grow as probes  *)
(* are answered or not.  The answers of the self probes also go to the     *)
(* quality attenuation, which is printed beside the RPM.                   *)
(*                                                                         *)
(* Round-trip times are whole numbers and fractions are kept as            *)
(* <<numerator, denominator>>, with 0 in the denominator for what Go       *)
(* computes as an infinity or a NaN.                                       *)
(***************************************************************************)
EXTENDS Series, Statistics, QualityAttenuation

CONSTANTS
  SelfTimes,     \* round-trip times of self probes
  ForeignTimes,  \* times of foreign probes: three round trips each
  Percentiles,   \* the values of the flag -rpm.percentile to look at
  Trims,         \* the values of the flag for the trimmed mean to look at
  MaxProbes      \* bound on the number of probes

\* SpecParametersFromArguments refuses other percentiles, the flag's help text
\* says "between 0 and 100" of the other.  A round trip takes time, and one that
\* cannot be divided by three would need a fraction.
ASSUME ParametersAssumption == Percentiles \subseteq 1 .. 99 /\ Trims \subseteq 0 .. 100
ASSUME TimesAssumption ==
  /\ SelfTimes \subseteq Nat \ {0}
  /\ \A t \in ForeignTimes : t \in Nat \ {0} /\ t % 3 = 0
ASSUME NoneAssumption == None \notin SelfTimes \cup ForeignTimes

VARIABLES
  selfRtts, foreignRtts,
  quality     \* selfRttsQualityAttenuation
vars == <<selfRtts, foreignRtts, quality>>

\* A foreign probe is a TCP, a TLS and an HTTP round trip of a third each.
RoundTrips(q) ==
  FlattenSeq([i \in DOMAIN q |-> <<q[i] \div 3, q[i] \div 3, q[i] \div 3>>])

\* 60 / ((a + b) / 2)
PerMinute(a, b) == <<120 * a[2] * b[2], a[1] * b[2] + b[1] * a[2]>>

CalculateRpm(trimming, percentile) ==
  LET self           == ActualValues(selfRtts.data)
      foreign        == RoundTrips(ActualValues(foreignRtts.data))
      selfTrimmed    == Trimmed(self, trimming)
      foreignTrimmed == Trimmed(foreign, trimming)
      selfPN         == CalculatePercentile(self, percentile)
      foreignPN      == CalculatePercentile(foreign, percentile)
  IN [selfRttsTotal       |-> Len(self),
      foreignRttsTotal    |-> Len(foreign),
      selfRttsTrimmed     |-> Len(selfTrimmed),
      foreignRttsTrimmed  |-> Len(foreignTrimmed),
      selfProbeRttPN      |-> selfPN,
      foreignProbeRttPN   |-> foreignPN,
      pnRpm   |-> PerMinute(<<selfPN, 1>>, <<foreignPN, 1>>),
      meanRpm |-> PerMinute(Average(selfTrimmed), Average(foreignTrimmed))]

-----------------------------------------------------------------------------
(* The series, as a direction fills them.                                  *)

Init == selfRtts = NewForever /\ foreignRtts = NewForever /\ quality = NewQuality

NextBucket == Len(selfRtts.data) + 1

Unanswered ==
  /\ NextBucket <= MaxProbes
  /\ selfRtts' = ForeverReserve(selfRtts, NextBucket)
  /\ foreignRtts' = ForeverReserve(foreignRtts, NextBucket)
  /\ UNCHANGED quality

Answered(self, foreign) ==
  /\ NextBucket <= MaxProbes
  /\ selfRtts' = ForeverFill(ForeverReserve(selfRtts, NextBucket), NextBucket, self)
  /\ foreignRtts' = ForeverFill(ForeverReserve(foreignRtts, NextBucket), NextBucket, foreign)
  /\ quality' = AddSample(quality, self)

Next == \/ Unanswered
        \/ \E self \in SelfTimes, foreign \in ForeignTimes : Answered(self, foreign)

Spec == Init /\ [][Next]_vars

-----------------------------------------------------------------------------
(* Properties *)

\* The percentile of any data is one of them, at most p per cent of the data
\* are smaller, and more than p per cent are not greater.
PercentileIsARank ==
  \A p \in Percentiles :
    \A q \in {ActualValues(selfRtts.data), RoundTrips(ActualValues(foreignRtts.data))} :
      q # << >> => IsPercentile(CalculatePercentile(q, p), q, p)

\* Single-sided trimming: what is left are the smallest of the data.
TrimmingDropsTheGreatest ==
  LET q == ActualValues(selfRtts.data)
  IN \A t \in Trims : AreSmallest(Trimmed(q, t), q, SelfTimes)

\* When the RPM values are numbers, whatever the flags are.  The one of the
\* percentiles is if any probe was answered.  The one of the trimmed means is if
\* at least one of the n self probes' times is kept, for which n per cent of what
\* the flag says must make one: with the default (constants.go: 5, the
\* percentage that is kept) from 20 answered probes on.  Below that the mean is
\* 0/0, although three times as many foreign round trips may leave some.
WhenRpmIsANumber ==
  LET n == Len(ActualValues(selfRtts.data))
  IN \A p \in Percentiles, t \in Trims :
       LET rpm == CalculateRpm(t, p)
       IN /\ rpm.pnRpm[2] > 0 <=> n > 0
          /\ rpm.meanRpm[2] > 0 <=> n * t >= 100

\* What a summary is compared with.
Latency(x) == x <= LatencyEqLossThreshold
LatenciesIn(q) == ElementsAt(q, {i \in DOMAIN q : Latency(q[i])})
SameFraction(a, b) == a[1] * b[2] = b[1] * a[2]

\* The average of the squared distances from the average, with one off the
\* number of elements: in whole numbers, as the average is a fraction itself.
Variance(q) ==
  LET k          == Len(q)
      Squared(x) == (k * x - SumOf(q)) * (k * x - SumOf(q))
  IN <<SumOf([i \in DOMAIN q |-> Squared(q[i])]), k * k * (k - 1)>>

Summarises(summary, q) ==
  LET lat == LatenciesIn(q)
      k   == Len(lat)
  IN /\ summary.numberOfSamples = Len(q)
     /\ summary.numberOfLosses = Cardinality({i \in DOMAIN q : ~Latency(q[i])})
     /\ k > 0 => /\ summary.minimumLatency = InAscendingOrder(lat)[1]
                 /\ summary.maximumLatency = InAscendingOrder(lat)[k]
                 /\ SameFraction(GetAverage(summary), Average(lat))
     /\ k > 1 => SameFraction(GetVariance(summary), Variance(lat))

\* The summary of the quality is that of the latencies among the answers, and
\* counts the losses: although it never sees two samples at once and computes
\* relative to an offset, its mean and variance are those of the definition.
QualityOfAnswers == Summarises(quality, ActualValues(selfRtts.data))

\* The summary of the samples q, one added after the other.
QualityOf(q) == FoldLeft(AddSample, NewQuality, q)

MergeIsQuality(q) ==
  \A n \in 0 .. Len(q) :
    LET left  == QualityOf(SubSeq(q, 1, n))
        right == QualityOf(SubSeq(q, n + 1, Len(q)))
    IN Latencies(left) > 0 /\ Latencies(right) > 0 => Merge(left, right) = QualityOf(q)

\* Two summaries merged are the summary of the samples of both, provided that
\* each has a latency: wherever the answers are divided in two.  (With a side
\* that has none the minimum becomes 0.)
MergeIsConcatenation ==
  LET q == ActualValues(selfRtts.data)
  IN quality = QualityOf(q) /\ MergeIsQuality(q)

\* What the help text of the flag says ("Percent of measurements to trim"):
\* that percentage is dropped, or the next greater number of measurements.
TrimsThePercentage ==
  \A t \in Trims :
    LET q == ActualValues(selfRtts.data)
    IN 100 * (Len(q) - Len(Trimmed(q, t))) < t * Len(q) + 100
=============================================================================
