------------------------- MODULE QualityAttenuation -------------------------
(***************************************************************************)
(* SimpleQualityAttenuation (qualityattenuation/qualityattenuation.go): a  *)
(* running summary of latencies -- counts, extremes and the sums behind    *)
(* mean and variance, which are kept relative to an offset -- as operators *)
(* on records.  The t-digest beside it, and the percentiles that are read  *)
(* from it, belong to a library and are left out.                          *)
(*                                                                         *)
(* Latencies are whole tenths of a second, so that the offset is 1; a      *)
(* fraction is <<numerator, denominator>>, with 0 in the denominator for   *)
(* what Go computes as an infinity or a NaN.  The extremes start at 0,     *)
(* which stands for "none yet".                                            *)
(***************************************************************************)
EXTENDS Integers

Offset == 1                     \* 0.1 s
LatencyEqLossThreshold == 150   \* 15 s

NewQuality ==
  [offsetSum |-> 0, offsetSumOfSquares |-> 0, numberOfSamples |-> 0,
   numberOfLosses |-> 0, minimumLatency |-> 0, maximumLatency |-> 0]

\* Mutant: a loss enters the sums and the extremes like any other sample.
AddSample_Lost(qa, sample) ==
  [offsetSum          |-> qa.offsetSum + (sample - Offset),
   offsetSumOfSquares |-> qa.offsetSumOfSquares + (sample - Offset) * (sample - Offset),
   numberOfSamples    |-> qa.numberOfSamples + 1,
   numberOfLosses     |-> qa.numberOfLosses + (IF sample > LatencyEqLossThreshold THEN 1 ELSE 0),
   minimumLatency     |-> IF qa.minimumLatency = 0 \/ sample < qa.minimumLatency
                          THEN sample ELSE qa.minimumLatency,
   maximumLatency     |-> IF qa.maximumLatency = 0 \/ sample > qa.maximumLatency
                          THEN sample ELSE qa.maximumLatency]

\* A sample that is not positive is refused, one above the threshold is a loss
\* and counts as nothing else.
AddSample(qa, sample) ==
  IF sample <= 0 THEN qa
  ELSE IF sample > LatencyEqLossThreshold
  THEN [qa EXCEPT !.numberOfSamples = @ + 1, !.numberOfLosses = @ + 1]
  ELSE [qa EXCEPT
          !.numberOfSamples    = @ + 1,
          !.minimumLatency     = IF @ = 0 \/ sample < @ THEN sample ELSE @,
          !.maximumLatency     = IF @ = 0 \/ sample > @ THEN sample ELSE @,
          !.offsetSum          = @ + (sample - Offset),
          !.offsetSumOfSquares = @ + (sample - Offset) * (sample - Offset)]

Latencies(qa) == qa.numberOfSamples - qa.numberOfLosses

GetAverage(qa) == <<qa.offsetSum + Latencies(qa) * Offset, Latencies(qa)>>

GetVariance(qa) ==
  <<Latencies(qa) * qa.offsetSumOfSquares - qa.offsetSum * qa.offsetSum,
    Latencies(qa) * (Latencies(qa) - 1)>>

\* Mutant: the extremes stay those of the one side.
Merge_Extremes(qa, other) ==
  [qa EXCEPT
     !.offsetSum          = @ + other.offsetSum,
     !.offsetSumOfSquares = @ + other.offsetSumOfSquares,
     !.numberOfSamples    = @ + other.numberOfSamples,
     !.numberOfLosses     = @ + other.numberOfLosses]

\* (Offset and threshold are the same for all.)  A side without a latency
\* brings its 0 into the comparison of the minima.
Merge(qa, other) ==
  [qa EXCEPT
     !.offsetSum          = @ + other.offsetSum,
     !.offsetSumOfSquares = @ + other.offsetSumOfSquares,
     !.numberOfSamples    = @ + other.numberOfSamples,
     !.numberOfLosses     = @ + other.numberOfLosses,
     !.minimumLatency     = IF other.minimumLatency < @ THEN other.minimumLatency ELSE @,
     !.maximumLatency     = IF other.maximumLatency > @ THEN other.maximumLatency ELSE @]
=============================================================================
