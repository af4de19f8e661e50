---------------------------- MODULE MCStabilizer ----------------------------
(* A stabilizer that judges two intervals, with few probes and boundaries. *)
EXTENDS Stabilizer

\* 10 and 12 are apart, 10 and 11 (an interval with both) are within 5 %.
MCMeasurements == {10, 12}
=============================================================================
