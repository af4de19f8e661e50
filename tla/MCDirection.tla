---------------------------- MODULE MCDirection ----------------------------
(* A direction or a baseline that judges two intervals of up to four probes.  *)
EXTENDS Direction
MCMeasurements == {10, 12}
=============================================================================
