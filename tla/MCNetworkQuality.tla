-------------------------- MODULE MCNetworkQuality --------------------------
(* Two directions that share a few buckets.                                  *)
EXTENDS NetworkQuality
MCDirections == <<"download", "upload">>
MCMeasurements == {1, 2}
=============================================================================
