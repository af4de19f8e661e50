---------------------------- MODULE MCProbeTrace ----------------------------
(* A probe with two connection attempts and up to two requests.              *)
EXTENDS ProbeTrace
=============================================================================
