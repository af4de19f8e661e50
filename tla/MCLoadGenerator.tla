-------------------------- MODULE MCLoadGenerator --------------------------
(* Up to two connections, of either kind, sampled at most twice.             *)
EXTENDS LoadGenerator
=============================================================================
