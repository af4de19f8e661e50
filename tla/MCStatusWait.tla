---------------------------- MODULE MCStatusWait ----------------------------
(* Two waiters, so that one is woken by the other's context.                 *)
EXTENDS StatusWait
=============================================================================
