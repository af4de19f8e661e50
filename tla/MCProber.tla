------------------------------ MODULE MCProber ------------------------------
(* Two overlapping probes and one connection; the bound on bucket ids        *)
(* leaves room for the ids other users of the generator take in between.     *)
EXTENDS ResponsivenessProber
CONSTANTS p1, p2, c1
MCProbes == {p1, p2}
MCConnections == {c1}
=============================================================================
