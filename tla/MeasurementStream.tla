------------------------- MODULE MeasurementStream -------------------------
(***************************************************************************)
(* What the coordinator in networkQuality.go relies on when it receives    *)
(* series.SeriesMessage values from a channel: buckets are reserved in     *)
(* increasing order, none of them twice, a measurement arrives only for a  *)
(* bucket that has been reserved, and at most once.  A reserved bucket may *)
(* stay unmeasured for good (its probe failed).  ResponsivenessProber and  *)
(* LoadGenerator are shown to implement this specification; Stabilizer     *)
(* assumes it.                                                             *)
(*                                                                         *)
(* The messages are counted: one that repeats a bucket changes neither of  *)
(* the sets, but it is counted, and so it is no step of this               *)
(* specification and no stutter either.                                    *)
(***************************************************************************)
EXTENDS Naturals

CONSTANT Buckets           \* the bucket ids that may appear in a message

VARIABLES reserved,        \* buckets named in a SeriesMessageReserve so far
          measured,        \* buckets named in a SeriesMessageMeasure so far
          messages         \* how many messages there have been

vars == <<reserved, measured, messages>>

MayReserve(b) == \A r \in reserved : r < b
MayMeasure(b) == b \in reserved \ measured

Init == reserved = {} /\ measured = {} /\ messages = 0

Reserve(b) == /\ MayReserve(b)
              /\ reserved' = reserved \cup {b}
              /\ messages' = messages + 1
              /\ UNCHANGED measured

Measure(b) == /\ MayMeasure(b)
              /\ measured' = measured \cup {b}
              /\ messages' = messages + 1
              /\ UNCHANGED reserved

Next == \E b \in Buckets : Reserve(b) \/ Measure(b)

Spec == Init /\ [][Next]_vars
=============================================================================
