-------------------------- MODULE SlidingIntervals --------------------------
(***************************************************************************)
(* What a MeasurementStablizer promises, without rings or series: the      *)
(* measurements of the current interval and of the last Mad completed      *)
(* ones, each under the interval in which its bucket was reserved.         *)
(* Stabilizer is shown to implement it.                                    *)
(***************************************************************************)
EXTENDS Naturals

CONSTANTS Mad, Buckets, Measurements, None

VARIABLES current,   \* number of the interval now being collected
          kept,      \* interval -> (bucket -> measurement or None)
          answers    \* bucket -> measurement: all that have come in

vars == <<current, kept, answers>>

\* The intervals that are remembered: the current one and up to Mad before it.
Remembered(c) == {i \in 0 .. c : i + Mad >= c}

Init == /\ current = 0
        /\ kept = [i \in {0} |-> [b \in {} |-> None]]
        /\ answers = [b \in {} |-> None]

\* A new bucket belongs to the interval in which it is reserved.
Reserve(b) ==
  /\ \A i \in DOMAIN kept : \A r \in DOMAIN kept[i] : r < b
  /\ kept' = [kept EXCEPT ![current] =
                [r \in DOMAIN kept[current] \cup {b} |->
                   IF r = b THEN None ELSE kept[current][r]]]
  /\ UNCHANGED <<current, answers>>

\* A measurement goes to its bucket wherever that is kept, and nowhere else;
\* when its interval is no longer remembered it is dropped.
Measure(b, d) ==
  /\ b \notin DOMAIN answers
  /\ answers' = [r \in DOMAIN answers \cup {b} |-> IF r = b THEN d ELSE answers[r]]
  /\ kept' = [i \in DOMAIN kept |->
                [r \in DOMAIN kept[i] |-> IF r = b THEN d ELSE kept[i][r]]]
  /\ UNCHANGED current

\* The interval boundary: the oldest interval is forgotten, none is altered.
Advance ==
  /\ current' = current + 1
  /\ kept' = [i \in Remembered(current + 1) |->
                IF i = current + 1 THEN [b \in {} |-> None] ELSE kept[i]]
  /\ UNCHANGED answers

Next == \/ \E b \in Buckets : Reserve(b)
        \/ \E b \in Buckets, d \in Measurements : Measure(b, d)
        \/ Advance

Spec == Init /\ [][Next]_vars
=============================================================================
