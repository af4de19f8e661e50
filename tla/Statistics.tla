----------------------------- MODULE Statistics -----------------------------
(***************************************************************************)
(* What utilities/math.go computes of elements: percentiles and the        *)
(* trimmed mean, from the elements in ascending order.                     *)
(*                                                                         *)
(* Fractions are kept as <<numerator, denominator>>.  An index p/100 * n   *)
(* is exact here; in floating point it may fall one short for some p and n *)
(* (not for the values that the run of RpmCalculation uses).               *)
(***************************************************************************)
EXTENDS Integers, Sequences, FiniteSets, SequencesExt

\* The element at index i of q goes before the one at j, or is it.
GoesBefore(q, i, j) == q[i] < q[j] \/ (q[i] = q[j] /\ i <= j)

\* The index in q of its n-th element in ascending order.
Place(q, n) ==
  CHOOSE j \in DOMAIN q : Cardinality({i \in DOMAIN q : GoesBefore(q, i, j)}) = n

InAscendingOrder(q) == [n \in DOMAIN q |-> q[Place(q, n)]]

\* Mutant: the index is not the first one above p per cent, but the next.
CalculatePercentile_Next(q, p) ==
  LET pindex == (p * Len(q)) \div 100 + 1
  IN IF p < 1 \/ p > 100 \/ pindex >= Len(q) THEN 0 ELSE InAscendingOrder(q)[pindex + 1]

\* The element at index p/100 * n (from 0) of the sorted elements.
CalculatePercentile(q, p) ==
  LET pindex == (p * Len(q)) \div 100
  IN IF p < 1 \/ p > 100 \/ pindex >= Len(q) THEN 0 ELSE InAscendingOrder(q)[pindex + 1]

\* Mutant: one element is always dropped.
TrimBy_OneMore(q, trim) ==
  SubSeq(q, 1, (Len(q) * trim) \div 100 - (IF trim > 0 THEN 1 ELSE 0))

\* The first trim per cent of the elements.
TrimBy(q, trim) == SubSeq(q, 1, (Len(q) * trim) \div 100)

\* Mutant: the elements are trimmed in the order in which they came.
Trimmed_Unsorted(q, trim) == TrimBy(q, trim)

\* TrimmedMean's second result.
Trimmed(q, trim) == TrimBy(InAscendingOrder(q), trim)

SumOf(q) == FoldLeft(+, 0, q)

\* The average of what is left is TrimmedMean's first result: 0/0 if nothing is.
Average(q) == <<SumOf(q), Len(q)>>

-----------------------------------------------------------------------------
(* What the results should be.                                             *)

Occurrences(q, x) == Cardinality({i \in DOMAIN q : q[i] = x})

\* r is one of the elements, at most p per cent of them are smaller than r and
\* more than p per cent are not greater.
IsPercentile(r, q, p) ==
  /\ Occurrences(q, r) > 0
  /\ 100 * Cardinality({i \in DOMAIN q : q[i] < r}) <= p * Len(q)
  /\ 100 * Cardinality({i \in DOMAIN q : q[i] <= r}) > p * Len(q)

\* kept has elements of q, and of a number it has not kept every time it occurs
\* nothing that is greater.
AreSmallest(kept, q, S) ==
  \A x \in S :
    /\ Occurrences(kept, x) <= Occurrences(q, x)
    /\ Occurrences(kept, x) < Occurrences(q, x) =>
         \A i \in DOMAIN kept : kept[i] <= x
=============================================================================
