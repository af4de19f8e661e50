------------------------------- MODULE Series -------------------------------
(***************************************************************************)
(* The two implementations of series.WindowSeries (series/series.go) as    *)
(* operators on values: a "forever" series, which keeps every bucket it    *)
(* was given, and a "window only" series, a ring of a fixed number of      *)
(* slots that overwrites its oldest one.  Each operation is atomic in the  *)
(* code (it holds the series' lock), so an operator is enough.             *)
(*                                                                         *)
(* A slot is utilities.Pair: its first component is the bucket id, its     *)
(* second one an Optional, None or the datum.                              *)
(***************************************************************************)
EXTENDS Integers, Sequences, FiniteSets, SequencesExt

CONSTANT None   \* utilities.None: a slot that is reserved and not filled

Pair(b, d) == [first |-> b, second |-> d]

IsSome(d) == d # None

\* The bucket ids held by a slot array (of either kind of series).
BucketsOf(data) == {data[i].first : i \in DOMAIN data}

-----------------------------------------------------------------------------
(* windowSeriesForeverImpl *)

NewForever == [data |-> << >>, empty |-> TRUE]

Newest(s) == s.data[Len(s.data)].first

\* Reserve refuses (returns an error and changes nothing) unless the bucket
\* is greater than the last one.  What counts is the field `empty`, not the
\* length: they differ after Append.
ForeverAccepts(s, b) == s.empty \/ b > Newest(s)

\* Mutant: a reservation holds Go's zero value in place of None.
ForeverReserve_Zero(s, b) ==
  IF ForeverAccepts(s, b)
  THEN [data |-> Append(s.data, Pair(b, 0)), empty |-> FALSE]
  ELSE s

ForeverReserve(s, b) ==
  IF ForeverAccepts(s, b)
  THEN [data |-> Append(s.data, Pair(b, None)), empty |-> FALSE]
  ELSE s

\* The first slot whose bucket id is b.
FirstSlot(data, b) ==
  CHOOSE i \in DOMAIN data :
    /\ data[i].first = b
    /\ \A j \in DOMAIN data : data[j].first = b => i <= j

\* Fill stores the datum in the first slot of that bucket; if there is none it
\* returns an error and changes nothing.
ForeverFill(s, b, d) ==
  IF b \in BucketsOf(s.data)
  THEN [s EXCEPT !.data[FirstSlot(s.data, b)].second = d]
  ELSE s

ForeverBounds(s) ==
  IF s.empty THEN <<0, 0>> ELSE <<s.data[1].first, Newest(s)>>

\* Every slot filled: vacuously so for an empty forever series.
Complete(s) == \A i \in DOMAIN s.data : IsSome(s.data[i].second)

\* The elements of a sequence at the indices in I, in the order of the sequence.
NthOf(I, n) == CHOOSE i \in I : Cardinality({j \in I : j <= i}) = n

ElementsAt(q, I) == [n \in 1 .. Cardinality(I) |-> q[NthOf(I, n)]]

\* GetValues of a series without trimming bounds, and the data there is in it:
\* what the statistics are computed of.
GetValues(data) == [i \in DOMAIN data |-> data[i].second]

ActualValues(data) ==
  ElementsAt(GetValues(data), {i \in DOMAIN data : IsSome(data[i].second)})

IndicesWithin(data, lower, upper) ==
  {i \in DOMAIN data : lower <= data[i].first /\ data[i].first <= upper}

\* ExtractBoundedSeries with trimming bounds set: the slots within the bounds
\* are reserved and filled again, in order, in a new series.  A slot whose
\* bucket is not greater than those before it is refused there, but its datum
\* still goes to the slot of the same bucket, if there is one.
ExtractBounded(s, lower, upper) ==
  LET inside == IndicesWithin(s.data, lower, upper)
      kept   == {i \in inside : \A j \in inside : j < i => s.data[j].first < s.data[i].first}
      data(b) == {i \in inside : s.data[i].first = b /\ IsSome(s.data[i].second)}
      datum(b) == IF data(b) = {} THEN None ELSE s.data[Max(data(b))].second
      again  == [i \in inside |-> Pair(s.data[i].first, datum(s.data[i].first))]
  IN [data |-> ElementsAt(again, kept), empty |-> kept = {}]

\* sort: ascending bucket ids.  (Of equal ones the code promises no order.)
NotAfter(data, i, j) ==
  data[i].first < data[j].first \/ (data[i].first = data[j].first /\ i <= j)

InBucketOrder(data) ==
  [n \in DOMAIN data |->
     data[CHOOSE j \in DOMAIN data :
            Cardinality({i \in DOMAIN data : NotAfter(data, i, j)}) = n]]

\* Mutant: the slots of the second series are put after those of the first.
ForeverAppend_Unsorted(s, t) == [s EXCEPT !.data = @ \o t.data]

\* Append merges all slots of t into s.  The field `empty` is not touched.
ForeverAppend(s, t) == [s EXCEPT !.data = InBucketOrder(@ \o t.data)]

Within(data, lower, upper) == ElementsAt(data, IndicesWithin(data, lower, upper))

\* BoundedAppend of a series t that has trimming bounds: only what lies within.
ForeverBoundedAppend(s, t, lower, upper) ==
  [s EXCEPT !.data = InBucketOrder(@ \o Within(t.data, lower, upper))]

-----------------------------------------------------------------------------
(* windowSeriesWindowOnlyImpl: the slot array is indexed from 0, as in Go,  *)
(* and starts out as Go's zero values: bucket id 0, no datum.               *)

NewWindow(size) ==
  [data |-> [i \in 0 .. size - 1 |-> Pair(0, None)],
   latestIndex |-> 0, empty |-> TRUE, windowSize |-> size]

NextIndex(w, i) == (i + 1) % w.windowSize

WindowAccepts(w, b) == w.empty \/ b > w.data[w.latestIndex].first

\* The slot a new reservation goes to: the current one while the ring is
\* empty, otherwise the one after it (which holds the oldest bucket).
ReservedSlot(w) == IF w.empty THEN w.latestIndex ELSE NextIndex(w, w.latestIndex)

WindowReserve(w, b) ==
  IF WindowAccepts(w, b)
  THEN [data |-> [w.data EXCEPT ![ReservedSlot(w)] = Pair(b, None)],
        latestIndex |-> ReservedSlot(w),
        empty |-> FALSE,
        windowSize |-> w.windowSize]
  ELSE w

\* Fill looks for the bucket from the newest slot on, around the ring.
SearchDistance(w, i) == (i - w.latestIndex) % w.windowSize

FilledSlot(w, b) ==
  IF w.data[w.latestIndex].first = b
  THEN w.latestIndex
  ELSE CHOOSE i \in DOMAIN w.data :
         /\ w.data[i].first = b
         /\ \A j \in DOMAIN w.data :
              w.data[j].first = b => SearchDistance(w, i) <= SearchDistance(w, j)

WindowFill(w, b, d) ==
  IF b \in BucketsOf(w.data)
  THEN [w EXCEPT !.data = [w.data EXCEPT ![FilledSlot(w, b)].second = d]]
  ELSE w
=============================================================================
