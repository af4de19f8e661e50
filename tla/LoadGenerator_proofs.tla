------------------------ MODULE LoadGenerator_proofs ------------------------
(***************************************************************************)
(* Proofs about LoadGenerator, for every maximum number of connections and *)
(* every bound: the number of connections, the status of downloads that    *)
(* have ended, the stream of messages, the accounting of the bytes, and    *)
(* with it the types.  At the end those about StatusWait, in which waiters *)
(* look at the status of such a connection.                                *)
(***************************************************************************)
EXTENDS LoadGenerator, StatusWait, TLAPS, WellFoundedInduction, FiniteSetTheorems

-----------------------------------------------------------------------------
(* Sums over finite sets.                                                  *)

\* A nonempty set of naturals has a least element; a nonempty set of finite
\* subsets of S has a minimal one.  The arguments below by a least
\* counterexample rest on these two.
LEMMA LeastNatural ==
  ASSUME NEW T \in SUBSET Nat, T # {}
  PROVE  \E x \in T : \A y \in T : x <= y
<1> DEFINE R == {ss \in Nat \X Nat : ss[1] < ss[2]}
<1>1. IsWellFoundedOn(R, Nat)
  BY NatLessThanWellFounded DEF OpToRel
<1> HIDE DEF R
<1>2. PICK x \in T : \A y \in T : ~ (<<y, x>> \in R)
  BY <1>1, WFMin
<1>3. \A y \in T : ~ (y < x)
  BY <1>2 DEF R
<1> QED
  BY <1>3

\* A non-empty family of finite subsets has one that contains no other of them.
LEMMA LeastSubset ==
  ASSUME NEW S, NEW F \in SUBSET FiniteSubsetsOf(S), F # {}
  PROVE  \E T \in F : \A U \in F : U \subseteq T => U = T
<1>1. IsWellFoundedOn(StrictSubsetOrdering(S), FiniteSubsetsOf(S))
  BY FS_StrictSubsetOrderingWellFounded
<1> DEFINE R == StrictSubsetOrdering(S)
<1> HIDE DEF R
<1>2. PICK T \in F : \A y \in F : ~ (<<y, T>> \in R)
  BY <1>1, WFMin DEF R
<1>3. \A U \in F : U \in SUBSET S
  BY DEF FiniteSubsetsOf
<1> QED
  BY <1>2, <1>3 DEF R, StrictSubsetOrdering

\* What the recursive function behind SumFunction computes: one element after
\* the other, in the order of CHOOSE.
Pick(s) == CHOOSE x \in s : TRUE

SumStep(g, f, s) == IF s = {} THEN 0 ELSE f[Pick(s)] + g[s \ {Pick(s)}]

Sums(g, f, S) == g = [s \in SUBSET S |-> SumStep(g, f, s)]

\* The definition of the sum, with its recursive function as a choice.
LEMMA SumFunctionUnfolds ==
  ASSUME NEW f
  PROVE  SumFunction(f) = (CHOOSE g : Sums(g, f, DOMAIN f))[DOMAIN f]
  BY DEF SumFunction, SumFunctionOnSet, FoldFunctionOnSet, MapThenFoldSet, Sums, SumStep, Pick

\* A function that satisfies the recursive equation exists.
LEMMA PartialSums ==
  ASSUME NEW S, IsFiniteSet(S), NEW f
  PROVE  \E g : Sums(g, f, S)
<1> DEFINE Small(n) == {s \in SUBSET S : Cardinality(s) <= n}
           Upto(g, n) == g = [s \in Small(n) |-> SumStep(g, f, s)]
           T == {n \in Nat : \E g : Upto(g, n)}
<1>1. \A s \in SUBSET S : IsFiniteSet(s) /\ Cardinality(s) \in Nat
                           /\ Cardinality(s) <= Cardinality(S)
  BY FS_Subset, FS_CardinalityType
<1>2. 0 \in T
  <2> DEFINE g == [s \in Small(0) |-> 0]
  <2>1. \A s \in Small(0) : s = {}
    BY <1>1, FS_EmptySet
  <2>2. Upto(g, 0)
    BY <2>1 DEF SumStep
  <2> QED
    BY <2>2
<1>3. ASSUME NEW n \in T PROVE n + 1 \in T
  <2>1. PICK g : Upto(g, n)
    OBVIOUS
  <2> DEFINE h == [s \in Small(n + 1) |-> SumStep(g, f, s)]
  <2>2. \A s \in Small(n) : s \in Small(n + 1) /\ h[s] = g[s]
    BY <1>1, <2>1
  <2>3. ASSUME NEW s \in Small(n + 1), s # {} PROVE s \ {Pick(s)} \in Small(n)
    <3>1. Pick(s) \in s
      BY <2>3 DEF Pick
    <3>2. Cardinality(s \ {Pick(s)}) = Cardinality(s) - 1
      BY <1>1, <3>1, FS_RemoveElement
    <3> QED
      BY <1>1, <3>2
  <2>4. \A s \in Small(n + 1) : SumStep(h, f, s) = SumStep(g, f, s)
    BY <2>2, <2>3 DEF SumStep
  <2>5. Upto(h, n + 1)
    <3> HIDE DEF Small
    <3> QED
      BY <2>4
  <2> HIDE DEF h, Upto
  <2> QED
    BY <2>5
<1>4. T = Nat
  <2> SUFFICES ASSUME Nat \ T # {} PROVE FALSE
    OBVIOUS
  <2> HIDE DEF T
  <2>1. PICK x \in Nat \ T : \A y \in Nat \ T : x <= y
    BY LeastNatural
  <2>2. x - 1 \in Nat /\ x - 1 \notin Nat \ T
    BY <1>2, <2>1
  <2> QED
    BY <1>3, <2>2
<1>5. Cardinality(S) \in Nat /\ Small(Cardinality(S)) = SUBSET S
  BY <1>1
<1>6. PICK g : Upto(g, Cardinality(S))
  BY <1>4, <1>5
<1> HIDE DEF Small
<1> QED
  BY <1>5, <1>6 DEF Sums

\* Sums of natural numbers are natural numbers.
LEMMA SumsAreNatural ==
  ASSUME NEW S, IsFiniteSet(S), NEW f \in [S -> Nat], NEW g, Sums(g, f, S)
  PROVE  \A s \in SUBSET S : g[s] \in Nat
<1>1. g = [s \in SUBSET S |-> SumStep(g, f, s)]
  BY DEF Sums
<1>2. \A s \in SUBSET S : g[s] = SumStep(g, f, s)
  BY <1>1
<1>3. \A s \in SUBSET S : s # {} => Pick(s) \in s
  BY DEF Pick
<1>4. \A s \in SUBSET S : s \in FiniteSubsetsOf(S)
  BY FS_Subset DEF FiniteSubsetsOf
<1>5. \A s \in SUBSET S : g[s] \in Nat
  <2> DEFINE Bad == {s \in SUBSET S : g[s] \notin Nat}
  <2> SUFFICES ASSUME Bad # {} PROVE FALSE
    OBVIOUS
  <2>1. PICK s \in Bad : \A u \in Bad : u \subseteq s => u = s
    <3>1. Bad \in SUBSET FiniteSubsetsOf(S)
      BY <1>4
    <3> HIDE DEF Bad
    <3> QED
      BY <3>1, LeastSubset
  <2>2. s \in SUBSET S /\ g[s] = SumStep(g, f, s) /\ g[s] \notin Nat
    BY <1>2, <2>1
  <2>3. ASSUME s # {} PROVE g[s \ {Pick(s)}] \in Nat /\ f[Pick(s)] \in Nat
    BY <1>3, <2>1, <2>3
  <2> HIDE DEF Bad
  <2>4. CASE s = {}
    BY <2>2, <2>4 DEF SumStep
  <2>5. CASE s # {}
    BY <2>2, <2>3, <2>5 DEF SumStep
  <2> QED
    BY <2>4, <2>5
<1> QED
  BY <1>5

\* Each element may be taken out first.
LEMMA SumOfElement ==
  ASSUME NEW S, IsFiniteSet(S), NEW f \in [S -> Nat], NEW g, Sums(g, f, S)
  PROVE  \A x \in S : g[S] = f[x] + g[S \ {x}]
<1>1. g = [s \in SUBSET S |-> SumStep(g, f, s)]
  BY DEF Sums
<1>2. \A s \in SUBSET S : g[s] = SumStep(g, f, s)
  BY <1>1
<1>3. \A s \in SUBSET S : s # {} => Pick(s) \in s
  BY DEF Pick
<1>4. \A s \in SUBSET S : s \in FiniteSubsetsOf(S)
  BY FS_Subset DEF FiniteSubsetsOf
<1>5. \A s \in SUBSET S : g[s] \in Nat
  BY SumsAreNatural
<1>6. \A s \in SUBSET S : \A x \in s : g[s] = f[x] + g[s \ {x}]
  <2> DEFINE Bad == {s \in SUBSET S : \E x \in s : g[s] # f[x] + g[s \ {x}]}
  <2> SUFFICES ASSUME Bad # {} PROVE FALSE
    OBVIOUS
  <2>1. PICK s \in Bad : \A u \in Bad : u \subseteq s => u = s
    <3>1. Bad \in SUBSET FiniteSubsetsOf(S)
      BY <1>4
    <3> HIDE DEF Bad
    <3> QED
      BY <3>1, LeastSubset
  <2>2. PICK x \in s : g[s] # f[x] + g[s \ {x}]
    BY <2>1
  <2> DEFINE c == Pick(s)
  <2>3. c \in s /\ g[s] = f[c] + g[s \ {c}]
    BY <1>2, <1>3, <2>2 DEF SumStep
  <2>4. c # x
    BY <2>2, <2>3
  <2> HIDE DEF c
  <2>5. s \ {c} \in SUBSET S /\ x \in s \ {c} /\ s \ {c} \notin Bad
    BY <2>1, <2>3, <2>4
  <2>6. s \ {x} \in SUBSET S /\ c \in s \ {x} /\ s \ {x} \notin Bad
    BY <2>1, <2>3, <2>4
  <2>7. g[s \ {c}] = f[x] + g[(s \ {c}) \ {x}]
    BY <2>5
  <2>8. g[s \ {x}] = f[c] + g[(s \ {x}) \ {c}]
    BY <2>6
  <2>9. (s \ {c}) \ {x} = (s \ {x}) \ {c} /\ (s \ {c}) \ {x} \in SUBSET S
    OBVIOUS
  <2>10. f[x] \in Nat /\ f[c] \in Nat /\ g[(s \ {c}) \ {x}] \in Nat
    BY <1>5, <2>3, <2>9
  <2>11. g[s \ {c}] = f[x] + g[(s \ {c}) \ {x}] /\ g[s \ {x}] = f[c] + g[(s \ {c}) \ {x}]
    BY <2>7, <2>8, <2>9
  <2>12. g[s] = f[c] + g[s \ {c}] /\ g[s] # f[x] + g[s \ {x}]
    BY <2>2, <2>3
  <2> HIDE DEF Bad
  <2> QED
    BY <2>10, <2>11, <2>12
<1> QED
  BY <1>6

\* Two functions that agree on a set have the same sum there.
LEMMA SumsAgree ==
  ASSUME NEW S, IsFiniteSet(S), NEW f \in [S -> Nat], NEW g, Sums(g, f, S),
         NEW T \in SUBSET S, NEW h \in [T -> Nat], NEW k, Sums(k, h, T),
         \A x \in T : h[x] = f[x]
  PROVE  k[T] = g[T]
<1> DEFINE Bad == {s \in SUBSET T : k[s] # g[s]}
<1> SUFFICES ASSUME Bad # {} PROVE FALSE
  OBVIOUS
<1>1. PICK s \in Bad : \A u \in Bad : u \subseteq s => u = s
  <2>1. Bad \in SUBSET FiniteSubsetsOf(S)
    BY FS_Subset DEF FiniteSubsetsOf
  <2> HIDE DEF Bad
  <2> QED
    BY <2>1, LeastSubset
<1>2. g[s] = SumStep(g, f, s) /\ k[s] = SumStep(k, h, s)
  BY <1>1 DEF Sums
<1>3. s # {}
  BY <1>1, <1>2 DEF SumStep
<1>4. Pick(s) \in s
  BY <1>3 DEF Pick
<1>5. k[s \ {Pick(s)}] = g[s \ {Pick(s)}] /\ h[Pick(s)] = f[Pick(s)]
  BY <1>1, <1>4
<1> QED
  BY <1>1, <1>2, <1>5 DEF SumStep

\* So the choice in the definition of the sum is such a function.
LEMMA SumIsFound ==
  ASSUME NEW S, IsFiniteSet(S), NEW f, DOMAIN f = S
  PROVE  \E g : Sums(g, f, S) /\ SumFunction(f) = g[S]
<1> DEFINE g == CHOOSE g : Sums(g, f, S)
<1>1. Sums(g, f, S)
  BY PartialSums
<1>2. SumFunction(f) = g[S]
  BY SumFunctionUnfolds
<1> HIDE DEF g
<1> QED
  BY <1>1, <1>2

\* The sum of a function over naturals, whatever the order: nothing, or one
\* value and the sum of the others.
LEMMA SumOfNothing ==
  ASSUME NEW f, DOMAIN f = {}
  PROVE  SumFunction(f) = 0
<1>1. PICK g : Sums(g, f, {}) /\ SumFunction(f) = g[{}]
  BY SumIsFound, FS_EmptySet
<1> QED
  BY <1>1 DEF Sums, SumStep

\* The sum is one value and the sum of the others.
LEMMA SumWithout ==
  ASSUME NEW S, IsFiniteSet(S), NEW f \in [S -> Nat], NEW x \in S,
         NEW h \in [S \ {x} -> Nat], \A y \in S \ {x} : h[y] = f[y]
  PROVE  SumFunction(f) = f[x] + SumFunction(h) /\ SumFunction(h) \in Nat
<1>1. IsFiniteSet(S \ {x})
  BY FS_Subset
<1>2. PICK g : Sums(g, f, S) /\ SumFunction(f) = g[S]
  BY SumIsFound
<1>3. PICK k : Sums(k, h, S \ {x}) /\ SumFunction(h) = k[S \ {x}]
  BY <1>1, SumIsFound
<1>4. k[S \ {x}] = g[S \ {x}]
  BY <1>2, <1>3, SumsAgree
<1>5. g[S] = f[x] + g[S \ {x}] /\ g[S \ {x}] \in Nat
  <2>1. g[S] = f[x] + g[S \ {x}]
    BY <1>2, SumOfElement
  <2>2. g[S \ {x}] \in Nat
    BY <1>2, SumsAreNatural
  <2> QED
    BY <2>1, <2>2
<1> QED
  BY <1>2, <1>3, <1>4, <1>5

\* Changing one value changes the sum by as much.
LEMMA SumOfChange ==
  ASSUME NEW S, IsFiniteSet(S), NEW f \in [S -> Nat], NEW h \in [S -> Nat], NEW x \in S,
         \A y \in S \ {x} : h[y] = f[y]
  PROVE  /\ SumFunction(f) \in Nat /\ SumFunction(h) \in Nat
         /\ SumFunction(h) + f[x] = SumFunction(f) + h[x]
<1> DEFINE r == [y \in S \ {x} |-> f[y]]
<1>1. r \in [S \ {x} -> Nat] /\ \A y \in S \ {x} : r[y] = f[y] /\ r[y] = h[y]
  OBVIOUS
<1> HIDE DEF r
<1>2. SumFunction(f) = f[x] + SumFunction(r) /\ SumFunction(r) \in Nat
  BY <1>1, SumWithout
<1>3. SumFunction(h) = h[x] + SumFunction(r)
  BY <1>1, SumWithout
<1>4. f[x] \in Nat /\ h[x] \in Nat
  OBVIOUS
<1> QED
  BY <1>2, <1>3, <1>4

\* A further value is added to the sum.
LEMMA SumOfOneMore ==
  ASSUME NEW S, IsFiniteSet(S), NEW f \in [S -> Nat], NEW x, x \notin S,
         NEW h \in [S \cup {x} -> Nat], \A y \in S : h[y] = f[y]
  PROVE  SumFunction(h) = h[x] + SumFunction(f) /\ SumFunction(f) \in Nat
<1>1. IsFiniteSet(S \cup {x}) /\ (S \cup {x}) \ {x} = S
  BY FS_AddElement
<1> QED
  BY <1>1, SumWithout

\* A sum of naturals is one, and none of them exceeds it.
LEMMA SumBounds ==
  ASSUME NEW S, IsFiniteSet(S), NEW f \in [S -> Nat]
  PROVE  SumFunction(f) \in Nat /\ \A x \in S : f[x] <= SumFunction(f)
<1>1. PICK g : Sums(g, f, S) /\ SumFunction(f) = g[S]
  BY SumIsFound
<1>2. SumFunction(f) \in Nat
  BY <1>1, SumsAreNatural
<1>3. ASSUME NEW x \in S PROVE f[x] <= SumFunction(f)
  <2> DEFINE r == [y \in S \ {x} |-> f[y]]
  <2>1. r \in [S \ {x} -> Nat] /\ \A y \in S \ {x} : r[y] = f[y]
    OBVIOUS
  <2> HIDE DEF r
  <2>2. SumFunction(f) = f[x] + SumFunction(r) /\ SumFunction(r) \in Nat
    BY <2>1, SumWithout
  <2>3. f[x] \in Nat
    OBVIOUS
  <2> QED
    BY <2>2, <2>3
<1> QED
  BY <1>2, <1>3

\* The sum of zeros is zero.
LEMMA SumOfZeros ==
  ASSUME NEW S, IsFiniteSet(S), NEW f \in [S -> {0}]
  PROVE  SumFunction(f) = 0
<1>1. PICK g : Sums(g, f, S) /\ SumFunction(f) = g[S]
  BY SumIsFound
<1>2. \A s \in SUBSET S : g[s] = SumStep(g, f, s)
  BY <1>1 DEF Sums
<1> DEFINE Bad == {s \in SUBSET S : g[s] # 0}
<1> SUFFICES ASSUME Bad # {} PROVE FALSE
  BY <1>1
<1>3. PICK s \in Bad : \A u \in Bad : u \subseteq s => u = s
  <2>1. Bad \in SUBSET FiniteSubsetsOf(S)
    BY FS_Subset DEF FiniteSubsetsOf
  <2> HIDE DEF Bad
  <2> QED
    BY <2>1, LeastSubset
<1>4. s # {}
  BY <1>2, <1>3 DEF SumStep
<1>5. Pick(s) \in s
  BY <1>4 DEF Pick
<1>6. g[s \ {Pick(s)}] = 0 /\ f[Pick(s)] = 0
  BY <1>3, <1>5
<1> QED
  BY <1>2, <1>3, <1>4, <1>6 DEF SumStep

-----------------------------------------------------------------------------
(* The generator and its connections.                                      *)

Connections ==
  [status : {"NOT_STARTED", "RUNNING", "DONE", "ERROR"},
   counter : Nat,
   task : {"request", "copy", "read", "finish", "ended"},
   reader : {"idle", "mark", "count", "stopped"}]

\* The part of TypeOK that does not depend on how much was transferred.
Shape ==
  /\ conns \in Seq(Connections)
  /\ upload \in BOOLEAN
  /\ next \in Nat \ {0}
  /\ gen = "collect" => next <= Len(conns)

\* A download has an ended status exactly when its goroutine has ended, and
\* nobody else reads for it.
DownloadsEnd ==
  ~upload => \A c \in DOMAIN conns :
               /\ conns[c].status \in Finished <=> conns[c].task = "ended"
               /\ conns[c].reader = "idle"

\* The generator has not yet added its first connections, or has at most Mnp.
FewConnections == Len(conns) <= (IF gen = "begin" THEN 0 ELSE Mnp)

GeneratorInv == Shape /\ DownloadsEnd /\ FewConnections

-----------------------------------------------------------------------------

\* Initially there is no connection.
LEMMA InitInv == Init => GeneratorInv
  BY DEF Init, GeneratorInv, Shape, DownloadsEnd, FewConnections

\* A connection whose counter is changed is otherwise the same.
LEMMA CounterChanged ==
  ASSUME NEW r \in Connections, NEW n \in Nat, NEW k, k = [r EXCEPT !.counter = n]
  PROVE  /\ k \in Connections /\ k.status = r.status /\ k.task = r.task
         /\ k.reader = r.reader /\ k.counter = n
  BY DEF Connections

\* What a step of one connection may change, and into what.
LEMMA ConnectionStep ==
  ASSUME GeneratorInv, NEW c \in DOMAIN conns, Connection(c)
  PROVE  \E k \in Connections :
           /\ conns' = [conns EXCEPT ![c] = k]
           /\ ~upload => (k.status \in Finished <=> k.task = "ended") /\ k.reader = "idle"
           /\ ~upload /\ conns[c].status \in Finished => k.status = conns[c].status
           /\ \/ k.counter = conns[c].counter /\ moved' = moved
              \/ k.counter = conns[c].counter + 1 /\ moved < MaxBytes /\ moved' = moved + 1
           /\ UNCHANGED <<gen, upload, next, sample, bucket, coordinator, received>>
<1>1. conns[c] \in Connections
  BY DEF GeneratorInv, Shape
<1> USE <1>1 DEF ChangeConnection, Connections, GeneratorInv, DownloadsEnd, Finished
<1>2. CASE RequestFails(c)
  BY <1>2 DEF RequestFails
<1>3. CASE ResponseArrives(c)
  BY <1>3 DEF ResponseArrives
<1>4. CASE ReadBegins(c)
  BY <1>4 DEF ReadBegins
<1>5. CASE ReadReturns(c)
  <2> DEFINE r == [conns[c] EXCEPT !.task = "copy"]
             k == [r EXCEPT !.counter = conns[c].counter + 1]
  <2>1. r \in Connections /\ conns[c].counter + 1 \in Nat
        /\ r.status = conns[c].status /\ r.task = "copy" /\ r.reader = conns[c].reader
    OBVIOUS
  <2>2. /\ k \in Connections /\ k.status = r.status /\ k.task = r.task
        /\ k.reader = r.reader /\ k.counter = conns[c].counter + 1
    <3> HIDE DEF r, Connections
    <3> QED
      BY <2>1, CounterChanged
  <2> QED
    BY <1>5, <2>1, <2>2 DEF ReadReturns
<1>6. CASE ReadEnds(c)
  BY <1>6 DEF ReadEnds
<1>7. CASE CopyEnds(c)
  BY <1>7 DEF CopyEnds
<1>8. CASE RequestAnswered(c)
  BY <1>8 DEF RequestAnswered
<1>9. CASE BodyReadBegins(c)
  BY <1>9 DEF BodyReadBegins
<1>10. CASE BodyMarksRunning(c)
  BY <1>10 DEF BodyMarksRunning
<1>11. CASE BodyReadReturns(c)
  <2> DEFINE r == [conns[c] EXCEPT !.counter = conns[c].counter + 1]
             k == [r EXCEPT !.reader = "idle"]
  <2>1. /\ r \in Connections /\ r.status = conns[c].status /\ r.task = conns[c].task
        /\ r.counter = conns[c].counter + 1
    <3>1. conns[c].counter + 1 \in Nat
      OBVIOUS
    <3> HIDE DEF Connections
    <3> QED
      BY <3>1, CounterChanged
  <2>2. /\ k \in Connections /\ k.status = r.status /\ k.task = r.task
        /\ k.reader = "idle" /\ k.counter = r.counter
    BY <2>1
  <2> QED
    BY <1>11, <2>1, <2>2 DEF BodyReadReturns
<1>12. CASE BodyAbandoned(c)
  BY <1>12 DEF BodyAbandoned
<1> QED
  BY <1>2, <1>3, <1>4, <1>5, <1>6, <1>7, <1>8, <1>9, <1>10, <1>11, <1>12 DEF Connection

\* Every step preserves the invariant.
LEMMA StepInv == GeneratorInv /\ [Next]_vars => GeneratorInv'
<1> SUFFICES ASSUME GeneratorInv, [Next]_vars PROVE GeneratorInv'
  OBVIOUS
<1> USE DEF GeneratorInv
<1>1. ASSUME NEW c \in DOMAIN conns, Connection(c) PROVE GeneratorInv'
  <2>1. PICK k \in Connections :
          /\ conns' = [conns EXCEPT ![c] = k]
          /\ ~upload => (k.status \in Finished <=> k.task = "ended") /\ k.reader = "idle"
          /\ UNCHANGED <<gen, upload, next>>
    BY <1>1, ConnectionStep
  <2>2. conns' \in Seq(Connections) /\ Len(conns') = Len(conns)
    BY <2>1 DEF Shape
  <2> QED
    BY <2>1, <2>2 DEF Shape, DownloadsEnd, FewConnections
<1>2. CASE /\ UNCHANGED <<conns, upload>> /\ next' \in Nat \ {0} /\ gen' # "begin"
           /\ gen' = "collect" => next' <= Len(conns)
  <2>1. Shape'
    BY <1>2 DEF Shape
  <2>2. DownloadsEnd' /\ FewConnections'
    BY <1>2, MnpAssumption DEF Shape, DownloadsEnd, FewConnections
  <2> QED
    BY <2>1, <2>2
<1>3. ASSUME NEW n \in Nat, conns' = WithFlows(n), UNCHANGED <<upload, next>>,
             gen' = "check", Len(conns) + n <= Mnp
      PROVE  GeneratorInv'
  <2>1. NewConnection \in Connections /\ NewConnection.status \notin Finished
        /\ NewConnection.task # "ended" /\ NewConnection.reader = "idle"
    BY DEF NewConnection, Connections, Finished
  <2>2. /\ conns' \in Seq(Connections)
        /\ Len(conns') = Len(conns) + n
        /\ \A c \in DOMAIN conns' :
             conns'[c] = IF c \in DOMAIN conns THEN conns[c] ELSE NewConnection
    BY <1>3, <2>1 DEF WithFlows, Shape
  <2> QED
    BY <1>3, <2>1, <2>2 DEF Shape, DownloadsEnd, FewConnections
<1>4. CASE Begin
  BY <1>3, <1>4, FlowsAssumption DEF Begin, FewConnections, Shape
<1>5. CASE AddFlows
  BY <1>2, <1>3, <1>5, FlowsAssumption, MnpAssumption DEF AddFlows, FewConnections, Shape
<1>6. CASE CollectOne
  <2>1. next \in DOMAIN conns
    BY <1>6 DEF CollectOne, Shape
  <2> DEFINE k == [conns[next] EXCEPT !.counter = 0]
  <2>2. k \in Connections /\ k.status = conns[next].status /\ k.task = conns[next].task
        /\ k.reader = conns[next].reader
    <3>1. conns[next] \in Connections /\ 0 \in Nat
      BY <2>1 DEF Shape
    <3> QED
      BY <3>1, CounterChanged
  <2>3. conns' = [conns EXCEPT ![next] = k]
    BY <1>6, Zenon DEF CollectOne, Collect
  <2> HIDE DEF k
  <2>4. conns' \in Seq(Connections) /\ Len(conns') = Len(conns)
    BY <2>1, <2>2, <2>3 DEF Shape
  <2> QED
    BY <1>6, <2>2, <2>3, <2>4 DEF CollectOne, Shape, DownloadsEnd, FewConnections
<1>7. CASE \/ CheckOperator \/ Wake \/ PassOver \/ SeeRunning \/ GiveUp \/ TakeBucket
           \/ ReceiveReserve \/ ReceiveMeasure
  BY <1>2, <1>7 DEF CheckOperator, Wake, PassOver, SeeRunning, GiveUp, TakeBucket, ReceiveReserve, ReceiveMeasure,
                    Shape
<1>8. CASE LeaveLoops \/ CancelOperator \/ CancelNetwork
  BY <1>8 DEF LeaveLoops, CancelOperator, CancelNetwork, Step, Shape, DownloadsEnd,
              FewConnections
<1>9. CASE UNCHANGED vars
  BY <1>9 DEF vars, Shape, DownloadsEnd, FewConnections
<1> QED
  BY <1>1, <1>4, <1>5, <1>6, <1>7, <1>8, <1>9 DEF Next, Generator

\* The invariant holds in every state.
LEMMA Invariance == Spec => []GeneratorInv
  BY InitInv, StepInv, PTL DEF Spec

\* The generator never opens more than Mnp connections: they are added only
\* after a sample, one at a time, and only below the maximum.
THEOREM ConnectionLimit == Spec => []AtMostMnpConnections
<1>1. GeneratorInv => AtMostMnpConnections
  BY MnpAssumption DEF GeneratorInv, Shape, FewConnections, AtMostMnpConnections
<1> QED
  BY <1>1, Invariance, PTL

\* A download that has ended keeps its status for good.
THEOREM DownloadsStayEnded == Spec => EndedDownloadStaysEnded
<1> DEFINE Stays == \A c \in DOMAIN conns :
                      ~upload /\ conns[c].status \in Finished
                        => conns'[c].status = conns[c].status
<1>1. GeneratorInv /\ [Next]_vars => [Stays]_vars
  <2> SUFFICES ASSUME GeneratorInv, Next, NEW c \in DOMAIN conns,
                      ~upload, conns[c].status \in Finished
               PROVE  conns'[c].status = conns[c].status
    OBVIOUS
  <2> USE DEF GeneratorInv, Shape
  <2>1. ASSUME NEW d \in DOMAIN conns, Connection(d) PROVE conns'[c].status = conns[c].status
    BY <2>1, ConnectionStep
  <2>2. CASE Begin \/ AddFlows
    <3>1. PICK n \in Nat : conns' = WithFlows(n) \/ conns' = conns
      BY <2>2, FlowsAssumption, MnpAssumption DEF Begin, AddFlows
    <3>2. [i \in 1 .. n |-> NewConnection] \in Seq({NewConnection})
      OBVIOUS
    <3>3. conns \in Seq(Connections) /\ c \in 1 .. Len(conns)
      OBVIOUS
    <3>4. CASE conns' = WithFlows(n)
      <4> HIDE DEF NewConnection, Connections
      <4> QED
        BY <3>2, <3>3, <3>4 DEF WithFlows
    <3> QED
      BY <3>1, <3>4
  <2>3. CASE CollectOne
    <3> DEFINE k == [conns[next] EXCEPT !.counter = 0]
    <3>1. conns' = [conns EXCEPT ![next] = k] /\ next \in DOMAIN conns
      BY <2>3 DEF CollectOne, Collect
    <3>2. k.status = conns[next].status
      BY <3>1, CounterChanged
    <3> HIDE DEF k
    <3> QED
      BY <3>1, <3>2
  <2> QED
    BY <2>1, <2>2, <2>3 DEF Next, Generator, CheckOperator, Wake, PassOver, SeeRunning, GiveUp,
      TakeBucket, ReceiveReserve, ReceiveMeasure, LeaveLoops, CancelOperator, CancelNetwork, Step
<1> QED
  BY <1>1, Invariance, PTL DEF Spec, EndedDownloadStaysEnded

-----------------------------------------------------------------------------
(* The messages form a measurement stream.                                 *)

Message == [type : {"Reserve"}, bucket : Nat]
             \cup [type : {"Measure"}, bucket : Nat,
                   point : [total : Nat, active : Nat, connections : Nat]]

Reserved == BucketsOfType("Reserve")
Measured == BucketsOfType("Measure")

\* The bucket in use is the newest one; while it is being announced it is newer
\* than all that were, and while its sample is being sent it is the only one
\* announced and not measured.
StreamInv ==
  /\ gen \in {"begin", "check", "sleep", "scan", "collect", "reserve", "measure", "add",
              "ended"}
  /\ bucket \in 0 .. MaxBucket
  /\ sample \in [total : Nat, active : Nat, connections : Nat]
  /\ received \in Seq(Message)
  /\ Measured \subseteq Reserved
  /\ \A b \in Reserved : b <= bucket
  /\ gen \in {"scan", "collect"} => bucket < MaxBucket
  /\ gen = "reserve" => bucket > 0 /\ \A b \in Reserved : b < bucket
  /\ gen = "measure" => bucket > 0 /\ bucket \in Reserved \ Measured

\* A message adds its bucket to those of its type, and is one more.
LEMMA BucketReceived ==
  ASSUME received \in Seq(Message), NEW m \in Message, received' = Append(received, m)
  PROVE  /\ received' \in Seq(Message) /\ Len(received') = Len(received) + 1
         /\ m.type = "Reserve" => Reserved' = Reserved \cup {m.bucket} /\ Measured' = Measured
         /\ m.type = "Measure" => Measured' = Measured \cup {m.bucket} /\ Reserved' = Reserved
<1>1. received' \in Seq(Message) /\ Len(received') = Len(received) + 1
  OBVIOUS
<1>2. /\ DOMAIN received' = DOMAIN received \cup {Len(received) + 1}
      /\ \A i \in DOMAIN received : received'[i] = received[i]
      /\ received'[Len(received) + 1] = m
  OBVIOUS
<1> QED
  BY <1>1, <1>2 DEF Reserved, Measured, BucketsOfType

\* Initially nothing has been received.
LEMMA StreamInit == Init => StreamInv /\ Stream!Init
  BY BoundsAssumption DEF Init, StreamInv, EmptySample, Stream!Init, BucketsOfType,
                          Reserved, Measured

\* Every step is a step of the stream or leaves it as it is.
LEMMA StreamStep ==
  ASSUME GeneratorInv, StreamInv, [Next]_vars
  PROVE  StreamInv' /\ [Stream!Next]_(Stream!vars)
<1> USE DEF StreamInv, Stream!vars
<1>1. ASSUME UNCHANGED received
      PROVE  UNCHANGED <<Reserved, Measured, Stream!vars>>
  BY <1>1 DEF Reserved, Measured, BucketsOfType
<1>2. CASE ReceiveReserve
  <2> DEFINE m == [type |-> "Reserve", bucket |-> bucket]
  <2>1. m \in Message /\ m.type = "Reserve" /\ m.bucket = bucket
    BY <1>2 DEF Message
  <2>2. /\ received' \in Seq(Message) /\ Len(received') = Len(received) + 1
        /\ Reserved' = Reserved \cup {bucket} /\ Measured' = Measured
    <3>1. received' = Append(received, m)
      BY <1>2 DEF ReceiveReserve
    <3> HIDE DEF m
    <3> QED
      BY <2>1, <3>1, BucketReceived
  <2>3. bucket \notin Measured
    BY <1>2 DEF ReceiveReserve
  <2>4. StreamInv'
    BY <1>2, <2>2, <2>3 DEF ReceiveReserve
  <2>5. Stream!Reserve(bucket) /\ bucket \in 1 .. MaxBucket
    BY <1>2, <2>2 DEF ReceiveReserve, Stream!Reserve, Stream!MayReserve, Reserved, Measured
  <2> QED
    BY <2>4, <2>5 DEF Stream!Next
<1>3. CASE ReceiveMeasure
  <2> DEFINE m == [type |-> "Measure", bucket |-> bucket, point |-> sample]
  <2>1. m \in Message /\ m.type = "Measure" /\ m.bucket = bucket
    BY <1>3 DEF Message
  <2>2. /\ received' \in Seq(Message) /\ Len(received') = Len(received) + 1
        /\ Measured' = Measured \cup {bucket} /\ Reserved' = Reserved
    <3>1. received' = Append(received, m)
      BY <1>3 DEF ReceiveMeasure
    <3> HIDE DEF m
    <3> QED
      BY <2>1, <3>1, BucketReceived
  <2>3. StreamInv'
    BY <1>3, <2>2 DEF ReceiveMeasure
  <2>4. Stream!Measure(bucket) /\ bucket \in 1 .. MaxBucket
    BY <1>3, <2>2 DEF ReceiveMeasure, Stream!Measure, Stream!MayMeasure, Reserved, Measured
  <2> QED
    BY <2>3, <2>4 DEF Stream!Next
<1>4. CASE TakeBucket
  <2>1. /\ gen = "scan" /\ gen' = "reserve"
        /\ bucket' = bucket + 1
        /\ UNCHANGED <<sample, received>>
    BY <1>4 DEF TakeBucket
  <2>2. bucket \in Nat /\ bucket < MaxBucket /\ bucket' \in 1 .. MaxBucket
    BY <2>1, BoundsAssumption
  <2>3. \A b \in Reserved : b \in Nat
    BY DEF Reserved, BucketsOfType, Message
  <2> QED
    BY <1>1, <2>1, <2>2, <2>3
<1>5. CASE Wake
  <2>1. sample' \in [total : Nat, active : Nat, connections : Nat]
    BY <1>5 DEF Wake, EmptySample, GeneratorInv, Shape
  <2> QED
    BY <1>1, <1>5, <2>1 DEF Wake
<1>6. CASE CollectOne
  <2>1. conns[next] \in Connections
    BY <1>6 DEF CollectOne, GeneratorInv, Shape
  <2>2. conns[next].counter \in Nat
    BY <2>1 DEF Connections
  <2>3. sample' = [sample EXCEPT !.total = @ + conns[next].counter, !.active = @ + 1]
    BY <1>6 DEF CollectOne, Collect
  <2> DEFINE Points == [total : Nat, active : Nat, connections : Nat]
             r == [sample EXCEPT !.total = @ + conns[next].counter]
  <2>4. r \in Points
    BY <2>2
  <2>5. sample' = [r EXCEPT !.active = sample.active + 1]
    BY <2>3
  <2>6. sample.active + 1 \in Nat
    OBVIOUS
  <2>7. sample' \in Points
    <3> HIDE DEF r
    <3> QED
      BY <2>4, <2>5, <2>6
  <2> QED
    BY <1>1, <1>6, <2>7 DEF CollectOne
<1>7. CASE Begin \/ CheckOperator \/ PassOver \/ SeeRunning \/ GiveUp \/ AddFlows
  BY <1>1, <1>7 DEF Begin, CheckOperator, PassOver, SeeRunning, GiveUp, AddFlows
<1>8. ASSUME NEW c \in DOMAIN conns, Connection(c) PROVE UNCHANGED <<gen, bucket, sample, received>>
  BY <1>8, ConnectionStep
<1>9. CASE LeaveLoops \/ CancelOperator \/ CancelNetwork
  BY <1>1, <1>9 DEF LeaveLoops, CancelOperator, CancelNetwork, Step
<1>10. CASE UNCHANGED vars
  BY <1>1, <1>10 DEF vars
<1> QED
  BY <1>1, <1>2, <1>3, <1>4, <1>5, <1>6, <1>7, <1>8, <1>9, <1>10 DEF Next, Generator

\* Every bucket the coordinator receives from the generator is announced in
\* increasing order, once, and its sample follows, once: each message it
\* receives is a step of the stream, and none is a repetition.
THEOREM GeneratorImplementsStream == Spec => ImplementsMeasurementStream
<1>1. Init => StreamInv /\ Stream!Init
  BY StreamInit
<1>2. GeneratorInv /\ StreamInv /\ [Next]_vars => StreamInv' /\ [Stream!Next]_(Stream!vars)
  BY StreamStep
<1> QED
  BY <1>1, <1>2, Invariance, PTL DEF Spec, Stream!Spec, ImplementsMeasurementStream

-----------------------------------------------------------------------------
(* The bytes.                                                              *)

SampleTotals == [i \in Samples |-> received[i].point.total]
Counters     == [c \in DOMAIN conns |-> conns[c].counter]

\* What the accounting of the bytes needs besides: a scan has counted at most
\* one connection per step, a sample to which none contributed is empty (the
\* generator gives up without losing a byte), and no sample holds more than was
\* ever read.
BytesInv ==
  /\ EveryByteReportedOnce
  /\ moved \in 0 .. MaxBytes
  /\ sample \in [total : 0 .. MaxBytes, active : 0 .. Mnp, connections : 0 .. Mnp]
  /\ next <= Len(conns) + 1
  /\ gen \in {"scan", "collect"} => sample.active < next
  /\ sample.active = 0 => sample.total = 0
  /\ coordinator \in {"receiving", "left", "operatorCancelled", "allCancelled"}

\* The two sums are over finite sets of naturals.
LEMMA SumsAreProper ==
  ASSUME GeneratorInv, StreamInv
  PROVE  /\ IsFiniteSet(Samples) /\ SampleTotals \in [Samples -> Nat]
         /\ IsFiniteSet(DOMAIN conns) /\ Counters \in [DOMAIN conns -> Nat]
         /\ Delivered = SumFunction(SampleTotals) /\ Counted = SumFunction(Counters)
<1>1. \A i \in Samples : received[i].point.total \in Nat
  BY DEF StreamInv, Message, Samples
<1>2. \A c \in DOMAIN conns : conns[c].counter \in Nat
  <2>1. \A c \in DOMAIN conns : conns[c] \in Connections
    BY DEF GeneratorInv, Shape
  <2> QED
    BY <2>1 DEF Connections
<1>3. Len(received) \in Nat /\ DOMAIN received = 1 .. Len(received)
      /\ Len(conns) \in Nat /\ DOMAIN conns = 1 .. Len(conns)
  BY DEF StreamInv, GeneratorInv, Shape
<1>4. IsFiniteSet(1 .. Len(received)) /\ IsFiniteSet(1 .. Len(conns))
  BY <1>3, FS_Interval
<1>5. IsFiniteSet(Samples)
  BY <1>3, <1>4, FS_Subset DEF Samples
<1> QED
  BY <1>1, <1>2, <1>3, <1>4, <1>5 DEF SampleTotals, Counters, Delivered, Counted

\* A connection whose counter changes changes the sum of the counters by as much.
LEMMA CountedChanges ==
  ASSUME GeneratorInv, StreamInv, NEW c \in DOMAIN conns, NEW k \in Connections,
         conns' = [conns EXCEPT ![c] = k]
  PROVE  Counted \in Nat /\ Counted' \in Nat /\ Counted' + conns[c].counter = Counted + k.counter
<1> DEFINE D == DOMAIN conns
           h == [d \in DOMAIN conns' |-> conns'[d].counter]
<1>1. IsFiniteSet(D) /\ Counters \in [D -> Nat] /\ Counted = SumFunction(Counters)
  BY SumsAreProper
<1>2. k.counter \in Nat
  BY DEF Connections
<1>3. /\ h \in [D -> Nat] /\ h[c] = k.counter /\ Counters[c] = conns[c].counter
      /\ \A d \in D \ {c} : h[d] = Counters[d]
  BY <1>1, <1>2 DEF Counters, GeneratorInv, Shape
<1>4. Counted' = SumFunction(h)
  BY DEF Counted
<1> HIDE DEF h, D
<1>5. /\ SumFunction(Counters) \in Nat /\ SumFunction(h) \in Nat
      /\ SumFunction(h) + Counters[c] = SumFunction(Counters) + h[c]
  <2>1. c \in D
    BY DEF D
  <2> QED
    BY <1>1, <1>3, <2>1, SumOfChange
<1> QED
  BY <1>1, <1>3, <1>4, <1>5

\* A connection just added has counted nothing.
LEMMA CountedGrows ==
  ASSUME GeneratorInv, StreamInv, NEW n \in Nat, conns' = WithFlows(n), n = 1 \/ conns = << >>
  PROVE  Counted' = Counted
<1> DEFINE D == DOMAIN conns
           h == [d \in DOMAIN conns' |-> conns'[d].counter]
<1>1. IsFiniteSet(D) /\ Counters \in [D -> Nat] /\ Counted = SumFunction(Counters)
  BY SumsAreProper
<1>2. NewConnection.counter = 0 /\ NewConnection \in Connections
  BY DEF NewConnection, Connections
<1>3. /\ DOMAIN conns' = 1 .. Len(conns) + n
      /\ \A c \in DOMAIN conns' :
           conns'[c] = IF c \in D THEN conns[c] ELSE NewConnection
  BY <1>2 DEF WithFlows, GeneratorInv, Shape
<1>4. h \in [DOMAIN conns' -> Nat] /\ \A c \in DOMAIN conns' : h[c] = IF c \in D THEN Counters[c] ELSE 0
  <2>1. \A c \in DOMAIN conns' : conns'[c].counter = IF c \in D THEN Counters[c] ELSE 0
    BY <1>2, <1>3 DEF Counters
  <2> QED
    BY <1>1, <2>1
<1>5. Counted' = SumFunction(h)
  BY DEF Counted
<1>6. D = 1 .. Len(conns) /\ Len(conns) \in Nat
  BY DEF GeneratorInv, Shape
<1> HIDE DEF h
<1>7. CASE conns = << >>
  <2>1. D = {}
    BY <1>7
  <2>2. IsFiniteSet(DOMAIN conns') /\ h \in [DOMAIN conns' -> {0}]
    <3>1. IsFiniteSet(1 .. Len(conns) + n)
      BY <1>6, FS_Interval
    <3> QED
      BY <1>3, <1>4, <2>1, <3>1
  <2>3. DOMAIN Counters = {}
    BY <1>1, <2>1
  <2> QED
    BY <1>1, <1>5, <2>2, <2>3, SumOfZeros, SumOfNothing
<1>8. CASE n = 1
  <2> DEFINE x == Len(conns) + 1
  <2>1. x \notin D /\ DOMAIN conns' = D \cup {x} /\ x \in DOMAIN conns'
    BY <1>3, <1>6, <1>8
  <2>2. h \in [D \cup {x} -> Nat] /\ h[x] = 0 /\ \A d \in D : h[d] = Counters[d]
    BY <1>4, <2>1
  <2> HIDE DEF x, D
  <2>3. SumFunction(h) = h[x] + SumFunction(Counters) /\ SumFunction(Counters) \in Nat
    BY <1>1, <2>1, <2>2, SumOfOneMore
  <2> QED
    BY <1>1, <1>5, <2>2, <2>3
<1> QED
  BY <1>7, <1>8

\* A message that carries a sample adds its total; the other kind adds nothing.
LEMMA DeliveredGrows ==
  ASSUME GeneratorInv, StreamInv, NEW m \in Message, received' = Append(received, m)
  PROVE  /\ Delivered \in Nat
         /\ m.type = "Reserve" => Delivered' = Delivered
         /\ m.type = "Measure" => Delivered' = Delivered + m.point.total /\ m.point.total \in Nat
<1> DEFINE D == Samples
           x == Len(received) + 1
           h == [i \in Samples' |-> received'[i].point.total]
<1>1. IsFiniteSet(D) /\ SampleTotals \in [D -> Nat] /\ Delivered = SumFunction(SampleTotals)
  BY SumsAreProper
<1>2. Delivered' = SumFunction(h)
  BY DEF Delivered
<1>3. /\ DOMAIN received' = DOMAIN received \cup {x} /\ x \notin DOMAIN received
      /\ \A i \in DOMAIN received : received'[i] = received[i]
      /\ received'[x] = m
  BY DEF StreamInv
<1>4. m.type = "Measure" => m.point.total \in Nat
  BY DEF Message
<1>5. Delivered \in Nat
  BY <1>1, SumBounds
<1>6. CASE m.type = "Reserve"
  <2>1. Samples' = D
    BY <1>3, <1>6 DEF Samples
  <2>2. h = SampleTotals
    BY <1>3, <2>1 DEF SampleTotals, Samples
  <2> QED
    BY <1>1, <1>2, <1>5, <1>6, <2>2
<1>7. CASE m.type = "Measure"
  <2>1. Samples' = D \cup {x} /\ x \notin D
    BY <1>3, <1>7 DEF Samples
  <2>2. h[x] = m.point.total /\ \A i \in D : h[i] = SampleTotals[i]
    BY <1>3, <2>1 DEF SampleTotals, Samples
  <2>3. h \in [D \cup {x} -> Nat]
    <3>1. \A i \in D \cup {x} : h[i] \in Nat
      BY <1>1, <1>4, <1>7, <2>2
    <3> QED
      BY <2>1, <3>1
  <2> HIDE DEF h, D, x
  <2>4. SumFunction(h) = h[x] + SumFunction(SampleTotals) /\ SumFunction(SampleTotals) \in Nat
    <3>1. x \notin D /\ \A i \in D : h[i] = SampleTotals[i]
      BY <2>1, <2>2
    <3> QED
      BY <1>1, <2>3, <3>1, SumOfOneMore
  <2> QED
    BY <1>1, <1>2, <1>4, <1>5, <1>7, <2>2, <2>4
<1>8. m.type \in {"Reserve", "Measure"}
  BY DEF Message
<1> QED
  BY <1>5, <1>6, <1>7, <1>8

\* Initially nothing has been read.
LEMMA BytesInit == Init => BytesInv
<1> SUFFICES ASSUME Init PROVE BytesInv
  OBVIOUS
<1>1. Samples = {} /\ DOMAIN conns = {}
  BY DEF Init, Samples
<1>2. DOMAIN SampleTotals = {} /\ DOMAIN Counters = {}
  BY <1>1 DEF SampleTotals, Counters
<1>3. Delivered = 0 /\ Counted = 0
  BY <1>2, SumOfNothing DEF Delivered, Counted, SampleTotals, Counters
<1>4. InFlight = 0 /\ moved = 0
  BY DEF Init, InFlight
<1>5. sample \in [total : 0 .. MaxBytes, active : 0 .. Mnp, connections : 0 .. Mnp]
  BY BoundsAssumption, MnpAssumption DEF Init, EmptySample
<1>6. sample.total = 0 /\ Len(conns) = 0
  BY DEF Init, EmptySample
<1>7. EveryByteReportedOnce
  BY <1>3, <1>4 DEF EveryByteReportedOnce
<1> QED
  BY <1>4, <1>5, <1>6, <1>7, BoundsAssumption DEF Init, BytesInv

\* Every step moves bytes from one place to the next, or counts a new one.
LEMMA BytesStep ==
  ASSUME GeneratorInv, StreamInv, BytesInv, [Next]_vars, GeneratorInv', StreamInv'
  PROVE  BytesInv'
<1> DEFINE Points == [total : 0 .. MaxBytes, active : 0 .. Mnp, connections : 0 .. Mnp]
<1>1. Delivered \in Nat /\ Counted \in Nat /\ Delivered + InFlight + Counted = moved
  BY SumsAreProper, SumBounds DEF BytesInv, EveryByteReportedOnce
<1>2. /\ moved \in Nat /\ moved <= MaxBytes /\ MaxBytes \in Nat /\ sample \in Points
      /\ Len(conns) \in Nat /\ Len(conns) <= Mnp /\ next \in Nat /\ next <= Len(conns) + 1
      /\ Mnp \in Nat /\ sample.total \in Nat /\ sample.active \in Nat
  BY BoundsAssumption, MnpAssumption DEF BytesInv, GeneratorInv, Shape, FewConnections
<1>3. ASSUME UNCHANGED received PROVE Delivered' = Delivered
  BY <1>3 DEF Delivered, Samples
<1>4. ASSUME UNCHANGED conns PROVE Counted' = Counted
  BY <1>4 DEF Counted
<1>5. ASSUME UNCHANGED <<conns, next, sample, coordinator, received, moved>>,
             gen' \in {"scan", "collect"} => gen = "scan", InFlight' = InFlight
      PROVE  BytesInv'
  BY <1>1, <1>3, <1>4, <1>5 DEF BytesInv, EveryByteReportedOnce
<1>6. ASSUME NEW c \in DOMAIN conns, Connection(c) PROVE BytesInv'
  <2>1. PICK k \in Connections :
          /\ conns' = [conns EXCEPT ![c] = k]
          /\ \/ k.counter = conns[c].counter /\ moved' = moved
             \/ k.counter = conns[c].counter + 1 /\ moved < MaxBytes /\ moved' = moved + 1
          /\ UNCHANGED <<gen, upload, next, sample, bucket, coordinator, received>>
    BY <1>6, ConnectionStep
  <2>2. Counted \in Nat /\ Counted' \in Nat /\ Counted' + conns[c].counter = Counted + k.counter
    BY <2>1, CountedChanges
  <2>3. conns[c].counter \in Nat
    <3>1. conns[c] \in Connections
      BY DEF GeneratorInv, Shape
    <3> QED
      BY <3>1 DEF Connections
  <2>4. Delivered' = Delivered /\ InFlight' = InFlight /\ Len(conns') = Len(conns)
    BY <1>3, <2>1 DEF InFlight, GeneratorInv, Shape
  <2>5. InFlight \in Nat
    BY <1>2 DEF InFlight
  <2>6. moved' \in 0 .. MaxBytes /\ Delivered' + InFlight' + Counted' = moved'
    <3>1. k.counter \in Nat
      BY DEF Connections
    <3>2. CASE k.counter = conns[c].counter /\ moved' = moved
      <4>1. moved \in 0 .. MaxBytes
        BY <1>2
      <4>2. Delivered' + InFlight' + Counted' = moved
        BY <1>1, <2>2, <2>3, <2>4, <2>5, <3>1, <3>2
      <4> QED
        BY <3>2, <4>1, <4>2
    <3>3. CASE k.counter = conns[c].counter + 1 /\ moved < MaxBytes /\ moved' = moved + 1
      <4>1. moved' \in 0 .. MaxBytes
        BY <1>2, <3>3
      <4>2. Counted' = Counted + 1
        BY <2>2, <2>3, <3>1, <3>3
      <4>3. Delivered + InFlight + (Counted + 1) = moved + 1
        BY <1>1, <2>5
      <4> QED
        BY <2>4, <3>3, <4>1, <4>2, <4>3, Zenon
    <3> QED
      BY <2>1, <3>2, <3>3
  <2> QED
    BY <2>1, <2>4, <2>6 DEF BytesInv, EveryByteReportedOnce
<1>7. ASSUME NEW n \in Nat, conns' = WithFlows(n), n = 1 \/ conns = << >>,
             UNCHANGED <<next, sample, coordinator, received, moved>>,
             gen \in {"begin", "add"}, gen' = "check"
      PROVE  BytesInv'
  <2>1. Counted' = Counted
    BY <1>7, CountedGrows
  <2>2. Len(conns') >= Len(conns)
    BY <1>7 DEF WithFlows, NewConnection, GeneratorInv, Shape
  <2>3. Delivered' = Delivered /\ InFlight' = 0 /\ InFlight = 0
    BY <1>3, <1>7 DEF InFlight
  <2>4. next' <= Len(conns') + 1
    BY <1>2, <1>7, <2>2 DEF GeneratorInv, Shape
  <2> QED
    BY <1>1, <1>7, <2>1, <2>3, <2>4 DEF BytesInv, EveryByteReportedOnce
<1>8. CASE Begin
  <2>1. conns = << >>
    BY <1>8 DEF Begin, GeneratorInv, Shape, FewConnections
  <2> QED
    BY <1>7, <1>8, <2>1, FlowsAssumption DEF Begin
<1>9. CASE AddFlows
  <2>1. CASE conns' = conns
    BY <1>5, <1>9, <2>1 DEF AddFlows, InFlight
  <2>2. CASE conns' = WithFlows(Additive)
    BY <1>7, <1>9, <2>2, FlowsAssumption DEF AddFlows
  <2> QED
    BY <1>9, <2>1, <2>2 DEF AddFlows
<1>10. CASE CheckOperator
  BY <1>5, <1>10 DEF CheckOperator, InFlight
<1>11. CASE GiveUp
  <2>1. UNCHANGED <<conns, next, sample, coordinator, received, moved>> /\ gen = "scan"
        /\ gen' = "ended" /\ sample.active = 0
    BY <1>11 DEF GiveUp
  <2>2. sample.total = 0
    BY <2>1 DEF BytesInv
  <2>3. InFlight' = InFlight
    BY <2>1, <2>2 DEF InFlight
  <2> QED
    BY <1>5, <2>1, <2>3
<1>12. CASE Wake
  <2>1. CASE OperatorLive
    <3>1. /\ sample' = [total |-> 0, active |-> 0, connections |-> Len(conns)]
          /\ gen = "sleep" /\ gen' = "scan" /\ next' = 1
          /\ UNCHANGED <<conns, coordinator, received, moved>>
      BY <1>12, <2>1 DEF Wake, EmptySample
    <3>2. Delivered' = Delivered /\ Counted' = Counted /\ InFlight = 0 /\ InFlight' = 0
      BY <1>3, <1>4, <3>1 DEF InFlight
    <3>3. sample' \in Points
      BY <1>2, <3>1
    <3> QED
      BY <1>1, <1>2, <3>1, <3>2, <3>3 DEF BytesInv, EveryByteReportedOnce
  <2>2. CASE ~OperatorLive
    <3>1. /\ sample' = [total |-> 0, active |-> 0, connections |-> Len(conns)]
          /\ gen = "sleep" /\ gen' = "ended" /\ next' = 1
          /\ UNCHANGED <<conns, coordinator, received, moved>>
      BY <1>12, <2>2 DEF Wake, EmptySample
    <3>2. Delivered' = Delivered /\ Counted' = Counted /\ InFlight = 0 /\ InFlight' = 0
      BY <1>3, <1>4, <3>1 DEF InFlight
    <3>3. sample' \in Points
      BY <1>2, <3>1
    <3> QED
      BY <1>1, <1>2, <3>1, <3>2, <3>3 DEF BytesInv, EveryByteReportedOnce
  <2> QED
    BY <2>1, <2>2
<1>13. CASE PassOver \/ SeeRunning
  <2>1. CASE PassOver
    <3>1. /\ gen = "scan" /\ gen' = "scan" /\ next \in DOMAIN conns /\ next' = next + 1
          /\ UNCHANGED <<conns, sample, coordinator, received, moved>>
      BY <2>1 DEF PassOver, GeneratorInv, Shape
    <3>2. Delivered' = Delivered /\ Counted' = Counted /\ InFlight' = InFlight
      BY <1>3, <1>4, <3>1 DEF InFlight
    <3>3. next' <= Len(conns') + 1 /\ sample'.active < next'
      BY <1>2, <3>1 DEF BytesInv, GeneratorInv, Shape
    <3> QED
      BY <3>1, <3>2, <3>3 DEF BytesInv, EveryByteReportedOnce
  <2>2. CASE SeeRunning
    BY <1>5, <2>2 DEF SeeRunning, InFlight
  <2> QED
    BY <1>13, <2>1, <2>2
<1>14. CASE CollectOne
  <2>1. /\ gen = "collect" /\ gen' = "scan" /\ next \in DOMAIN conns /\ next' = next + 1
        /\ UNCHANGED <<coordinator, received, moved>> /\ InFlight = sample.total
        /\ Collect(next)
    BY <1>14 DEF CollectOne, GeneratorInv, Shape, InFlight
  <2> DEFINE k == [conns[next] EXCEPT !.counter = 0]
  <2>2. conns[next] \in Connections
    BY <2>1 DEF GeneratorInv, Shape
  <2>3. k \in Connections /\ k.counter = 0 /\ conns[next].counter \in Nat
    <3>1. conns[next].counter \in Nat
      BY <2>2 DEF Connections
    <3> HIDE DEF Connections
    <3> QED
      BY <2>2, <3>1, CounterChanged
  <2>4. conns' = [conns EXCEPT ![next] = k]
    BY <2>1, Zenon DEF Collect
  <2> HIDE DEF k
  <2>5. Counted' \in Nat /\ Counted' + conns[next].counter = Counted
    <3>1. Counted' \in Nat /\ Counted' + conns[next].counter = Counted + k.counter
      BY <2>1, <2>3, <2>4, CountedChanges
    <3> QED
      BY <1>1, <2>3, <3>1
  <2>6. /\ sample'.total = sample.total + conns[next].counter
        /\ sample'.active = sample.active + 1
        /\ sample'.connections = sample.connections
        /\ sample' = [total |-> sample.total + conns[next].counter,
                      active |-> sample.active + 1, connections |-> sample.connections]
    BY <1>2, <2>1 DEF Collect
  <2>7. Delivered' = Delivered /\ InFlight' = sample'.total /\ Len(conns') = Len(conns)
    BY <1>3, <2>1, <2>4 DEF InFlight, GeneratorInv, Shape
  <2>8. Delivered' + InFlight' + Counted' = moved' /\ sample'.total <= MaxBytes
    <3>1. sample'.total = sample.total + conns[next].counter
      BY <2>6
    <3> QED
      <4>1. sample.total = InFlight /\ sample.total \in Nat /\ conns[next].counter \in Nat
        BY <1>2, <2>1, <2>3
      <4>2. InFlight' = InFlight + conns[next].counter
        BY <2>7, <3>1, <4>1
      <4>3. Delivered + (InFlight + conns[next].counter) + Counted' = moved
        BY <1>1, <2>5, <4>1
      <4>4. Delivered' + InFlight' + Counted' = moved'
        BY <2>1, <2>7, <4>2, <4>3, Zenon
      <4>5. InFlight + conns[next].counter <= moved
        BY <1>1, <2>5, <4>1, <4>3
      <4>6. sample'.total <= MaxBytes
        BY <1>2, <3>1, <4>1, <4>5
      <4> QED
        BY <4>4, <4>6
  <2>9. next \in Nat /\ next <= Len(conns) /\ sample.active < next
    BY <2>1 DEF BytesInv, GeneratorInv, Shape
  <2>10. sample' \in Points
    <3>1. sample'.total \in 0 .. MaxBytes /\ sample'.active \in 0 .. Mnp
          /\ sample'.connections \in 0 .. Mnp
      BY <1>2, <2>3, <2>6, <2>8, <2>9
    <3> QED
      BY <2>6, <3>1
  <2> QED
    BY <1>2, <2>1, <2>6, <2>7, <2>8, <2>9, <2>10 DEF BytesInv, EveryByteReportedOnce
<1>15. CASE TakeBucket
  BY <1>5, <1>15 DEF TakeBucket, InFlight
<1>16. CASE ReceiveReserve
  <2> DEFINE m == [type |-> "Reserve", bucket |-> bucket]
  <2>1. m \in Message /\ m.type = "Reserve"
    BY <1>16 DEF Message, StreamInv
  <2>2. received' = Append(received, m)
    BY <1>16 DEF ReceiveReserve
  <2> HIDE DEF m
  <2>3. Delivered' = Delivered
    BY <2>1, <2>2, DeliveredGrows
  <2>4. Counted' = Counted /\ InFlight' = InFlight
    BY <1>4, <1>16 DEF ReceiveReserve, InFlight
  <2> QED
    BY <1>1, <1>16, <2>3, <2>4 DEF ReceiveReserve, BytesInv, EveryByteReportedOnce
<1>17. CASE ReceiveMeasure
  <2> DEFINE m == [type |-> "Measure", bucket |-> bucket, point |-> sample]
  <2>1. m \in Message /\ m.type = "Measure" /\ m.point = sample
    BY <1>17 DEF Message, StreamInv
  <2>2. received' = Append(received, m)
    BY <1>17 DEF ReceiveMeasure
  <2> HIDE DEF m
  <2>3. Delivered' = Delivered + sample.total
    BY <2>1, <2>2, DeliveredGrows
  <2>4. Counted' = Counted /\ InFlight = sample.total /\ InFlight' = 0
    BY <1>4, <1>17 DEF ReceiveMeasure, InFlight
  <2>5. Delivered' + InFlight' + Counted' = moved
    BY <1>1, <1>2, <2>3, <2>4
  <2> QED
    BY <1>17, <2>5 DEF ReceiveMeasure, BytesInv, EveryByteReportedOnce
<1>18. CASE LeaveLoops \/ CancelOperator \/ CancelNetwork
  <2>1. /\ UNCHANGED <<gen, conns, next, sample, received, moved>>
        /\ coordinator' \in {"left", "operatorCancelled", "allCancelled"}
    BY <1>18 DEF LeaveLoops, CancelOperator, CancelNetwork, Step
  <2>2. Delivered' = Delivered /\ Counted' = Counted /\ InFlight' = InFlight
    BY <1>3, <1>4, <2>1 DEF InFlight
  <2> QED
    BY <2>1, <2>2 DEF BytesInv, EveryByteReportedOnce
<1>19. CASE UNCHANGED vars
  <2>1. UNCHANGED <<gen, conns, next, sample, coordinator, received, moved>>
    BY <1>19 DEF vars
  <2>2. Delivered' = Delivered /\ Counted' = Counted /\ InFlight' = InFlight
    BY <1>3, <1>4, <2>1 DEF InFlight
  <2> QED
    BY <2>1, <2>2 DEF BytesInv, EveryByteReportedOnce
<1> QED
  BY <1>6, <1>8, <1>9, <1>10, <1>11, <1>12, <1>13, <1>14, <1>15, <1>16, <1>17, <1>18, <1>19
     DEF Next, Generator

\* The three invariants hold in every state.
LEMMA BytesInvariance == Spec => [](GeneratorInv /\ StreamInv /\ BytesInv)
<1>1. Init => StreamInv /\ BytesInv
  BY StreamInit, BytesInit
<1>2. GeneratorInv /\ GeneratorInv' /\ StreamInv /\ BytesInv /\ [Next]_vars
        => StreamInv' /\ BytesInv'
  BY StreamStep, BytesStep
<1> QED
  BY <1>1, <1>2, Invariance, PTL DEF Spec

\* Every byte a connection counted is reported exactly once, or still to be
\* reported, however the reads interleave with the scan of the connections.
THEOREM BytesReportedOnce == Spec => []EveryByteReportedOnce
<1>1. BytesInv => EveryByteReportedOnce
  BY DEF BytesInv
<1> QED
  BY <1>1, BytesInvariance, PTL

\* The types follow from the accounting: no counter and no sample can hold more
\* than was read.
THEOREM TypeCorrect == Spec => []TypeOK
<1>1. GeneratorInv /\ StreamInv /\ BytesInv => TypeOK
  <2> SUFFICES ASSUME GeneratorInv, StreamInv, BytesInv PROVE TypeOK
    OBVIOUS
  <2>1. \A c \in DOMAIN conns : conns[c].counter <= Counted
    <3>1. \A c \in DOMAIN conns : Counters[c] <= Counted
      BY SumsAreProper, SumBounds
    <3> QED
      BY <3>1 DEF Counters
  <2>2. Delivered \in Nat /\ Counted \in Nat /\ InFlight \in Nat
    BY SumsAreProper, SumBounds DEF InFlight, StreamInv
  <2>3. Counted <= MaxBytes
    BY <2>2, BoundsAssumption DEF BytesInv, EveryByteReportedOnce
  <2>4. \A c \in DOMAIN conns : conns[c] \in Connections
    BY DEF GeneratorInv, Shape
  <2>5. \A c \in DOMAIN conns : conns[c].counter \in 0 .. MaxBytes
    <3> SUFFICES ASSUME NEW c \in DOMAIN conns PROVE conns[c].counter \in 0 .. MaxBytes
      OBVIOUS
    <3>1. conns[c].counter \in Nat
      BY <2>4 DEF Connections
    <3> QED
      BY <2>1, <2>2, <2>3, <3>1, BoundsAssumption
  <2> DEFINE Bounded == [status : {"NOT_STARTED", "RUNNING", "DONE", "ERROR"},
                         counter : 0 .. MaxBytes,
                         task : {"request", "copy", "read", "finish", "ended"},
                         reader : {"idle", "mark", "count", "stopped"}]
  <2>6. \A c \in DOMAIN conns : conns[c] \in Bounded
    BY <2>4, <2>5 DEF Connections
  <2>7. conns \in Seq(Bounded)
    <3> HIDE DEF Bounded
    <3> QED
      BY <2>6 DEF GeneratorInv, Shape
  <2>8. next \in 1 .. Len(conns) + 1
    BY DEF GeneratorInv, Shape, BytesInv
  <2> QED
    BY <2>7, <2>8 DEF TypeOK, GeneratorInv, Shape, StreamInv, BytesInv
<1> QED
  BY <1>1, BytesInvariance, PTL
-----------------------------------------------------------------------------
(* Waiting for the start of a connection: StatusWait, for any number of    *)
(* waiters and of Reads that find the byte counter at 0.                   *)
(*                                                                         *)
(* That a waiter returns TRUE of a started connection only follows from    *)
(* what it saw when it looked, under the mutex, and from the status never  *)
(* going back: both are part of the invariant.                             *)

\* The locals' types, the holder of the mutex apart.
WaitLocals ==
  /\ direction \in {"down", "up"}
  /\ status \in {"NOT_STARTED", "RUNNING", "DONE", "ERROR"}
  /\ worker \in {"new", "running", "locking", "holding", "ended"}
  /\ outcome \in {"NONE", "DONE", "ERROR"}
  /\ reader \in {"idle", "locking", "holding"}
  /\ reads \in 0 .. MaxReads
  /\ waiter \in [Waiters -> {"idle", "locking", "checking", "adding", "waiting",
                             "relocking", "leaving", "returned"}]
  /\ result \in [Waiters -> BOOLEAN]
  /\ signaler \in [Waiters -> {"none", "polling", "deciding", "gone"}]
  /\ cancelled \subseteq Waiters /\ missed \subseteq Waiters

HoldsMutex(w) == waiter[w] \in {"checking", "adding", "leaving", "returned"}

MutexInv ==
  /\ mutex \in Waiters \cup {"worker", "reader", Nobody}
  /\ mutex = "worker" <=> worker = "holding"
  /\ mutex = "reader" <=> reader = "holding"
  /\ \A w \in Waiters : mutex = w <=> HoldsMutex(w)

\* The status that is set in the end is one of a started connection.
OutcomeInv == worker \in {"locking", "holding", "ended"} => outcome \in {"DONE", "ERROR"}

ReturnInv ==
  \A w \in Waiters :
    /\ waiter[w] = "leaving" => Started \/ w \in cancelled
    /\ waiter[w] = "returned" => IF result[w] THEN Started ELSE w \in cancelled

WaitInv == WaitLocals /\ MutexInv /\ OutcomeInv /\ ReturnInv

-----------------------------------------------------------------------------
(* A broadcast, which everyone's local state is subject to.                *)

\* A broadcast keeps the types of the places.
LEMMA BroadcastTypes ==
  ASSUME WaitLocals, Broadcast
  PROVE  waiter' \in [Waiters -> {"idle", "locking", "checking", "adding", "waiting",
                                  "relocking", "leaving", "returned"}]
BY DEF WaitLocals, Broadcast

\* It leaves those alone who hold the mutex.
LEMMA BroadcastWakes ==
  ASSUME Broadcast, NEW w \in Waiters
  PROVE  /\ HoldsMutex(w)' <=> HoldsMutex(w)
         /\ waiter'[w] = "leaving" <=> waiter[w] = "leaving"
         /\ waiter'[w] = "returned" <=> waiter[w] = "returned"
BY DEF Broadcast, HoldsMutex

-----------------------------------------------------------------------------
\* The invariant holds initially.
LEMMA InitWaitInv == WaitInit => WaitInv
<1> SUFFICES ASSUME WaitInit PROVE WaitInv
  OBVIOUS
<1>1. WaitLocals
  BY StatusWaitAssumption DEF WaitInit, WaitLocals
<1>2. MutexInv
  BY StatusWaitAssumption DEF WaitInit, MutexInv, HoldsMutex
<1>3. OutcomeInv /\ ReturnInv
  BY DEF WaitInit, OutcomeInv, ReturnInv
<1> QED
  BY <1>1, <1>2, <1>3 DEF WaitInv

\* Every step preserves the types.
LEMMA NextWaitLocals ==
  WaitLocals /\ OutcomeInv /\ [WaitNext]_waitVars => WaitLocals'
<1> SUFFICES ASSUME WaitLocals, OutcomeInv, [WaitNext]_waitVars
             PROVE  WaitLocals'
  OBVIOUS
<1> USE StatusWaitAssumption
<1>1. CASE Start
  BY <1>1 DEF Start, WaitLocals, waiting
<1>2. CASE WorkerFinishes
  BY <1>2 DEF WorkerFinishes, WaitLocals, waiting
<1>3. CASE ReadFindsZero
  BY <1>3 DEF ReadFindsZero, WaitLocals, waiting
<1>4. CASE WorkerSetsStatus \/ ReaderSetsStatus
  BY <1>4 DEF WorkerSetsStatus, ReaderSetsStatus, WaitLocals, OutcomeInv, waiting
<1>5. CASE WorkerReleases \/ ReaderReleases
  <2>1. Broadcast
    BY <1>5 DEF WorkerReleases, ReaderReleases
  <2> QED
    BY <1>5, <2>1, BroadcastTypes DEF WorkerReleases, ReaderReleases, WaitLocals
<1>6. ASSUME NEW w \in Waiters, WaitUntilStarted(w) PROVE WaitLocals'
  BY <1>6 DEF WaitUntilStarted, WaitLocals, connection
<1>7. ASSUME NEW w \in Waiters, Waiter(w) PROVE WaitLocals'
  <2>1. CASE WaiterLocks(w)
    BY <2>1 DEF WaiterLocks, WaitLocals, connection
  <2>2. CASE WaiterChecks(w)
    BY <2>2 DEF WaiterChecks, WaitLocals, connection
  <2>3. CASE WaiterWaits(w)
    BY <2>3 DEF WaiterWaits, WaitLocals, connection
  <2>4. CASE WaiterReturns(w)
    BY <2>4 DEF WaiterReturns, WaitLocals, connection
  <2> QED
    BY <1>7, <2>1, <2>2, <2>3, <2>4 DEF Waiter
<1>8. ASSUME NEW w \in Waiters, SignalerSees(w) PROVE WaitLocals'
  BY <1>8 DEF SignalerSees, WaitLocals, connection, waiting
<1>9. ASSUME NEW w \in Waiters, SignalerDecides(w) PROVE WaitLocals'
  <2>1. waiter' \in [Waiters -> {"idle", "locking", "checking", "adding", "waiting",
                                 "relocking", "leaving", "returned"}]
    BY <1>9, BroadcastTypes DEF SignalerDecides, WaitLocals
  <2> QED
    BY <1>9, <2>1 DEF SignalerDecides, WaitLocals, connection
<1>10. ASSUME NEW w \in Waiters, Cancel(w) PROVE WaitLocals'
  BY <1>10 DEF Cancel, WaitLocals, connection, waiting
<1>11. CASE UNCHANGED waitVars
  BY <1>11 DEF waitVars, WaitLocals, connection, waiting
<1> QED
  BY <1>1, <1>2, <1>3, <1>4, <1>5, <1>6, <1>7, <1>8, <1>9, <1>10, <1>11
     DEF WaitNext, Setters, Signaler

\* Every step preserves mutual exclusion.
LEMMA NextMutexInv ==
  WaitLocals /\ MutexInv /\ [WaitNext]_waitVars => MutexInv'
<1> SUFFICES ASSUME WaitLocals, MutexInv, [WaitNext]_waitVars PROVE MutexInv'
  OBVIOUS
<1> USE StatusWaitAssumption DEF MutexInv
<1>1. CASE Start \/ WorkerFinishes \/ ReadFindsZero
  BY <1>1 DEF Start, WorkerFinishes, ReadFindsZero, waiting, HoldsMutex
<1>2. CASE WorkerSetsStatus \/ ReaderSetsStatus
  BY <1>2 DEF WorkerSetsStatus, ReaderSetsStatus, Lock, waiting, HoldsMutex
<1>3. CASE WorkerReleases \/ ReaderReleases
  <2>1. \A w \in Waiters : HoldsMutex(w)' <=> HoldsMutex(w)
    BY <1>3, BroadcastWakes DEF WorkerReleases, ReaderReleases
  <2> QED
    BY <1>3, <2>1 DEF WorkerReleases, ReaderReleases, Unlock
<1>4. ASSUME NEW w \in Waiters, WaitUntilStarted(w) \/ WaiterLocks(w)
      PROVE MutexInv'
  BY <1>4 DEF WaitUntilStarted, WaiterLocks, Lock, WaitLocals, connection,
     HoldsMutex
<1>5. ASSUME NEW w \in Waiters, WaiterChecks(w) \/ WaiterReturns(w)
      PROVE MutexInv'
  BY <1>5 DEF WaiterChecks, WaiterReturns, WaitLocals, connection, HoldsMutex
<1>6. ASSUME NEW w \in Waiters, WaiterWaits(w) PROVE MutexInv'
  BY <1>6 DEF WaiterWaits, Unlock, WaitLocals, connection, HoldsMutex
<1>7. ASSUME NEW w \in Waiters, SignalerSees(w) \/ Cancel(w) PROVE MutexInv'
  BY <1>7 DEF SignalerSees, Cancel, connection, waiting, HoldsMutex
<1>8. ASSUME NEW w \in Waiters, SignalerDecides(w) PROVE MutexInv'
  <2>1. \A v \in Waiters : HoldsMutex(v)' <=> HoldsMutex(v)
    BY <1>8, BroadcastWakes DEF SignalerDecides, HoldsMutex
  <2> QED
    BY <1>8, <2>1 DEF SignalerDecides, connection
<1>9. CASE UNCHANGED waitVars
  BY <1>9 DEF waitVars, connection, waiting, HoldsMutex
<1> QED
  BY <1>1, <1>2, <1>3, <1>4, <1>5, <1>6, <1>7, <1>8, <1>9
     DEF WaitNext, Setters, Waiter, Signaler

\* Every step preserves what is known of the status.
LEMMA NextOutcomeInv == WaitLocals /\ OutcomeInv /\ [WaitNext]_waitVars => OutcomeInv'
<1> SUFFICES ASSUME WaitLocals, OutcomeInv, [WaitNext]_waitVars PROVE OutcomeInv'
  OBVIOUS
<1> USE DEF OutcomeInv, WaitLocals
<1>1. CASE Start \/ ReadFindsZero
  BY <1>1 DEF Start, ReadFindsZero
<1>2. CASE WorkerFinishes
  BY <1>2 DEF WorkerFinishes
<1>3. CASE Setters
  BY <1>3 DEF Setters, WorkerSetsStatus, WorkerReleases, ReaderSetsStatus,
     ReaderReleases
<1>4. ASSUME NEW w \in Waiters,
             \/ WaitUntilStarted(w) \/ Waiter(w)
             \/ Signaler(w) \/ Cancel(w)
      PROVE OutcomeInv'
  BY <1>4 DEF WaitUntilStarted, Waiter, WaiterLocks, WaiterChecks,
     WaiterWaits, WaiterReturns,
     Signaler, SignalerSees, SignalerDecides, Cancel, connection
<1>5. CASE UNCHANGED waitVars
  BY <1>5 DEF waitVars, connection
<1> QED
  BY <1>1, <1>2, <1>3, <1>4, <1>5 DEF WaitNext

\* Every status that is set is one of a started connection.
LEMMA StartedStays ==
  WaitLocals /\ OutcomeInv /\ [WaitNext]_waitVars => (Started => Started')
<1> SUFFICES ASSUME WaitLocals, OutcomeInv, [WaitNext]_waitVars, Started
             PROVE  Started'
  OBVIOUS
<1> USE DEF Started
<1>1. CASE Start \/ ReadFindsZero \/ WorkerFinishes
  BY <1>1 DEF Start, ReadFindsZero, WorkerFinishes
<1>2. CASE Setters
  BY <1>2 DEF Setters, WorkerSetsStatus, WorkerReleases, ReaderSetsStatus,
     ReaderReleases,
     OutcomeInv
<1>3. ASSUME NEW w \in Waiters,
             \/ WaitUntilStarted(w) \/ Waiter(w)
             \/ Signaler(w) \/ Cancel(w)
      PROVE Started'
  BY <1>3 DEF WaitUntilStarted, Waiter, WaiterLocks, WaiterChecks,
     WaiterWaits, WaiterReturns,
     Signaler, SignalerSees, SignalerDecides, Cancel
<1>4. CASE UNCHANGED waitVars
  BY <1>4 DEF waitVars
<1> QED
  BY <1>1, <1>2, <1>3, <1>4 DEF WaitNext

\* The steps after which nobody is about to return who was not before.
LEMMA ReturnUntouched ==
  ASSUME ReturnInv, Started => Started',
         cancelled \subseteq cancelled', result' = result,
         \A w \in Waiters : /\ waiter'[w] = "leaving" => waiter[w] = "leaving"
                            /\ waiter'[w] = "returned" => waiter[w] = "returned"
  PROVE  ReturnInv'
BY DEF ReturnInv

\* Every step preserves what is known of a return.
LEMMA NextReturnInv == WaitInv /\ [WaitNext]_waitVars => ReturnInv'
<1> SUFFICES ASSUME WaitInv, [WaitNext]_waitVars PROVE ReturnInv'
  OBVIOUS
<1>1. Started => Started'
  BY StartedStays DEF WaitInv
<1>2. WaitLocals /\ ReturnInv
  BY DEF WaitInv
<1> HIDE DEF WaitInv
<1>3. CASE \/ Start \/ WorkerFinishes \/ ReadFindsZero
           \/ WorkerSetsStatus \/ ReaderSetsStatus
  BY <1>1, <1>2, <1>3, ReturnUntouched DEF Start, WorkerFinishes, ReadFindsZero,
     WorkerSetsStatus, ReaderSetsStatus, waiting
<1>4. CASE WorkerReleases \/ ReaderReleases
  BY <1>1, <1>2, <1>4, ReturnUntouched, BroadcastWakes DEF WorkerReleases,
     ReaderReleases
<1>5. ASSUME NEW w \in Waiters,
             WaitUntilStarted(w) \/ WaiterLocks(w) \/ WaiterWaits(w)
      PROVE ReturnInv'
  BY <1>1, <1>2, <1>5, ReturnUntouched DEF WaitUntilStarted, WaiterLocks,
     WaiterWaits, WaitLocals
<1>6. ASSUME NEW w \in Waiters, WaiterChecks(w) PROVE ReturnInv'
  <2>1. UNCHANGED <<status, cancelled, result>>
    BY <1>6 DEF WaiterChecks, waiting
  <2>2. \A v \in Waiters : v # w => waiter'[v] = waiter[v]
    BY <1>2, <1>6 DEF WaiterChecks, WaitLocals
  <2>3. /\ waiter'[w] # "returned"
        /\ waiter'[w] = "leaving" => Started \/ w \in cancelled
    BY <1>2, <1>6 DEF WaiterChecks, WaitLocals
  <2> QED
    BY <1>2, <2>1, <2>2, <2>3 DEF ReturnInv, Started
<1>7. ASSUME NEW w \in Waiters, WaiterReturns(w) PROVE ReturnInv'
  <2>1. UNCHANGED <<status, cancelled>> /\ waiter[w] = "leaving"
    BY <1>7 DEF WaiterReturns
  <2>2. \A v \in Waiters : v # w => waiter'[v] = waiter[v] /\ result'[v] = result[v]
    BY <1>2, <1>7 DEF WaiterReturns, WaitLocals
  <2>3. waiter'[w] = "returned" /\ result'[w] = (w \notin cancelled)
    BY <1>2, <1>7 DEF WaiterReturns, WaitLocals
  <2>4. Started \/ w \in cancelled
    BY <1>2, <2>1 DEF ReturnInv
  <2> QED
    BY <1>2, <2>1, <2>2, <2>3, <2>4 DEF ReturnInv, Started
<1>8. ASSUME NEW w \in Waiters, SignalerSees(w) \/ Cancel(w) PROVE ReturnInv'
  BY <1>1, <1>2, <1>8, ReturnUntouched DEF SignalerSees, Cancel, waiting
<1>9. ASSUME NEW w \in Waiters, SignalerDecides(w) PROVE ReturnInv'
  BY <1>1, <1>2, <1>9, ReturnUntouched, BroadcastWakes DEF SignalerDecides
<1>10. CASE UNCHANGED waitVars
  BY <1>1, <1>2, <1>10, ReturnUntouched DEF waitVars, waiting
<1> QED
  BY <1>3, <1>4, <1>5, <1>6, <1>7, <1>8, <1>9, <1>10 DEF WaitNext, Setters, Waiter,
     Signaler

-----------------------------------------------------------------------------
(* The theorems.                                                           *)

\* Every step preserves the invariant.
LEMMA NextWaitInv == WaitInv /\ [WaitNext]_waitVars => WaitInv'
  BY NextWaitLocals, NextMutexInv, NextOutcomeInv, NextReturnInv DEF WaitInv

\* The types, and that the mutex is with the one who thinks so -- also after
\* the return from the wait.
THEOREM WaitTypeCorrect == WaitSpec => []WaitTypeOK
<1>1. WaitInit => WaitInv
  BY InitWaitInv
<1>2. WaitInv /\ [WaitNext]_waitVars => WaitInv'
  BY NextWaitInv
<1>3. WaitInv => WaitTypeOK
  BY DEF WaitInv, WaitLocals, MutexInv, HoldsMutex, WaitTypeOK
<1> QED
  BY <1>1, <1>2, <1>3, PTL DEF WaitSpec

\* However many contexts wake a waiter, it reports a start only of a connection
\* that has started, and otherwise the end of its own context.
THEOREM WaitIsTruthful == WaitSpec => []TrueMeansStarted
<1>1. WaitInit => WaitInv
  BY InitWaitInv
<1>2. WaitInv /\ [WaitNext]_waitVars => WaitInv'
  BY NextWaitInv
<1>3. WaitInv => TrueMeansStarted
  BY DEF WaitInv, ReturnInv, TrueMeansStarted
<1> QED
  BY <1>1, <1>2, <1>3, PTL DEF WaitSpec
=============================================================================
