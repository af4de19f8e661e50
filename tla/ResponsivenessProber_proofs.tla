-------------------- MODULE ResponsivenessProber_proofs --------------------
(***************************************************************************)
(* Proofs about ResponsivenessProber, for any number of probes and         *)
(* connections: type correctness, that no probe sends on the closed        *)
(* channel, that in a direction every measurement has a self part, and     *)
(* that what the coordinator receives is a MeasurementStream.              *)
(***************************************************************************)
EXTENDS ResponsivenessProber, TLAPS

Message == [type : {"Reserve"}, bucket : 1 .. MaxBucket]
             \cup [type : {"Measure"}, bucket : 1 .. MaxBucket, self : BOOLEAN]

\* A probe that has its bucket and is not done with it.
Active(p) == pc[p] \notin {"idle", "begin", "done"}

BucketTaken == \A p \in Probes : Active(p) => bucket[p] \in 1 .. MaxBucket

\* Who is in a send holds the lock, and the channel has not been closed: it is
\* closed with the lock held.
LockHeld == \A p \in Probes : Sending(p) => lock = p /\ open

\* A probe has its self data point exactly when it is about to report and the
\* prober was given a collection.
SelfPointTaken ==
  \A p \in Probes :
    /\ pc[p] \in {"report", "send"} => selfPoint[p] = collection
    /\ pc[p] \in {"pick", "check", "start", "self"} => collection
    /\ pc[p] \in {"idle", "begin", "reserve", "foreign"} => ~selfPoint[p]

\* The inductive invariant of the first three theorems.
ProberInv ==
  TypeOK /\ BucketTaken /\ LockHeld /\ SelfPointTaken /\ SelfPresentInDirections

-----------------------------------------------------------------------------

\* Initially no probe has been started.
LEMMA InitInv == Init => ProberInv
<1> SUFFICES ASSUME Init PROVE ProberInv
  OBVIOUS
<1> USE DEF Init
<1>1. TypeOK
  <2>1. received \in Seq([type : {"Reserve"}, bucket : 1 .. MaxBucket]
           \cup [type : {"Measure"}, bucket : 1 .. MaxBucket, self : BOOLEAN])
    OBVIOUS
  <2>2. generator \in 0 .. MaxBucket /\ bucket \in [Probes -> 0 .. MaxBucket]
    BY BucketAssumption
  <2>3. status \in [Connections -> Statuses]
    BY DEF Statuses
  <2>4. pc \in [Probes -> ProbePoints]
    BY DEF ProbePoints
  <2>5. chosen \in [Probes -> Connections \cup {Nobody}]
    OBVIOUS
  <2> QED
    BY <2>1, <2>2, <2>3, <2>4, <2>5 DEF TypeOK
<1>2. BucketTaken /\ LockHeld /\ SelfPointTaken
  BY DEF BucketTaken, Active, LockHeld, SelfPointTaken, Sending
<1>3. SelfPresentInDirections
  BY DEF SelfPresentInDirections
<1> QED
  BY <1>1, <1>2, <1>3 DEF ProberInv

\* A message received at the end is well typed and, if it is a measurement,
\* has a self part as long as every other one has.
LEMMA MessageReceived ==
  ASSUME NEW m \in Message, TypeOK, SelfPresentInDirections,
         received' = Append(received, m), UNCHANGED collection,
         m.type = "Measure" => m.self = collection
  PROVE  received' \in Seq(Message) /\ SelfPresentInDirections'
<1>1. received \in Seq(Message)
  BY DEF TypeOK, Message
<1>2. received' \in Seq(Message)
  BY <1>1
<1>3. ASSUME NEW i \in DOMAIN received', received'[i].type = "Measure"
      PROVE  received'[i].self = collection'
  <2>1. CASE i = Len(received) + 1
    BY <1>1, <1>3, <2>1
  <2>2. CASE i # Len(received) + 1
    <3>1. i \in DOMAIN received /\ received'[i] = received[i]
      BY <1>1, <2>2
    <3> QED
      BY <1>3, <3>1 DEF SelfPresentInDirections
  <2> QED
    BY <2>1, <2>2
<1> QED
  BY <1>2, <1>3 DEF SelfPresentInDirections

\* Every step preserves the invariant.
LEMMA StepInv == ProberInv /\ [Next]_vars => ProberInv'
<1> SUFFICES ASSUME ProberInv, [Next]_vars PROVE ProberInv'
  OBVIOUS
<1> USE DEF ProberInv, TypeOK, ProbePoints, Statuses, BucketTaken, Active, LockHeld,
            SelfPointTaken, SelfPresentInDirections, Sending
<1>1. CASE DriverChecks
  BY <1>1 DEF DriverChecks
<1>2. CASE DriverStops
  BY <1>2 DEF DriverStops
<1>3. CASE ProbesFinish
  BY <1>3 DEF ProbesFinish
<1>4. CASE WaitTimesOut
  BY <1>4 DEF WaitTimesOut
<1>5. CASE CloseChannel
  BY <1>5, NobodyAssumption DEF CloseChannel
<1>6. ASSUME NEW p \in Probes, Spawn(p) PROVE ProberInv'
  BY <1>6 DEF Spawn
<1>7. ASSUME NEW p \in Probes, BeginReserve(p) PROVE ProberInv'
  BY <1>7, NobodyAssumption, BucketAssumption DEF BeginReserve
<1>8. ASSUME NEW p \in Probes, ReceiveReserve(p) PROVE ProberInv'
  <2> DEFINE m == [type |-> "Reserve", bucket |-> bucket[p]]
  <2>1. m \in Message /\ (m.type = "Measure" => m.self = collection)
    BY <1>8 DEF ReceiveReserve, Message
  <2>2. received' \in Seq(Message) /\ SelfPresentInDirections'
    <3> HIDE DEF m
    <3>1. received' = Append(received, m) /\ UNCHANGED collection
      BY <1>8 DEF ReceiveReserve, m
    <3> QED
      BY <2>1, <3>1, MessageReceived
  <2> HIDE DEF m, SelfPresentInDirections
  <2>3. TypeOK'
    BY <1>8, <2>2 DEF ReceiveReserve, Message
  <2>4. BucketTaken' /\ LockHeld' /\ SelfPointTaken'
    BY <1>8, NobodyAssumption DEF ReceiveReserve
  <2> QED
    BY <2>2, <2>3, <2>4
<1>9. ASSUME NEW p \in Probes, ForeignAnswered(p) PROVE ProberInv'
  BY <1>9 DEF ForeignAnswered
<1>10. ASSUME NEW p \in Probes, ForeignFails(p) PROVE ProberInv'
  BY <1>10 DEF ForeignFails
<1>11. ASSUME NEW p \in Probes, PickConnection(p) PROVE ProberInv'
  BY <1>11 DEF PickConnection
<1>12. ASSUME NEW p \in Probes, CheckRunning(p) PROVE ProberInv'
  BY <1>12 DEF CheckRunning
<1>13. ASSUME NEW p \in Probes, StartSelf(p) PROVE ProberInv'
  BY <1>13 DEF StartSelf
<1>14. ASSUME NEW p \in Probes, SelfAnswered(p) PROVE ProberInv'
  BY <1>14 DEF SelfAnswered
<1>15. ASSUME NEW p \in Probes, SelfFails(p) PROVE ProberInv'
  BY <1>15 DEF SelfFails
<1>16. ASSUME NEW p \in Probes, SelfPanics(p) PROVE ProberInv'
  BY <1>16 DEF SelfPanics
<1>17. ASSUME NEW p \in Probes, BeginReport(p) PROVE ProberInv'
  <2>1. /\ pc[p] = "report" /\ lock = Nobody
        /\ pc' = [pc EXCEPT ![p] = IF open THEN "send" ELSE "done"]
        /\ lock' = IF open THEN p ELSE lock
        /\ UNCHANGED <<driver, open, generator, bucket, chosen, selfPoint, status,
                       collection, coordinator, received, crashed>>
    BY <1>17 DEF BeginReport
  <2>2. TypeOK'
    BY <2>1
  <2>3. BucketTaken' /\ SelfPointTaken'
    BY <2>1
  <2>4. LockHeld'
    BY <2>1, NobodyAssumption
  <2>5. SelfPresentInDirections'
    BY <2>1
  <2> QED
    BY <2>2, <2>3, <2>4, <2>5
<1>18. ASSUME NEW p \in Probes, ReceiveMeasure(p) PROVE ProberInv'
  <2> DEFINE m == [type |-> "Measure", bucket |-> bucket[p],
                 self |-> selfPoint[p]]
  <2>1. m \in Message /\ (m.type = "Measure" => m.self = collection)
    BY <1>18 DEF ReceiveMeasure, Message
  <2>2. received' \in Seq(Message) /\ SelfPresentInDirections'
    <3> HIDE DEF m
    <3>1. received' = Append(received, m) /\ UNCHANGED collection
      BY <1>18 DEF ReceiveMeasure, m
    <3> QED
      BY <2>1, <3>1, MessageReceived
  <2> HIDE DEF m, SelfPresentInDirections
  <2>3. TypeOK'
    BY <1>18, <2>2 DEF ReceiveMeasure, Message
  <2>4. BucketTaken' /\ LockHeld' /\ SelfPointTaken'
    BY <1>18, NobodyAssumption DEF ReceiveMeasure
  <2> QED
    BY <2>2, <2>3, <2>4
<1>19. CASE OthersGenerate
  BY <1>19, BucketAssumption DEF OthersGenerate
<1>20. ASSUME NEW c \in Connections, ConnectionChanges(c) PROVE ProberInv'
  BY <1>20 DEF ConnectionChanges
<1>21. CASE Coordinator
  BY <1>21 DEF Coordinator, LeaveLoop, CancelProber, CancelNetwork, Cancel
<1>22. CASE UNCHANGED vars
  BY <1>22 DEF vars
<1> QED
  BY <1>1, <1>2, <1>3, <1>4, <1>5, <1>6, <1>7, <1>8, <1>9, <1>10,
     <1>11, <1>12, <1>13, <1>14, <1>15, <1>16, <1>17, <1>18, <1>19, <1>20, <1>21, <1>22
  DEF Next, Driver, Probe

\* The invariant holds in every state.
LEMMA Invariance == Spec => []ProberInv
  BY InitInv, StepInv, PTL DEF Spec

\* Type correctness.
THEOREM TypeCorrect == Spec => []TypeOK
  BY Invariance, PTL DEF ProberInv

\* No probe is ever in a send on the channel the driver has closed, so none
\* panics there: the driver closes it with dataPointsLock held, and a probe
\* that is in a send holds that lock.
THEOREM ClosedChannelSafety == Spec => []NeverSendsOnClosedChannel
<1>1. ProberInv => NeverSendsOnClosedChannel
  BY DEF ProberInv, LockHeld, NeverSendsOnClosedChannel
<1> QED
  BY <1>1, Invariance, PTL

\* The coordinator may dereference the self data point of every measurement it
\* receives in a direction.
THEOREM SelfPresence == Spec => []SelfPresentInDirections
  BY Invariance, PTL DEF ProberInv

-----------------------------------------------------------------------------
(* The messages form a measurement stream.                                 *)

Reserved == BucketsOfType("Reserve")
Measured == BucketsOfType("Measure")

\* A probe that has announced its bucket, which it still has to measure.
Announced(p) == Active(p) /\ pc[p] # "reserve"

\* The generator is ahead of every bucket in use, buckets are not shared, the
\* one being announced is newer than all that were, and each bucket is
\* measured after it is announced, once.  With the channel gone, neither is.
StreamInv ==
  /\ \A b \in Reserved : b <= generator
  /\ Measured \subseteq Reserved
  /\ \A p \in Probes : bucket[p] <= generator
  /\ \A p, q \in Probes : p # q /\ Active(p) /\ Active(q) => bucket[p] # bucket[q]
  /\ \A p \in Probes : pc[p] = "reserve" => \A b \in Reserved : b < bucket[p]
  /\ \A p \in Probes : Announced(p) /\ open => bucket[p] \in Reserved \ Measured

\* Receiving a message adds its bucket to those of its type; it is one more.
LEMMA BucketReceived ==
  ASSUME TypeOK, NEW m \in Message, received' = Append(received, m)
  PROVE  /\ Len(received') = Len(received) + 1
         /\ m.type = "Reserve" => Reserved' = Reserved \cup {m.bucket} /\ Measured' = Measured
         /\ m.type = "Measure" => Measured' = Measured \cup {m.bucket} /\ Reserved' = Reserved
<1>1. received \in Seq(Message)
  BY DEF TypeOK, Message
<1>2. /\ Len(received') = Len(received) + 1
      /\ DOMAIN received' = DOMAIN received \cup {Len(received) + 1}
      /\ \A i \in DOMAIN received : received'[i] = received[i]
      /\ received'[Len(received) + 1] = m
  BY <1>1
<1> QED
  BY <1>2 DEF Reserved, Measured, BucketsOfType

\* Initially nothing has been received.
LEMMA StreamInit == Init => StreamInv /\ Stream!Init
  BY BucketAssumption DEF Init, StreamInv, Stream!Init, BucketsOfType, Reserved, Measured,
                          Active, Announced

\* A step that receives nothing keeps the invariant.
LEMMA StreamQuiet ==
  ASSUME ProberInv, ProberInv', StreamInv, Next, UNCHANGED received
  PROVE  StreamInv'
<1> USE DEF StreamInv, Active, Announced
<1>1. Reserved' = Reserved /\ Measured' = Measured /\ Reserved \subseteq Nat
  BY DEF Reserved, Measured, BucketsOfType, ProberInv, TypeOK
<1>2. ASSUME NEW p \in Probes, BeginReserve(p) PROVE StreamInv'
  BY <1>1, <1>2 DEF BeginReserve, ProberInv, TypeOK, ProbePoints
<1>3. ASSUME NEW p \in Probes,
             \/ Spawn(p) \/ ForeignAnswered(p) \/ ForeignFails(p)
             \/ PickConnection(p) \/ CheckRunning(p) \/ StartSelf(p)
             \/ SelfAnswered(p) \/ SelfFails(p) \/ SelfPanics(p) \/ BeginReport(p)
      PROVE  StreamInv'
  <2>1. /\ \A q \in Probes :
              /\ Active(q)' => Active(q)
              /\ Announced(q)' => Announced(q)
              /\ pc'[q] = "reserve" => pc[q] = "reserve"
        /\ UNCHANGED <<bucket, generator, open>>
    BY <1>3 DEF Spawn, ForeignAnswered, ForeignFails, PickConnection, CheckRunning,
      StartSelf, SelfAnswered, SelfFails, SelfPanics, BeginReport, ProberInv, TypeOK
  <2> HIDE DEF Active, Announced
  <2> QED
    BY <1>1, <2>1
<1>4. CASE OthersGenerate
  <2>1. /\ generator' = generator + 1 /\ generator \in Nat
        /\ \A p \in Probes : bucket[p] \in Nat
        /\ UNCHANGED <<pc, bucket, open>>
    BY <1>4, BucketAssumption DEF OthersGenerate, ProberInv, TypeOK
  <2>2. \A p \in Probes : (Active(p)' <=> Active(p)) /\ (Announced(p)' <=> Announced(p))
    BY <2>1
  <2>3. /\ \A b \in Reserved : b <= generator + 1
        /\ \A p \in Probes : bucket[p] <= generator + 1
    BY <1>1, <2>1
  <2> HIDE DEF Active, Announced
  <2> QED
    BY <1>1, <2>1, <2>2, <2>3
<1>5. CASE Driver
  <2>1. UNCHANGED <<pc, bucket, generator>> /\ (open' => open)
    BY <1>5 DEF Driver, DriverChecks, DriverStops, ProbesFinish, WaitTimesOut, CloseChannel
  <2> QED
    BY <1>1, <2>1
<1>6. ASSUME NEW c \in Connections, ConnectionChanges(c) PROVE StreamInv'
  BY <1>1, <1>6 DEF ConnectionChanges
<1>7. CASE Coordinator
  BY <1>1, <1>7 DEF Coordinator, LeaveLoop, CancelProber, CancelNetwork, Cancel
<1>8. ASSUME NEW p \in Probes, ReceiveReserve(p) \/ ReceiveMeasure(p) PROVE FALSE
  <2>1. PICK m \in Message : received' = Append(received, m)
    BY <1>8 DEF ReceiveReserve, ReceiveMeasure, ProberInv, TypeOK, BucketTaken, Active, Message
  <2>2. received \in Seq(Message)
    BY DEF ProberInv, TypeOK, Message
  <2> QED
    BY <2>1, <2>2
<1> QED
  BY <1>2, <1>3, <1>4, <1>5, <1>6, <1>7, <1>8 DEF Next, Probe

\* Every step is a step of the stream or leaves it as it is.
LEMMA StreamStep ==
  ASSUME ProberInv, ProberInv', StreamInv, [Next]_vars
  PROVE  StreamInv' /\ [Stream!Next]_(Stream!vars)
<1> USE DEF Stream!vars
<1>1. CASE UNCHANGED vars
  BY <1>1 DEF vars, StreamInv, Active, Announced, Reserved, Measured, BucketsOfType
<1>2. CASE Next /\ UNCHANGED received
  <2>1. UNCHANGED <<Reserved, Measured>>
    BY <1>2 DEF Reserved, Measured, BucketsOfType
  <2> QED
    BY <1>2, <2>1, StreamQuiet DEF Reserved, Measured
<1>3. ASSUME NEW p \in Probes, ReceiveReserve(p)
      PROVE  StreamInv' /\ Stream!Next
  <2> DEFINE m == [type |-> "Reserve", bucket |-> bucket[p]]
  <2>1. m \in Message /\ received' = Append(received, m)
    BY <1>3 DEF ReceiveReserve, ProberInv, BucketTaken, Active, Message
  <2>2. /\ Reserved' = Reserved \cup {bucket[p]} /\ Measured' = Measured
        /\ Len(received') = Len(received) + 1
    <3>1. m.type = "Reserve" /\ m.bucket = bucket[p]
      OBVIOUS
    <3> HIDE DEF m
    <3> QED
      BY <2>1, <3>1, BucketReceived DEF ProberInv
  <2>3. StreamInv'
    <3>1. /\ pc' = [pc EXCEPT ![p] = "foreign"] /\ pc[p] = "reserve"
          /\ UNCHANGED <<bucket, generator, open>>
      BY <1>3 DEF ReceiveReserve
    <3>2. \A q \in Probes : q # p => pc[q] # "reserve"
      BY <3>1 DEF ProberInv, LockHeld, Sending
    <3>3. bucket[p] \notin Reserved
      <4>1. bucket[p] \in Nat
        BY DEF ProberInv, TypeOK
      <4> QED
        BY <3>1, <4>1 DEF StreamInv
    <3>4. \A q \in Probes :
            /\ Active(q)' <=> Active(q)
            /\ Announced(q)' <=> Announced(q) \/ q = p
            /\ pc'[q] = "reserve" => pc[q] = "reserve" /\ q # p
      BY <3>1 DEF Active, Announced, ProberInv, TypeOK
    <3>5. bucket[p] \notin Measured /\ Active(p)
      BY <3>1, <3>3 DEF StreamInv, Active
    <3>6. generator \in Nat /\ \A q \in Probes : bucket[q] \in Nat
      BY DEF ProberInv, TypeOK
    <3>7. \A b \in Reserved' : b <= generator'
      BY <2>2, <3>1, <3>6 DEF StreamInv
    <3>8. \A q \in Probes : Announced(q)' /\ open' => bucket'[q] \in Reserved' \ Measured'
      BY <2>2, <3>1, <3>4, <3>5 DEF StreamInv
    <3> QED
      BY <2>2, <3>1, <3>2, <3>4, <3>7, <3>8 DEF StreamInv
  <2>4. Stream!Reserve(bucket[p])
    BY <1>3, <2>2 DEF ReceiveReserve, StreamInv, Stream!Reserve, Stream!MayReserve,
                      Reserved, Measured
  <2> QED
    BY <1>3, <2>3, <2>4 DEF Stream!Next, ReceiveReserve, ProberInv, BucketTaken, Active
<1>4. ASSUME NEW p \in Probes, ReceiveMeasure(p)
      PROVE  StreamInv' /\ Stream!Next
  <2> DEFINE m == [type |-> "Measure", bucket |-> bucket[p], self |-> selfPoint[p]]
  <2>1. m \in Message /\ received' = Append(received, m)
    BY <1>4 DEF ReceiveMeasure, ProberInv, TypeOK, BucketTaken, Active, Message
  <2>2. /\ Measured' = Measured \cup {bucket[p]} /\ Reserved' = Reserved
        /\ Len(received') = Len(received) + 1
    <3>1. m.type = "Measure" /\ m.bucket = bucket[p]
      OBVIOUS
    <3> HIDE DEF m
    <3> QED
      BY <2>1, <3>1, BucketReceived DEF ProberInv
  <2>3. bucket[p] \in Reserved \ Measured
    BY <1>4 DEF ReceiveMeasure, StreamInv, Active, Announced
  <2>4. StreamInv'
    BY <1>4, <2>2, <2>3 DEF ReceiveMeasure, StreamInv, Active, Announced, ProberInv, TypeOK,
                            ProbePoints
  <2>5. Stream!Measure(bucket[p])
    BY <2>2, <2>3 DEF Stream!Measure, Stream!MayMeasure, Reserved, Measured
  <2> QED
    BY <1>4, <2>4, <2>5 DEF Stream!Next, ReceiveMeasure, ProberInv, BucketTaken, Active
<1> QED
  <2>1. ASSUME Next
        PROVE  \/ UNCHANGED received
               \/ \E p \in Probes : ReceiveReserve(p) \/ ReceiveMeasure(p)
    BY <2>1 DEF Next, Driver, Probe, Coordinator, DriverChecks, DriverStops, ProbesFinish,
      WaitTimesOut, CloseChannel, Spawn, BeginReserve, ForeignAnswered, ForeignFails,
      PickConnection, CheckRunning, StartSelf, SelfAnswered, SelfFails, SelfPanics, BeginReport,
      OthersGenerate, ConnectionChanges, LeaveLoop, CancelProber, CancelNetwork, Cancel
  <2> QED
    BY <1>1, <1>2, <1>3, <1>4, <2>1

\* However the probes interleave with each other, with the other users of the
\* bucket generator and with the end of the direction, the coordinator sees
\* buckets reserved in increasing order, once, and measured after that, once:
\* each message it receives is a step of the stream, and none is a repetition.
THEOREM ProberImplementsStream == Spec => ImplementsMeasurementStream
<1>1. Init => StreamInv /\ Stream!Init
  BY StreamInit
<1>2. ProberInv /\ ProberInv' /\ StreamInv /\ [Next]_vars
        => StreamInv' /\ [Stream!Next]_(Stream!vars)
  BY StreamStep
<1> QED
  BY <1>1, <1>2, Invariance, PTL DEF Spec, Stream!Spec, ImplementsMeasurementStream
=============================================================================
