------------------------ MODULE ResponsivenessProber ------------------------
(***************************************************************************)
(* rpm.ResponsivenessProber (rpm/rpm.go): a driver goroutine that starts a *)
(* probe goroutine every probe interval until its context is cancelled,    *)
(* the probes, which run concurrently and may take any time, and the       *)
(* coordinator at the other end of the unbuffered channel dataPoints.      *)
(*                                                                         *)
(* A probe takes a bucket and announces it (SeriesMessageReserve), runs a  *)
(* foreign probe, picks a load-generating connection, runs a self probe on *)
(* it and reports both (SeriesMessageMeasure).  Both sends are made with   *)
(* dataPointsLock held, so a probe whose message nobody receives keeps the *)
(* lock.  A send on an unbuffered channel completes when it is received:   *)
(* ReceiveReserve and ReceiveMeasure are the two rendezvous.               *)
(***************************************************************************)
EXTENDS Naturals, Sequences, FiniteSets

CONSTANTS
  Probes,        \* the probe goroutines the driver may start
  Connections,   \* the load-generating connections of the collection
  MaxBucket,     \* bound: the generator stops at this bucket id
  Nobody         \* dataPointsLock is free / no connection chosen

ASSUME NobodyAssumption == Nobody \notin Probes /\ Nobody \notin Connections
ASSUME BucketAssumption == MaxBucket \in Nat /\ Cardinality(Probes) <= MaxBucket

VARIABLES
  driver,      \* the driver goroutine: "check", "sleep", "wait", "lock", "exited"
  pc,          \* per probe: where its goroutine is
  lock,        \* the probe that holds dataPointsLock, or Nobody
  open,        \* FALSE: dataPoints was closed and set to nil
  generator,   \* bucketGenerator's current value, shared with the load generators
  bucket,      \* per probe: currentBucketId, 0 before it is generated
  chosen,      \* per probe: selfProbeConnection
  selfPoint,   \* per probe: whether selfProbeDataPoint is not nil
  status,      \* per connection: its LgcStatus
  collection,  \* whether selfProbeConnectionCollection was given (it is nil
               \* when the baseline is measured)
  coordinator, \* the receiver: "receiving", "left", then what it has cancelled
  received,    \* history: the messages the coordinator received
  crashed      \* a goroutine panicked: the program is gone

vars == <<driver, pc, lock, open, generator, bucket, chosen, selfPoint, status,
          collection, coordinator, received, crashed>>

Statuses == {"NOT_STARTED", "RUNNING", "DONE", "ERROR"}

\* proberCtx.Err() = nil
ProberLive == coordinator \in {"receiving", "left", "networkCancelled"}

Init ==
  /\ driver = "check"
  /\ pc = [p \in Probes |-> "idle"]
  /\ lock = Nobody
  /\ open = TRUE
  /\ generator = 0
  /\ bucket = [p \in Probes |-> 0]
  /\ chosen = [p \in Probes |-> Nobody]
  /\ selfPoint = [p \in Probes |-> FALSE]
  /\ status \in [Connections -> {"NOT_STARTED", "RUNNING"}]
  /\ collection \in BOOLEAN
  /\ coordinator = "receiving"
  /\ received = << >>
  /\ crashed = FALSE

-----------------------------------------------------------------------------
(* The driver.                                                             *)

\* The loop condition and the check after the sleep.
DriverChecks ==
  /\ driver = "check"
  /\ driver' = IF ProberLive THEN "sleep" ELSE "wait"
  /\ UNCHANGED <<pc, lock, open, generator, bucket, chosen, selfPoint, status,
                 collection, coordinator, received, crashed>>

DriverStops ==
  /\ driver = "sleep"
  /\ ~ProberLive
  /\ driver' = "wait"
  /\ UNCHANGED <<pc, lock, open, generator, bucket, chosen, selfPoint, status,
                 collection, coordinator, received, crashed>>

\* wg.Add(1) and the go statement.
Spawn(p) ==
  /\ driver = "sleep"
  /\ ProberLive
  /\ pc[p] = "idle"
  /\ driver' = "check"
  /\ pc' = [pc EXCEPT ![p] = "begin"]
  /\ UNCHANGED <<lock, open, generator, bucket, chosen, selfPoint, status,
                 collection, coordinator, received, crashed>>

AllProbesDone == \A p \in Probes : pc[p] \in {"idle", "done"}

\* OrTimeout(wg.Wait, 2 s): either the probes are done or the time is up.
\* (Two actions, so that fairness can speak of the timer alone.)
ProbesFinish ==
  /\ driver = "wait"
  /\ AllProbesDone
  /\ driver' = "lock"
  /\ UNCHANGED <<pc, lock, open, generator, bucket, chosen, selfPoint, status,
                 collection, coordinator, received, crashed>>

\* Mutant: wg.Wait without a time limit.
WaitTimesOut_Never == FALSE /\ UNCHANGED vars

WaitTimesOut ==
  /\ driver = "wait"
  /\ ~AllProbesDone
  /\ driver' = "lock"
  /\ UNCHANGED <<pc, lock, open, generator, bucket, chosen, selfPoint, status,
                 collection, coordinator, received, crashed>>

\* Mutant: the channel is closed without taking the lock.
CloseChannel_Unlocked ==
  /\ driver = "lock"
  /\ driver' = "exited"
  /\ open' = FALSE
  /\ UNCHANGED <<pc, lock, generator, bucket, chosen, selfPoint, status,
                 collection, coordinator, received, crashed>>

\* Lock; close(dataPoints); dataPoints = nil; Unlock.
CloseChannel ==
  /\ driver = "lock"
  /\ lock = Nobody
  /\ driver' = "exited"
  /\ open' = FALSE
  /\ UNCHANGED <<pc, lock, generator, bucket, chosen, selfPoint, status,
                 collection, coordinator, received, crashed>>

-----------------------------------------------------------------------------
(* A probe.                                                                *)

\* Mutant: the reservation is sent before the bucket is generated.
BeginReserve_Early(p) ==
  /\ pc[p] = "begin"
  /\ lock = Nobody
  /\ IF open
     THEN pc' = [pc EXCEPT ![p] = "reserve"] /\ lock' = p
     ELSE pc' = [pc EXCEPT ![p] = "foreign"] /\ UNCHANGED lock
  /\ UNCHANGED <<driver, open, generator, bucket, chosen, selfPoint, status,
                 collection, coordinator, received, crashed>>

\* Lock, generate the bucket and, unless the channel is gone, start to send
\* the reservation with the lock still held.
BeginReserve(p) ==
  /\ pc[p] = "begin"
  /\ lock = Nobody
  /\ generator < MaxBucket
  /\ generator' = generator + 1
  /\ bucket' = [bucket EXCEPT ![p] = generator + 1]
  /\ IF open
     THEN pc' = [pc EXCEPT ![p] = "reserve"] /\ lock' = p
     ELSE pc' = [pc EXCEPT ![p] = "foreign"] /\ UNCHANGED lock
  /\ UNCHANGED <<driver, open, chosen, selfPoint, status, collection, coordinator,
                 received, crashed>>

\* Mutant: the lock is not released after the reservation.
ReceiveReserve_KeepsLock(p) ==
  /\ pc[p] = "reserve"
  /\ coordinator = "receiving"
  /\ received' = Append(received, [type |-> "Reserve", bucket |-> bucket[p]])
  /\ pc' = [pc EXCEPT ![p] = "foreign"]
  /\ UNCHANGED <<driver, lock, open, generator, bucket, chosen, selfPoint, status,
                 collection, coordinator, crashed>>

ReceiveReserve(p) ==
  /\ pc[p] = "reserve"
  /\ open
  /\ coordinator = "receiving"
  /\ received' = Append(received, [type |-> "Reserve", bucket |-> bucket[p]])
  /\ pc' = [pc EXCEPT ![p] = "foreign"]
  /\ lock' = Nobody
  /\ UNCHANGED <<driver, open, generator, bucket, chosen, selfPoint, status, collection,
                 coordinator, crashed>>

\* probe.Probe in networkActivityCtx returns a data point ...
ForeignAnswered(p) ==
  /\ pc[p] = "foreign"
  /\ pc' = [pc EXCEPT ![p] = IF collection THEN "pick" ELSE "report"]
  /\ UNCHANGED <<driver, lock, open, generator, bucket, chosen, selfPoint, status,
                 collection, coordinator, received, crashed>>

\* ... or an error, at the latest when the context is cancelled.
ForeignFails(p) ==
  /\ pc[p] = "foreign"
  /\ pc' = [pc EXCEPT ![p] = "done"]
  /\ UNCHANGED <<driver, lock, open, generator, bucket, chosen, selfPoint, status,
                 collection, coordinator, received, crashed>>

\* GetRandom with the collection's lock held, which is what it returns an error
\* for otherwise.  The collection is not empty (an index modulo 0 would panic):
\* the prober of a direction starts after its throughput loop, and the load
\* generator adds its first connections before anything else.
PickConnection(p) ==
  /\ pc[p] = "pick"
  /\ \E c \in Connections : chosen' = [chosen EXCEPT ![p] = c]
  /\ pc' = [pc EXCEPT ![p] = "check"]
  /\ UNCHANGED <<driver, lock, open, generator, bucket, selfPoint, status, collection,
                 coordinator, received, crashed>>

\* Mutant: a connection that is not running skips the self probe only.
CheckRunning_Reports(p) ==
  /\ pc[p] = "check"
  /\ pc' = [pc EXCEPT ![p] =
              IF status[chosen[p]] = "RUNNING" THEN "start" ELSE "report"]
  /\ UNCHANGED <<driver, lock, open, generator, bucket, chosen, selfPoint, status,
                 collection, coordinator, received, crashed>>

\* The status is read with no lock held, before the self probe starts.
CheckRunning(p) ==
  /\ pc[p] = "check"
  /\ pc' = [pc EXCEPT ![p] =
              IF status[chosen[p]] = "RUNNING" THEN "start" ELSE "done"]
  /\ UNCHANGED <<driver, lock, open, generator, bucket, chosen, selfPoint, status,
                 collection, coordinator, received, crashed>>

StartSelf(p) ==
  /\ pc[p] = "start"
  /\ pc' = [pc EXCEPT ![p] = "self"]
  /\ UNCHANGED <<driver, lock, open, generator, bucket, chosen, selfPoint, status,
                 collection, coordinator, received, crashed>>

SelfAnswered(p) ==
  /\ pc[p] = "self"
  /\ pc' = [pc EXCEPT ![p] = "report"]
  /\ selfPoint' = [selfPoint EXCEPT ![p] = TRUE]
  /\ UNCHANGED <<driver, lock, open, generator, bucket, chosen, status,
                 collection, coordinator, received, crashed>>

SelfFails(p) ==
  /\ pc[p] = "self"
  /\ pc' = [pc EXCEPT ![p] = "done"]
  /\ UNCHANGED <<driver, lock, open, generator, bucket, chosen, selfPoint, status,
                 collection, coordinator, received, crashed>>

\* A self probe must reuse the connection it was given.  Whether the client
\* does so is up to the transport; if it dials a new one, Probe panics.
SelfPanics(p) ==
  /\ pc[p] = "self"
  /\ crashed' = TRUE
  /\ UNCHANGED <<driver, pc, lock, open, generator, bucket, chosen, selfPoint, status,
                 collection, coordinator, received>>

BeginReport(p) ==
  /\ pc[p] = "report"
  /\ lock = Nobody
  /\ IF open
     THEN pc' = [pc EXCEPT ![p] = "send"] /\ lock' = p
     ELSE pc' = [pc EXCEPT ![p] = "done"] /\ UNCHANGED lock
  /\ UNCHANGED <<driver, open, generator, bucket, chosen, selfPoint, status, collection,
                 coordinator, received, crashed>>

\* Mutant: the probe does not end after its report and sends it once more.
ReceiveMeasure_Again(p) ==
  /\ pc[p] = "send"
  /\ open
  /\ coordinator = "receiving"
  /\ received' = Append(received, [type |-> "Measure", bucket |-> bucket[p],
                                   self |-> selfPoint[p]])
  /\ pc' = [pc EXCEPT ![p] = "report"]
  /\ lock' = Nobody
  /\ UNCHANGED <<driver, open, generator, bucket, chosen, selfPoint, status, collection,
                 coordinator, crashed>>

\* The measurement holds both data points; the self one may be nil.
ReceiveMeasure(p) ==
  /\ pc[p] = "send"
  /\ open
  /\ coordinator = "receiving"
  /\ received' = Append(received, [type |-> "Measure", bucket |-> bucket[p],
                                   self |-> selfPoint[p]])
  /\ pc' = [pc EXCEPT ![p] = "done"]
  /\ lock' = Nobody
  /\ UNCHANGED <<driver, open, generator, bucket, chosen, selfPoint, status, collection,
                 coordinator, crashed>>

-----------------------------------------------------------------------------
(* Around the prober.                                                      *)

\* The load generators and the other direction use the same generator.
OthersGenerate ==
  /\ generator < MaxBucket
  /\ generator' = generator + 1
  /\ UNCHANGED <<driver, pc, lock, open, bucket, chosen, selfPoint, status, collection,
                 coordinator, received, crashed>>

\* A connection starts, ends or fails (lgc/download.go, lgc/upload.go).  One that
\* has ended may be marked RUNNING again: an upload whose body is read while Do
\* returns.  (LoadGenerator says when, here it may happen more than once.)
ConnectionChanges(c) ==
  /\ \/ status[c] # "RUNNING" /\ status' = [status EXCEPT ![c] = "RUNNING"]
     \/ status[c] \in {"NOT_STARTED", "RUNNING"}
          /\ \E s \in {"DONE", "ERROR"} : status' = [status EXCEPT ![c] = s]
  /\ UNCHANGED <<driver, pc, lock, open, generator, bucket, chosen, selfPoint,
                 collection, coordinator, received, crashed>>

\* The coordinator's loop ends (stable or out of time) and it receives no more.
LeaveLoop ==
  /\ coordinator = "receiving"
  /\ coordinator' = "left"
  /\ UNCHANGED <<driver, pc, lock, open, generator, bucket, chosen, selfPoint, status,
                 collection, received, crashed>>

\* Then it cancels the prober's context and, some time later, that of the
\* foreign probes; after the baseline in the other order.
Cancel(from, to) ==
  /\ coordinator = from
  /\ coordinator' = to
  /\ UNCHANGED <<driver, pc, lock, open, generator, bucket, chosen, selfPoint, status,
                 collection, received, crashed>>

CancelProber ==
  IF collection THEN Cancel("left", "proberCancelled")
                ELSE Cancel("networkCancelled", "allCancelled")

CancelNetwork ==
  IF collection THEN Cancel("proberCancelled", "allCancelled")
                ELSE Cancel("left", "networkCancelled")

Driver == DriverChecks \/ DriverStops \/ ProbesFinish \/ WaitTimesOut \/ CloseChannel

Probe(p) ==
  \/ BeginReserve(p) \/ ReceiveReserve(p)
  \/ ForeignAnswered(p) \/ ForeignFails(p)
  \/ PickConnection(p) \/ CheckRunning(p) \/ StartSelf(p)
  \/ SelfAnswered(p) \/ SelfFails(p) \/ SelfPanics(p)
  \/ BeginReport(p) \/ ReceiveMeasure(p)

Coordinator == LeaveLoop \/ CancelProber \/ CancelNetwork

Next ==
  /\ ~crashed
  /\ \/ Driver
     \/ \E p \in Probes : Spawn(p) \/ Probe(p)
     \/ \E c \in Connections : ConnectionChanges(c)
     \/ OthersGenerate
     \/ Coordinator

Spec == Init /\ [][Next]_vars

\* Goroutines that can run do run, the timer of OrTimeout fires, and a self
\* probe returns once its context is cancelled.  Nothing is assumed of the
\* network: a foreign probe may hang, a connection may stay as it is, and the
\* coordinator may receive for ever or never reach the last cancellation.
SelfReturns(p) == ~ProberLive /\ (SelfAnswered(p) \/ SelfFails(p) \/ SelfPanics(p))

Fairness ==
  /\ WF_vars(~crashed /\ Driver)
  /\ \A p \in Probes :
       /\ WF_vars(~crashed /\ (BeginReserve(p) \/ ReceiveReserve(p)))
       /\ WF_vars(~crashed /\ (PickConnection(p) \/ CheckRunning(p) \/ StartSelf(p)))
       /\ WF_vars(~crashed /\ SelfReturns(p))
       /\ WF_vars(~crashed /\ (BeginReport(p) \/ ReceiveMeasure(p)))

FairSpec == Spec /\ Fairness

-----------------------------------------------------------------------------
(* Properties *)

ProbePoints == {"idle", "begin", "reserve", "foreign", "pick", "check",
                "start", "self", "report", "send", "done"}

\* The locals of the driver and the probes, the channel and the lock.
TypeOK ==
  /\ driver \in {"check", "sleep", "wait", "lock", "exited"}
  /\ pc \in [Probes -> ProbePoints]
  /\ lock \in Probes \cup {Nobody}
  /\ open \in BOOLEAN /\ collection \in BOOLEAN /\ crashed \in BOOLEAN
  /\ generator \in 0 .. MaxBucket
  /\ bucket \in [Probes -> 0 .. MaxBucket]
  /\ chosen \in [Probes -> Connections \cup {Nobody}]
  /\ selfPoint \in [Probes -> BOOLEAN]
  /\ status \in [Connections -> Statuses]
  /\ coordinator \in {"receiving", "left", "proberCancelled", "networkCancelled",
                      "allCancelled"}
  /\ received \in
       Seq([type : {"Reserve"}, bucket : 1 .. MaxBucket]
           \cup [type : {"Measure"}, bucket : 1 .. MaxBucket, self : BOOLEAN])

\* A probe that is about to send holds the lock and the channel is open: no
\* probe, however late, sends on the channel the driver has closed (a panic).
Sending(p) == pc[p] \in {"reserve", "send"}
NeverSendsOnClosedChannel == \A p \in Probes : Sending(p) => open

\* The two requests the coordinator dereferences without a check: during a
\* direction every measurement has a self data point.
SelfPresentInDirections ==
  \A i \in DOMAIN received :
    received[i].type = "Measure" => received[i].self = collection

BucketsOfType(t) ==
  {received[i].bucket : i \in {j \in DOMAIN received : received[j].type = t}}

Stream == INSTANCE MeasurementStream
            WITH Buckets <- 1 .. MaxBucket,
                 reserved <- BucketsOfType("Reserve"),
                 measured <- BucketsOfType("Measure"),
                 messages <- Len(received)

\* However the probes interleave, the coordinator sees buckets reserved in
\* increasing order (the series refuse any other order), none of them twice, a
\* measurement only after its reservation, and at most one: each message that
\* it receives is counted, so a repeated one is not taken for a stutter.
ImplementsMeasurementStream == Stream!Spec

\* As long as the coordinator receives, a finished probe's result reaches it:
\* neither the lock nor the other probes' messages hold it back for ever.
ResultsAreDelivered ==
  \A p \in Probes :
    pc[p] = "report" ~> (pc[p] = "done" \/ coordinator # "receiving" \/ crashed)

\* Once its context is cancelled the prober closes its channel and exits, even
\* if a probe hangs in the network.  One thing only can prevent it: a probe
\* that is stuck in a send nobody will receive, and so keeps the lock.
StuckInSend == \E p \in Probes : Sending(p) /\ lock = p /\ coordinator # "receiving"
WindsDownUnlessStuck ==
  ~ProberLive ~> (driver = "exited" \/ StuckInSend \/ crashed)

\* "We only want to start a SelfUp probe on a connection that is in the
\* RUNNING state" (rpm/rpm.go): what the check is there for.
SelfProbesStartOnRunning ==
  [][\A p \in Probes :
       pc[p] = "start" /\ pc'[p] = "self" => status[chosen[p]] = "RUNNING"]_vars
=============================================================================
