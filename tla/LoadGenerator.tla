--------------------------- MODULE LoadGenerator ---------------------------
(***************************************************************************)
(* rpm.LoadGenerator (rpm/rpm.go) and the connections it opens             *)
(* (lgc/download.go, lgc/upload.go).  The generator wakes at every         *)
(* interval, collects what each running connection transferred since the   *)
(* last time, sends the total to the coordinator over an unbuffered        *)
(* channel and adds a connection.                                          *)
(*                                                                         *)
(* A download is one goroutine, which sends the request and then reads the *)
(* body.  An upload is two: the one that waits in client.Do (task) and the *)
(* transport's, which reads the request body and may go on doing so while  *)
(* and after Do returns (reader).                                          *)
(***************************************************************************)
EXTENDS Naturals, Sequences, FiniteSets, Functions

CONSTANTS
  Mnp,         \* maximum number of parallel connections
  Starting,    \* constants.StartingNumberOfLoadGeneratingConnections
  Additive,    \* constants.AdditiveNumberOfLoadGeneratingConnections
  MaxBytes,    \* bound: reads of one connection
  MaxBucket    \* bound: samples the generator takes

ASSUME MnpAssumption == Mnp \in Nat \ {0}
ASSUME FlowsAssumption == Starting \in 1 .. Mnp /\ Additive = 1
ASSUME BoundsAssumption == MaxBytes \in Nat /\ MaxBucket \in Nat

VARIABLES
  gen,         \* the generator goroutine's position
  conns,       \* the collection: a sequence of connections
  upload,      \* the direction of the connections
  next,        \* index of the connection to be looked at in the scan
  sample,      \* the data point being assembled
  bucket,      \* the bucket generator (and currentBucketId)
  coordinator, \* the receiver: "receiving", "left", "operatorCancelled", "allCancelled"
  received,    \* history: the messages received
  moved        \* history: reads counted, over all connections

vars == <<gen, conns, upload, next, sample, bucket, coordinator, received, moved>>

\* throughputCtx.Err() = nil, networkActivityCtx.Err() = nil
OperatorLive == coordinator \in {"receiving", "left"}
NetworkLive  == coordinator # "allCancelled"

Finished == {"DONE", "ERROR"}

\* A connection right after Start: doDownload or doUpload has been spawned.
NewConnection ==
  [status |-> "NOT_STARTED", counter |-> 0, task |-> "request", reader |-> "idle"]

EmptySample == [total |-> 0, active |-> 0, connections |-> 0]

Init ==
  /\ gen = "begin"
  /\ conns = << >>
  /\ upload \in BOOLEAN
  /\ next = 1
  /\ sample = EmptySample
  /\ bucket = 0
  /\ coordinator = "receiving"
  /\ received = << >>
  /\ moved = 0

-----------------------------------------------------------------------------
(* The connections.                                                        *)

ChangeConnection(c, k) ==
  /\ conns' = [conns EXCEPT ![c] = k]
  /\ UNCHANGED <<gen, upload, next, sample, bucket, coordinator, received>>

\* Mutant: the error path does not return.
RequestFails_GoesOn(c) ==
  /\ conns[c].task = "request"
  /\ ChangeConnection(c, [conns[c] EXCEPT !.status = "ERROR", !.task = "copy"])
  /\ UNCHANGED moved

\* client.Do fails (or, for a download, the response is compressed).
RequestFails(c) ==
  /\ conns[c].task = "request"
  /\ ChangeConnection(c, [conns[c] EXCEPT !.status = "ERROR", !.task = "ended"])
  /\ UNCHANGED moved

(* Download: doDownload after a good response, io.Copy calling Read. *)

ResponseArrives(c) ==
  /\ ~upload
  /\ conns[c].task = "request"
  /\ ChangeConnection(c, [conns[c] EXCEPT !.task = "copy"])
  /\ UNCHANGED moved

\* Read: end of file once the context is cancelled; the connection counts as
\* running from the first Read after the counter was at zero.
ReadBegins(c) ==
  /\ conns[c].task = "copy"
  /\ ChangeConnection(c,
       IF ~NetworkLive THEN [conns[c] EXCEPT !.task = "finish"]
       ELSE IF conns[c].counter = 0
            THEN [conns[c] EXCEPT !.task = "read", !.status = "RUNNING"]
            ELSE [conns[c] EXCEPT !.task = "read"])
  /\ UNCHANGED moved

ReadReturns(c) ==
  /\ conns[c].task = "read"
  /\ moved < MaxBytes
  /\ ChangeConnection(c, [conns[c] EXCEPT !.task = "copy", !.counter = @ + 1])
  /\ moved' = moved + 1

\* The body ends, or its read fails.
ReadEnds(c) ==
  /\ conns[c].task = "read"
  /\ ChangeConnection(c, [conns[c] EXCEPT !.task = "finish"])
  /\ UNCHANGED moved

CopyEnds(c) ==
  /\ conns[c].task = "finish"
  /\ ChangeConnection(c, [conns[c] EXCEPT !.status = "DONE", !.task = "ended"])
  /\ UNCHANGED moved

(* Upload: doUpload waits in Do while the transport calls Read. *)

RequestAnswered(c) ==
  /\ upload
  /\ conns[c].task = "request"
  /\ ChangeConnection(c, [conns[c] EXCEPT !.status = "DONE", !.task = "ended"])
  /\ UNCHANGED moved

\* The checks of the context and of the counter ...
BodyReadBegins(c) ==
  /\ upload
  /\ conns[c].reader = "idle"
  /\ ChangeConnection(c,
       [conns[c] EXCEPT !.reader =
          IF ~NetworkLive THEN "stopped"
          ELSE IF conns[c].counter = 0 THEN "mark" ELSE "count"])
  /\ UNCHANGED moved

\* ... come before the status is set: Do may have returned in between.
BodyMarksRunning(c) ==
  /\ conns[c].reader = "mark"
  /\ ChangeConnection(c, [conns[c] EXCEPT !.status = "RUNNING", !.reader = "count"])
  /\ UNCHANGED moved

BodyReadReturns(c) ==
  /\ conns[c].reader = "count"
  /\ moved < MaxBytes
  /\ ChangeConnection(c, [conns[c] EXCEPT !.counter = @ + 1, !.reader = "idle"])
  /\ moved' = moved + 1

\* The transport stops reading the body at some time after Do returned.
BodyAbandoned(c) ==
  /\ upload
  /\ conns[c].reader = "idle"
  /\ conns[c].task = "ended"
  /\ ChangeConnection(c, [conns[c] EXCEPT !.reader = "stopped"])
  /\ UNCHANGED moved

Connection(c) ==
  \/ RequestFails(c)
  \/ ResponseArrives(c) \/ ReadBegins(c) \/ ReadReturns(c) \/ ReadEnds(c) \/ CopyEnds(c)
  \/ RequestAnswered(c) \/ BodyReadBegins(c) \/ BodyMarksRunning(c)
  \/ BodyReadReturns(c) \/ BodyAbandoned(c)

-----------------------------------------------------------------------------
(* The generator.                                                          *)

\* addFlows: each new connection is appended and started.
WithFlows(n) == conns \o [i \in 1 .. n |-> NewConnection]

Begin ==
  /\ gen = "begin"
  /\ conns' = WithFlows(Starting)
  /\ gen' = "check"
  /\ UNCHANGED <<upload, next, sample, bucket, coordinator, received, moved>>

CheckOperator ==
  /\ gen = "check"
  /\ gen' = IF OperatorLive THEN "sleep" ELSE "ended"
  /\ UNCHANGED <<conns, upload, next, sample, bucket, coordinator, received, moved>>

\* Mutant: the totals of the previous sample are not cleared.
Wake_KeepsSample ==
  /\ gen = "sleep"
  /\ OperatorLive => bucket < MaxBucket
  /\ gen' = IF OperatorLive THEN "scan" ELSE "ended"
  /\ next' = 1
  /\ UNCHANGED <<conns, upload, sample, bucket, coordinator, received, moved>>

\* The sleep until the next sample cannot be interrupted; the context is
\* checked again after it.
Wake ==
  /\ gen = "sleep"
  /\ OperatorLive => bucket < MaxBucket
  /\ gen' = IF OperatorLive THEN "scan" ELSE "ended"
  /\ next' = 1
  /\ sample' = [EmptySample EXCEPT !.connections = Len(conns)]
  /\ UNCHANGED <<conns, upload, bucket, coordinator, received, moved>>

\* Mutant: the counter is read but not reset.
Collect_NoReset(c) ==
  /\ sample' = [sample EXCEPT !.total = @ + conns[c].counter, !.active = @ + 1]
  /\ UNCHANGED conns

\* TransferredInInterval: the counter is swapped with zero.
Collect(c) ==
  /\ sample' = [sample EXCEPT !.total = @ + conns[c].counter, !.active = @ + 1]
  /\ conns' = [conns EXCEPT ![c].counter = 0]

\* Only a running connection contributes; the others are passed over ...
PassOver ==
  /\ gen = "scan"
  /\ next <= Len(conns)
  /\ conns[next].status # "RUNNING"
  /\ next' = next + 1
  /\ UNCHANGED <<gen, conns, upload, sample, bucket, coordinator, received, moved>>

SeeRunning ==
  /\ gen = "scan"
  /\ next <= Len(conns)
  /\ conns[next].status = "RUNNING"
  /\ gen' = "collect"
  /\ UNCHANGED <<conns, upload, next, sample, bucket, coordinator, received, moved>>

\* ... which may have ended since its status was read.
CollectOne ==
  /\ gen = "collect"
  /\ Collect(next)
  /\ next' = next + 1
  /\ gen' = "scan"
  /\ UNCHANGED <<upload, bucket, coordinator, received, moved>>

\* allInvalid: the generator gives up for good.
GiveUp ==
  /\ gen = "scan"
  /\ next > Len(conns)
  /\ sample.active = 0
  /\ gen' = "ended"
  /\ UNCHANGED <<conns, upload, next, sample, bucket, coordinator, received, moved>>

\* Mutant: the bucket is generated once, and used for every sample.
TakeBucket_Once ==
  /\ gen = "scan"
  /\ next > Len(conns)
  /\ sample.active > 0
  /\ bucket' = IF bucket = 0 THEN 1 ELSE bucket
  /\ gen' = "reserve"
  /\ UNCHANGED <<conns, upload, next, sample, coordinator, received, moved>>

TakeBucket ==
  /\ gen = "scan"
  /\ next > Len(conns)
  /\ sample.active > 0
  /\ bucket' = bucket + 1
  /\ gen' = "reserve"
  /\ UNCHANGED <<conns, upload, next, sample, coordinator, received, moved>>

ReceiveReserve ==
  /\ gen = "reserve"
  /\ coordinator = "receiving"
  /\ received' = Append(received, [type |-> "Reserve", bucket |-> bucket])
  /\ gen' = "measure"
  /\ UNCHANGED <<conns, upload, next, sample, bucket, coordinator, moved>>

ReceiveMeasure ==
  /\ gen = "measure"
  /\ coordinator = "receiving"
  /\ received' = Append(received, [type |-> "Measure", bucket |-> bucket,
                                   point |-> sample])
  /\ gen' = "add"
  /\ UNCHANGED <<conns, upload, next, sample, bucket, coordinator, moved>>

\* Mutants: the maximum is off by one, in either direction.
AddFlows_OneTooMany ==
  /\ gen = "add"
  /\ conns' = IF Len(conns) <= Mnp THEN WithFlows(Additive) ELSE conns
  /\ gen' = "check"
  /\ UNCHANGED <<upload, next, sample, bucket, coordinator, received, moved>>

AddFlows_OneTooFew ==
  /\ gen = "add"
  /\ conns' = IF Len(conns) + 1 < Mnp THEN WithFlows(Additive) ELSE conns
  /\ gen' = "check"
  /\ UNCHANGED <<upload, next, sample, bucket, coordinator, received, moved>>

AddFlows ==
  /\ gen = "add"
  /\ conns' = IF Len(conns) < Mnp THEN WithFlows(Additive) ELSE conns
  /\ gen' = "check"
  /\ UNCHANGED <<upload, next, sample, bucket, coordinator, received, moved>>

Generator ==
  \/ Begin \/ CheckOperator \/ Wake \/ PassOver \/ SeeRunning \/ CollectOne
  \/ GiveUp \/ TakeBucket \/ ReceiveReserve \/ ReceiveMeasure \/ AddFlows

-----------------------------------------------------------------------------
(* The coordinator receives in both of its loops; after them it cancels the *)
(* generator's context and, unless directions run in parallel, the one of   *)
(* the connections (in parallel, when all directions are done).             *)

Step(from, to) ==
  /\ coordinator = from
  /\ coordinator' = to
  /\ UNCHANGED <<gen, conns, upload, next, sample, bucket, received, moved>>

LeaveLoops     == Step("receiving", "left")
CancelOperator == Step("left", "operatorCancelled")
CancelNetwork  == Step("operatorCancelled", "allCancelled")

Next ==
  \/ Generator
  \/ \E c \in DOMAIN conns : Connection(c)
  \/ LeaveLoops \/ CancelOperator \/ CancelNetwork

Spec == Init /\ [][Next]_vars

\* The generator runs when it can and its sleep ends.  Nothing is assumed of
\* the network, the transport or the coordinator.
FairSpec == Spec /\ WF_vars(Generator)

-----------------------------------------------------------------------------
(* Properties *)

Samples == {i \in DOMAIN received : received[i].type = "Measure"}

\* The collection, the generator's locals and the messages.
TypeOK ==
  /\ gen \in {"begin", "check", "sleep", "scan", "collect", "reserve", "measure", "add",
              "ended"}
  /\ conns \in Seq([status : {"NOT_STARTED", "RUNNING", "DONE", "ERROR"},
                    counter : 0 .. MaxBytes,
                    task : {"request", "copy", "read", "finish", "ended"},
                    reader : {"idle", "mark", "count", "stopped"}])
  /\ upload \in BOOLEAN
  /\ next \in 1 .. Len(conns) + 1
  /\ sample \in [total : 0 .. MaxBytes, active : 0 .. Mnp, connections : 0 .. Mnp]
  /\ bucket \in 0 .. MaxBucket
  /\ coordinator \in {"receiving", "left", "operatorCancelled", "allCancelled"}
  /\ moved \in 0 .. MaxBytes

\* At most Mnp connections, however the samples and the additions alternate.
AtMostMnpConnections == Len(conns) <= Mnp

\* Every byte counted by a connection is reported once: it is in a sample the
\* coordinator received, in the one being assembled or sent, or still in the
\* connection's counter.  The swap loses none that arrive during the scan.
Delivered == SumFunction([i \in Samples |-> received[i].point.total])
InFlight  == IF gen \in {"scan", "collect", "reserve", "measure"} THEN sample.total ELSE 0
Counted   == SumFunction([c \in DOMAIN conns |-> conns[c].counter])
EveryByteReportedOnce == Delivered + InFlight + Counted = moved

BucketsOfType(t) ==
  {received[i].bucket : i \in {j \in DOMAIN received : received[j].type = t}}

Stream == INSTANCE MeasurementStream
            WITH Buckets <- 1 .. MaxBucket,
                 reserved <- BucketsOfType("Reserve"),
                 measured <- BucketsOfType("Measure"),
                 messages <- Len(received)

\* What the coordinator receives is a measurement stream: each sample is announced
\* and sent, in this order and once, under a bucket greater than all before.
ImplementsMeasurementStream == Stream!Spec

\* A download that has ended is never again taken for a running one: nothing
\* revives its status, so a self probe is not sent on it and the generator
\* can notice that its load is gone.  (An upload's can be revived.)
EndedDownloadStaysEnded ==
  [][\A c \in DOMAIN conns :
       ~upload /\ conns[c].status \in Finished => conns'[c].status = conns[c].status]_vars

\* The load ramps up to Mnp connections: only the end of the receiving loops
\* or a generator that gave up because nothing was running can prevent it.
RampsUpToMnp == <>(Len(conns) = Mnp \/ gen = "ended" \/ coordinator # "receiving")

\* A connection "has not finished starting; it will not contribute throughput
\* during this interval" (rpm/rpm.go): the generator gives up because all
\* connections have become invalid, not because they are still starting.
GivesUpOnlyOnInvalid ==
  [][gen = "scan" /\ gen' = "ended" =>
       \A c \in DOMAIN conns : conns[c].status # "NOT_STARTED"]_vars
=============================================================================
