----------------------------- MODULE StatusWait -----------------------------
(***************************************************************************)
(* Waiting until a load-generating connection has started: the status of a *)
(* connection, the mutex and the condition variable around it              *)
(* (lgc/download.go, lgc/upload.go), and the two helpers that make a wait   *)
(* on a condition variable end with a context as well: WaitWithContext and *)
(* ContextSignaler (utilities/utilities.go).                               *)
(*                                                                         *)
(* WaitWithContext returns with the mutex held and no caller gives it back *)
(* (WaitUntilStarted); ContextSignaler broadcasts without the mutex, once, *)
(* and so possibly between a waiter's look at its context and its entry in *)
(* the condition variable's list.  The properties say what is certain all  *)
(* the same.                                                               *)
(*                                                                         *)
(* Entering the list and releasing the mutex in Cond.Wait are one step: a  *)
(* broadcast wakes everyone who is in the list, before and after.          *)
(***************************************************************************)
EXTENDS Naturals

CONSTANTS
  Waiters,    \* calls of WaitUntilStarted, each with a context of its own
  MaxReads,   \* bound: Reads that find the byte counter at 0
  Nobody      \* holds the mutex when it is free

ASSUME StatusWaitAssumption ==
  /\ MaxReads \in Nat
  /\ Nobody \notin Waiters \cup {"worker", "reader"}
  /\ Waiters \cap {"worker", "reader"} = {}

VARIABLES
  direction,  \* "down" or "up"
  status,     \* LgcStatus
  mutex,      \* who holds statusLock
  worker,     \* doDownload, doUpload
  outcome,    \* the status worker ends with
  reader,     \* who reads the body: worker itself, or the transport of an upload
  reads,      \* Reads so far that found the counter at 0
  waiter,     \* per waiter: where WaitWithContext is
  result,     \* what it returned
  signaler,   \* per waiter: its ContextSignaler
  cancelled,  \* the waiters whose context is cancelled
  missed      \* history: those whose signaler broadcast when they were about to wait

connection == <<direction, worker, outcome, reader, reads>>
waiting == <<waiter, result>>
waitVars == <<connection, status, mutex, waiting, signaler, cancelled, missed>>

Started == status # "NOT_STARTED"

-----------------------------------------------------------------------------
(* sync.Mutex and sync.Cond.                                               *)

Lock(p) == mutex = Nobody /\ mutex' = p
Unlock(p) == mutex = p /\ mutex' = Nobody

Broadcast ==
  waiter' = [w \in Waiters |-> IF waiter[w] = "waiting" THEN "relocking" ELSE waiter[w]]

-----------------------------------------------------------------------------
(* The connection.                                                         *)

WaitInit ==
  /\ direction \in {"down", "up"}
  /\ status = "NOT_STARTED" /\ mutex = Nobody
  /\ worker = "new" /\ outcome = "NONE"
  /\ reader = "idle" /\ reads = 0
  /\ waiter = [w \in Waiters |-> "idle"]
  /\ result = [w \in Waiters |-> FALSE]
  /\ signaler = [w \in Waiters |-> "none"]
  /\ cancelled = {} /\ missed = {}

Start ==
  /\ worker = "new"
  /\ worker' = "running"
  /\ UNCHANGED <<direction, outcome, reader, reads, status, mutex, waiting, signaler,
                 cancelled, missed>>

\* doDownload or doUpload has come to its last statement about the status.  A
\* download reads its body itself, and ends with an error only before that.
WorkerFinishes ==
  /\ worker = "running"
  /\ direction = "down" => reader = "idle"
  /\ worker' = "locking"
  /\ outcome' \in IF direction = "down" /\ reads > 0 THEN {"DONE"} ELSE {"DONE", "ERROR"}
  /\ UNCHANGED <<direction, reader, reads, status, mutex, waiting, signaler, cancelled, missed>>

\* Read finds the counter at 0.  The transport may go on reading the body of
\* an upload that was answered.
ReadFindsZero ==
  /\ reader = "idle" /\ reads < MaxReads
  /\ worker = "running" \/ (direction = "up" /\ worker # "new")
  /\ reader' = "locking" /\ reads' = reads + 1
  /\ UNCHANGED <<direction, worker, outcome, status, mutex, waiting, signaler, cancelled, missed>>

WorkerSetsStatus ==
  /\ worker = "locking" /\ Lock("worker")
  /\ worker' = "holding"
  /\ status' = outcome
  /\ UNCHANGED <<direction, outcome, reader, reads, waiting, signaler, cancelled, missed>>

ReaderSetsStatus ==
  /\ reader = "locking" /\ Lock("reader")
  /\ reader' = "holding"
  /\ status' = "RUNNING"
  /\ UNCHANGED <<direction, worker, outcome, reads, waiting, signaler, cancelled, missed>>

\* Mutant: the status is changed and nobody is told.
WorkerReleases_Silently ==
  /\ worker = "holding" /\ Unlock("worker")
  /\ worker' = "ended"
  /\ UNCHANGED <<direction, outcome, reader, reads, status, waiting, signaler, cancelled, missed>>

WorkerReleases ==
  /\ worker = "holding" /\ Broadcast /\ Unlock("worker")
  /\ worker' = "ended"
  /\ UNCHANGED <<direction, outcome, reader, reads, status, result, signaler, cancelled, missed>>

ReaderReleases ==
  /\ reader = "holding" /\ Broadcast /\ Unlock("reader")
  /\ reader' = "idle"
  /\ UNCHANGED <<direction, worker, outcome, reads, status, result, signaler, cancelled, missed>>

-----------------------------------------------------------------------------
(* WaitUntilStarted: it spawns the signaler and waits.                     *)

WaitUntilStarted(w) ==
  /\ waiter[w] = "idle"
  /\ waiter' = [waiter EXCEPT ![w] = "locking"]
  /\ signaler' = [signaler EXCEPT ![w] = "polling"]
  /\ UNCHANGED <<connection, status, mutex, result, cancelled, missed>>

\* Mutant: who was woken does not look again.
WaiterLocks_Trusting(w) ==
  /\ waiter[w] \in {"locking", "relocking"} /\ Lock(w)
  /\ waiter' = [waiter EXCEPT ![w] = IF waiter[w] = "locking" THEN "checking" ELSE "leaving"]
  /\ UNCHANGED <<connection, status, result, signaler, cancelled, missed>>

\* At first and after having been woken.
WaiterLocks(w) ==
  /\ waiter[w] \in {"locking", "relocking"} /\ Lock(w)
  /\ waiter' = [waiter EXCEPT ![w] = "checking"]
  /\ UNCHANGED <<connection, status, result, signaler, cancelled, missed>>

WaiterChecks(w) ==
  /\ waiter[w] = "checking"
  /\ waiter' = [waiter EXCEPT ![w] =
                  IF Started \/ w \in cancelled THEN "leaving" ELSE "adding"]
  /\ UNCHANGED <<connection, status, mutex, result, signaler, cancelled, missed>>

\* Mutant: the mutex is kept while waiting.
WaiterWaits_Holding(w) ==
  /\ waiter[w] = "adding" /\ mutex = w /\ UNCHANGED mutex
  /\ waiter' = [waiter EXCEPT ![w] = "waiting"]
  /\ UNCHANGED <<connection, status, result, signaler, cancelled, missed>>

WaiterWaits(w) ==
  /\ waiter[w] = "adding" /\ Unlock(w)
  /\ waiter' = [waiter EXCEPT ![w] = "waiting"]
  /\ UNCHANGED <<connection, status, result, signaler, cancelled, missed>>

\* The mutex is not given back.
WaiterReturns(w) ==
  /\ waiter[w] = "leaving"
  /\ waiter' = [waiter EXCEPT ![w] = "returned"]
  /\ result' = [result EXCEPT ![w] = w \notin cancelled]
  /\ UNCHANGED <<connection, status, mutex, signaler, cancelled, missed>>

\* ContextSignaler leaves its loop; what it read need not be true any more.
SignalerSees(w) ==
  /\ signaler[w] = "polling"
  /\ Started \/ w \in cancelled
  /\ signaler' = [signaler EXCEPT ![w] = "deciding"]
  /\ UNCHANGED <<connection, status, mutex, waiting, cancelled, missed>>

\* Mutant: it broadcasts if the condition holds and not if the context ended.
SignalerDecides_Started(w) ==
  /\ signaler[w] = "deciding"
  /\ signaler' = [signaler EXCEPT ![w] = "gone"]
  /\ IF Started THEN Broadcast ELSE UNCHANGED waiter
  /\ missed' = IF Started /\ waiter[w] = "adding" THEN missed \cup {w} ELSE missed
  /\ UNCHANGED <<connection, status, mutex, result, cancelled>>

SignalerDecides(w) ==
  /\ signaler[w] = "deciding"
  /\ signaler' = [signaler EXCEPT ![w] = "gone"]
  /\ IF w \in cancelled THEN Broadcast ELSE UNCHANGED waiter
  /\ missed' = IF w \in cancelled /\ waiter[w] = "adding" THEN missed \cup {w} ELSE missed
  /\ UNCHANGED <<connection, status, mutex, result, cancelled>>

Cancel(w) ==
  /\ w \notin cancelled
  /\ cancelled' = cancelled \cup {w}
  /\ UNCHANGED <<connection, status, mutex, waiting, signaler, missed>>

Setters == WorkerSetsStatus \/ WorkerReleases \/ ReaderSetsStatus \/ ReaderReleases

Waiter(w) == WaiterLocks(w) \/ WaiterChecks(w) \/ WaiterWaits(w) \/ WaiterReturns(w)

Signaler(w) == SignalerSees(w) \/ SignalerDecides(w)

WaitNext ==
  \/ Start \/ WorkerFinishes \/ ReadFindsZero \/ Setters
  \/ \E w \in Waiters : WaitUntilStarted(w) \/ Waiter(w) \/ Signaler(w) \/ Cancel(w)

WaitSpec == WaitInit /\ [][WaitNext]_waitVars

\* A goroutine that can run does so in the end, and sync.Mutex starves nobody.
\* The network need not answer and no context need be cancelled.
FairWaitSpec ==
  /\ WaitSpec
  /\ SF_waitVars(WorkerSetsStatus) /\ SF_waitVars(ReaderSetsStatus)
  /\ WF_waitVars(WorkerReleases) /\ WF_waitVars(ReaderReleases)
  /\ \A w \in Waiters :
       /\ SF_waitVars(WaiterLocks(w))
       /\ WF_waitVars(WaiterChecks(w) \/ WaiterWaits(w) \/ WaiterReturns(w))
       /\ WF_waitVars(Signaler(w))

-----------------------------------------------------------------------------
(* Properties *)

\* The fields and the locals, and the mutex is with the one who thinks so; who
\* has returned from the wait still holds it.
WaitTypeOK ==
  /\ direction \in {"down", "up"}
  /\ status \in {"NOT_STARTED", "RUNNING", "DONE", "ERROR"}
  /\ worker \in {"new", "running", "locking", "holding", "ended"}
  /\ outcome \in {"NONE", "DONE", "ERROR"}
  /\ reader \in {"idle", "locking", "holding"}
  /\ reads \in 0 .. MaxReads
  /\ waiter \in [Waiters -> {"idle", "locking", "checking", "adding", "waiting",
                             "relocking", "leaving", "returned"}]
  /\ result \in [Waiters -> BOOLEAN]
  /\ signaler \in [Waiters -> {"none", "polling", "deciding", "gone"}]
  /\ cancelled \subseteq Waiters /\ missed \subseteq Waiters
  /\ mutex \in Waiters \cup {"worker", "reader", Nobody}
  /\ mutex = "worker" <=> worker = "holding"
  /\ mutex = "reader" <=> reader = "holding"
  /\ \A w \in Waiters :
       mutex = w <=> waiter[w] \in {"checking", "adding", "leaving", "returned"}

\* "Started" is never reported of a connection that has not, nor the end of a
\* context that has not ended, although a waiter is woken by other waiters'
\* contexts as well; and a connection once started stays so.
TrueMeansStarted ==
  \A w \in Waiters :
    waiter[w] = "returned" => IF result[w] THEN Started ELSE w \in cancelled

SomeoneReturned == \E w \in Waiters : waiter[w] = "returned"

\* The start of the connection, or its failure, is seen by whoever waits for
\* it, whenever the wait began -- until one has returned and keeps the mutex.
StartIsSeen ==
  \A w \in Waiters : (Started /\ waiter[w] # "idle") ~> SomeoneReturned

\* The end of a waiter's context ends its wait, unless the one broadcast came
\* between its look at the context and its entry in the list.
CancelIsSeenUnlessMissed ==
  \A w \in Waiters :
    (w \in cancelled /\ waiter[w] # "idle") ~> (SomeoneReturned \/ w \in missed)
=============================================================================
