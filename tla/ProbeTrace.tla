----------------------------- MODULE ProbeTrace -----------------------------
(***************************************************************************)
(* What a probe's duration measures (Probe in probe/probe.go).  The probe  *)
(* attaches callbacks to its request (traceable/traceable.go) that store   *)
(* the time in one TraceStats (probe/tracer.go, stats/stats.go) and adds   *)
(* up differences of these times when the response has been read.          *)
(*                                                                         *)
(* The callbacks are called by net/http and net, the environment here:     *)
(*   - a transport gets a connection that it has, or dials one;            *)
(*   - a dialer makes several attempts, one per address, some of them at   *)
(*     the same time; the first that succeeds is used, the others end when *)
(*     they do, and may even begin after it if they were already spawned;  *)
(*   - a redirect is a further request, and so is the retry of one whose   *)
(*     reused connection was lost before it answered.                      *)
(* Every callback stores into the same TraceStats.  Those of attempts that *)
(* are not used may come at any time, also between the two places where    *)
(* Probe reads ConnectDoneTime.  A read or write of a time is atomic here. *)
(***************************************************************************)
EXTENDS Integers

CONSTANTS
  Attempts,      \* the connection attempts dialers may make for the probe
  MaxRequests,   \* bound: requests of the probe, with redirects and retries
  MaxTime,       \* bound on the clock
  NoAttempt      \* the winner while there is none

ASSUME BoundsAssumption ==
  /\ MaxRequests \in Nat \ {0} /\ MaxTime \in Nat \ {0}
  /\ NoAttempt \notin Attempts

VARIABLES
  probeType,  \* "Self" (SelfUp, SelfDown) or "Foreign"
  now,        \* the clock
  call,       \* where Probe is
  transport,  \* where the request is inside client.Do
  requests,   \* requests sent so far
  dialer,     \* "idle", "dialing", "connected", or "abandoned" by the request
  attempt,    \* per attempt: "unused", "spawned", "connecting", "up", "over"
  stats,      \* the TraceStats
  after,      \* time_after_probe
  total,      \* totalDelay, as far as it has been added up
  \* History variables: what the network did, each time as it happened.
  begunAt, endedAt,  \* per attempt
  winner,            \* the attempt whose connection is used
  fresh,             \* whether the connection was made for this request
  takenAt            \* when the request got its connection

network == <<transport, requests, dialer, attempt>>
history == <<begunAt, endedAt, winner, fresh, takenAt>>
vars == <<probeType, now, call, network, stats, after, total, history>>

-----------------------------------------------------------------------------
(* The tracer: setters and differences.                                    *)

NewStats ==
  [ConnectStartTime |-> 0, ConnectDoneTime |-> 0, GetConnectionDoneTime |-> 0,
   ConnectionReused |-> FALSE, HttpResponseReadyTime |-> 0]

SetConnectStartTime == stats' = [stats EXCEPT !.ConnectStartTime = now]
SetConnectDoneTimeError == stats' = [stats EXCEPT !.ConnectDoneTime = now]
SetGotConnTimeInfo(reused) ==
  stats' = [stats EXCEPT !.GetConnectionDoneTime = now, !.ConnectionReused = reused]
SetHttpResponseReadyTime == stats' = [stats EXCEPT !.HttpResponseReadyTime = now]

\* Mutant: the connection's own time is added to a reused one's as well.
GetTCPDelta_Always == stats.ConnectDoneTime - stats.ConnectStartTime

GetTCPDelta ==
  IF stats.ConnectionReused THEN 0
  ELSE stats.ConnectDoneTime - stats.ConnectStartTime

\* Mutant: the header's time always begins with the connection in hand.
GetTLSAndHttpHeaderDelta_Got ==
  stats.HttpResponseReadyTime - stats.GetConnectionDoneTime

\* From the established TCP connection, or else from getting a reused one.
GetTLSAndHttpHeaderDelta ==
  stats.HttpResponseReadyTime -
    (IF stats.ConnectionReused THEN stats.GetConnectionDoneTime ELSE stats.ConnectDoneTime)

GetHttpDownloadDelta(httpDoneTime) == httpDoneTime - stats.HttpResponseReadyTime

-----------------------------------------------------------------------------
(* Probe.                                                                  *)

Init ==
  /\ probeType \in {"Self", "Foreign"}
  /\ now = 1
  /\ call = "begin"
  /\ transport = "none" /\ requests = 0
  /\ dialer = "idle"
  /\ attempt = [a \in Attempts |-> "unused"]
  /\ stats = NewStats
  /\ after = 0 /\ total = 0
  /\ begunAt = [a \in Attempts |-> 0] /\ endedAt = [a \in Attempts |-> 0]
  /\ winner = NoAttempt
  /\ fresh = FALSE /\ takenAt = 0

\* client.Do.  Without a client, or with a URL that gives no request, Probe returns
\* an error before it, and there is no probe to speak of.
Do ==
  /\ call = "begin"
  /\ call' = "do"
  /\ transport' = "getting" /\ requests' = 1
  /\ UNCHANGED <<probeType, now, dialer, attempt, stats, after, total, history>>

\* client.Do or ReadAll returns an error, or the response is compressed.
ProbeFails ==
  /\ call \in {"do", "body"}
  /\ call' = "failed"
  /\ UNCHANGED <<probeType, now, network, stats, after, total, history>>

\* client.Do returns the last response; its body is read.
DoReturns ==
  /\ call = "do" /\ transport = "responded"
  /\ call' = "body"
  /\ UNCHANGED <<probeType, now, network, stats, after, total, history>>

ReadAll ==
  /\ call = "body"
  /\ after' = now
  /\ call' = "adding"
  /\ UNCHANGED <<probeType, now, network, stats, total, history>>

\* The first two summands of totalDelay ...
AddHeaderAndDownload ==
  /\ call = "adding"
  /\ total' = GetTLSAndHttpHeaderDelta + GetHttpDownloadDelta(after)
  /\ call' = "addingTCP"
  /\ UNCHANGED <<probeType, now, network, stats, after, history>>

\* Mutant: a self probe that did not reuse a connection gives a data point.
AddTCP_NoCheck ==
  /\ call = "addingTCP"
  /\ total' = total + GetTCPDelta
  /\ call' = "done"
  /\ UNCHANGED <<probeType, now, network, stats, after, history>>

\* ... and the third; "we must have reused the connection if we are a self
\* probe!", or else Probe panics.
AddTCP ==
  /\ call = "addingTCP"
  /\ total' = total + GetTCPDelta
  /\ call' = IF probeType = "Self" /\ ~stats.ConnectionReused THEN "panicked" ELSE "done"
  /\ UNCHANGED <<probeType, now, network, stats, after, history>>

Probe == Do \/ ProbeFails \/ DoReturns \/ ReadAll \/ AddHeaderAndDownload \/ AddTCP

-----------------------------------------------------------------------------
(* The network, which calls the tracer.                                    *)

Ended == call \in {"done", "failed", "panicked"}

Tick ==
  /\ ~Ended /\ now < MaxTime
  /\ now' = now + 1
  /\ UNCHANGED <<probeType, call, network, stats, after, total, history>>

\* The transport has no connection to offer at once.
Dial ==
  /\ call = "do" /\ transport = "getting"
  /\ dialer \in {"idle", "abandoned"}
  /\ dialer' = "dialing"
  /\ UNCHANGED <<probeType, now, call, transport, requests, attempt, stats, after, total,
                 history>>

Spawn(a) ==
  /\ ~Ended /\ dialer \in {"dialing", "abandoned"}
  /\ attempt[a] = "unused"
  /\ attempt' = [attempt EXCEPT ![a] = "spawned"]
  /\ UNCHANGED <<probeType, now, call, transport, requests, dialer, stats, after, total,
                 history>>

\* ConnectStart
BeginAttempt(a) ==
  /\ ~Ended /\ attempt[a] = "spawned"
  /\ attempt' = [attempt EXCEPT ![a] = "connecting"]
  /\ SetConnectStartTime
  /\ begunAt' = [begunAt EXCEPT ![a] = now]
  /\ UNCHANGED <<probeType, now, call, transport, requests, dialer, after, total, endedAt,
                 winner, fresh, takenAt>>

\* ConnectDone, with success or with an error.
EndAttempt(a) ==
  /\ ~Ended /\ attempt[a] = "connecting"
  /\ \E outcome \in {"up", "over"} : attempt' = [attempt EXCEPT ![a] = outcome]
  /\ SetConnectDoneTimeError
  /\ endedAt' = [endedAt EXCEPT ![a] = now]
  /\ UNCHANGED <<probeType, now, call, transport, requests, dialer, after, total, begunAt,
                 winner, fresh, takenAt>>

\* The dialer returns the connection of an attempt.
DialReturns(a) ==
  /\ ~Ended /\ dialer = "dialing"
  /\ attempt[a] = "up"
  /\ attempt' = [attempt EXCEPT ![a] = "over"]
  /\ dialer' = "connected"
  /\ winner' = a
  /\ UNCHANGED <<probeType, now, call, transport, requests, stats, after, total, begunAt,
                 endedAt, fresh, takenAt>>

\* GotConn, after a TLS handshake on the connection that was dialled.
GotFresh ==
  /\ call = "do" /\ transport = "getting"
  /\ dialer = "connected"
  /\ dialer' = "idle"
  /\ transport' = "requesting"
  /\ SetGotConnTimeInfo(FALSE)
  /\ fresh' = TRUE /\ takenAt' = now
  /\ UNCHANGED <<probeType, now, call, requests, attempt, after, total, begunAt, endedAt,
                 winner>>

\* GotConn with an existing connection: the load-generating one of a self
\* probe, or the one of an earlier request.  (A foreign probe has a transport
\* of its own.)  A dial that is under way goes on.
GotReused ==
  /\ call = "do" /\ transport = "getting"
  /\ probeType = "Self" \/ requests > 1
  /\ dialer' = IF dialer = "idle" THEN "idle" ELSE "abandoned"
  /\ transport' = "requesting"
  /\ SetGotConnTimeInfo(TRUE)
  /\ fresh' = FALSE /\ takenAt' = now
  /\ UNCHANGED <<probeType, now, call, requests, attempt, after, total, begunAt, endedAt,
                 winner>>

\* GotFirstResponseByte
FirstResponseByte ==
  /\ call = "do" /\ transport = "requesting"
  /\ transport' = "responded"
  /\ SetHttpResponseReadyTime
  /\ UNCHANGED <<probeType, now, call, requests, dialer, attempt, after, total, history>>

\* A redirect is followed, or a request is tried again.
NextRequest ==
  /\ call = "do" /\ requests < MaxRequests
  /\ transport = "responded" \/ (transport = "requesting" /\ ~fresh)
  /\ transport' = "getting"
  /\ requests' = requests + 1
  /\ UNCHANGED <<probeType, now, call, dialer, attempt, stats, after, total, history>>

Network ==
  \/ Tick \/ Dial
  \/ \E a \in Attempts : Spawn(a) \/ BeginAttempt(a) \/ EndAttempt(a) \/ DialReturns(a)
  \/ GotFresh \/ GotReused \/ FirstResponseByte \/ NextRequest

Next == Probe \/ Network

Spec == Init /\ [][Next]_vars

-----------------------------------------------------------------------------
(* Properties *)

Times == 0 .. now

\* The locals of Probe, the stats, none of whose times is in the future, and
\* the network; a self probe's data point is of a reused connection.
TypeOK ==
  /\ probeType \in {"Self", "Foreign"}
  /\ now \in 1 .. MaxTime
  /\ call \in {"begin", "do", "body", "adding", "addingTCP", "done", "failed", "panicked"}
  /\ transport \in {"none", "getting", "requesting", "responded"}
  /\ requests \in 0 .. MaxRequests
  /\ dialer \in {"idle", "dialing", "connected", "abandoned"}
  /\ attempt \in [Attempts -> {"unused", "spawned", "connecting", "up", "over"}]
  /\ stats \in [ConnectStartTime : Times, ConnectDoneTime : Times,
                GetConnectionDoneTime : Times, ConnectionReused : BOOLEAN,
                HttpResponseReadyTime : Times]
  /\ after \in Times /\ total \in Int
  /\ begunAt \in [Attempts -> Times] /\ endedAt \in [Attempts -> Times]
  /\ winner \in Attempts \cup {NoAttempt}
  /\ fresh \in BOOLEAN /\ takenAt \in Times
  /\ call = "done" /\ probeType = "Self" => stats.ConnectionReused

\* On a reused connection, a self probe's above all, what is measured is from
\* the connection in hand to the end of the response, to the moment: "there
\* should only be a single round trip that is measured".  No callback of a dial
\* that goes on beside it, of an earlier request or of one that was tried again
\* gets into the sum, whenever it comes.
ReusedMeasuresOneRoundTrip ==
  call = "done" /\ ~fresh => total = after - takenAt

\* On a connection that was made for the request, what is measured is from the
\* beginning of its attempt to the end of the response, to the moment -- the
\* difference to ConnectDoneTime in the one summand is the one from it in the
\* other -- as long as no other attempt was made beside it.  Attempts that
\* failed before it began do no harm.
MadeAlone ==
  \A a \in Attempts \ {winner} :
    \/ attempt[a] \in {"unused", "spawned"}
    \/ attempt[a] \in {"up", "over"} /\ endedAt[a] <= begunAt[winner]

FreshMeasuresItsConnection ==
  call = "done" /\ fresh /\ MadeAlone => total = after - begunAt[winner]

\* What the description of the field RoundTripCount promises: the three round
\* trips of a foreign probe -- TCP, TLS and HTTP -- are measured by its data
\* point, the whole of the connection's own attempt among them.
ForeignMeasuresThreeRoundTrips ==
  call = "done" /\ probeType = "Foreign" => total >= after - begunAt[winner]
=============================================================================
