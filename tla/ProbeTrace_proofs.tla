-------------------------- MODULE ProbeTrace_proofs --------------------------
(***************************************************************************)
(* Proofs about what a probe's duration measures, for any number of        *)
(* connection attempts and of requests, and any bound on the clock.        *)
(*                                                                         *)
(* The inductive invariant says, of every attempt and not only of the one  *)
(* that is used -- which of them that is is known only later --, that the  *)
(* two times the tracer holds are at least the attempt's own, and exactly  *)
(* these when the attempt was made alone.                                  *)
(***************************************************************************)
EXTENDS ProbeTrace, TLAPS

Begun(a) == attempt[a] \in {"connecting", "up", "over"}
HasEnded(a) == attempt[a] \in {"up", "over"}

Alone(w) ==
  \A a \in Attempts \ {w} :
    \/ attempt[a] \in {"unused", "spawned"}
    \/ HasEnded(a) /\ endedAt[a] <= begunAt[w]

\* The tracer's two connect times against an attempt's.
TimesCover(w) ==
  /\ Begun(w) => begunAt[w] <= stats.ConnectStartTime
  /\ Begun(w) /\ Alone(w) => stats.ConnectStartTime = begunAt[w]
  /\ HasEnded(w) => begunAt[w] <= endedAt[w] /\ endedAt[w] <= stats.ConnectDoneTime
  /\ HasEnded(w) /\ Alone(w) => stats.ConnectDoneTime = endedAt[w]

AttemptsInv == \A w \in Attempts : TimesCover(w)

WinnerInv ==
  dialer = "connected" \/ fresh => winner \in Attempts /\ attempt[winner] = "over"

\* Whether the connection is reused is known from when there is one.
TakenInv ==
  /\ transport \in {"requesting", "responded"} =>
       /\ dialer # "dialing"
       /\ stats.ConnectionReused = ~fresh
       /\ stats.GetConnectionDoneTime = takenAt
  /\ call \in {"body", "adding", "addingTCP", "done", "panicked"} => transport = "responded"
  /\ call = "done" /\ probeType = "Self" => stats.ConnectionReused

SumInv ==
  /\ call \in {"addingTCP", "done"} /\ ~fresh => total = after - takenAt
  /\ call = "addingTCP" /\ fresh =>
       /\ after - now <= total /\ total <= after - endedAt[winner]
       /\ Alone(winner) => total = after - endedAt[winner]
  /\ call = "done" /\ fresh /\ Alone(winner) => total = after - begunAt[winner]

Types ==
  /\ probeType \in {"Self", "Foreign"}
  /\ now \in 1 .. MaxTime
  /\ call \in {"begin", "do", "body", "adding", "addingTCP", "done", "failed", "panicked"}
  /\ transport \in {"none", "getting", "requesting", "responded"}
  /\ requests \in 0 .. MaxRequests
  /\ dialer \in {"idle", "dialing", "connected", "abandoned"}
  /\ attempt \in [Attempts -> {"unused", "spawned", "connecting", "up", "over"}]
  /\ stats \in [ConnectStartTime : Times, ConnectDoneTime : Times,
                GetConnectionDoneTime : Times, ConnectionReused : BOOLEAN,
                HttpResponseReadyTime : Times]
  /\ after \in Times /\ total \in Int
  /\ begunAt \in [Attempts -> Times] /\ endedAt \in [Attempts -> Times]
  /\ winner \in Attempts \cup {NoAttempt}
  /\ fresh \in BOOLEAN /\ takenAt \in Times

IInv == Types /\ AttemptsInv /\ WinnerInv /\ TakenInv /\ SumInv

-----------------------------------------------------------------------------
(* Type correctness of a step.                                             *)

\* What GotConn stores has its type.
LEMMA GotConnTypes ==
  ASSUME NEW T, NEW s \in [ConnectStartTime : T, ConnectDoneTime : T,
                           GetConnectionDoneTime : T, ConnectionReused : BOOLEAN,
                           HttpResponseReadyTime : T],
         NEW t \in T, NEW b \in BOOLEAN
  PROVE  [s EXCEPT !.GetConnectionDoneTime = t, !.ConnectionReused = b]
           \in [ConnectStartTime : T, ConnectDoneTime : T,
                GetConnectionDoneTime : T, ConnectionReused : BOOLEAN,
                HttpResponseReadyTime : T]
<1> DEFINE m == [s EXCEPT !.GetConnectionDoneTime = t]
<1>1. m \in [ConnectStartTime : T, ConnectDoneTime : T,
             GetConnectionDoneTime : T, ConnectionReused : BOOLEAN,
             HttpResponseReadyTime : T]
  OBVIOUS
<1> HIDE DEF m
<1>2. [m EXCEPT !.ConnectionReused = b]
        \in [ConnectStartTime : T, ConnectDoneTime : T,
             GetConnectionDoneTime : T, ConnectionReused : BOOLEAN,
             HttpResponseReadyTime : T]
  BY <1>1
<1> QED
  BY <1>2 DEF m

\* The types hold initially.
LEMMA InitTypes == Init => Types
<1> SUFFICES ASSUME Init PROVE Types
  OBVIOUS
<1>1. now \in 1 .. MaxTime /\ 0 \in Times /\ 0 \in 0 .. MaxRequests
  BY BoundsAssumption DEF Init, Times
<1>2. stats \in [ConnectStartTime : Times, ConnectDoneTime : Times,
                 GetConnectionDoneTime : Times, ConnectionReused : BOOLEAN,
                 HttpResponseReadyTime : Times]
  BY <1>1 DEF Init, NewStats
<1>3. /\ attempt \in [Attempts -> {"unused", "spawned", "connecting", "up", "over"}]
      /\ begunAt \in [Attempts -> Times] /\ endedAt \in [Attempts -> Times]
  BY <1>1 DEF Init
<1>4. /\ winner \in Attempts \cup {NoAttempt}
      /\ takenAt \in Times /\ after \in Times /\ total \in Int
  BY <1>1 DEF Init
<1>5. /\ probeType \in {"Self", "Foreign"} /\ requests \in 0 .. MaxRequests
      /\ call = "begin" /\ transport = "none" /\ dialer = "idle"
  BY <1>1 DEF Init
<1>6. fresh \in BOOLEAN
  BY DEF Init
<1> QED
  BY <1>1, <1>2, <1>3, <1>4, <1>5, <1>6 DEF Types

\* Every step preserves the types.
LEMMA NextTypes == Types /\ [Next]_vars => Types'
<1> SUFFICES ASSUME Types, [Next]_vars PROVE Types'
  OBVIOUS
<1> USE BoundsAssumption DEF Types, Times
<1>1. CASE Do
  BY <1>1 DEF Do, history
<1>2. CASE ProbeFails
  BY <1>2 DEF ProbeFails, network, history
<1>3. CASE DoReturns
  BY <1>3 DEF DoReturns, network, history
<1>4. CASE ReadAll
  BY <1>4 DEF ReadAll, network, history
<1>5. CASE AddHeaderAndDownload
  BY <1>5 DEF AddHeaderAndDownload, network, history, GetTLSAndHttpHeaderDelta,
     GetHttpDownloadDelta
<1>6. CASE AddTCP
  BY <1>6 DEF AddTCP, network, history, GetTCPDelta
<1>7. CASE Tick
  BY <1>7 DEF Tick, network, history
<1>8. CASE Dial
  BY <1>8 DEF Dial, history
<1>9. ASSUME NEW a \in Attempts, Spawn(a) PROVE Types'
  BY <1>9 DEF Spawn, history
<1>10. ASSUME NEW a \in Attempts, BeginAttempt(a) PROVE Types'
  BY <1>10 DEF BeginAttempt, SetConnectStartTime
<1>11. ASSUME NEW a \in Attempts, EndAttempt(a) PROVE Types'
  BY <1>11 DEF EndAttempt, SetConnectDoneTimeError
<1>12. ASSUME NEW a \in Attempts, DialReturns(a) PROVE Types'
  BY <1>12 DEF DialReturns
<1>13. CASE GotFresh
  <2>1. stats' = [stats EXCEPT !.GetConnectionDoneTime = now, !.ConnectionReused = FALSE]
    BY <1>13 DEF GotFresh, SetGotConnTimeInfo
  <2>2. stats' \in [ConnectStartTime : Times, ConnectDoneTime : Times,
                    GetConnectionDoneTime : Times, ConnectionReused : BOOLEAN,
                    HttpResponseReadyTime : Times]
    <3>1. now \in Times
      OBVIOUS
    <3> HIDE DEF Times
    <3> QED
      BY <2>1, <3>1, GotConnTypes
  <2> QED
    BY <1>13, <2>2 DEF GotFresh
<1>14. CASE GotReused
  <2>1. stats' = [stats EXCEPT !.GetConnectionDoneTime = now, !.ConnectionReused = TRUE]
    BY <1>14 DEF GotReused, SetGotConnTimeInfo
  <2>2. stats' \in [ConnectStartTime : Times, ConnectDoneTime : Times,
                    GetConnectionDoneTime : Times, ConnectionReused : BOOLEAN,
                    HttpResponseReadyTime : Times]
    <3>1. now \in Times
      OBVIOUS
    <3> HIDE DEF Times
    <3> QED
      BY <2>1, <3>1, GotConnTypes
  <2>3. dialer' \in {"idle", "dialing", "connected", "abandoned"}
    BY <1>14 DEF GotReused
  <2>4. fresh' \in BOOLEAN
    BY <1>14 DEF GotReused
  <2>5. /\ UNCHANGED <<probeType, now, call, requests, attempt, after, total, begunAt,
                       endedAt, winner>>
        /\ transport' = "requesting" /\ takenAt' = now
    BY <1>14 DEF GotReused
  <2> QED
    BY <2>2, <2>3, <2>4, <2>5
<1>15. CASE FirstResponseByte
  BY <1>15 DEF FirstResponseByte, SetHttpResponseReadyTime, history
<1>16. CASE NextRequest
  BY <1>16 DEF NextRequest, history
<1>17. CASE UNCHANGED vars
  BY <1>17 DEF vars, network, history
<1> QED
  BY <1>1, <1>2, <1>3, <1>4, <1>5, <1>6, <1>7, <1>8, <1>9, <1>10, <1>11, <1>12, <1>13,
     <1>14, <1>15, <1>16, <1>17 DEF Next, Probe, Network

-----------------------------------------------------------------------------
(* The strengthening.                                                      *)

\* The other invariants hold initially.
LEMMA InitInv == Init => AttemptsInv /\ WinnerInv /\ TakenInv /\ SumInv
  BY DEF Init, AttemptsInv, TimesCover, Begun, HasEnded, WinnerInv, TakenInv, SumInv

\* The steps that leave the attempts and their times alone.
LEMMA AttemptsUntouched ==
  ASSUME AttemptsInv, UNCHANGED <<attempt, begunAt, endedAt>>,
         stats'.ConnectStartTime = stats.ConnectStartTime,
         stats'.ConnectDoneTime = stats.ConnectDoneTime
  PROVE  AttemptsInv'
BY DEF AttemptsInv, TimesCover, Begun, HasEnded, Alone

\* Every step preserves what is known of the attempts.
LEMMA NextAttemptsInv == Types /\ AttemptsInv /\ [Next]_vars => AttemptsInv'
<1> SUFFICES ASSUME Types, AttemptsInv, [Next]_vars PROVE AttemptsInv'
  OBVIOUS
<1>1. CASE Probe \/ UNCHANGED vars
  BY <1>1, AttemptsUntouched DEF Probe, Do, ProbeFails, DoReturns, ReadAll,
     AddHeaderAndDownload, AddTCP, vars, network, history
<1>2. CASE Tick \/ Dial \/ NextRequest
  BY <1>2, AttemptsUntouched DEF Tick, Dial, NextRequest, network, history
<1>3. CASE GotFresh \/ GotReused
  BY <1>3, AttemptsUntouched DEF GotFresh, GotReused, SetGotConnTimeInfo, Types
<1>4. CASE FirstResponseByte
  BY <1>4, AttemptsUntouched DEF FirstResponseByte, SetHttpResponseReadyTime, history, Types
<1>5. ASSUME NEW a \in Attempts, Spawn(a) PROVE AttemptsInv'
  BY <1>5 DEF Spawn, history, AttemptsInv, TimesCover, Begun, HasEnded, Alone, Types
<1>6. ASSUME NEW a \in Attempts, DialReturns(a) PROVE AttemptsInv'
  BY <1>6 DEF DialReturns, history, AttemptsInv, TimesCover, Begun, HasEnded, Alone, Types
<1>7. ASSUME NEW a \in Attempts, BeginAttempt(a) PROVE AttemptsInv'
  <2> SUFFICES ASSUME NEW w \in Attempts PROVE TimesCover(w)'
    BY DEF AttemptsInv
  <2>1. stats'.ConnectStartTime = now /\ stats'.ConnectDoneTime = stats.ConnectDoneTime
    BY <1>7 DEF BeginAttempt, SetConnectStartTime, Types
  <2>2. TimesCover(w)
    BY DEF AttemptsInv
  <2>3. CASE w = a
    BY <1>7, <2>1, <2>2, <2>3 DEF BeginAttempt, Types, Times, TimesCover, Begun, HasEnded
  <2>4. CASE w # a
    <3>1. ~Alone(w)'
      BY <1>7, <2>4 DEF BeginAttempt, Types, Alone, HasEnded
    <3> QED
      BY <1>7, <2>1, <2>2, <2>4, <3>1 DEF BeginAttempt, Types, Times, TimesCover, Begun,
         HasEnded
  <2> QED
    BY <2>3, <2>4
<1>8. ASSUME NEW a \in Attempts, EndAttempt(a) PROVE AttemptsInv'
  <2> SUFFICES ASSUME NEW w \in Attempts PROVE TimesCover(w)'
    BY DEF AttemptsInv
  <2>1. stats'.ConnectStartTime = stats.ConnectStartTime /\ stats'.ConnectDoneTime = now
    BY <1>8 DEF EndAttempt, SetConnectDoneTimeError, Types
  <2>2. TimesCover(w)
    BY DEF AttemptsInv
  <2>3. stats.ConnectStartTime <= now /\ stats.ConnectDoneTime <= now
    BY DEF Types, Times
  <2>4. now \in Int /\ begunAt[w] \in Int /\ endedAt[w] \in Int
        /\ stats.ConnectStartTime \in Int /\ stats.ConnectDoneTime \in Int
    BY DEF Types, Times
  <2>5. begunAt' = begunAt
    BY <1>8 DEF EndAttempt
  <2>6. CASE w = a
    <3>1. Begun(w) /\ endedAt'[w] = now
      BY <1>8, <2>6 DEF EndAttempt, Begun, Types
    <3>2. Alone(w)' => Alone(w)
      BY <1>8, <2>6 DEF EndAttempt, Alone, HasEnded, Types
    <3> QED
      BY <2>1, <2>2, <2>3, <2>4, <2>5, <3>1, <3>2 DEF TimesCover
  <2>7. CASE w # a
    <3>1. attempt'[w] = attempt[w] /\ endedAt'[w] = endedAt[w]
      BY <1>8, <2>7 DEF EndAttempt, Types
    <3>2. Alone(w)' => now <= begunAt[w]
      <4>1. attempt'[a] \in {"up", "over"} /\ endedAt'[a] = now
        BY <1>8 DEF EndAttempt, Types
      <4> QED
        BY <2>5, <2>7, <4>1 DEF Alone, HasEnded
    <3> QED
      BY <2>1, <2>2, <2>3, <2>4, <2>5, <3>1, <3>2 DEF TimesCover, Begun, HasEnded
  <2> QED
    BY <2>6, <2>7
<1> QED
  BY <1>1, <1>2, <1>3, <1>4, <1>5, <1>6, <1>7, <1>8 DEF Next, Network

\* Every step preserves what is known of the attempt that is used.
LEMMA NextWinnerInv == Types /\ WinnerInv /\ [Next]_vars => WinnerInv'
<1> SUFFICES ASSUME Types, WinnerInv, [Next]_vars PROVE WinnerInv'
  OBVIOUS
<1> USE DEF WinnerInv, Types
<1>1. CASE Probe \/ UNCHANGED vars
  BY <1>1 DEF Probe, Do, ProbeFails, DoReturns, ReadAll, AddHeaderAndDownload, AddTCP, vars,
     network, history
<1>2. CASE Tick \/ Dial \/ NextRequest \/ FirstResponseByte
  BY <1>2 DEF Tick, Dial, NextRequest, FirstResponseByte, network, history
<1>3. CASE GotFresh \/ GotReused
  BY <1>3 DEF GotFresh, GotReused
<1>4. ASSUME NEW a \in Attempts, Spawn(a) \/ BeginAttempt(a) \/ EndAttempt(a)
      PROVE WinnerInv'
  BY <1>4 DEF Spawn, BeginAttempt, EndAttempt, history
<1>5. ASSUME NEW a \in Attempts, DialReturns(a) PROVE WinnerInv'
  BY <1>5 DEF DialReturns
<1> QED
  BY <1>1, <1>2, <1>3, <1>4, <1>5 DEF Next, Network

\* Every step preserves what is known of the connection.
LEMMA NextTakenInv == Types /\ TakenInv /\ [Next]_vars => TakenInv'
<1> SUFFICES ASSUME Types, TakenInv, [Next]_vars PROVE TakenInv'
  OBVIOUS
<1> USE DEF TakenInv
<1>1. CASE Do \/ ProbeFails \/ DoReturns \/ ReadAll \/ AddHeaderAndDownload \/ UNCHANGED vars
  BY <1>1 DEF Do, ProbeFails, DoReturns, ReadAll, AddHeaderAndDownload, vars, network, history
<1>2. CASE AddTCP
  BY <1>2 DEF AddTCP, network, history
<1>3. CASE Tick \/ Dial \/ NextRequest
  BY <1>3 DEF Tick, Dial, NextRequest, network, history
<1>4. CASE FirstResponseByte
  BY <1>4 DEF FirstResponseByte, SetHttpResponseReadyTime, history, Types
<1>5. CASE GotFresh
  BY <1>5 DEF GotFresh, SetGotConnTimeInfo, Types
<1>6. CASE GotReused
  BY <1>6 DEF GotReused, SetGotConnTimeInfo, Types
<1>7. ASSUME NEW a \in Attempts, Spawn(a) \/ DialReturns(a) PROVE TakenInv'
  BY <1>7 DEF Spawn, DialReturns, history
<1>8. ASSUME NEW a \in Attempts, BeginAttempt(a) \/ EndAttempt(a) PROVE TakenInv'
  BY <1>8 DEF BeginAttempt, EndAttempt, SetConnectStartTime, SetConnectDoneTimeError, Types
<1> QED
  BY <1>1, <1>2, <1>3, <1>4, <1>5, <1>6, <1>7, <1>8 DEF Next, Probe, Network

-----------------------------------------------------------------------------
(* The sum.                                                                *)

\* Only what Probe does and the end of an attempt can disturb it.
LEMMA SumUntouched ==
  ASSUME Types, Types', SumInv, now <= now',
         UNCHANGED <<call, total, after, takenAt, fresh, winner, endedAt, begunAt>>,
         Alone(winner)' => Alone(winner)
  PROVE  SumInv'
<1>1. now \in Int /\ now' \in Int /\ after \in Int /\ total \in Int
  BY DEF Types, Times
<1>2. after - now <= total => after - now' <= total
  <2>1. \A a, b, c, d \in Int : b <= d /\ a - b <= c => a - d <= c
    OBVIOUS
  <2> QED
    BY <1>1, <2>1
<1> QED
  BY <1>2 DEF SumInv

\* Every step preserves what is known of the sum.
LEMMA NextSumInv ==
  IInv /\ Types' /\ [Next]_vars => SumInv'
<1> SUFFICES ASSUME IInv, Types', [Next]_vars PROVE SumInv'
  OBVIOUS
<1> USE DEF IInv
<1>1. CASE UNCHANGED vars
  <2>1. Alone(winner)' => Alone(winner)
    BY <1>1 DEF vars, network, history, Alone, HasEnded
  <2> QED
    BY <1>1, <2>1, SumUntouched DEF vars, network, history, Types, Times
<1>2. CASE Do \/ ProbeFails \/ DoReturns \/ ReadAll
  BY <1>2 DEF Do, ProbeFails, DoReturns, ReadAll, SumInv
<1>3. CASE AddHeaderAndDownload
  <2> DEFINE before == IF stats.ConnectionReused THEN stats.GetConnectionDoneTime
                       ELSE stats.ConnectDoneTime
  <2>1. /\ call = "adding" /\ call' = "addingTCP"
        /\ total' = after - before
    BY <1>3 DEF AddHeaderAndDownload, GetTLSAndHttpHeaderDelta, GetHttpDownloadDelta,
       Types, Times
  <2>2. UNCHANGED <<now, attempt, begunAt, endedAt, winner, fresh, takenAt, after>>
    BY <1>3 DEF AddHeaderAndDownload, network, history
  <2>3. stats.ConnectionReused = ~fresh /\ stats.GetConnectionDoneTime = takenAt
    BY <2>1 DEF TakenInv
  <2>4. CASE ~fresh
    BY <2>1, <2>2, <2>3, <2>4 DEF SumInv
  <2>5. CASE fresh
    <3>1. winner \in Attempts /\ HasEnded(winner)
      BY <2>5 DEF WinnerInv, HasEnded
    <3>2. /\ endedAt[winner] <= stats.ConnectDoneTime
          /\ Alone(winner) => stats.ConnectDoneTime = endedAt[winner]
      BY <3>1 DEF AttemptsInv, TimesCover
    <3>3. Alone(winner)' => Alone(winner)
      BY <2>2 DEF Alone, HasEnded
    <3>4. /\ stats.ConnectDoneTime \in Int /\ stats.ConnectDoneTime <= now /\ now \in Int
          /\ after \in Int /\ endedAt[winner] \in Int
      BY <3>1 DEF Types, Times
    <3>5. total' = after - stats.ConnectDoneTime
      BY <2>1, <2>3, <2>5
    <3> HIDE DEF IInv
    <3> QED
      BY <2>1, <2>2, <2>5, <3>2, <3>3, <3>4, <3>5 DEF SumInv
  <2> QED
    BY <2>4, <2>5
<1>4. CASE AddTCP
  <2>1. /\ call = "addingTCP" /\ call' \in {"done", "panicked"}
        /\ total' = total + GetTCPDelta
    BY <1>4 DEF AddTCP
  <2>2. UNCHANGED <<now, attempt, begunAt, endedAt, winner, fresh, takenAt, after>>
    BY <1>4 DEF AddTCP, network, history
  <2>3. stats.ConnectionReused = ~fresh
    BY <2>1 DEF TakenInv
  <2>4. CASE ~fresh
    <3>1. total' = total
      BY <2>1, <2>3, <2>4 DEF GetTCPDelta, Types
    <3> QED
      BY <2>1, <2>2, <2>4, <3>1 DEF SumInv
  <2>5. CASE fresh
    <3>1. winner \in Attempts /\ HasEnded(winner)
      BY <2>5 DEF WinnerInv, HasEnded
    <3>2. Alone(winner) => stats.ConnectDoneTime = endedAt[winner]
                           /\ stats.ConnectStartTime = begunAt[winner]
      BY <3>1 DEF AttemptsInv, TimesCover, HasEnded, Begun
    <3>3. Alone(winner)' => Alone(winner)
      BY <2>2 DEF Alone, HasEnded
    <3>4. total' = total + (stats.ConnectDoneTime - stats.ConnectStartTime)
      BY <2>1, <2>3, <2>5 DEF GetTCPDelta
    <3>5. /\ total \in Int /\ after \in Int
          /\ endedAt[winner] \in Int /\ begunAt[winner] \in Int
      BY <3>1 DEF Types, Times
    <3> QED
      BY <2>1, <2>2, <2>5, <3>2, <3>3, <3>4, <3>5 DEF SumInv
  <2> QED
    BY <2>4, <2>5
<1>5. CASE Tick
  <2>1. Alone(winner)' => Alone(winner)
    BY <1>5 DEF Tick, network, history, Alone, HasEnded
  <2> QED
    BY <1>5, <2>1, SumUntouched DEF Tick, history, Types, Times
<1>6. CASE Dial \/ GotFresh \/ GotReused \/ FirstResponseByte \/ NextRequest
  BY <1>6 DEF Dial, GotFresh, GotReused, FirstResponseByte, NextRequest, SumInv
<1>7. ASSUME NEW a \in Attempts, Spawn(a) PROVE SumInv'
  <2>1. Alone(winner)' => Alone(winner)
    BY <1>7 DEF Spawn, history, Alone, HasEnded, Types
  <2> QED
    BY <1>7, <2>1, SumUntouched DEF Spawn, history, Types, Times
<1>8. ASSUME NEW a \in Attempts, BeginAttempt(a) PROVE SumInv'
  <2>1. UNCHANGED <<call, total, after, takenAt, fresh, winner, endedAt, now>>
        /\ call \notin {"done", "panicked", "failed"}
    BY <1>8 DEF BeginAttempt, Ended
  <2>2. Alone(winner)' /\ WinnerInv /\ fresh => Alone(winner)
    BY <1>8, <2>1 DEF BeginAttempt, Alone, HasEnded, WinnerInv, Types
  <2> QED
    BY <2>1, <2>2 DEF SumInv
<1>9. ASSUME NEW a \in Attempts, EndAttempt(a) PROVE SumInv'
  <2>1. /\ UNCHANGED <<call, total, after, takenAt, fresh, winner, begunAt, now>>
        /\ call \notin {"done", "panicked", "failed"}
    BY <1>9 DEF EndAttempt, Ended
  <2>2. CASE ~fresh
    BY <2>1, <2>2 DEF SumInv
  <2>3. CASE fresh
    <3>1. winner \in Attempts /\ HasEnded(winner) /\ winner # a
      BY <1>9, <2>3 DEF WinnerInv, HasEnded, EndAttempt
    <3>2. endedAt'[winner] = endedAt[winner]
      BY <1>9, <3>1 DEF EndAttempt, Types
    <3>3. Alone(winner)' => now <= begunAt[winner]
      <4>1. attempt'[a] \in {"up", "over"} /\ endedAt'[a] = now
        BY <1>9 DEF EndAttempt, Types
      <4> QED
        BY <2>1, <3>1, <4>1 DEF Alone, HasEnded
    <3>4. begunAt[winner] <= endedAt[winner] /\ endedAt[winner] <= now
      BY <3>1 DEF AttemptsInv, TimesCover, Types, Times
    <3>5. /\ total \in Int /\ after \in Int /\ now \in Int
          /\ endedAt[winner] \in Int /\ begunAt[winner] \in Int
      BY <3>1 DEF Types, Times
    <3> QED
      BY <2>1, <2>3, <3>2, <3>3, <3>4, <3>5 DEF SumInv
  <2> QED
    BY <2>2, <2>3
<1>10. ASSUME NEW a \in Attempts, DialReturns(a) PROVE SumInv'
  <2>1. call' = call /\ call \notin {"addingTCP", "done"}
    BY <1>10 DEF DialReturns, TakenInv
  <2> QED
    BY <1>10, <2>1 DEF SumInv
<1> QED
  BY <1>1, <1>2, <1>3, <1>4, <1>5, <1>6, <1>7, <1>8, <1>9, <1>10 DEF Next, Probe, Network

-----------------------------------------------------------------------------
(* The theorems.                                                           *)

\* In every state of a probe the tracer's times and the sum of Probe are what the
\* parts of the invariant say of them, whatever the transport calls back and when.
THEOREM Invariance == Spec => []IInv
<1>1. Init => IInv
  BY InitTypes, InitInv DEF IInv
<1>2. IInv /\ [Next]_vars => IInv'
  BY NextTypes, NextAttemptsInv, NextWinnerInv, NextTakenInv, NextSumInv DEF IInv
<1> QED
  BY <1>1, <1>2, PTL DEF Spec

\* The locals and the tracer's times have their types, no time is in the
\* future, and a self probe that gives a data point reused its connection.
THEOREM TypeCorrect == Spec => []TypeOK
<1>1. IInv => TypeOK
  BY DEF IInv, Types, TakenInv, TypeOK
<1> QED
  BY <1>1, Invariance, PTL

\* However many dials, requests and late callbacks share the tracer with it, a
\* reused connection's sum is from the connection in hand to the response's end.
THEOREM ReusedIsExact == Spec => []ReusedMeasuresOneRoundTrip
<1>1. IInv => ReusedMeasuresOneRoundTrip
  BY DEF IInv, SumInv, ReusedMeasuresOneRoundTrip
<1> QED
  BY <1>1, Invariance, PTL

\* A new connection's sum is exact if no attempt ran beside its own, whatever
\* the others did before it began.
THEOREM FreshIsExact == Spec => []FreshMeasuresItsConnection
<1>1. IInv => FreshMeasuresItsConnection
  BY DEF IInv, SumInv, FreshMeasuresItsConnection, MadeAlone, Alone, HasEnded
<1> QED
  BY <1>1, Invariance, PTL
=============================================================================
