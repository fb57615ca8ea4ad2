----------------------------- MODULE LiveUpdates -----------------------------
(***************************************************************************)
(* The live stream of the dashboard (the SSE effect of PegaProxDashboard,  *)
(* web/src/dashboard.js): connectSSE, the backoff of onerror, the refresh  *)
(* of the token, the health check and the cleanup.                         *)
(*                                                                         *)
(* All of them share the variable eventSource, and each of them awaits a   *)
(* token before it goes on: connectSSE may run several times at once, and  *)
(* a stream that eventSource no longer names is not closed by anyone.      *)
(*                                                                         *)
(* Left out: what the messages say (TaskList, VmList, ClusterView), the    *)
(* lengths of the delays.                                                  *)
(***************************************************************************)
EXTENDS Naturals, FiniteSets

CONSTANTS
    MaxStreams,   \* bound: streams at one time
    MaxAsking,    \* bound: calls of connectSSE at one time
    MaxFaults,    \* bound: token requests and streams that fail
    MaxAttempts   \* reconnectAttempts from which on the delay stays 30 s

VARIABLES
    stream,      \* every EventSource: none, connecting, open, wedged (open and silent), closed
    eventSource, \* the one the shared variable names, 0 for null
    token,       \* sseToken was obtained
    asking,      \* calls of connectSSE that await a token
    backoff,     \* timers of onerror still to fire
    errAsking,   \* of those that fired: awaiting their token
    refresh,     \* the refresh interval runs
    refAsking,   \* a refresh awaits its token
    delayed,     \* connectSSE calls due 100 ms after a refresh
    attempts,    \* reconnectAttempts
    lastMsg,     \* lastSseMessageAt: never, fresh, old (more than 30 s)
    isClosing,   \* the cleanup ran
    faults       \* failures so far

vars == <<stream, eventSource, token, asking, backoff, errAsking, refresh, refAsking,
          delayed, attempts, lastMsg, isClosing, faults>>

Streams == 1 .. MaxStreams
Live == {i \in Streams : stream[i] \in {"connecting", "open", "wedged"}}

\* The effect has started: its first connectSSE awaits a token.
Init ==
    /\ stream = [i \in Streams |-> "none"]
    /\ eventSource = 0 /\ token = FALSE
    /\ asking = 1 /\ backoff = 0 /\ errAsking = 0 /\ delayed = 0
    /\ refresh = FALSE /\ refAsking = FALSE
    /\ attempts = 0 /\ lastMsg = "never" /\ isClosing = FALSE /\ faults = 0

Fault == faults < MaxFaults /\ faults' = faults + 1

\* eventSource.close(); a closed stream nobody names is forgotten.
CloseShared(s) == [i \in Streams |-> IF i = eventSource THEN "closed" ELSE s[i]]

----------------------------------------------------------------------------
(* connectSSE                                                              *)

\* connectSSE up to its await.
ConnectSSE ==
    IF isClosing THEN asking' = asking
    ELSE asking < MaxAsking /\ asking' = asking + 1

\* Behind the await: with a token, old or new, a stream; without one, nothing.
ConnectGoesOn(hasToken) ==
    IF hasToken
    THEN \E i \in Streams :
            /\ stream[i] \in {"none", "closed"}
            /\ stream' = [j \in Streams |-> IF j = i THEN "connecting"
                                            ELSE IF stream[j] = "closed" THEN "none" ELSE stream[j]]
            /\ eventSource' = i
    ELSE UNCHANGED <<stream, eventSource>>

TokenComes ==
    /\ asking > 0
    /\ asking' = asking - 1 /\ token' = TRUE
    /\ ConnectGoesOn(TRUE)
    /\ UNCHANGED <<backoff, errAsking, refresh, refAsking, delayed, attempts, lastMsg, isClosing, faults>>

TokenFails ==
    /\ asking > 0 /\ Fault
    /\ asking' = asking - 1
    /\ ConnectGoesOn(token)
    /\ UNCHANGED <<token, backoff, errAsking, refresh, refAsking, delayed, attempts, lastMsg, isClosing>>

----------------------------------------------------------------------------
(* The events of a stream                                                  *)

\* onopen: the backoff starts over, and so does the refresh interval.
Opens(i) ==
    /\ stream[i] = "connecting"
    /\ stream' = [stream EXCEPT ![i] = "open"]
    /\ attempts' = 0 /\ refresh' = TRUE
    /\ UNCHANGED <<eventSource, token, asking, backoff, errAsking, refAsking, delayed, lastMsg, isClosing, faults>>

Message(i) ==
    /\ stream[i] = "open"
    /\ lastMsg' = "fresh"
    /\ UNCHANGED <<stream, eventSource, token, asking, backoff, errAsking, refresh, refAsking,
                   delayed, attempts, isClosing, faults>>

\* The connection is half open: no message and no error comes any more.
Wedges(i) ==
    /\ stream[i] = "open" /\ Fault
    /\ stream' = [stream EXCEPT ![i] = "wedged"]
    /\ UNCHANGED <<eventSource, token, asking, backoff, errAsking, refresh, refAsking,
                   delayed, attempts, lastMsg, isClosing>>

\* reconnectAttempts behind the next error, as far as the delay tells it apart.
AttemptsAfter == IF attempts < MaxAttempts THEN attempts + 1 ELSE attempts

\* onerror: the stream the variable names is closed, which need not be the one that
\* failed; the browser connects that one again by itself, or gave it up.
Errors(i) ==
    /\ i \in Live /\ Fault
    /\ \E after \in {"closed", "connecting"} :
          stream' = CloseShared([stream EXCEPT ![i] = IF after = "closed" /\ i # eventSource
                                                      THEN "none" ELSE after])
    /\ IF isClosing THEN UNCHANGED <<attempts, backoff>>
       ELSE /\ backoff' = backoff + 1
            /\ attempts' = AttemptsAfter
    /\ UNCHANGED <<eventSource, token, asking, errAsking, refresh, refAsking, delayed, lastMsg, isClosing>>

----------------------------------------------------------------------------
(* The timers                                                              *)

\* The timer of onerror: a token first, then connectSSE (which asks for another).
BackoffFires ==
    /\ backoff > 0
    /\ backoff' = backoff - 1 /\ errAsking' = errAsking + 1
    /\ UNCHANGED <<stream, eventSource, token, asking, refresh, refAsking, delayed, attempts,
                   lastMsg, isClosing, faults>>

BackoffGoesOn ==
    /\ errAsking > 0
    /\ errAsking' = errAsking - 1
    /\ ConnectSSE
    /\ \/ token' = TRUE /\ UNCHANGED faults
       \/ Fault /\ UNCHANGED token
    /\ UNCHANGED <<stream, eventSource, backoff, refresh, refAsking, delayed, attempts, lastMsg, isClosing>>

RefreshFires ==
    /\ refresh /\ ~refAsking
    /\ refAsking' = TRUE
    /\ UNCHANGED <<stream, eventSource, token, asking, backoff, errAsking, refresh, delayed,
                   attempts, lastMsg, isClosing, faults>>

\* With a new token the stream is closed and opened again shortly after; without one it stays.
RefreshGoesOn ==
    /\ refAsking
    /\ refAsking' = FALSE
    /\ \/ /\ token' = TRUE /\ delayed < MaxAsking /\ delayed' = delayed + 1
          /\ stream' = CloseShared(stream)
          /\ UNCHANGED faults
       \/ Fault /\ UNCHANGED <<token, delayed, stream>>
    /\ UNCHANGED <<eventSource, asking, backoff, errAsking, refresh, attempts, lastMsg, isClosing>>

DelayedFires ==
    /\ delayed > 0
    /\ delayed' = delayed - 1
    /\ ConnectSSE
    /\ UNCHANGED <<stream, eventSource, token, backoff, errAsking, refresh, refAsking, attempts,
                   lastMsg, isClosing, faults>>

\* 30 s without a message: no stream delivers.
Silence ==
    /\ lastMsg = "fresh" /\ ~\E i \in Streams : stream[i] = "open"
    /\ lastMsg' = "old"
    /\ UNCHANGED <<stream, eventSource, token, asking, backoff, errAsking, refresh, refAsking,
                   delayed, attempts, isClosing, faults>>

\* Fault: a stream that is open and silent is left alone.
LooksBrokenClosed == eventSource # 0 /\ stream[eventSource] = "closed"

\* looksClosed || wedged
LooksBroken ==
    \/ eventSource # 0 /\ stream[eventSource] = "closed"
    \/ lastMsg = "old"

HealthCheck ==
    /\ ~isClosing /\ LooksBroken
    /\ attempts' = 0
    /\ stream' = CloseShared(stream)
    /\ ConnectSSE
    /\ UNCHANGED <<eventSource, token, backoff, errAsking, refresh, refAsking, delayed, lastMsg,
                   isClosing, faults>>

\* The cleanup: the newest backoff timer, both intervals, and the stream.
Cleanup ==
    /\ ~isClosing
    /\ isClosing' = TRUE
    /\ refresh' = FALSE
    /\ backoff' \in {backoff, backoff - 1} \cap Nat
    /\ stream' = CloseShared(stream)
    /\ UNCHANGED <<eventSource, token, asking, errAsking, refAsking, delayed, attempts, lastMsg, faults>>

----------------------------------------------------------------------------
Next ==
    \/ TokenComes \/ TokenFails
    \/ \E i \in Streams : Opens(i) \/ Message(i) \/ Wedges(i) \/ Errors(i)
    \/ BackoffFires \/ BackoffGoesOn \/ RefreshFires \/ RefreshGoesOn \/ DelayedFires
    \/ Silence \/ HealthCheck \/ Cleanup

\* Requests are answered and timers fire.  A stream opens and has its first message in
\* less than the ten seconds between two health checks often enough (strong fairness:
\* each check closes a stream that is still silent).  Faults and the cleanup need not happen.
Fairness ==
    /\ WF_vars(TokenComes) /\ WF_vars(BackoffFires) /\ WF_vars(BackoffGoesOn)
    /\ WF_vars(RefreshGoesOn) /\ WF_vars(DelayedFires)
    /\ WF_vars(Silence) /\ WF_vars(HealthCheck)
    /\ SF_vars(\E i \in Streams : Opens(i)) /\ SF_vars(\E i \in Streams : Message(i))

Spec == Init /\ [][Next]_vars /\ Fairness

----------------------------------------------------------------------------
(* Properties                                                              *)

\* Every variable holds a value of its type.
TypeOK ==
    /\ stream \in [Streams -> {"none", "connecting", "open", "wedged", "closed"}]
    /\ eventSource \in 0 .. MaxStreams
    /\ token \in BOOLEAN /\ refresh \in BOOLEAN /\ refAsking \in BOOLEAN /\ isClosing \in BOOLEAN
    /\ asking \in 0 .. MaxAsking /\ delayed \in 0 .. MaxAsking
    /\ backoff \in 0 .. MaxFaults /\ errAsking \in 0 .. MaxFaults
    /\ attempts \in 0 .. MaxAttempts /\ lastMsg \in {"never", "fresh", "old"}
    /\ faults \in 0 .. MaxFaults

\* A page that ever had a message gets its live updates back, whatever failed: the
\* stream, a token request, or the connection without a word (the wedged check).
UpdatesComeBack == lastMsg = "old" ~> (lastMsg = "fresh" \/ isClosing)

\* Behind the cleanup connectSSE asks for no token any more, and a stream that still opens
\* uses up a token that was asked for before: never more streams than were asked for then.
CleanupBoundsStreams ==
    [][isClosing => /\ isClosing' /\ asking' <= asking
                    /\ Live' \ Live # {} => asking' < asking]_vars

\* Behind the cleanup no stream opens.
NoStreamBehindTheCleanup == [][isClosing => Live' \subseteq Live]_vars

\* Health check: a page without a stream gets one.
DisconnectedReconnects == Live = {} ~> (Live # {} \/ isClosing)
=============================================================================
