------------------------------ MODULE VncConsole ------------------------------
(***************************************************************************)
(* The console window (ConsoleModal, web/src/node_modals.js) and the       *)
(* choice of its transport (connectVnc, web/src/vnc_secure_socket.js).     *)
(*                                                                         *)
(* The effect of the window runs once per guest, view or console ticket:   *)
(* a run.  startVNC of a run awaits a ticket, a token, the noVNC script    *)
(* and, in stable mode, connectVnc, and starts over when the connection    *)
(* breaks.  The cleanup of a run sets its flag `cancelled' and disconnects *)
(* what rfbRef holds; the runs share rfbRef, the retry counter and the     *)
(* status that is shown.                                                   *)
(*                                                                         *)
(* Left out: the frames (VncSocket, VncPoll), the wait before a retry (its *)
(* length), the xterm view.                                                *)
(***************************************************************************)
EXTENDS Naturals, FiniteSets

CONSTANTS
    MaxRuns,     \* bound: runs of the effect
    MaxRetries,  \* maxRetries (8 in the code)
    Stable       \* the runs in stable mode: their socket comes from connectVnc

ASSUME ConsoleAssumption ==
    MaxRuns \in Nat \ {0} /\ MaxRetries \in Nat /\ Stable \subseteq 1 .. MaxRuns

VARIABLES
    current,     \* the run whose effect is in place, 0 when there is none
    started,     \* runs so far
    cancelled,   \* `cancelled' of each run
    stage,       \* where startVNC of each run is
    conn,        \* connectVnc of each run
    rfb,         \* the RFB object of each run
    authFailed,  \* `authFailed' of it
    rfbRef,      \* rfbRef.current: the run whose RFB it is, 0 for null
    retryCount,  \* retryCount.current
    status       \* connectionStatus

vars == <<current, started, cancelled, stage, conn, rfb, authFailed, rfbRef, retryCount, status>>

Runs == 1 .. MaxRuns

\* connectVnc before it did anything; asking and opening count its goPolling calls
\* that await a handle and its polling sockets that are not open yet.
NoConn == [ws |-> "none", timer |-> FALSE, committed |-> FALSE, asking |-> 0, opening |-> 0,
           unused |-> 0, sock |-> "none"]

Init ==
    /\ current = 0 /\ started = 0 /\ rfbRef = 0 /\ retryCount = 0 /\ status = "connecting"
    /\ cancelled = [r \in Runs |-> FALSE]
    /\ stage = [r \in Runs |-> "off"]
    /\ conn = [r \in Runs |-> NoConn]
    /\ rfb = [r \in Runs |-> "none"]
    /\ authFailed = [r \in Runs |-> FALSE]

----------------------------------------------------------------------------
(* The effect and its cleanup                                              *)

\* The cleanup of the run in place: cancelled, and what rfbRef holds disconnects.
Cleanup ==
    /\ cancelled' = IF current = 0 THEN cancelled ELSE [cancelled EXCEPT ![current] = TRUE]
    /\ rfbRef' = 0
    /\ rfb' = IF current # 0 /\ rfbRef # 0 /\ rfb[rfbRef] \in {"connecting", "connected"}
              THEN [rfb EXCEPT ![rfbRef] = "closing"] ELSE rfb

\* The window opens, or its guest or view changes: cleanup, and startVNC of a new run.
EffectRuns ==
    /\ started < MaxRuns
    /\ started' = started + 1 /\ current' = started + 1
    /\ Cleanup
    /\ stage' = [stage EXCEPT ![started + 1] = "ticket"]
    /\ status' = "connecting"
    /\ UNCHANGED <<conn, authFailed, retryCount>>

\* The window closes, or shows the terminal instead.
EffectEnds ==
    /\ current # 0
    /\ current' = 0
    /\ Cleanup
    /\ UNCHANGED <<started, stage, conn, authFailed, retryCount, status>>

----------------------------------------------------------------------------
(* startVNC up to the connection                                           *)

Goto(r, s) == stage' = [stage EXCEPT ![r] = s]

\* The console ticket came; a cancelled run stops here.
TicketComes(r) ==
    /\ stage[r] = "ticket"
    /\ Goto(r, IF cancelled[r] THEN "over" ELSE "token")
    /\ UNCHANGED <<current, started, cancelled, conn, rfb, authFailed, rfbRef, retryCount, status>>

TicketFails(r) ==
    /\ stage[r] = "ticket"
    /\ Goto(r, "over") /\ status' = "error"
    /\ UNCHANGED <<current, started, cancelled, conn, rfb, authFailed, rfbRef, retryCount>>

\* Fault: a cancelled run stays where it is.
TokenForTheCurrent(r) ==
    /\ stage[r] = "token" /\ ~cancelled[r]
    /\ Goto(r, "load")
    /\ UNCHANGED <<current, started, cancelled, conn, rfb, authFailed, rfbRef, retryCount, status>>

\* The token for the WebSocket; without one it goes on with an empty token.
TokenComes(r) ==
    /\ stage[r] = "token"
    /\ Goto(r, "load")
    /\ UNCHANGED <<current, started, cancelled, conn, rfb, authFailed, rfbRef, retryCount, status>>

\* The noVNC script failed or took 20 s: the catch of startVNC.
LoadFails(r) ==
    /\ stage[r] = "load"
    /\ Goto(r, "over")
    /\ status' = IF cancelled[r] THEN status ELSE "load_error"
    /\ UNCHANGED <<current, started, cancelled, conn, rfb, authFailed, rfbRef, retryCount>>

\* new RFB on a URL or a socket, its listeners, and rfbRef.
NewRfb(r) ==
    /\ rfb' = [rfb EXCEPT ![r] = "connecting"]
    /\ authFailed' = [authFailed EXCEPT ![r] = FALSE]
    /\ rfbRef' = r
    /\ Goto(r, "live")

\* Fault: noVNC is started for a cancelled run as well.
StopsHereNever(r) == FALSE

\* noVNC is there: a cancelled run ends (and says load_error).
StopsHere(r) == cancelled[r]

\* connectVnc begins: the WebSocket is asked for, with a timer behind it, or (the
\* setting pegaprox-vnc-force-polling) the fallback at once.
ConnectBegins == {[NoConn EXCEPT !.ws = "opening", !.timer = TRUE], [NoConn EXCEPT !.asking = 1]}

Loaded(r) ==
    /\ stage[r] = "load"
    /\ \/ /\ StopsHere(r)
          /\ Goto(r, "over") /\ status' = "load_error"
          /\ UNCHANGED <<conn, rfb, authFailed, rfbRef>>
       \/ /\ ~StopsHere(r) /\ r \notin Stable
          /\ NewRfb(r)
          /\ UNCHANGED <<conn, status>>
       \/ /\ ~StopsHere(r) /\ r \in Stable
          /\ \E c \in ConnectBegins : conn' = [conn EXCEPT ![r] = c]
          /\ Goto(r, "connect")
          /\ UNCHANGED <<rfb, authFailed, rfbRef, status>>
    /\ UNCHANGED <<current, started, cancelled, retryCount>>

----------------------------------------------------------------------------
(* connectVnc                                                              *)

\* goPolling up to its await: only while nothing is committed.
GoPolling(c) == IF c.committed THEN c ELSE [c EXCEPT !.asking = @ + 1]

\* commit: the first socket is the one the promise resolves to.
Commit(c, sock) == IF c.committed THEN c ELSE [c EXCEPT !.committed = TRUE, !.sock = sock]

ConnectStep(r, c) ==
    /\ conn' = [conn EXCEPT ![r] = c]
    /\ UNCHANGED <<current, started, cancelled, stage, rfb, authFailed, rfbRef, retryCount, status>>

WsOpens(r) ==
    /\ conn[r].ws = "opening"
    /\ ConnectStep(r, Commit([conn[r] EXCEPT !.ws = "open", !.timer = FALSE], "ws"))

\* failTimer: the WebSocket is closed, and the fallback starts.
WsTimesOut(r) ==
    /\ conn[r].timer /\ conn[r].ws = "opening"
    /\ ConnectStep(r, GoPolling([conn[r] EXCEPT !.ws = "closing", !.timer = FALSE]))

\* 'close' before anything is committed: the fallback starts.
WsCloses(r) ==
    /\ conn[r].ws \in {"opening", "closing"}
    /\ ConnectStep(r, GoPolling([conn[r] EXCEPT !.ws = "closed", !.timer = FALSE]))

\* getPollHandle returned a ticket of its own; a polling socket opens with it.
HandleComes(r) ==
    /\ conn[r].asking > 0
    /\ ConnectStep(r, IF conn[r].committed THEN [conn[r] EXCEPT !.asking = @ - 1]
                      ELSE [conn[r] EXCEPT !.asking = @ - 1, !.opening = @ + 1])

HandleFails(r) ==
    /\ conn[r].asking > 0
    /\ ConnectStep(r, [conn[r] EXCEPT !.asking = @ - 1])

\* 'open' of a polling socket.  One that comes second is open and nobody has it.
PollOpens(r) ==
    /\ conn[r].opening > 0
    /\ LET c == [conn[r] EXCEPT !.opening = @ - 1]
       IN  ConnectStep(r, IF c.committed THEN [c EXCEPT !.unused = @ + 1] ELSE Commit(c, "poll"))

\* 'close' of a polling socket that did not open: handed out all the same.
PollFails(r) ==
    /\ conn[r].opening > 0
    /\ ConnectStep(r, Commit([conn[r] EXCEPT !.opening = @ - 1], "dead"))

\* Behind the await of connectVnc.  RFB throws for a closed socket (external, noVNC).
Connected(r) ==
    /\ stage[r] = "connect" /\ conn[r].committed
    /\ IF conn[r].sock = "dead"
       THEN /\ Goto(r, "over")
            /\ status' = IF cancelled[r] THEN status ELSE "load_error"
            /\ UNCHANGED <<rfb, authFailed, rfbRef>>
       ELSE NewRfb(r) /\ UNCHANGED status
    /\ UNCHANGED <<current, started, cancelled, conn, retryCount>>

----------------------------------------------------------------------------
(* Events of the RFB object                                                *)

RfbConnects(r) ==
    /\ stage[r] = "live" /\ rfb[r] = "connecting"
    /\ rfb' = [rfb EXCEPT ![r] = "connected"]
    /\ retryCount' = 0 /\ status' = "connected"
    /\ UNCHANGED <<current, started, cancelled, stage, conn, authFailed, rfbRef>>

SecurityFails(r) ==
    /\ stage[r] = "live" /\ rfb[r] = "connecting" /\ ~authFailed[r]
    /\ authFailed' = [authFailed EXCEPT ![r] = TRUE]
    /\ status' = "auth_failed"
    /\ UNCHANGED <<current, started, cancelled, stage, conn, rfb, rfbRef, retryCount>>

\* 'integrityerror' of the socket; its close follows as an unclean disconnect.
IntegrityFails(r) ==
    /\ stage[r] = "live" /\ r \in Stable /\ rfb[r] \in {"connecting", "connected"}
    /\ status # "integrity_failed"
    /\ status' = "integrity_failed"
    /\ UNCHANGED <<current, started, cancelled, stage, conn, rfb, authFailed, rfbRef, retryCount>>

RetryAllowed(r) == ~authFailed[r] /\ ~cancelled[r] /\ retryCount < MaxRetries

\* 'disconnect', unclean: another try, or the end.
Breaks(r) ==
    /\ stage[r] = "live" /\ rfb[r] \in {"connecting", "connected"}
    /\ rfb' = [rfb EXCEPT ![r] = "none"]
    /\ IF RetryAllowed(r)
       THEN /\ retryCount' = retryCount + 1 /\ rfbRef' = 0
            /\ status' = "reconnecting" /\ Goto(r, "retry")
       ELSE /\ status' = IF authFailed[r] THEN "auth_failed" ELSE "error"
            /\ Goto(r, "over")
            /\ UNCHANGED <<retryCount, rfbRef>>
    /\ UNCHANGED <<current, started, cancelled, conn, authFailed>>

\* 'disconnect', clean: disconnect() of the cleanup.
Disconnects(r) ==
    /\ stage[r] = "live" /\ rfb[r] = "closing"
    /\ rfb' = [rfb EXCEPT ![r] = "none"]
    /\ status' = IF authFailed[r] THEN "auth_failed" ELSE "disconnected"
    /\ Goto(r, "over")
    /\ UNCHANGED <<current, started, cancelled, conn, authFailed, rfbRef, retryCount>>

StillWanted(r) == ~cancelled[r]

\* The timer of a retry.  Its connectVnc is a new one; sockets of the last one that
\* nobody has are not followed any further.
Retries(r) ==
    /\ stage[r] = "retry"
    /\ IF StillWanted(r) THEN Goto(r, "ticket") /\ status' = "connecting"
       ELSE Goto(r, "over") /\ UNCHANGED status
    /\ conn' = [conn EXCEPT ![r] = NoConn]
    /\ UNCHANGED <<current, started, cancelled, rfb, authFailed, rfbRef, retryCount>>

----------------------------------------------------------------------------
RunStep(r) ==
    \/ TicketComes(r) \/ TicketFails(r) \/ TokenComes(r) \/ LoadFails(r) \/ Loaded(r)
    \/ Connected(r) \/ RfbConnects(r) \/ SecurityFails(r) \/ IntegrityFails(r)
    \/ Breaks(r) \/ Disconnects(r) \/ Retries(r)

Transport(r) ==
    \/ WsOpens(r) \/ WsTimesOut(r) \/ WsCloses(r)
    \/ HandleComes(r) \/ HandleFails(r) \/ PollOpens(r) \/ PollFails(r)

Next == EffectRuns \/ EffectEnds \/ \E r \in Runs : RunStep(r) \/ Transport(r)

\* Every request is answered or fails, every timer fires, disconnect() is answered,
\* and an RFB that is connecting connects or breaks.
Fairness ==
    \A r \in Runs :
        /\ WF_vars(TicketComes(r) \/ TicketFails(r)) /\ WF_vars(TokenComes(r))
        /\ WF_vars(LoadFails(r) \/ Loaded(r)) /\ WF_vars(Connected(r)) /\ WF_vars(Transport(r))
        /\ WF_vars(Disconnects(r)) /\ WF_vars(Retries(r))
        /\ WF_vars(rfb[r] = "connecting" /\ (RfbConnects(r) \/ Breaks(r)))

Spec == Init /\ [][Next]_vars /\ Fairness

----------------------------------------------------------------------------
(* Properties                                                              *)

Stages == {"off", "ticket", "token", "load", "connect", "live", "retry", "over"}

\* Every variable holds a value of its type.
TypeOK ==
    /\ current \in 0 .. MaxRuns /\ started \in 0 .. MaxRuns /\ rfbRef \in 0 .. MaxRuns
    /\ cancelled \in [Runs -> BOOLEAN] /\ authFailed \in [Runs -> BOOLEAN]
    /\ stage \in [Runs -> Stages]
    /\ conn \in [Runs -> [ws : {"none", "opening", "open", "closing", "closed"},
                          timer : BOOLEAN, committed : BOOLEAN,
                          asking : 0 .. 2, opening : 0 .. 2, unused : 0 .. 1,
                          sock : {"none", "ws", "poll", "dead"}]]
    /\ rfb \in [Runs -> {"none", "connecting", "connected", "closing"}]
    /\ retryCount \in 0 .. MaxRetries
    /\ status \in {"connecting", "connected", "reconnecting", "disconnected", "error",
                   "auth_failed", "load_error", "integrity_failed"}

\* A console that is closed, or shows another guest, leaves no connection behind.
NoZombieConnection ==
    \A r \in Runs : r # current => rfb[r] \in {"none", "closing"}

\* Up to the first run in stable mode, whose connectVnc may come back late.
Plain == {r \in Runs : \A q \in 1 .. r : q \notin Stable}

\* A plain console that is closed, or shows another guest, leaves no connection behind,
\* whichever await of startVNC the cleanup crossed.
PlainLeavesNothing ==
    \A r \in Plain : r # current => rfb[r] \in {"none", "closing"}

\* A plain console in rfbRef is the one in front: its buttons and its cleanup act on it.
RefIsTheCurrentRun == rfbRef \in Plain => rfbRef = current

\* A refused password ends the tries of the run: it never asks for another ticket.
AuthFailureEnds ==
    [][\A r \in Runs : authFailed[r] => stage'[r] # "retry"]_vars

\* A run that was cleaned up asks for no further ticket.
CancelledAsksNoTicket ==
    [][\A r \in Runs : cancelled[r] /\ stage[r] # "ticket" => stage'[r] # "ticket"]_vars

\* Every try of a plain console comes to an end: a connection, a retry, or a reason to
\* give up (startVNC).
TriesEnd ==
    \A r \in Plain : stage[r] = "ticket" ~> stage[r] \in {"live", "retry", "over"}

\* Never two tickets of one console at once: the WebSocket or one fallback.
OneSessionPerConsole ==
    \A r \in Runs : conn[r].asking + conn[r].opening + conn[r].unused <= 1

\* The promise of connectVnc resolves.
ConnectResolves == \A r \in Runs : stage[r] = "connect" ~> conn[r].committed
=============================================================================
