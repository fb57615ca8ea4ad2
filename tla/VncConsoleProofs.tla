-------------------------- MODULE VncConsoleProofs --------------------------
(***************************************************************************)
(* A plain console leaves no connection behind, for any number of runs and *)
(* retries: only the run in front is not cancelled, so only it starts a    *)
(* connection, and rfbRef names it when the cleanup comes. The counts of   *)
(* connectVnc stay within what its WebSocket may have started.             *)
(***************************************************************************)
EXTENDS VncConsole, TLAPS

(* Fallbacks that connectVnc can have started, by what became of its WebSocket: none beside
   one that opens, one behind the timer or for the setting, another behind the close. *)
Fallbacks(ws) == IF ws \in {"opening", "open"} THEN 0 ELSE IF ws = "closed" THEN 2 ELSE 1

HandedOut(sock) == IF sock \in {"poll", "dead"} THEN 1 ELSE 0

(* Every polling handle, every polling socket and the socket that was handed out comes from
   one of them. *)
ConnFits(c) ==
    /\ c.asking + c.opening + c.unused + HandedOut(c.sock) <= Fallbacks(c.ws)
    /\ c.committed <=> c.sock # "none"
    /\ c.unused > 0 => c.committed
    /\ c.sock = "ws" => c.ws = "open"

(* Only the run in front is not cancelled, and only it may start a connection. *)
RunsFit ==
    /\ current \in {0, started}
    /\ \A r \in Runs : r <= started /\ r # current => cancelled[r]
    /\ \A r \in Runs : r > started => stage[r] = "off" /\ ~cancelled[r]
    /\ \A r \in Runs : stage[r] = "connect" => r \in Stable

(* A plain connection is the one in rfbRef, and of the run in front. *)
PlainFits ==
    /\ \A r \in Plain : rfb[r] \in {"connecting", "connected"} => r = current /\ rfbRef = r
    /\ rfbRef \in Plain => rfbRef = current

(* A refused password is of a connection, or of a run that is over. *)
AuthFits == \A r \in Runs : authFailed[r] => stage[r] \in {"live", "over"}

ConsoleInv ==
    /\ TypeOK /\ RunsFit /\ PlainFits /\ AuthFits
    /\ \A r \in Runs : ConnFits(conn[r])

-----------------------------------------------------------------------------
(* connectVnc *)

WsStates == {"none", "opening", "open", "closing", "closed"}
Socks == {"none", "ws", "poll", "dead"}

Conns == [ws : WsStates, timer : BOOLEAN, committed : BOOLEAN,
          asking : 0 .. 2, opening : 0 .. 2, unused : 0 .. 1, sock : Socks]

(* The type of the counts follows from what the WebSocket may have started. *)
LEMMA CountsFit ==
    ASSUME NEW c \in [ws : WsStates, timer : BOOLEAN, committed : BOOLEAN,
                      asking : Nat, opening : Nat, unused : Nat, sock : Socks],
           ConnFits(c)
    PROVE  c \in Conns
  <1>1. /\ c.asking \in Nat /\ c.opening \in Nat /\ c.unused \in Nat
        /\ c.sock \in Socks /\ c.ws \in WsStates
    OBVIOUS
  <1>2. c.asking + c.opening + c.unused + HandedOut(c.sock) <= Fallbacks(c.ws)
    BY DEF ConnFits
  <1>3. HandedOut(c.sock) \in 0 .. 1 /\ Fallbacks(c.ws) \in 0 .. 2
    BY DEF HandedOut, Fallbacks
  <1>4. c.asking <= 2 /\ c.opening <= 2
    BY <1>1, <1>2, <1>3
  <1>5. c.unused <= 1
    <2>1. CASE c.unused = 0
      BY <2>1
    <2>2. CASE c.unused > 0 /\ c.sock \in {"poll", "dead"}
      <3>1. HandedOut(c.sock) = 1
        BY <2>2 DEF HandedOut
      <3> QED
        BY <1>1, <1>2, <1>3, <3>1
    <2>3. CASE c.unused > 0 /\ c.sock \notin {"poll", "dead"}
      <3>1. c.ws = "open"
        BY <1>1, <2>3 DEF ConnFits, Socks
      <3>2. Fallbacks(c.ws) = 0
        BY <3>1 DEF Fallbacks
      <3> QED
        BY <1>1, <1>2, <1>3, <3>2
    <2> QED
      BY <1>1, <2>1, <2>2, <2>3
  <1> QED
    BY <1>1, <1>4, <1>5 DEF Conns

LEMMA NoConnFits == NoConn \in Conns /\ ConnFits(NoConn)
  BY DEF NoConn, Conns, WsStates, Socks, ConnFits, HandedOut, Fallbacks

LEMMA ConnectBeginsFits ==
    ASSUME NEW c \in ConnectBegins
    PROVE  c \in Conns /\ ConnFits(c)
  <1>1. CASE c = [NoConn EXCEPT !.ws = "opening", !.timer = TRUE]
    <2>1. c = [ws |-> "opening", timer |-> TRUE, committed |-> FALSE, asking |-> 0,
               opening |-> 0, unused |-> 0, sock |-> "none"]
      BY <1>1 DEF NoConn
    <2> QED
      BY <2>1 DEF Conns, WsStates, Socks, ConnFits, HandedOut, Fallbacks
  <1>2. CASE c = [NoConn EXCEPT !.asking = 1]
    <2>1. c = [ws |-> "none", timer |-> FALSE, committed |-> FALSE, asking |-> 1,
               opening |-> 0, unused |-> 0, sock |-> "none"]
      BY <1>2 DEF NoConn
    <2> QED
      BY <2>1 DEF Conns, WsStates, Socks, ConnFits, HandedOut, Fallbacks
  <1> QED
    BY <1>1, <1>2 DEF ConnectBegins

(* What one step of connectVnc makes of its state. *)
ConnStep(c, d) ==
    \/ c.ws = "opening" /\ d = Commit([c EXCEPT !.ws = "open", !.timer = FALSE], "ws")
    \/ c.ws = "opening" /\ d = GoPolling([c EXCEPT !.ws = "closing", !.timer = FALSE])
    \/ c.ws \in {"opening", "closing"} /\ d = GoPolling([c EXCEPT !.ws = "closed", !.timer = FALSE])
    \/ c.asking > 0 /\ ~c.committed /\ d = [c EXCEPT !.asking = @ - 1, !.opening = @ + 1]
    \/ c.asking > 0 /\ d = [c EXCEPT !.asking = @ - 1]
    \/ c.opening > 0 /\ c.committed /\ d = [c EXCEPT !.opening = @ - 1, !.unused = @ + 1]
    \/ c.opening > 0 /\ ~c.committed /\ d = Commit([c EXCEPT !.opening = @ - 1], "poll")
    \/ c.opening > 0 /\ d = Commit([c EXCEPT !.opening = @ - 1], "dead")

LEMMA TransportIsAStep ==
    ASSUME NEW r \in Runs, conn[r] \in Conns, Transport(r)
    PROVE  \E d : ConnStep(conn[r], d) /\ ConnectStep(r, d)
  <1> DEFINE c == conn[r]
  <1>1. CASE WsOpens(r)
    BY <1>1 DEF WsOpens, ConnStep
  <1>2. CASE WsTimesOut(r)
    BY <1>2 DEF WsTimesOut, ConnStep
  <1>3. CASE WsCloses(r)
    BY <1>3 DEF WsCloses, ConnStep
  <1>4. CASE HandleComes(r)
    BY <1>4 DEF HandleComes, ConnStep
  <1>5. CASE HandleFails(r)
    BY <1>5 DEF HandleFails, ConnStep
  <1>6. CASE PollOpens(r)
    BY <1>6 DEF PollOpens, ConnStep, Conns
  <1>7. CASE PollFails(r)
    BY <1>7 DEF PollFails, ConnStep
  <1> QED
    BY <1>1, <1>2, <1>3, <1>4, <1>5, <1>6, <1>7 DEF Transport

(* A step of connectVnc keeps its counts. *)
LEMMA ConnStepKeeps ==
    ASSUME NEW c \in Conns, ConnFits(c), NEW d, ConnStep(c, d)
    PROVE  d \in Conns /\ ConnFits(d)
  <1> DEFINE Loose == [ws : WsStates, timer : BOOLEAN, committed : BOOLEAN,
                       asking : Nat, opening : Nat, unused : Nat, sock : Socks]
  <1>0. /\ c.asking \in Nat /\ c.opening \in Nat /\ c.unused \in Nat
        /\ c.ws \in WsStates /\ c.sock \in Socks
        /\ c.timer \in BOOLEAN /\ c.committed \in BOOLEAN
        /\ c = [ws |-> c.ws, timer |-> c.timer, committed |-> c.committed, asking |-> c.asking,
                opening |-> c.opening, unused |-> c.unused, sock |-> c.sock]
    BY DEF Conns
  <1>b. /\ c.asking + c.opening + c.unused + HandedOut(c.sock) <= Fallbacks(c.ws)
        /\ HandedOut(c.sock) \in 0 .. 1 /\ Fallbacks(c.ws) \in 0 .. 2
    BY DEF ConnFits, HandedOut, Fallbacks
  <1> SUFFICES d \in Loose /\ ConnFits(d)
    BY CountsFit
  <1>1. CASE c.ws = "opening" /\ d = Commit([c EXCEPT !.ws = "open", !.timer = FALSE], "ws")
    <2>1. c.sock \notin {"poll", "dead", "ws"} /\ c.asking = 0 /\ c.opening = 0 /\ c.unused = 0
      BY <1>0, <1>1 DEF ConnFits, HandedOut, Fallbacks
    <2>2. c.sock = "none" /\ ~c.committed
      BY <1>0, <2>1 DEF Socks, ConnFits
    <2>3. d = [ws |-> "open", timer |-> FALSE, committed |-> TRUE, asking |-> 0,
               opening |-> 0, unused |-> 0, sock |-> "ws"]
      BY <1>0, <1>1, <2>1, <2>2 DEF Commit
    <2> QED
      BY <2>3 DEF WsStates, Socks, ConnFits, HandedOut, Fallbacks
  <1>2. CASE \E w \in {"closing", "closed"} :
                 /\ c.ws \in {"opening", "closing"} /\ (w = "closing" => c.ws = "opening")
                 /\ d = GoPolling([c EXCEPT !.ws = w, !.timer = FALSE])
    <2>1. PICK w \in {"closing", "closed"} :
              /\ c.ws \in {"opening", "closing"} /\ (w = "closing" => c.ws = "opening")
              /\ d = GoPolling([c EXCEPT !.ws = w, !.timer = FALSE])
      BY <1>2
    <2>2. Fallbacks(w) \in 1 .. 2 /\ Fallbacks(c.ws) + 1 <= Fallbacks(w)
      BY <2>1 DEF Fallbacks
    <2>3. c.sock # "ws"
      BY <2>1 DEF ConnFits
    <2>4. CASE c.committed
      <3>1. d = [ws |-> w, timer |-> FALSE, committed |-> c.committed, asking |-> c.asking,
                 opening |-> c.opening, unused |-> c.unused, sock |-> c.sock]
        BY <1>0, <2>1, <2>4 DEF GoPolling
      <3>2. c.asking + c.opening + c.unused + HandedOut(c.sock) <= Fallbacks(w)
        BY <1>0, <1>b, <2>2
      <3> HIDE DEF Loose
      <3>3. ConnFits(d)
        BY <1>0, <2>3, <3>1, <3>2 DEF ConnFits
      <3>4. d \in Loose
        BY <1>0, <3>1, <2>1 DEF Loose, WsStates
      <3> QED
        BY <3>3, <3>4
    <2>5. CASE ~c.committed
      <3>1. d = [ws |-> w, timer |-> FALSE, committed |-> c.committed, asking |-> c.asking + 1,
                 opening |-> c.opening, unused |-> c.unused, sock |-> c.sock]
        BY <1>0, <2>1, <2>5 DEF GoPolling
      <3>2. (c.asking + 1) + c.opening + c.unused + HandedOut(c.sock) <= Fallbacks(w)
        BY <1>0, <1>b, <2>2
      <3> HIDE DEF Loose
      <3>3. ConnFits(d)
        BY <1>0, <2>3, <3>1, <3>2 DEF ConnFits
      <3>4. d \in Loose
        BY <1>0, <3>1, <2>1 DEF Loose, WsStates
      <3> QED
        BY <3>3, <3>4
    <2> QED
      BY <2>4, <2>5
  <1>3. CASE c.asking > 0 /\ ~c.committed /\ d = [c EXCEPT !.asking = @ - 1, !.opening = @ + 1]
    <2>1. d = [ws |-> c.ws, timer |-> c.timer, committed |-> c.committed, asking |-> c.asking - 1,
               opening |-> c.opening + 1, unused |-> c.unused, sock |-> c.sock]
      BY <1>0, <1>3
    <2>2. (c.asking - 1) + (c.opening + 1) + c.unused + HandedOut(c.sock) <= Fallbacks(c.ws)
      BY <1>0, <1>b
    <2> HIDE DEF Loose
    <2>3. ConnFits(d)
      BY <1>0, <2>1, <2>2 DEF ConnFits
    <2>4. d \in Loose
      BY <1>0, <1>3, <2>1 DEF Loose
    <2> QED
      BY <2>3, <2>4
  <1>4. CASE c.asking > 0 /\ d = [c EXCEPT !.asking = @ - 1]
    <2>1. d = [ws |-> c.ws, timer |-> c.timer, committed |-> c.committed, asking |-> c.asking - 1,
               opening |-> c.opening, unused |-> c.unused, sock |-> c.sock]
      BY <1>0, <1>4
    <2>2. (c.asking - 1) + c.opening + c.unused + HandedOut(c.sock) <= Fallbacks(c.ws)
      BY <1>0, <1>b
    <2> HIDE DEF Loose
    <2>3. ConnFits(d)
      BY <1>0, <2>1, <2>2 DEF ConnFits
    <2>4. d \in Loose
      BY <1>0, <1>4, <2>1 DEF Loose
    <2> QED
      BY <2>3, <2>4
  <1>5. CASE c.opening > 0 /\ c.committed /\ d = [c EXCEPT !.opening = @ - 1, !.unused = @ + 1]
    <2>1. d = [ws |-> c.ws, timer |-> c.timer, committed |-> c.committed, asking |-> c.asking,
               opening |-> c.opening - 1, unused |-> c.unused + 1, sock |-> c.sock]
      BY <1>0, <1>5
    <2>2. c.asking + (c.opening - 1) + (c.unused + 1) + HandedOut(c.sock) <= Fallbacks(c.ws)
      BY <1>0, <1>b
    <2> HIDE DEF Loose
    <2>3. c.sock # "none" /\ (c.sock = "ws" => c.ws = "open") /\ c.committed
      BY <1>5 DEF ConnFits
    <2>5. /\ d.asking = c.asking /\ d.opening = c.opening - 1 /\ d.unused = c.unused + 1
          /\ d.sock = c.sock /\ d.ws = c.ws /\ d.committed = c.committed
      BY <2>1
    <2>6. ConnFits(d)
      BY <2>2, <2>3, <2>5, Zenon DEF ConnFits
    <2>7. c.opening - 1 \in Nat /\ c.unused + 1 \in Nat
      BY <1>0, <1>5
    <2>4. d \in Loose
      BY <1>0, <2>1, <2>7 DEF Loose
    <2> QED
      BY <2>4, <2>6
  <1>6. CASE \E k \in {"poll", "dead"} :
                 c.opening > 0 /\ d = Commit([c EXCEPT !.opening = @ - 1], k)
    <2>1. PICK k \in {"poll", "dead"} :
              c.opening > 0 /\ d = Commit([c EXCEPT !.opening = @ - 1], k)
      BY <1>6
    <2>2. CASE c.committed
      <3>1. d = [ws |-> c.ws, timer |-> c.timer, committed |-> c.committed, asking |-> c.asking,
                 opening |-> c.opening - 1, unused |-> c.unused, sock |-> c.sock]
        BY <1>0, <2>1, <2>2 DEF Commit
      <3>2. c.asking + (c.opening - 1) + c.unused + HandedOut(c.sock) <= Fallbacks(c.ws)
        BY <1>0, <1>b
      <3> HIDE DEF Loose
      <3>3. ConnFits(d)
        BY <1>0, <3>1, <3>2 DEF ConnFits
      <3>4. d \in Loose
        BY <1>0, <2>1, <3>1 DEF Loose
      <3> QED
        BY <3>3, <3>4
    <2>3. CASE ~c.committed
      <3>1. d = [ws |-> c.ws, timer |-> c.timer, committed |-> TRUE, asking |-> c.asking,
                 opening |-> c.opening - 1, unused |-> c.unused, sock |-> k]
        BY <1>0, <2>1, <2>3 DEF Commit
      <3>2. HandedOut(c.sock) = 0 /\ HandedOut(k) = 1
        BY <2>1, <2>3 DEF ConnFits, HandedOut
      <3>3. c.asking + (c.opening - 1) + c.unused + HandedOut(k) <= Fallbacks(c.ws)
        BY <1>0, <1>b, <3>2
      <3> HIDE DEF Loose
      <3>6. /\ d.asking = c.asking /\ d.opening = c.opening - 1 /\ d.unused = c.unused
            /\ d.sock = k /\ d.ws = c.ws /\ d.committed
        BY <3>1
      <3>7. k # "none" /\ k # "ws"
        OBVIOUS
      <3>4. ConnFits(d)
        BY <3>3, <3>6, <3>7, Zenon DEF ConnFits
      <3>8. c.opening - 1 \in Nat /\ TRUE \in BOOLEAN /\ k \in Socks
        BY <1>0, <2>1 DEF Socks
      <3>5. d \in Loose
        BY <1>0, <3>1, <3>8 DEF Loose
      <3> QED
        BY <3>4, <3>5
    <2> QED
      BY <2>2, <2>3
  <1> QED
    BY <1>1, <1>2, <1>3, <1>4, <1>5, <1>6 DEF ConnStep

-----------------------------------------------------------------------------
(* The runs *)

LEMMA InitFits == Init => ConsoleInv
  <1> SUFFICES ASSUME Init PROVE ConsoleInv
    OBVIOUS
  <1>1. TypeOK
    <2>1. conn \in [Runs -> Conns]
      BY NoConnFits DEF Init
    <2>2. retryCount \in 0 .. MaxRetries /\ 0 \in 0 .. MaxRuns
      BY ConsoleAssumption DEF Init
    <2> QED
      BY <2>1, <2>2 DEF Init, TypeOK, Stages, Conns, WsStates, Socks
  <1>2. RunsFit
    BY ConsoleAssumption DEF Init, RunsFit, Runs
  <1>3. PlainFits
    BY DEF Init, PlainFits, Plain, Runs
  <1>4. AuthFits
    BY DEF Init, AuthFits
  <1>5. \A r \in Runs : ConnFits(conn[r])
    BY NoConnFits DEF Init
  <1> QED
    BY <1>1, <1>2, <1>3, <1>4, <1>5 DEF ConsoleInv

LEMMA TypeParts ==
    TypeOK <=>
      /\ current \in 0 .. MaxRuns /\ started \in 0 .. MaxRuns /\ rfbRef \in 0 .. MaxRuns
      /\ cancelled \in [Runs -> BOOLEAN] /\ authFailed \in [Runs -> BOOLEAN]
      /\ stage \in [Runs -> Stages] /\ conn \in [Runs -> Conns]
      /\ rfb \in [Runs -> {"none", "connecting", "connected", "closing"}]
      /\ retryCount \in 0 .. MaxRetries
      /\ status \in {"connecting", "connected", "reconnecting", "disconnected", "error",
                     "auth_failed", "load_error", "integrity_failed"}
  BY Zenon DEF TypeOK, Conns, WsStates, Socks

(* Every step leaves conn as it is, or makes one step of one connectVnc. *)
LEMMA ConnKept ==
    ASSUME ConsoleInv, [Next]_vars
    PROVE  conn' \in [Runs -> Conns] /\ \A r \in Runs : ConnFits(conn'[r])
  <1>0. conn \in [Runs -> Conns] /\ \A r \in Runs : ConnFits(conn[r])
    BY TypeParts DEF ConsoleInv
  <1>1. ASSUME NEW r \in Runs, NEW d \in Conns, ConnFits(d), conn' = [conn EXCEPT ![r] = d]
        PROVE  conn' \in [Runs -> Conns] /\ \A q \in Runs : ConnFits(conn'[q])
    BY <1>0, <1>1
  <1>2. CASE EffectRuns \/ EffectEnds \/ UNCHANGED vars
    BY <1>0, <1>2 DEF EffectRuns, EffectEnds, vars
  <1>3. ASSUME NEW r \in Runs, Transport(r)
        PROVE  conn' \in [Runs -> Conns] /\ \A q \in Runs : ConnFits(conn'[q])
    <2>1. PICK d : ConnStep(conn[r], d) /\ ConnectStep(r, d)
      BY <1>0, <1>3, TransportIsAStep
    <2>2. d \in Conns /\ ConnFits(d)
      BY <1>0, <2>1, ConnStepKeeps
    <2> QED
      BY <1>1, <2>1, <2>2 DEF ConnectStep
  <1>4. ASSUME NEW r \in Runs, Loaded(r)
        PROVE  conn' \in [Runs -> Conns] /\ \A q \in Runs : ConnFits(conn'[q])
    <2>1. conn' = conn \/ \E c \in ConnectBegins : conn' = [conn EXCEPT ![r] = c]
      BY <1>4 DEF Loaded
    <2> QED
      BY <1>0, <1>1, <2>1, ConnectBeginsFits
  <1>5. ASSUME NEW r \in Runs, Retries(r)
        PROVE  conn' \in [Runs -> Conns] /\ \A q \in Runs : ConnFits(conn'[q])
    BY <1>1, <1>5, NoConnFits DEF Retries
  <1>6. ASSUME NEW r \in Runs, RunStep(r), ~Loaded(r), ~Retries(r)
        PROVE  conn' = conn
    BY <1>6 DEF RunStep, TicketComes, TicketFails, TokenComes, LoadFails, Connected,
                RfbConnects, SecurityFails, IntegrityFails, Breaks, Disconnects
  <1> QED
    BY <1>0, <1>2, <1>3, <1>4, <1>5, <1>6 DEF Next

(* What a step of one run does to everything but conn. *)
LEMMA CleanupFits ==
    ASSUME ConsoleInv, Cleanup
    PROVE  /\ cancelled' \in [Runs -> BOOLEAN] /\ rfbRef' = 0
           /\ rfb' \in [Runs -> {"none", "connecting", "connected", "closing"}]
           /\ \A r \in Runs : cancelled'[r] <=> cancelled[r] \/ r = current
           /\ \A r \in Plain : rfb'[r] \notin {"connecting", "connected"}
  <1>0. /\ current \in 0 .. MaxRuns /\ rfbRef \in 0 .. MaxRuns
        /\ cancelled \in [Runs -> BOOLEAN]
        /\ rfb \in [Runs -> {"none", "connecting", "connected", "closing"}]
    BY DEF ConsoleInv, TypeOK
  <1>1. /\ cancelled' \in [Runs -> BOOLEAN] /\ rfbRef' = 0
        /\ \A r \in Runs : cancelled'[r] <=> cancelled[r] \/ r = current
    <2>1. CASE current = 0
      BY <1>0, <2>1, ConsoleAssumption DEF Cleanup, Runs
    <2>2. CASE current # 0
      BY <1>0, <2>2 DEF Cleanup
    <2> QED
      BY <2>1, <2>2
  <1>2. rfb' \in [Runs -> {"none", "connecting", "connected", "closing"}]
    BY <1>0 DEF Cleanup
  <1>3. ASSUME NEW r \in Plain PROVE rfb'[r] \notin {"connecting", "connected"}
    <2>1. r \in Runs /\ r # 0
      BY ConsoleAssumption DEF Plain, Runs
    <2>2. CASE rfb[r] \in {"connecting", "connected"}
      <3>1. r = current /\ rfbRef = r
        BY <2>2 DEF ConsoleInv, PlainFits
      <3> QED
        BY <1>0, <2>1, <2>2, <3>1 DEF Cleanup
    <2>3. CASE rfb[r] \notin {"connecting", "connected"}
      BY <1>0, <2>1, <2>3 DEF Cleanup
    <2> QED
      BY <2>2, <2>3
  <1> QED
    BY <1>1, <1>2, <1>3

LEMMA EffectFits ==
    ASSUME ConsoleInv, EffectRuns \/ EffectEnds
    PROVE  /\ RunsFit' /\ PlainFits' /\ AuthFits'
           /\ (conn' \in [Runs -> Conns] => TypeOK')
  <1>0. /\ current \in 0 .. MaxRuns /\ started \in 0 .. MaxRuns
        /\ stage \in [Runs -> Stages] /\ authFailed \in [Runs -> BOOLEAN]
    BY DEF ConsoleInv, TypeOK
  <1>1. Cleanup
    BY DEF EffectRuns, EffectEnds
  <1>2. /\ cancelled' \in [Runs -> BOOLEAN] /\ rfbRef' = 0
        /\ rfb' \in [Runs -> {"none", "connecting", "connected", "closing"}]
        /\ \A r \in Runs : cancelled'[r] <=> cancelled[r] \/ r = current
        /\ \A r \in Plain : rfb'[r] \notin {"connecting", "connected"}
    BY <1>1, CleanupFits
  <1>3. PlainFits'
    <2>1. 0 \notin Plain /\ Plain' = Plain
      BY DEF Plain, Runs
    <2> QED
      BY <1>2, <2>1, Zenon DEF PlainFits
  <1>4. CASE EffectRuns
    <2>1. /\ started < MaxRuns /\ started' = started + 1 /\ current' = started + 1
          /\ stage' = [stage EXCEPT ![started + 1] = "ticket"] /\ authFailed' = authFailed
      BY <1>4 DEF EffectRuns
    <2>2. started + 1 \in Runs /\ 0 \in 0 .. MaxRuns /\ started + 1 \in 0 .. MaxRuns
      BY <1>0, <2>1, ConsoleAssumption DEF Runs
    <2>3. RunsFit'
      <3>1. \A r \in Runs : r <= started + 1 /\ r # started + 1 => cancelled'[r]
        BY <1>0, <1>2 DEF ConsoleInv, RunsFit, Runs
      <3>2. \A r \in Runs : r > started + 1 => ~cancelled'[r]
        BY <1>0, <1>2 DEF ConsoleInv, RunsFit, Runs
      <3>3. \A r \in Runs : r > started + 1 => stage'[r] = "off"
        BY <1>0, <2>1 DEF ConsoleInv, RunsFit, Runs
      <3>4. \A r \in Runs : stage'[r] = "connect" => r \in Stable
        BY <1>0, <2>1 DEF ConsoleInv, RunsFit
      <3> QED
        BY <2>1, <3>1, <3>2, <3>3, <3>4 DEF RunsFit
    <2>4. AuthFits'
      <3>1. stage[started + 1] = "off"
        BY <1>0, <2>2 DEF ConsoleInv, RunsFit
      <3>2. ~authFailed[started + 1]
        BY <2>2, <3>1 DEF ConsoleInv, AuthFits
      <3> QED
        BY <1>0, <2>1, <3>2 DEF ConsoleInv, AuthFits
    <2>5. ASSUME conn' \in [Runs -> Conns] PROVE TypeOK'
      <3>1. stage' \in [Runs -> Stages]
        BY <1>0, <2>1 DEF Stages
      <3>2. status' = "connecting" /\ retryCount' = retryCount
        BY <1>4 DEF EffectRuns
      <3>3. retryCount \in 0 .. MaxRetries
        BY DEF ConsoleInv, TypeOK
      <3>4. current' \in 0 .. MaxRuns /\ started' \in 0 .. MaxRuns /\ rfbRef' \in 0 .. MaxRuns
        BY <1>2, <2>1, <2>2
      <3> QED
        BY <1>0, <1>2, <2>1, <2>5, <3>1, <3>2, <3>3, <3>4 DEF TypeOK, Conns, WsStates, Socks
    <2> QED
      BY <1>3, <2>3, <2>4, <2>5
  <1>5. CASE EffectEnds
    <2>1. /\ current # 0 /\ current' = 0 /\ started' = started /\ stage' = stage
          /\ authFailed' = authFailed /\ retryCount' = retryCount /\ status' = status
      BY <1>5 DEF EffectEnds
    <2>2. RunsFit'
      <3>1. \A r \in Runs : r <= started => cancelled'[r]
        BY <1>0, <1>2 DEF ConsoleInv, RunsFit, Runs
      <3>2. \A r \in Runs : r > started => ~cancelled'[r]
        BY <1>0, <1>2 DEF ConsoleInv, RunsFit, Runs
      <3> QED
        BY <2>1, <3>1, <3>2 DEF ConsoleInv, RunsFit
    <2>3. AuthFits'
      BY <2>1 DEF ConsoleInv, AuthFits
    <2>4. ASSUME conn' \in [Runs -> Conns] PROVE TypeOK'
      <3>1. 0 \in 0 .. MaxRuns
        BY ConsoleAssumption
      <3> QED
        BY <1>2, <2>1, <2>4, <3>1 DEF ConsoleInv, TypeOK, Conns, WsStates, Socks
    <2> QED
      BY <1>3, <2>2, <2>3, <2>4
  <1> QED
    BY <1>4, <1>5

(* A run that is under way and was not cancelled is the one in front. *)
LEMMA UnderWay ==
    ASSUME ConsoleInv, NEW r \in Runs, stage[r] # "off"
    PROVE  /\ r <= started
           /\ ~cancelled[r] => r = current
  <1>1. r \in Nat /\ started \in Nat
    BY DEF ConsoleInv, TypeOK, Runs
  <1>2. r <= started
    BY <1>1 DEF ConsoleInv, RunsFit
  <1> QED
    BY <1>2 DEF ConsoleInv, RunsFit

(* While a plain connection is there, its run is in front and none in stable mode began. *)
LEMMA PlainInFront ==
    ASSUME ConsoleInv, NEW p \in Plain, rfb[p] \in {"connecting", "connected"},
           NEW r \in Runs, stage[r] # "off"
    PROVE  p = current /\ rfbRef = p /\ r \notin Stable
  <1>1. p = current /\ rfbRef = p
    BY DEF ConsoleInv, PlainFits
  <1>2. r <= started
    BY UnderWay
  <1>3. p \in 1 .. MaxRuns /\ r \in 1 .. MaxRuns
    BY DEF Plain, Runs
  <1>4. current = started
    BY <1>1, <1>3, ConsoleAssumption DEF ConsoleInv, RunsFit
  <1>5. r \in 1 .. p
    BY <1>1, <1>2, <1>3, <1>4, ConsoleAssumption
  <1> QED
    BY <1>1, <1>5 DEF Plain

(* A step of a run moves its stage only, and cancels nothing. *)
LEMMA RunMoves ==
    ASSUME ConsoleInv, NEW r \in Runs, RunStep(r)
    PROVE  /\ current' = current /\ started' = started /\ cancelled' = cancelled
           /\ stage[r] # "off" /\ stage' \in [Runs -> Stages]
           /\ \A q \in Runs \ {r} : stage'[q] = stage[q]
           /\ stage'[r] = "connect" => r \in Stable
  <1>0. stage \in [Runs -> Stages]
    BY DEF ConsoleInv, TypeOK
  <1>1. current' = current /\ started' = started /\ cancelled' = cancelled
    BY DEF RunStep, TicketComes, TicketFails, TokenComes, LoadFails, Loaded, Connected,
           RfbConnects, SecurityFails, IntegrityFails, Breaks, Disconnects, Retries
  <1>2. stage[r] # "off"
    BY DEF RunStep, TicketComes, TicketFails, TokenComes, LoadFails, Loaded, Connected,
           RfbConnects, SecurityFails, IntegrityFails, Breaks, Disconnects, Retries
  <1>3. \/ stage' = stage
        \/ stage' = [stage EXCEPT ![r] = "connect"] /\ r \in Stable
        \/ \E s \in Stages \ {"connect"} : stage' = [stage EXCEPT ![r] = s]
    <2>1. CASE TicketComes(r) \/ TicketFails(r) \/ TokenComes(r) \/ LoadFails(r)
      BY <2>1 DEF TicketComes, TicketFails, TokenComes, LoadFails, Goto, Stages
    <2>2. CASE Loaded(r)
      BY <2>2 DEF Loaded, NewRfb, Goto, Stages
    <2>3. CASE Connected(r)
      BY <2>3 DEF Connected, NewRfb, Goto, Stages
    <2>4. CASE RfbConnects(r) \/ SecurityFails(r) \/ IntegrityFails(r)
      BY <2>4 DEF RfbConnects, SecurityFails, IntegrityFails
    <2>5. CASE Breaks(r) \/ Disconnects(r) \/ Retries(r)
      BY <2>5 DEF Breaks, Disconnects, Retries, Goto, Stages
    <2> QED
      BY <2>1, <2>2, <2>3, <2>4, <2>5 DEF RunStep
  <1>4. stage' \in [Runs -> Stages] /\ \A q \in Runs \ {r} : stage'[q] = stage[q]
    BY <1>0, <1>3 DEF Stages
  <1>5. stage'[r] = "connect" => r \in Stable
    BY <1>0, <1>3 DEF ConsoleInv, RunsFit
  <1> QED
    BY <1>1, <1>2, <1>4, <1>5

(* It opens a connection of its own, or closes one, or leaves them all. *)
LEMMA RunConnects ==
    ASSUME ConsoleInv, NEW r \in Runs, RunStep(r)
    PROVE  \/ /\ rfb' = [rfb EXCEPT ![r] = "connecting"] /\ rfbRef' = r
              /\ r \in Stable \/ ~cancelled[r]
           \/ /\ rfb' = [rfb EXCEPT ![r] = "connected"] /\ rfbRef' = rfbRef
              /\ rfb[r] = "connecting"
           \/ /\ rfb' = [rfb EXCEPT ![r] = "none"]
              /\ rfbRef' = rfbRef \/ (rfbRef' = 0 /\ ~cancelled[r])
           \/ rfb' = rfb /\ rfbRef' = rfbRef
  <1>1. CASE TicketComes(r) \/ TicketFails(r) \/ TokenComes(r) \/ LoadFails(r)
    BY <1>1 DEF TicketComes, TicketFails, TokenComes, LoadFails
  <1>2. CASE Loaded(r)
    BY <1>2 DEF Loaded, NewRfb, StopsHere
  <1>3. CASE Connected(r)
    <2>1. r \in Stable
      BY <1>3 DEF Connected, ConsoleInv, RunsFit
    <2> QED
      BY <1>3, <2>1 DEF Connected, NewRfb
  <1>4. CASE RfbConnects(r) \/ SecurityFails(r) \/ IntegrityFails(r)
    BY <1>4 DEF RfbConnects, SecurityFails, IntegrityFails
  <1>5. CASE Breaks(r) \/ Disconnects(r) \/ Retries(r)
    BY <1>5 DEF Breaks, Disconnects, Retries, RetryAllowed
  <1> QED
    BY <1>1, <1>2, <1>3, <1>4, <1>5 DEF RunStep

LEMMA RunKeepsPlain ==
    ASSUME ConsoleInv, NEW r \in Runs, RunStep(r)
    PROVE  PlainFits'
  <1>0. /\ rfb \in [Runs -> {"none", "connecting", "connected", "closing"}]
        /\ Plain' = Plain /\ Plain \subseteq Runs /\ 0 \notin Plain
        /\ current' = current /\ stage[r] # "off"
    BY RunMoves DEF ConsoleInv, TypeOK, Plain, Runs
  <1>1. /\ \A p \in Plain : rfb[p] \in {"connecting", "connected"} => p = current /\ rfbRef = p
        /\ rfbRef \in Plain => rfbRef = current
    BY DEF ConsoleInv, PlainFits
  <1>2. CASE /\ rfb' = [rfb EXCEPT ![r] = "connecting"] /\ rfbRef' = r
             /\ r \in Stable \/ ~cancelled[r]
    <2>1. r \in Plain => r = current
      <3>1. r \in Plain => r \notin Stable
        BY DEF Plain, Runs
      <3> QED
        BY <1>0, <1>2, <3>1, UnderWay
    <2>2. ASSUME NEW p \in Plain, rfb[p] \in {"connecting", "connected"}
          PROVE  p = r
      <3>1. p = current /\ r \notin Stable
        BY <1>0, <2>2, PlainInFront
      <3> QED
        BY <1>0, <1>2, <3>1, UnderWay
    <2>3. ASSUME NEW p \in Plain, rfb'[p] \in {"connecting", "connected"}
          PROVE  p = current /\ p = r
      <3>1. CASE p = r
        BY <2>1, <3>1
      <3>2. CASE p # r
        BY <1>0, <1>2, <2>2, <2>3, <3>2
      <3> QED
        BY <3>1, <3>2
    <2> QED
      BY <1>0, <1>2, <2>1, <2>3 DEF PlainFits
  <1>3. CASE /\ rfb' = [rfb EXCEPT ![r] = "connected"] /\ rfbRef' = rfbRef
             /\ rfb[r] = "connecting"
    BY <1>0, <1>1, <1>3 DEF PlainFits
  <1>4. CASE /\ rfb' = [rfb EXCEPT ![r] = "none"]
             /\ rfbRef' = rfbRef \/ (rfbRef' = 0 /\ ~cancelled[r])
    <2>1. CASE rfbRef' = rfbRef
      BY <1>0, <1>1, <1>4, <2>1 DEF PlainFits
    <2>2. CASE rfbRef' = 0 /\ ~cancelled[r]
      <3>1. r = current
        BY <1>0, <2>2, UnderWay
      <3> QED
        BY <1>0, <1>1, <1>4, <2>2, <3>1 DEF PlainFits
    <2> QED
      BY <1>4, <2>1, <2>2
  <1>5. CASE rfb' = rfb /\ rfbRef' = rfbRef
    BY <1>0, <1>1, <1>5 DEF PlainFits
  <1> QED
    BY <1>2, <1>3, <1>4, <1>5, RunConnects

(* A refused password is forgotten with a new connection, and no try follows it. *)
LEMMA RunKeepsAuth ==
    ASSUME ConsoleInv, NEW r \in Runs, RunStep(r)
    PROVE  AuthFits' /\ authFailed' \in [Runs -> BOOLEAN]
  <1>0. /\ authFailed \in [Runs -> BOOLEAN] /\ stage \in [Runs -> Stages]
        /\ \A q \in Runs : authFailed[q] => stage[q] \in {"live", "over"}
    BY DEF ConsoleInv, TypeOK, AuthFits
  <1>1. \A q \in Runs \ {r} : stage'[q] = stage[q]
    BY RunMoves
  <1>2. \/ authFailed' = authFailed
        \/ authFailed' = [authFailed EXCEPT ![r] = FALSE]
        \/ authFailed' = [authFailed EXCEPT ![r] = TRUE] /\ stage'[r] = "live"
    <2>1. CASE TicketComes(r) \/ TicketFails(r) \/ TokenComes(r) \/ LoadFails(r)
      BY <2>1 DEF TicketComes, TicketFails, TokenComes, LoadFails
    <2>2. CASE Loaded(r) \/ Connected(r)
      BY <2>2 DEF Loaded, Connected, NewRfb
    <2>4. CASE RfbConnects(r) \/ SecurityFails(r) \/ IntegrityFails(r)
      BY <2>4 DEF RfbConnects, SecurityFails, IntegrityFails
    <2>5. CASE Breaks(r) \/ Disconnects(r) \/ Retries(r)
      BY <2>5 DEF Breaks, Disconnects, Retries
    <2> QED
      BY <2>1, <2>2, <2>4, <2>5 DEF RunStep
  <1>3. authFailed[r] /\ authFailed'[r] => stage'[r] \in {"live", "over"}
    <2>1. CASE TicketComes(r) \/ TicketFails(r) \/ TokenComes(r) \/ LoadFails(r)
      BY <1>0, <2>1 DEF TicketComes, TicketFails, TokenComes, LoadFails
    <2>2. CASE Loaded(r) \/ Connected(r)
      BY <1>0, <2>2 DEF Loaded, Connected
    <2>4. CASE RfbConnects(r) \/ SecurityFails(r) \/ IntegrityFails(r)
      BY <1>0, <2>4 DEF RfbConnects, SecurityFails, IntegrityFails
    <2>5. CASE Breaks(r) \/ Disconnects(r)
      BY <1>0, <2>5 DEF Breaks, Disconnects, RetryAllowed, Goto
    <2>6. CASE Retries(r)
      BY <1>0, <2>6 DEF Retries
    <2> QED
      BY <2>1, <2>2, <2>4, <2>5, <2>6 DEF RunStep
  <1>4. authFailed' \in [Runs -> BOOLEAN] /\ \A q \in Runs \ {r} : authFailed'[q] = authFailed[q]
    BY <1>0, <1>2
  <1>5. authFailed'[r] => stage'[r] \in {"live", "over"}
    BY <1>0, <1>2, <1>3
  <1> QED
    BY <1>0, <1>1, <1>4, <1>5, Zenon DEF AuthFits

LEMMA RunFits ==
    ASSUME ConsoleInv, NEW r \in Runs, RunStep(r)
    PROVE  /\ RunsFit' /\ PlainFits' /\ AuthFits'
           /\ (conn' \in [Runs -> Conns] => TypeOK')
  <1>1. /\ current' = current /\ started' = started /\ cancelled' = cancelled
        /\ stage[r] # "off" /\ stage' \in [Runs -> Stages]
        /\ \A q \in Runs \ {r} : stage'[q] = stage[q]
        /\ stage'[r] = "connect" => r \in Stable
    BY RunMoves
  <1>2. RunsFit'
    <2>1. r <= started /\ r \in Nat /\ started \in Nat
      BY <1>1, UnderWay DEF ConsoleInv, TypeOK, Runs
    <2>2. \A q \in Runs : q > started => stage'[q] = "off" /\ ~cancelled[q]
      BY <1>1, <2>1 DEF ConsoleInv, RunsFit
    <2>3. \A q \in Runs : stage'[q] = "connect" => q \in Stable
      BY <1>1 DEF ConsoleInv, RunsFit
    <2> QED
      BY <1>1, <2>2, <2>3 DEF ConsoleInv, RunsFit
  <1>3. retryCount' \in 0 .. MaxRetries
    <2>1. retryCount \in 0 .. MaxRetries
      BY DEF ConsoleInv, TypeOK
    <2>2. retryCount' \in {0, retryCount} \/ (retryCount < MaxRetries /\ retryCount' = retryCount + 1)
      BY DEF RunStep, TicketComes, TicketFails, TokenComes, LoadFails, Loaded, Connected,
             RfbConnects, SecurityFails, IntegrityFails, Breaks, Disconnects, Retries, RetryAllowed
    <2> QED
      BY <2>1, <2>2, ConsoleAssumption
  <1>4. /\ rfb' \in [Runs -> {"none", "connecting", "connected", "closing"}]
        /\ rfbRef' \in 0 .. MaxRuns
    <2>1. /\ rfb \in [Runs -> {"none", "connecting", "connected", "closing"}]
          /\ rfbRef \in 0 .. MaxRuns /\ r \in 0 .. MaxRuns /\ 0 \in 0 .. MaxRuns
      BY ConsoleAssumption DEF ConsoleInv, TypeOK, Runs
    <2> QED
      BY <2>1, RunConnects
  <1>5. status' \in {"connecting", "connected", "reconnecting", "disconnected", "error",
                     "auth_failed", "load_error", "integrity_failed"}
    <2>1. status \in {"connecting", "connected", "reconnecting", "disconnected", "error",
                      "auth_failed", "load_error", "integrity_failed"}
      BY DEF ConsoleInv, TypeOK
    <2> QED
      BY <2>1
      DEF RunStep, TicketComes, TicketFails, TokenComes, LoadFails, Loaded, Connected,
          RfbConnects, SecurityFails, IntegrityFails, Breaks, Disconnects, Retries
  <1>6. ASSUME conn' \in [Runs -> Conns] PROVE TypeOK'
    BY <1>1, <1>3, <1>4, <1>5, <1>6, RunKeepsAuth, Zenon
    DEF ConsoleInv, TypeOK, Conns, WsStates, Socks
  <1> QED
    BY <1>2, <1>6, RunKeepsPlain, RunKeepsAuth

LEMMA ConsoleNext == ConsoleInv /\ [Next]_vars => ConsoleInv'
  <1> SUFFICES ASSUME ConsoleInv, [Next]_vars PROVE ConsoleInv'
    OBVIOUS
  <1>1. conn' \in [Runs -> Conns] /\ \A r \in Runs : ConnFits(conn'[r])
    BY ConnKept
  <1>2. CASE EffectRuns \/ EffectEnds
    BY <1>1, <1>2, EffectFits DEF ConsoleInv
  <1>3. ASSUME NEW r \in Runs, RunStep(r) PROVE ConsoleInv'
    BY <1>1, <1>3, RunFits DEF ConsoleInv
  <1>4. CASE UNCHANGED <<current, started, cancelled, stage, rfb, authFailed, rfbRef, retryCount,
                         status>>
    BY <1>1, <1>4
    DEF ConsoleInv, TypeOK, RunsFit, PlainFits, AuthFits, Conns, WsStates, Socks, Plain
  <1>5. ASSUME NEW r \in Runs, Transport(r) PROVE ConsoleInv'
    BY <1>4, <1>5
    DEF Transport, WsOpens, WsTimesOut, WsCloses, HandleComes, HandleFails, PollOpens, PollFails,
        ConnectStep
  <1> QED
    BY <1>2, <1>3, <1>4, <1>5 DEF Next, vars

-----------------------------------------------------------------------------
(* The theorems *)

(* The variables keep their types, the counts of connectVnc included: never more than two
   polling handles or sockets and one socket that nobody has, however the WebSocket, its timer
   and its fallbacks race (connectVnc). *)
THEOREM ConsoleCorrect == Spec => []ConsoleInv
  BY InitFits, ConsoleNext, PTL DEF Spec

(* A plain console that is closed, or shows another guest, leaves no connection behind, for any
   number of runs: whichever await of startVNC the cleanup crosses. *)
THEOREM PlainConsolesClose == Spec => []PlainLeavesNothing
  <1>1. ConsoleInv => PlainLeavesNothing
    BY DEF ConsoleInv, TypeOK, PlainFits, PlainLeavesNothing, Plain
  <1> QED
    BY <1>1, ConsoleCorrect, PTL

(* A plain console in rfbRef is the one in front: its buttons and its cleanup act on it. *)
THEOREM RefIsInFront == Spec => []RefIsTheCurrentRun
  <1>1. ConsoleInv => RefIsTheCurrentRun
    BY DEF ConsoleInv, PlainFits, RefIsTheCurrentRun
  <1> QED
    BY <1>1, ConsoleCorrect, PTL

(* A refused password ends the tries of a run, whatever breaks or comes late afterwards
   (the handlers of `securityfailure' and `disconnect'). *)
THEOREM RefusalEndsTries == Spec => AuthFailureEnds
  <1>1. ASSUME ConsoleInv, [Next]_vars
        PROVE  [\A r \in Runs : authFailed[r] => stage'[r] # "retry"]_vars
    <2>1. CASE UNCHANGED vars
      BY <2>1
    <2>2. ASSUME Next, NEW r \in Runs, authFailed[r] PROVE stage'[r] # "retry"
      <3>0. stage \in [Runs -> Stages] /\ stage[r] \in {"live", "over"}
        BY <1>1, <2>2 DEF ConsoleInv, TypeOK, AuthFits
      <3>1. CASE EffectRuns \/ EffectEnds
        BY <3>0, <3>1 DEF EffectRuns, EffectEnds
      <3>2. ASSUME NEW q \in Runs, RunStep(q) PROVE stage'[r] # "retry"
        <4>1. CASE q # r
          BY <1>1, <3>0, <3>2, <4>1, RunMoves
        <4>2. CASE q = r
          BY <2>2, <3>0, <3>2, <4>2
          DEF RunStep, TicketComes, TicketFails, TokenComes, LoadFails, Loaded, Connected,
              RfbConnects, SecurityFails, IntegrityFails, Breaks, Disconnects, Retries,
              RetryAllowed, Goto, NewRfb
        <4> QED
          BY <4>1, <4>2
      <3>3. ASSUME NEW q \in Runs, Transport(q) PROVE stage'[r] # "retry"
        BY <3>0, <3>3
        DEF Transport, WsOpens, WsTimesOut, WsCloses, HandleComes, HandleFails, PollOpens,
            PollFails, ConnectStep
      <3> QED
        BY <2>2, <3>1, <3>2, <3>3 DEF Next
    <2> QED
      BY <1>1, <2>1, <2>2
  <1> QED
    BY <1>1, ConsoleCorrect, PTL DEF Spec, AuthFailureEnds

(* A run that was cleaned up never asks for another ticket (the checks of `cancelled' in the
   retry timer and in startVNC). *)
THEOREM CleanedUpRunsStop == Spec => CancelledAsksNoTicket
  <1>1. ASSUME ConsoleInv, [Next]_vars
        PROVE  [\A r \in Runs : cancelled[r] /\ stage[r] # "ticket" => stage'[r] # "ticket"]_vars
    <2>1. CASE UNCHANGED vars
      BY <2>1
    <2>2. ASSUME Next, NEW r \in Runs, cancelled[r], stage[r] # "ticket"
          PROVE  stage'[r] # "ticket"
      <3>0. stage \in [Runs -> Stages] /\ started \in 0 .. MaxRuns
        BY <1>1 DEF ConsoleInv, TypeOK
      <3>1. CASE EffectRuns
        <4>1. r # started + 1
          BY <1>1, <2>2, <3>0 DEF ConsoleInv, RunsFit
        <4> QED
          BY <2>2, <3>0, <3>1, <4>1 DEF EffectRuns
      <3>2. CASE EffectEnds
        BY <2>2, <3>2 DEF EffectEnds
      <3>3. ASSUME NEW q \in Runs, RunStep(q) PROVE stage'[r] # "ticket"
        <4>1. CASE q # r
          BY <1>1, <2>2, <3>3, <4>1, RunMoves
        <4>2. CASE q = r
          BY <2>2, <3>0, <3>3, <4>2
          DEF RunStep, TicketComes, TicketFails, TokenComes, LoadFails, Loaded, Connected,
              RfbConnects, SecurityFails, IntegrityFails, Breaks, Disconnects, Retries,
              StillWanted, Goto, NewRfb
        <4> QED
          BY <4>1, <4>2
      <3>4. ASSUME NEW q \in Runs, Transport(q) PROVE stage'[r] # "ticket"
        BY <2>2, <3>4
        DEF Transport, WsOpens, WsTimesOut, WsCloses, HandleComes, HandleFails, PollOpens,
            PollFails, ConnectStep
      <3> QED
        BY <2>2, <3>1, <3>2, <3>3, <3>4 DEF Next
    <2> QED
      BY <1>1, <2>1, <2>2
  <1> QED
    BY <1>1, ConsoleCorrect, PTL DEF Spec, CancelledAsksNoTicket
=============================================================================
