------------------------------- MODULE VncPoll -------------------------------
(***************************************************************************)
(* The HTTP fallback of the console: PollingVncSocket in the browser       *)
(* (web/src/vnc_secure_socket.js) and VncPollSession, its pool and its     *)
(* reaper in the server (pegaprox/utils/vnc_polling.py, vnc_poll in        *)
(* pegaprox/api/vms.py).                                                   *)
(*                                                                         *)
(* Every operation is one POST: open, send, recv, close.  A POST or its    *)
(* answer may be lost, and two POSTs under way arrive in any order.  The   *)
(* requests of the receive loop follow one another; those of send() do     *)
(* not wait for each other, neither on their way nor in the server: each   *)
(* is a thread that looks at _closed, decrypts and then waits for          *)
(* _pve_io_lock, which lets the waiting ones in in any order.              *)
(*                                                                         *)
(* Left out: base64, the bytes of a frame, the wrap of the numbers (see    *)
(* VncSocket), and the permission checks of the handler.  The server has   *)
(* one session; a chunk is its number in the stream from the guest.        *)
(***************************************************************************)
EXTENDS Naturals, Sequences, FiniteSets

CONSTANTS
    MaxSend,    \* bound: payloads noVNC sends
    MaxRecv,    \* bound: chunks the guest sends
    MayLose     \* may a POST or its answer be lost

VARIABLES
    readyState,   \* _readyState
    closed,       \* _closed
    closeEvents,  \* close events given to noVNC
    sendSeq,      \* _sendSeq
    posts,        \* send() calls under way: their number and how far they are
    loop,         \* _recvLoop: "none", "ask", "chunks", "ended"
    recvPost,     \* its POST: "none", "sent", "answered", "lost"
    answer,       \* the answer to it
    recvSeq,      \* _recvSeq
    delivered,    \* chunks given to noVNC
    closePost,    \* the POST of close(): "none", "sent", "over"
    pool,         \* the session is in _pool
    sess,         \* VncPollSession: its _closed, _buf and the counters of its crypto
    taken,        \* payloads written to the guest, in this order
    failed,       \* payloads whose write to the guest raised
    tunnel,       \* pve_ws with its SSH tunnel: "up", "closing" in stop(), "down"
    produced,     \* chunks the guest has sent
    answerLost    \* an answer of recv was lost

client == <<readyState, closed, closeEvents, sendSeq, posts, loop, recvPost, answer,
            recvSeq, delivered, closePost>>
server == <<pool, sess, taken, failed, tunnel, produced>>
vars == <<client, server, answerLost>>

NoAnswer == [chunks |-> <<>>, closed |-> FALSE]

Init ==
    /\ readyState = "connecting" /\ closed = FALSE /\ closeEvents = 0
    /\ sendSeq = 0 /\ posts = {} /\ loop = "none" /\ recvPost = "none" /\ answer = NoAnswer
    /\ recvSeq = 0 /\ delivered = <<>> /\ closePost = "none"
    /\ pool = FALSE /\ sess = [closed |-> FALSE, buf |-> <<>>, sendSeq |-> 0, recvSeq |-> 0]
    /\ taken = <<>> /\ failed = {} /\ tunnel = "down" /\ produced = 0
    /\ answerLost = FALSE

----------------------------------------------------------------------------
(* Open and close                                                          *)

\* action=open connects to the node, through a tunnel, and registers the session.
ServerOpens == pool' = TRUE /\ tunnel' = "up"

\* _open, answered: the socket is open and the receive loop starts.
Open ==
    /\ readyState = "connecting"
    /\ ServerOpens
    /\ readyState' = "open" /\ loop' = "ask"
    /\ UNCHANGED <<closed, closeEvents, sendSeq, posts, recvPost, answer, recvSeq, delivered,
                   closePost, sess, taken, failed, produced, answerLost>>

\* _open failed: at the server, or only its answer was lost.
OpenFails ==
    /\ readyState = "connecting"
    /\ \/ UNCHANGED <<pool, tunnel>>
       \/ MayLose /\ ServerOpens
    /\ readyState' = "closed" /\ closeEvents' = closeEvents + 1
    /\ UNCHANGED <<closed, sendSeq, posts, loop, recvPost, answer, recvSeq, delivered,
                   closePost, sess, taken, failed, produced, answerLost>>

\* VncPollSession.stop: the second call, and one after the end of the pump, does nothing.
Stop ==
    IF sess.closed THEN UNCHANGED <<sess, tunnel>>
    ELSE sess' = [sess EXCEPT !.closed = TRUE] /\ tunnel' = "closing"

\* The rest of stop(): pve_ws is closed, which waits for the node, and the tunnel stopped.
StopEnds ==
    /\ tunnel = "closing"
    /\ tunnel' = "down"
    /\ UNCHANGED <<client, pool, sess, taken, failed, produced, answerLost>>

\* The body of close() behind its guard.
CloseSocket ==
    /\ closed' = TRUE /\ readyState' = "closed"
    /\ closePost' = "sent"
    /\ closeEvents' = closeEvents + 1

\* close() by noVNC.  connectVnc hands out the socket once it was open.
Close ==
    /\ readyState = "open" /\ ~closed
    /\ CloseSocket
    /\ UNCHANGED <<sendSeq, posts, loop, recvPost, answer, recvSeq, delivered, server, answerLost>>

\* action=close: drop takes the session out of the pool and stops it.
ServerDrops ==
    /\ closePost = "sent"
    /\ closePost' = "over"
    /\ pool' = FALSE
    /\ IF pool THEN Stop ELSE UNCHANGED <<sess, tunnel>>
    /\ UNCHANGED <<readyState, closed, closeEvents, sendSeq, posts, loop, recvPost, answer,
                   recvSeq, delivered, taken, failed, produced, answerLost>>

CloseLost ==
    /\ MayLose /\ closePost = "sent"
    /\ closePost' = "over"
    /\ UNCHANGED <<readyState, closed, closeEvents, sendSeq, posts, loop, recvPost, answer,
                   recvSeq, delivered, server, answerLost>>

\* Fault: only a session that says it is closed is reaped.
ReapableClosedOnly == sess.closed

\* _reaper_loop: the session has closed, or 90 s went by without a request: the loop
\* of the browser is over (or never began), or all its requests of that time were lost.
Reapable == sess.closed \/ loop \in {"none", "ended"} \/ recvPost = "lost"

Reap ==
    /\ pool /\ Reapable
    /\ pool' = FALSE
    /\ Stop
    /\ UNCHANGED <<client, taken, failed, produced, answerLost>>

----------------------------------------------------------------------------
(* Guest to browser                                                        *)

\* One pass of _pump_loop with data: encrypted under the next number and buffered.
Pump ==
    /\ pool /\ ~sess.closed /\ produced < MaxRecv
    /\ produced' = produced + 1
    /\ sess' = [sess EXCEPT !.buf = Append(@, [seq |-> sess.sendSeq, msg |-> produced + 1]),
                            !.sendSeq = @ + 1]
    /\ UNCHANGED <<client, pool, taken, failed, tunnel, answerLost>>

\* The connection to the node ended: the pump sets _closed and is over.
PumpEnds ==
    /\ pool /\ ~sess.closed
    /\ sess' = [sess EXCEPT !.closed = TRUE]
    /\ UNCHANGED <<client, pool, taken, failed, tunnel, produced, answerLost>>

\* The loop asks for the next chunks.
RecvAsks ==
    /\ loop = "ask" /\ ~closed /\ recvPost = "none"
    /\ recvPost' = "sent"
    /\ UNCHANGED <<readyState, closed, closeEvents, sendSeq, posts, loop, answer, recvSeq,
                   delivered, closePost, server, answerLost>>

\* Fault: the chunks stay in the buffer until the next call.
DrainedKept == sess.buf

\* recv: the buffer is drained ...
Drained == <<>>

\* ... and answered with the state of the session (at the latest after max_wait).
ServerAnswers ==
    /\ recvPost = "sent" /\ pool
    /\ answer' = [chunks |-> sess.buf, closed |-> sess.closed]
    /\ sess' = [sess EXCEPT !.buf = Drained]
    /\ recvPost' = "answered"
    /\ UNCHANGED <<readyState, closed, closeEvents, sendSeq, posts, loop, recvSeq, delivered,
                   closePost, pool, taken, failed, tunnel, produced, answerLost>>

\* The session is gone: 404, which _post throws.  The same for a lost request or answer.
RecvFails ==
    /\ \/ recvPost = "sent" /\ ~pool /\ UNCHANGED answerLost
       \/ MayLose /\ recvPost = "sent" /\ UNCHANGED answerLost
       \/ MayLose /\ recvPost = "answered" /\ answerLost' = TRUE
    /\ recvPost' = "lost" /\ answer' = NoAnswer
    /\ UNCHANGED <<readyState, closed, closeEvents, sendSeq, posts, loop, recvSeq, delivered,
                   closePost, server>>

\* The catch of the loop: over when the socket was closed, else again in a second.
RecvRetries ==
    /\ recvPost = "lost"
    /\ recvPost' = "none"
    /\ loop' = IF closed THEN "ended" ELSE "ask"
    /\ UNCHANGED <<readyState, closed, closeEvents, sendSeq, posts, answer, recvSeq, delivered,
                   closePost, server, answerLost>>

RecvArrives ==
    /\ recvPost = "answered" /\ loop = "ask"
    /\ recvPost' = "none" /\ loop' = "chunks"
    /\ UNCHANGED <<readyState, closed, closeEvents, sendSeq, posts, answer, recvSeq, delivered,
                   closePost, server, answerLost>>

\* _decrypt takes the next number and no other.
Expected(f) == f.seq = recvSeq

\* One chunk of the answer is decrypted and given to noVNC, or the stream has failed.
\* Nothing else touches _recvSeq, so the await in between hides no other step.
TakeChunk ==
    /\ loop = "chunks" /\ answer.chunks # <<>>
    /\ IF Expected(Head(answer.chunks))
       THEN /\ recvSeq' = recvSeq + 1
            /\ delivered' = Append(delivered, Head(answer.chunks).msg)
            /\ answer' = [answer EXCEPT !.chunks = Tail(@)]
            /\ UNCHANGED <<readyState, closed, closeEvents, closePost, loop>>
       ELSE /\ loop' = "ended" /\ answer' = NoAnswer
            /\ IF closed THEN UNCHANGED <<readyState, closed, closeEvents, closePost>>
               ELSE CloseSocket
            /\ UNCHANGED <<recvSeq, delivered>>
    /\ UNCHANGED <<sendSeq, posts, recvPost, server, answerLost>>

\* The end of the loop: a close event, unless close() gave it.
RemoteClosed ==
    IF closed THEN UNCHANGED <<readyState, closed, closeEvents>>
    ELSE readyState' = "closed" /\ closed' = TRUE /\ closeEvents' = closeEvents + 1

\* All chunks are given out: the next turn of the loop, or its end.
ChunksDone ==
    /\ \/ loop = "chunks" /\ answer.chunks = <<>>
       \/ loop = "ask" /\ recvPost = "none" /\ closed
    /\ IF answer.closed \/ closed
       THEN loop' = "ended" /\ RemoteClosed
       ELSE loop' = "ask" /\ UNCHANGED <<readyState, closed, closeEvents>>
    /\ answer' = NoAnswer
    /\ UNCHANGED <<sendSeq, posts, recvPost, recvSeq, delivered, closePost, server, answerLost>>

----------------------------------------------------------------------------
(* Browser to guest                                                        *)

\* send(): the number is taken at once, the encrypt and the POST are awaited.
Send ==
    /\ ~closed /\ readyState = "open" /\ sendSeq < MaxSend
    /\ posts' = posts \union {[seq |-> sendSeq, st |-> "encrypting"]}
    /\ sendSeq' = sendSeq + 1
    /\ UNCHANGED <<readyState, closed, closeEvents, loop, recvPost, answer, recvSeq, delivered,
                   closePost, server, answerLost>>

\* How far a send() has come; "gone" when it is over.
Moved(p, st) == posts' = (posts \ {p}) \union (IF st = "gone" THEN {} ELSE {[p EXCEPT !.st = st]})

clientButPosts == <<readyState, closed, closeEvents, sendSeq, loop, recvPost, answer, recvSeq,
                    delivered, closePost>>

\* The encrypt has settled and the POST goes out, whatever the other sends do.
PostSend ==
    \E p \in posts :
        /\ p.st = "encrypting"
        /\ Moved(p, "sent")
        /\ UNCHANGED <<clientButPosts, server, answerLost>>

\* action=send: a session that is gone or closed is answered with an error.
ServerLooks ==
    \E p \in posts :
        /\ p.st = "sent"
        /\ Moved(p, IF pool /\ ~sess.closed THEN "looked" ELSE "gone")
        /\ UNCHANGED <<clientButPosts, server, answerLost>>

\* Fault: any number not yet taken is taken.
NextNumberOrLater(n) == n >= sess.recvSeq

\* VncCryptoSession.decrypt: only the next number.
NextNumber(n) == n = sess.recvSeq

\* The frame is decrypted under the lock of the crypto session; with another number than
\* the next the payload is lost and the session goes on.
ServerDecrypts ==
    \E p \in posts :
        /\ p.st = "looked"
        /\ IF NextNumber(p.seq)
           THEN /\ sess' = [sess EXCEPT !.recvSeq = p.seq + 1]
                /\ Moved(p, "passed")
           ELSE Moved(p, "gone") /\ UNCHANGED sess
        /\ UNCHANGED <<clientButPosts, pool, taken, failed, tunnel, produced, answerLost>>

\* One of those that wait for _pve_io_lock gets it and writes: _closed is not looked at again.
ServerWrites ==
    \E p \in posts :
        /\ p.st = "passed" /\ tunnel # "down"
        /\ Moved(p, "gone")
        /\ taken' = Append(taken, p.seq + 1)
        /\ UNCHANGED <<clientButPosts, pool, sess, failed, tunnel, produced, answerLost>>

\* The write raised, at the deadline or on a closed connection: the lock is free again ...
WriteFails ==
    \E p \in posts :
        /\ p.st = "passed"
        /\ Moved(p, "failed")
        /\ failed' = failed \union {p.seq + 1}
        /\ UNCHANGED <<clientButPosts, pool, sess, taken, tunnel, produced, answerLost>>

\* ... and then the session is stopped.
FailureStops ==
    \E p \in posts :
        /\ p.st = "failed"
        /\ Moved(p, "gone")
        /\ Stop
        /\ UNCHANGED <<clientButPosts, pool, taken, failed, produced, answerLost>>

SendLost ==
    /\ MayLose
    /\ \E p \in posts :
        /\ p.st = "sent"
        /\ Moved(p, "gone")
        /\ UNCHANGED <<clientButPosts, server, answerLost>>

----------------------------------------------------------------------------
Next ==
    \/ Open \/ OpenFails \/ Close \/ ServerDrops \/ CloseLost \/ Reap \/ StopEnds
    \/ Pump \/ PumpEnds \/ RecvAsks \/ ServerAnswers \/ RecvFails \/ RecvRetries
    \/ RecvArrives \/ TakeChunk \/ ChunksDone
    \/ Send \/ PostSend \/ ServerLooks \/ ServerDecrypts \/ ServerWrites \/ WriteFails
    \/ FailureStops \/ SendLost

\* The loop runs, the server answers within max_wait, the reaper looks every 15 s.
Fairness ==
    /\ WF_vars(Reap) /\ WF_vars(RecvAsks) /\ WF_vars(ServerAnswers) /\ WF_vars(RecvFails)
    /\ WF_vars(RecvRetries) /\ WF_vars(RecvArrives) /\ WF_vars(TakeChunk) /\ WF_vars(ChunksDone)

Spec == Init /\ [][Next]_vars /\ Fairness

----------------------------------------------------------------------------
(* Properties                                                              *)

PostStates == {"encrypting", "sent", "looked", "passed", "failed"}

\* Every variable holds a value of its type.
TypeOK ==
    /\ readyState \in {"connecting", "open", "closed"} /\ closed \in BOOLEAN
    /\ closeEvents \in Nat /\ sendSeq \in 0 .. MaxSend /\ recvSeq \in 0 .. MaxRecv
    /\ posts \subseteq [seq : 0 .. (MaxSend - 1), st : PostStates]
    /\ loop \in {"none", "ask", "chunks", "ended"}
    /\ recvPost \in {"none", "sent", "answered", "lost"}
    /\ closePost \in {"none", "sent", "over"}
    /\ delivered \in Seq(1 .. MaxRecv) /\ taken \in Seq(1 .. MaxSend)
    /\ failed \subseteq 1 .. MaxSend
    /\ pool \in BOOLEAN /\ tunnel \in {"up", "closing", "down"}
    /\ produced \in 0 .. MaxRecv /\ answerLost \in BOOLEAN

\* What noVNC gets is what the guest sent, in order and without a hole, whatever is
\* lost, retried or closed.
PollDeliversInOrder == \A i \in 1 .. Len(delivered) : delivered[i] = i

\* No chunk is lost between the buffer of the session and noVNC: each one is in the
\* buffer, in an answer, or delivered, exactly once and in that order, until an answer is lost.
ChunksAccounted ==
    ~answerLost /\ loop # "ended" =>
        LET onTheWay == [i \in 1 .. Len(answer.chunks) |-> answer.chunks[i].msg]
            waiting  == [i \in 1 .. Len(sess.buf) |-> sess.buf[i].msg]
        IN  delivered \o onTheWay \o waiting = [i \in 1 .. produced |-> i]

\* Decrypted and waiting for the lock.
Waiting == {p.seq + 1 : p \in {q \in posts : q.st = "passed"}}

\* Each payload the server has accepted is written, still waits, or its write has failed,
\* exactly one of the three; none is written twice and none that was not accepted, and
\* none is missing before one that was accepted.
AcceptedAccounted ==
    LET given == {taken[i] : i \in 1 .. Len(taken)}
    IN  /\ given \union Waiting \union failed = 1 .. sess.recvSeq
        /\ given \cap Waiting = {} /\ given \cap failed = {} /\ Waiting \cap failed = {}
        /\ \A i, j \in 1 .. Len(taken) : taken[i] = taken[j] => i = j

\* A write that raises may have left a part of its record: nothing is written behind it.
NothingBehindAFailedWrite == [][failed # {} => taken' = taken]_vars

\* The guest gets the keys in the order noVNC sent them.
GuestTakesInOrder == \A i \in 1 .. Len(taken) : taken[i] = i

\* One socket gives one close event, whoever closes first.
OneCloseEvent == closeEvents <= 1

\* Once the browser is done with it, the session leaves the pool.
SessionLeavesThePool == (pool /\ (closed \/ readyState = "closed")) ~> ~pool

\* A frame is refused only when an earlier one was lost on the way.
SendRefusedOnlyAfterALoss ==
    [][MayLose \/ \A p \in posts :
          p.st = "looked" => {p, [p EXCEPT !.st = "passed"]} \cap posts' # {}]_vars

\* The tunnel of a session is stopped once the session has left the pool.
TunnelStoppedWithSession == ~pool => tunnel # "up"
=============================================================================
