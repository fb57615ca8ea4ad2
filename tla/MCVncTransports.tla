--------------------------- MODULE MCVncTransports ---------------------------
(* The two transports of a console for TLC: the encrypted WebSocket and the  *)
(* polling that stands in for it. connectVnc hands noVNC one of them; the    *)
(* other one is never opened.                                                *)
EXTENDS Naturals

CONSTANTS SeqSpace, MaxSend, MaxRecv, MayTamper, MayFail, MaxPosts, MaxChunks, MayLose

\* With a single number a missing frame could not be told from the next one; there are 2^32.
ASSUME TransportAssumption ==
    /\ SeqSpace \in Nat \ {0, 1}
    /\ {MaxSend, MaxRecv, MaxPosts, MaxChunks} \subseteq Nat
    /\ {MayTamper, MayFail, MayLose} \subseteq BOOLEAN

VARIABLES transport,
          key, readyState, ws, sendQueue, sendSeq, sendChain, encryptFailed, asked, recvSeq,
          recvChain, integrityFailed, delivered, lateMessage, wireUp, wireDown,
          srvSendSeq, srvRecvSeq, produced, taken, srvRejected, tampered,
          pollState, closed, closeEvents, postSeq, posts, loop, recvPost, answer, pollSeq,
          chunks, closePost, pool, sess, written, failed, tunnel, guestSent, answerLost

Socket == INSTANCE VncSocket
Polling == INSTANCE VncPoll WITH
    readyState <- pollState, sendSeq <- postSeq, recvSeq <- pollSeq, delivered <- chunks,
    taken <- written, produced <- guestSent, MaxSend <- MaxPosts, MaxRecv <- MaxChunks

socket == <<key, readyState, ws, sendQueue, sendSeq, sendChain, encryptFailed, asked, recvSeq,
            recvChain, integrityFailed, delivered, lateMessage, wireUp, wireDown,
            srvSendSeq, srvRecvSeq, produced, taken, srvRejected, tampered>>
polling == <<pollState, closed, closeEvents, postSeq, posts, loop, recvPost, answer, pollSeq,
             chunks, closePost, pool, sess, written, failed, tunnel, guestSent, answerLost>>
vars == <<transport, socket, polling>>

Init == transport \in {"socket", "polling"} /\ Socket!Init /\ Polling!Init

Next ==
    /\ UNCHANGED transport
    /\ \/ transport = "socket" /\ Socket!Next /\ UNCHANGED polling
       \/ transport = "polling" /\ Polling!Next /\ UNCHANGED socket

Spec ==
    /\ Init /\ [][Next]_vars
    /\ Socket!Fairness /\ Polling!Fairness

\* What noVNC is given is what the server sent, from the start, in order and without
\* a hole, and it ends before the first frame that was changed on the way.
DeliveredInOrder == Socket!DeliveredInOrder

\* 'out-of-order', 4099, never happens on a stream nobody changed, whatever order
\* WebCrypto settles in and wherever the numbers wrap.
HealthyStreamHolds == Socket!HealthyStreamHolds

\* What the server has taken is what noVNC sent, from the start, in order and without
\* a hole, the payloads queued before the socket was open included.
TakenInOrder == Socket!TakenInOrder

\* The server refuses a frame only when an encrypt failed (its number is then missing).
HealthySendHolds == Socket!HealthySendHolds

\* A frame the browser has received is delivered, or the stream has failed.
ReceivedIsDelivered == Socket!ReceivedIsDelivered

\* A payload sent on an open socket reaches the server, unless the socket closes.
SentIsTaken == Socket!SentIsTaken

\* Over HTTP, noVNC gets what the guest sent, in order and without a hole, whatever is
\* lost, retried or closed; and each payload the server has accepted, none left out
\* before it, is written once, waits to be, or its write has failed.
PollingKeepsStream == Polling!PollDeliversInOrder /\ Polling!AcceptedAccounted

\* No chunk is lost between the buffer of the session and noVNC: each one is in the
\* buffer, in an answer, or delivered, exactly once and in that order, until an answer is lost.
ChunksAccounted == Polling!ChunksAccounted

\* Once the browser is done with it, the session leaves the pool.
SessionLeavesThePool == Polling!SessionLeavesThePool
=============================================================================
