------------------------------ MODULE VncSocket ------------------------------
(***************************************************************************)
(* SecureVncSocket (web/src/vnc_secure_socket.js): the object noVNC takes  *)
(* for a WebSocket.  Every payload becomes one AES-GCM frame with a        *)
(* sequence number of 32 bits, and each end accepts only the next number.  *)
(*                                                                         *)
(* WebCrypto settles its promises in any order.  Two chains of promises    *)
(* (_recvChain, _sendChain) put the frames back into the order of the      *)
(* stream; they are the subject of this module.                            *)
(*                                                                         *)
(* Left out: the bytes of a frame.  A frame is its sequence number, the    *)
(* payload (its position in the stream of its sender) and whether it       *)
(* authenticates.  The listener of 'open' of this repository (connectVnc)  *)
(* only resolves a promise, so nothing is sent between the 'open' event    *)
(* and the flush of the queue.                                             *)
(***************************************************************************)
EXTENDS Naturals, Sequences, SequencesExt

CONSTANTS
    SeqSpace,     \* 2^32 in the code: where the sequence numbers wrap
    MaxSend,    \* bound: payloads noVNC sends
    MaxRecv,    \* bound: frames the server sends
    MayTamper,  \* may something between the two ends change a frame
    MayFail     \* may an encrypt fail (bound: once; SeqSpace in a row would alias)

VARIABLES
    key,             \* _key: "importing", "ready" or "failed"
    readyState,      \* _readyState of the wrapper
    ws,              \* _ws, the WebSocket of the browser ("none" before _openSocket)
    sendQueue,       \* _sendQueue: payloads sent before the socket was open
    sendSeq,         \* _sendSeq
    sendChain,       \* _sendChain: frames handed to it, with the state of their encrypt
    encryptFailed,   \* an encrypt failed: its number never reaches the server
    asked,           \* payloads noVNC has sent: 1 .. asked
    recvSeq,         \* _recvSeq
    recvChain,       \* _recvChain: frames received and not delivered yet
    integrityFailed, \* _integrityFailed
    delivered,       \* payloads handed to noVNC, in that order
    lateMessage,     \* a message event came after the close event
    wireUp,          \* frames on their way to the server
    wireDown,        \* frames on their way to the browser
    srvSendSeq, srvRecvSeq,  \* the counters of VncCryptoSession
    produced,        \* payloads the server has sent: 1 .. produced
    taken,           \* payloads the server has accepted
    srvRejected,     \* the server met a frame it refused
    tampered         \* payloads of the server that were changed on the way

clientVars == <<key, readyState, ws, sendQueue, sendSeq, sendChain, encryptFailed,
                asked, recvSeq, recvChain, integrityFailed, delivered, lateMessage>>
serverVars == <<srvSendSeq, srvRecvSeq, produced, taken, srvRejected, tampered>>
vars == <<clientVars, wireUp, wireDown, serverVars>>

----------------------------------------------------------------------------
(* Frames and chains                                                       *)

Frame(seq, msg, ok) == [seq |-> seq, msg |-> msg, ok |-> ok]

\* Fault: the number stops at its largest value.
NextSeqStays(n) == IF n = SeqSpace - 1 THEN n ELSE n + 1

\* (n + 1) >>> 0
NextSeq(n) == (n + 1) % SeqSpace

\* An encrypt that was started: its frame is known, its promise is not settled.
Encrypting(seq, msg) == [seq |-> seq, msg |-> msg, st |-> "encrypting"]

\* Fault: the flush takes the newest payload first.
EncryptAllReversed(msgs) ==
    [i \in 1 .. Len(msgs) |-> Encrypting((sendSeq + i - 1) % SeqSpace, msgs[Len(msgs) + 1 - i])]

\* _encrypt takes its numbers when it is called, so a batch takes them in order.
EncryptAll(msgs) ==
    [i \in 1 .. Len(msgs) |-> Encrypting((sendSeq + i - 1) % SeqSpace, msgs[i])]

Init ==
    /\ key = "importing" /\ readyState = "connecting" /\ ws = "none"
    /\ sendQueue = <<>> /\ sendSeq = 0 /\ sendChain = <<>> /\ asked = 0
    /\ encryptFailed = FALSE
    /\ recvSeq = 0 /\ recvChain = <<>> /\ integrityFailed = FALSE
    /\ delivered = <<>> /\ lateMessage = FALSE
    /\ wireUp = <<>> /\ wireDown = <<>>
    /\ srvSendSeq = 0 /\ srvRecvSeq = 0 /\ produced = 0 /\ taken = <<>>
    /\ srvRejected = FALSE /\ tampered = {}

----------------------------------------------------------------------------
(* Opening and closing                                                     *)

\* The key is there: _openSocket makes the WebSocket and its listeners.
KeyImported ==
    /\ key = "importing"
    /\ key' = "ready" /\ ws' = "connecting"
    /\ UNCHANGED <<readyState, sendQueue, sendSeq, sendChain, asked, recvSeq, recvChain,
                   integrityFailed, delivered, lateMessage, wireUp, wireDown, encryptFailed, serverVars>>

KeyFailed ==
    /\ key = "importing"
    /\ key' = "failed" /\ readyState' = "closed"
    /\ UNCHANGED <<ws, sendQueue, sendSeq, sendChain, asked, recvSeq, recvChain,
                   integrityFailed, delivered, lateMessage, wireUp, wireDown, encryptFailed, serverVars>>

\* Fault: the queue is not flushed.
OpenedNoFlush ==
    /\ ws = "connecting"
    /\ ws' = "open" /\ readyState' = "open"
    /\ UNCHANGED <<key, sendQueue, sendSeq, sendChain, asked, recvSeq, recvChain, integrityFailed,
                   delivered, lateMessage, wireUp, wireDown, encryptFailed, serverVars>>

\* 'open' of the WebSocket: the queued payloads are encrypted in their order.
Opened ==
    /\ ws = "connecting"
    /\ ws' = "open" /\ readyState' = "open"
    /\ sendChain' = sendChain \o EncryptAll(sendQueue)
    /\ sendSeq' = (sendSeq + Len(sendQueue)) % SeqSpace
    /\ sendQueue' = <<>>
    /\ UNCHANGED <<key, asked, recvSeq, recvChain, integrityFailed, delivered,
                   lateMessage, wireUp, wireDown, encryptFailed, serverVars>>

\* 'close' of the WebSocket, whoever asked for it.  Frames on the wire are gone.
WsClosed ==
    /\ ws \in {"connecting", "open", "closing"}
    /\ ws' = "closed" /\ readyState' = "closed"
    /\ wireUp' = <<>> /\ wireDown' = <<>>
    /\ UNCHANGED <<key, sendQueue, sendSeq, sendChain, asked, recvSeq, recvChain,
                   integrityFailed, delivered, lateMessage, encryptFailed, serverVars>>

\* close() of the wrapper.
Close ==
    /\ readyState # "closing"
    /\ readyState' = "closing"
    /\ ws' = IF ws \in {"connecting", "open"} THEN "closing" ELSE ws
    /\ UNCHANGED <<key, sendQueue, sendSeq, sendChain, asked, recvSeq, recvChain,
                   integrityFailed, delivered, lateMessage, wireUp, wireDown, encryptFailed, serverVars>>

----------------------------------------------------------------------------
(* Browser to server                                                       *)

\* send() while the socket is not open or the key is not there.
SendQueued ==
    /\ asked < MaxSend
    /\ readyState # "open" \/ key # "ready"
    /\ asked' = asked + 1
    /\ sendQueue' = Append(sendQueue, asked + 1)
    /\ UNCHANGED <<key, readyState, ws, sendSeq, sendChain, recvSeq, recvChain,
                   integrityFailed, delivered, lateMessage, wireUp, wireDown, encryptFailed, serverVars>>

\* send() -> _encryptAndSend: the encrypt starts here, the hand-over is chained.
SendEncrypts ==
    /\ asked < MaxSend
    /\ readyState = "open" /\ key = "ready"
    /\ asked' = asked + 1
    /\ sendSeq' = NextSeq(sendSeq)
    /\ sendChain' = Append(sendChain, Encrypting(sendSeq, asked + 1))
    /\ UNCHANGED <<key, readyState, ws, sendQueue, recvSeq, recvChain,
                   integrityFailed, delivered, lateMessage, wireUp, wireDown, encryptFailed, serverVars>>

\* WebCrypto settles one of the encrypts that are under way, in any order.
EncryptSettles ==
    \E i \in 1 .. Len(sendChain) :
        /\ sendChain[i].st = "encrypting"
        /\ \E st \in {"done"} \union (IF MayFail /\ ~encryptFailed THEN {"failed"} ELSE {}) :
               /\ sendChain' = [sendChain EXCEPT ![i].st = st]
               /\ encryptFailed' = (encryptFailed \/ st = "failed")
        /\ UNCHANGED <<key, readyState, ws, sendQueue, sendSeq, asked, recvSeq, recvChain,
                       integrityFailed, delivered, lateMessage, wireUp, wireDown, serverVars>>

\* Fault: no chain, every frame leaves when its own encrypt settles.
SendReadyUnchained == {i \in 1 .. Len(sendChain) : sendChain[i].st # "encrypting"}

\* The links of _sendChain that may run: the first one, once its frame is there.
SendReady == {i \in 1 .. Len(sendChain) : i = 1 /\ sendChain[i].st # "encrypting"}

\* _ws.send of the frame, or the catch for an encrypt that failed; a WebSocket
\* that is not open drops the frame without a word.
HandOver ==
    \E i \in SendReady :
        LET f == sendChain[i] IN
        /\ sendChain' = RemoveAt(sendChain, i)
        /\ wireUp' = IF f.st = "done" /\ ws = "open"
                     THEN Append(wireUp, Frame(f.seq, f.msg, TRUE)) ELSE wireUp
        /\ UNCHANGED <<key, readyState, ws, sendQueue, sendSeq, asked, recvSeq, recvChain,
                       integrityFailed, delivered, lateMessage, wireDown, encryptFailed, serverVars>>

\* VncCryptoSession.decrypt at the server: only the next number, then the tag.
\* A frame it refuses ends the relay.
ServerTakes ==
    /\ wireUp # <<>> /\ ~srvRejected
    /\ wireUp' = Tail(wireUp)
    /\ LET f == Head(wireUp) IN
       IF f.seq = srvRecvSeq
       THEN /\ taken' = Append(taken, f.msg)
            /\ srvRecvSeq' = (srvRecvSeq + 1) % SeqSpace
            /\ UNCHANGED srvRejected
       ELSE /\ srvRejected' = TRUE
            /\ UNCHANGED <<taken, srvRecvSeq>>
    /\ UNCHANGED <<clientVars, wireDown, srvSendSeq, produced, tampered>>

----------------------------------------------------------------------------
(* Server to browser                                                       *)

\* VncCryptoSession.encrypt; something on the way may change the frame.
ServerSends ==
    /\ ws = "open" /\ produced < MaxRecv
    /\ produced' = produced + 1
    /\ srvSendSeq' = (srvSendSeq + 1) % SeqSpace
    /\ \E ok \in {TRUE} \union (IF MayTamper THEN {FALSE} ELSE {}) :
        /\ wireDown' = Append(wireDown, Frame(srvSendSeq, produced + 1, ok))
        /\ tampered' = IF ok THEN tampered ELSE tampered \union {produced + 1}
    /\ UNCHANGED <<clientVars, wireUp, srvRecvSeq, taken, srvRejected>>

\* 'message' of the WebSocket: the frame is a link of _recvChain.
Message ==
    /\ ws = "open" /\ wireDown # <<>>
    /\ recvChain' = Append(recvChain, [frame |-> Head(wireDown), st |-> "waiting"])
    /\ wireDown' = Tail(wireDown)
    /\ UNCHANGED <<key, readyState, ws, sendQueue, sendSeq, sendChain, asked, recvSeq,
                   integrityFailed, delivered, lateMessage, wireUp, encryptFailed, serverVars>>

\* The catch of _deliver: no further frame is looked at, the WebSocket closes.
\* (As code 4099.  In the closing or closed state close() does nothing.)
Fail(i) ==
    /\ integrityFailed' = TRUE
    /\ ws' = IF ws = "open" THEN "closing" ELSE ws
    /\ recvChain' = RemoveAt(recvChain, i)
    /\ UNCHANGED <<recvSeq, delivered, lateMessage>>

\* Fault: no chain, a listener of its own per frame.
MayStartUnchained == {i \in 1 .. Len(recvChain) :
                        /\ recvChain[i].st = "waiting"
                        /\ \A j \in 1 .. (i - 1) : recvChain[j].st # "waiting"}

\* Fault: a link waits for a frame behind it.
MayStartSecond == {i \in 1 .. Len(recvChain) : i = 2 /\ recvChain[i].st = "waiting"}

\* The links of _recvChain that may start: the first one.
MayStart == {i \in 1 .. Len(recvChain) : i = 1 /\ recvChain[i].st = "waiting"}

\* _deliver up to its await: the number is checked and taken, the decrypt starts.
StartDecrypt ==
    \E i \in MayStart :
        /\ IF integrityFailed
           THEN /\ recvChain' = RemoveAt(recvChain, i)
                /\ UNCHANGED <<recvSeq, delivered, lateMessage, integrityFailed, ws>>
           ELSE IF recvChain[i].frame.seq # recvSeq
           THEN Fail(i)
           ELSE /\ recvSeq' = NextSeq(recvSeq)
                /\ recvChain' = [recvChain EXCEPT ![i].st = "decrypting"]
                /\ UNCHANGED <<delivered, lateMessage, integrityFailed, ws>>
        /\ UNCHANGED <<key, readyState, sendQueue, sendSeq, sendChain, asked, wireUp,
                       wireDown, encryptFailed, serverVars>>

\* The decrypt settles: the message event, or the catch.
DecryptSettles ==
    \E i \in 1 .. Len(recvChain) :
        /\ recvChain[i].st = "decrypting"
        /\ IF recvChain[i].frame.ok
           THEN /\ delivered' = Append(delivered, recvChain[i].frame.msg)
                /\ lateMessage' = (lateMessage \/ ws = "closed")
                /\ recvChain' = RemoveAt(recvChain, i)
                /\ UNCHANGED <<recvSeq, integrityFailed, ws>>
           ELSE Fail(i)
        /\ UNCHANGED <<key, readyState, sendQueue, sendSeq, sendChain, asked, wireUp,
                       wireDown, encryptFailed, serverVars>>

----------------------------------------------------------------------------
Next ==
    \/ KeyImported \/ KeyFailed \/ Opened \/ WsClosed \/ Close
    \/ SendQueued \/ SendEncrypts \/ EncryptSettles \/ HandOver \/ ServerTakes
    \/ ServerSends \/ Message \/ StartDecrypt \/ DecryptSettles

\* Promises settle and the microtasks behind them run; a frame on an open
\* connection arrives; a WebSocket that is closing gets its close event.
Fairness ==
    /\ WF_vars(EncryptSettles) /\ WF_vars(HandOver) /\ WF_vars(ServerTakes)
    /\ WF_vars(Message) /\ WF_vars(StartDecrypt) /\ WF_vars(DecryptSettles)
    /\ WF_vars(ws = "closing" /\ WsClosed)

Spec == Init /\ [][Next]_vars /\ Fairness

----------------------------------------------------------------------------
(* Properties                                                              *)

States == {"connecting", "open", "closing", "closed"}

\* Every variable holds a value of its type.
TypeOK ==
    /\ key \in {"importing", "ready", "failed"}
    /\ readyState \in States /\ ws \in States \union {"none"}
    /\ sendQueue \in Seq(1 .. MaxSend) /\ asked \in 0 .. MaxSend
    /\ sendSeq \in 0 .. (SeqSpace - 1) /\ recvSeq \in 0 .. (SeqSpace - 1)
    /\ srvSendSeq \in 0 .. (SeqSpace - 1) /\ srvRecvSeq \in 0 .. (SeqSpace - 1)
    /\ \A i \in 1 .. Len(sendChain) :
        sendChain[i] \in [seq : 0 .. (SeqSpace - 1), msg : 1 .. MaxSend,
                          st : {"encrypting", "done", "failed"}]
    /\ \A i \in 1 .. Len(recvChain) :
        /\ recvChain[i].st \in {"waiting", "decrypting"}
        /\ recvChain[i].frame \in [seq : 0 .. (SeqSpace - 1), msg : 1 .. MaxRecv, ok : BOOLEAN]
    /\ integrityFailed \in BOOLEAN /\ encryptFailed \in BOOLEAN
    /\ lateMessage \in BOOLEAN /\ srvRejected \in BOOLEAN
    /\ delivered \in Seq(1 .. MaxRecv) /\ taken \in Seq(1 .. MaxSend)
    /\ produced \in 0 .. MaxRecv /\ tampered \subseteq 1 .. MaxRecv

\* What noVNC is given is what the server sent, from the start, in order and without
\* a hole, and it ends before the first frame that was changed on the way.
DeliveredInOrder ==
    /\ \A i \in 1 .. Len(delivered) : delivered[i] = i
    /\ \A m \in tampered : Len(delivered) < m

\* 'out-of-order', 4099, never happens on a stream nobody changed, whatever order
\* WebCrypto settles in and wherever the numbers wrap.
HealthyStreamHolds == integrityFailed => tampered # {}

\* What the server has taken is what noVNC sent, from the start, in order and without
\* a hole, the payloads queued before the socket was open included.
TakenInOrder == \A i \in 1 .. Len(taken) : taken[i] = i

\* The server refuses a frame only when an encrypt failed (its number is then missing).
HealthySendHolds == srvRejected => encryptFailed

\* No message event after the close event: the order every WebSocket keeps.
NoMessageAfterClose == ~lateMessage

\* A frame the browser has received is delivered, or the stream has failed.
ReceivedIsDelivered ==
    \A m \in 1 .. MaxRecv :
        (\E i \in 1 .. Len(recvChain) : recvChain[i].frame.msg = m)
            ~> (integrityFailed \/ Len(delivered) >= m)

\* A payload sent on an open socket reaches the server, unless the socket closes.
SentIsTaken ==
    \A m \in 1 .. MaxSend :
        (asked >= m /\ readyState = "open")
            ~> (Len(taken) >= m \/ ws \in {"closing", "closed"} \/ encryptFailed)

=============================================================================
