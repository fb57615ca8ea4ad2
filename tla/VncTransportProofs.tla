------------------------- MODULE VncTransportProofs -------------------------
(***************************************************************************)
(* The socket keeps the order of what it carries both ways, polling that   *)
(* of what it carries to the browser and the account of what it accepts,   *)
(* for every length of the streams, every space of sequence numbers with   *)
(* more than one number and every order in which WebCrypto, the network    *)
(* and the requests of the polling loop settle.                            *)
(*                                                                         *)
(* The socket: a frame carries the number of its payload modulo SeqSpace,  *)
(* and what an end counts is the length of what it took, modulo SeqSpace.  *)
(* The links of a chain and the frames on the wire continue what was taken *)
(* (DownInv); upwards one number may be missing, and a hole of one number  *)
(* is told from the next number because the space has two (UpInv).         *)
(*                                                                         *)
(* Polling: the buffer of the session and the answer on its way continue   *)
(* what was delivered; what was decrypted is written, waits for the lock   *)
(* or has failed, each number in one of the three (PollInv).               *)
(***************************************************************************)
EXTENDS MCVncTransports, SequenceTheorems, TLAPS

-----------------------------------------------------------------------------
(* Sequence numbers. *)

\* The number of the payload behind the first n.
Num(n) == n % SeqSpace

LEMMA AtLeastOnce == ASSUME NEW S \in Nat \ {0}, NEW d \in Int, d >= 1 PROVE S * d >= S
<1>1. PICK e \in Nat : d = e + 1
  <2>1. d - 1 \in Nat
    OBVIOUS
  <2>2. QED
    BY <2>1
<1>2. S * d = S * e + S
  BY <1>1
<1>3. S * e >= 0
  OBVIOUS
<1>4. QED
  BY <1>2, <1>3

\* A number has one remainder.
LEMMA OneRemainder ==
    ASSUME NEW S \in Nat \ {0}, NEW a \in Int, NEW b \in Int,
           NEW x \in 0 .. (S - 1), NEW y \in 0 .. (S - 1), S * a + x = S * b + y
    PROVE  x = y
<1>1. S * (a - b) = y - x
  OBVIOUS
<1>2. CASE a - b >= 1
  BY <1>1, <1>2, AtLeastOnce
<1>3. CASE b - a >= 1
  <2>1. S * (b - a) = x - y
    OBVIOUS
  <2>2. QED
    BY <1>3, <2>1, AtLeastOnce
<1>4. CASE a = b
  BY <1>4
<1>5. QED
  BY <1>2, <1>3, <1>4

LEMMA Divided ==
    ASSUME NEW S \in Nat \ {0}, NEW n \in Nat
    PROVE  n % S \in 0 .. (S - 1) /\ n = S * (n \div S) + (n % S) /\ n \div S \in Nat
OBVIOUS

LEMMA NextRemainder ==
    ASSUME NEW S \in Nat \ {0}, NEW n \in Nat
    PROVE  (n + 1) % S = IF n % S = S - 1 THEN 0 ELSE (n % S) + 1
<1> DEFINE q == n \div S
           r == n % S
           q1 == (n + 1) \div S
           r1 == (n + 1) % S
<1>1. r \in 0 .. (S - 1) /\ n = S * q + r /\ q \in Int
  BY Divided
<1>2. r1 \in 0 .. (S - 1) /\ n + 1 = S * q1 + r1 /\ q1 \in Int
  BY Divided, n + 1 \in Nat
<1> HIDE DEF q, r, q1, r1
<1>3. CASE r = S - 1
  <2>1. S * (q + 1) + 0 = S * q1 + r1
    BY <1>1, <1>2, <1>3
  <2>2. r1 = 0
    BY <1>1, <1>2, <2>1, OneRemainder
  <2>3. QED
    BY <1>3, <2>2 DEF r1, r
<1>4. CASE r # S - 1
  <2>1. S * q + (r + 1) = S * q1 + r1 /\ r + 1 \in 0 .. (S - 1)
    BY <1>1, <1>2, <1>4
  <2>2. r1 = r + 1
    BY <1>1, <1>2, <2>1, OneRemainder
  <2>3. QED
    BY <1>4, <2>2 DEF r1, r
<1>5. QED
  BY <1>3, <1>4

\* (n + 1) >>> 0 goes from the number of one payload to that of the next, over the wrap.
LEMMA NumNext == ASSUME NEW n \in Nat PROVE (Num(n) + 1) % SeqSpace = Num(n + 1)
<1>0. SeqSpace \in Nat \ {0}
  BY TransportAssumption
<1>1. n % SeqSpace \in 0 .. (SeqSpace - 1)
  BY <1>0, Divided
<1>2. CASE n % SeqSpace = SeqSpace - 1
  <2>1. (n % SeqSpace) + 1 = SeqSpace /\ SeqSpace % SeqSpace = 0
    BY <1>0, <1>1, <1>2
  <2>2. QED
    BY <1>0, <1>2, <2>1, NextRemainder DEF Num
<1>3. CASE n % SeqSpace # SeqSpace - 1
  <2>1. (n % SeqSpace) + 1 \in 0 .. (SeqSpace - 1)
    BY <1>0, <1>1, <1>3
  <2>2. ((n % SeqSpace) + 1) % SeqSpace = (n % SeqSpace) + 1
    BY <1>0, <2>1
  <2>3. QED
    BY <1>0, <1>3, <2>2, NextRemainder DEF Num
<1>4. QED
  BY <1>2, <1>3

\* Neighbours have different numbers.
LEMMA NumDiffers == ASSUME NEW n \in Nat PROVE Num(n + 1) # Num(n)
<1> DEFINE r == n % SeqSpace
<1>1. SeqSpace \in Nat \ {0, 1}
  BY TransportAssumption
<1>2. r \in 0 .. (SeqSpace - 1)
  BY <1>1, Divided
<1>3. (n + 1) % SeqSpace = IF r = SeqSpace - 1 THEN 0 ELSE r + 1
  BY <1>1, NextRemainder
<1> HIDE DEF r
<1>4. (n + 1) % SeqSpace # r
  BY <1>1, <1>2, <1>3
<1>5. QED
  BY <1>4 DEF Num, r

LEMMA NumZero == Num(0) = 0
BY TransportAssumption DEF Num

-----------------------------------------------------------------------------
(* The socket: the invariant. *)

SentFrame == [seq : Nat, msg : Nat, ok : BOOLEAN]

RecvLink == [frame : SentFrame, st : {"waiting", "decrypting"}]

\* The WebSocket exists once the key does, and nothing is received before it is open.
Early == {"none", "connecting"}
Ended == {"closing", "closed"}

StageInv ==
    /\ ws \in Early \union Ended \union {"open"}
    /\ key = "importing" => ws = "none"
    /\ ws \in {"connecting", "open"} => key = "ready"
    /\ ws \in Early => recvChain = <<>>

\* From the server to the browser.
DownTypes ==
    /\ delivered \in Seq(Nat) /\ wireDown \in Seq(SentFrame)
    /\ recvChain \in Seq(RecvLink)
    /\ produced \in Nat /\ tampered \subseteq Nat
    /\ integrityFailed \in BOOLEAN

\* A frame carries the number of its payload, and authenticates unless it was changed.
Genuine(f, changed) == f.msg >= 1 /\ f.seq = Num(f.msg - 1) /\ f.ok = (f.msg \notin changed)

DownInv ==
    /\ DownTypes
    /\ \A i \in 1 .. Len(delivered) : delivered[i] = i
    /\ \A m \in tampered : Len(delivered) < m /\ m <= produced
    /\ srvSendSeq = Num(produced)
    /\ \A i \in 1 .. Len(recvChain) : i > 1 \/ integrityFailed => recvChain[i].st = "waiting"
    /\ integrityFailed => tampered # {} /\ ws \in Ended
    /\ ~integrityFailed =>
         /\ \A i \in 1 .. Len(recvChain) :
              Genuine(recvChain[i].frame, tampered) /\ recvChain[i].frame.msg = Len(delivered) + i
         /\ recvSeq = Num(Len(delivered)
                          + IF recvChain # <<>> /\ recvChain[1].st = "decrypting" THEN 1 ELSE 0)
         /\ Len(delivered) + Len(recvChain) <= produced
         /\ ws \notin Ended =>
              /\ produced = Len(delivered) + Len(recvChain) + Len(wireDown)
              /\ \A i \in 1 .. Len(wireDown) :
                   /\ Genuine(wireDown[i], tampered)
                   /\ wireDown[i].msg = Len(delivered) + Len(recvChain) + i

\* From the browser to the server.
Link == [seq : Nat, msg : Nat, st : {"encrypting", "done", "failed"}]

UpTypes ==
    /\ sendQueue \in Seq(Nat) /\ sendChain \in Seq(Link) /\ wireUp \in Seq(SentFrame)
    /\ taken \in Seq(Nat) /\ asked \in Nat /\ sendSeq \in Nat
    /\ encryptFailed \in BOOLEAN /\ srvRejected \in BOOLEAN

\* Before the socket is open every payload waits in the queue.
NotOpenInv ==
    ws \in Early =>
        /\ sendChain = <<>> /\ wireUp = <<>> /\ taken = <<>> /\ sendSeq = 0
        /\ ~srvRejected /\ readyState # "open"
        /\ Len(sendQueue) = asked /\ \A i \in 1 .. Len(sendQueue) : sendQueue[i] = i

\* The payloads that are neither taken nor on the wire nor in the chain any more.
Missing == asked - Len(taken) - Len(wireUp) - Len(sendChain)

\* While it is open the chain holds the last payloads under their numbers; at most one
\* is missing, the one whose encrypt failed.
OpenInv ==
    ws = "open" =>
        /\ readyState = "open" /\ sendQueue = <<>> /\ key = "ready"
        /\ sendSeq = Num(asked) /\ Len(sendChain) <= asked
        /\ \A i \in 1 .. Len(sendChain) :
             /\ sendChain[i].msg = asked - Len(sendChain) + i
             /\ sendChain[i].seq = Num(sendChain[i].msg - 1)
             /\ sendChain[i].st = "failed" => encryptFailed
        /\ \A i, j \in 1 .. Len(sendChain) :
             sendChain[i].st = "failed" /\ sendChain[j].st = "failed" => i = j
        /\ ~srvRejected =>
             /\ Missing \in {0, 1}
             /\ Missing = 1 => encryptFailed /\ \A i \in 1 .. Len(sendChain) : sendChain[i].st # "failed"

\* What is on the wire continues what was taken, with a hole of at most one payload.
WireUpInv ==
    /\ \A i \in 1 .. Len(taken) : taken[i] = i
    /\ srvRecvSeq = Num(Len(taken))
    /\ srvRejected => encryptFailed
    /\ ~srvRejected =>
         \A i \in 1 .. Len(wireUp) :
            /\ wireUp[i].msg \in {Len(taken) + i, Len(taken) + i + 1}
            /\ wireUp[i].msg # Len(taken) + i => encryptFailed
            /\ wireUp[i].seq = Num(wireUp[i].msg - 1)

UpInv == UpTypes /\ NotOpenInv /\ OpenInv /\ WireUpInv

SocketInv == StageInv /\ DownInv /\ UpInv

LEMMA SocketStarts == ASSUME Socket!Init PROVE SocketInv
<1>1. StageInv
  BY DEF Socket!Init, StageInv, Early, Ended
<1>2. DownInv
  <2>1. /\ delivered = <<>> /\ wireDown = <<>> /\ recvChain = <<>> /\ produced = 0 /\ tampered = {}
        /\ ~integrityFailed /\ integrityFailed \in BOOLEAN /\ srvSendSeq = 0 /\ recvSeq = 0
    BY DEF Socket!Init
  <2>2. DownTypes
    BY <2>1 DEF DownTypes
  <2>3. Len(delivered) = 0 /\ Len(wireDown) = 0 /\ Len(recvChain) = 0
    BY <2>1
  <2>4. QED
    BY <2>1, <2>2, <2>3, NumZero DEF DownInv
<1>3. UpInv
  <2>1. /\ sendQueue = <<>> /\ sendChain = <<>> /\ wireUp = <<>> /\ taken = <<>> /\ asked = 0
        /\ encryptFailed \in BOOLEAN /\ srvRejected \in BOOLEAN /\ ~srvRejected /\ sendSeq \in Nat
        /\ ws = "none" /\ sendSeq = 0 /\ srvRecvSeq = 0 /\ readyState # "open"
    BY DEF Socket!Init
  <2>2. UpTypes
    BY <2>1 DEF UpTypes
  <2>3. Len(sendQueue) = 0 /\ Len(taken) = 0 /\ Len(wireUp) = 0
    BY <2>1
  <2>4. NotOpenInv /\ OpenInv
    BY <2>1, <2>3 DEF NotOpenInv, OpenInv
  <2>5. WireUpInv
    BY <2>1, <2>3, NumZero DEF WireUpInv
  <2>6. QED
    BY <2>2, <2>4, <2>5 DEF UpInv
<1>4. QED
  BY <1>1, <1>2, <1>3 DEF SocketInv

-----------------------------------------------------------------------------
(* The socket: steps of the browser's side of the stream from the server. *)

downVars == <<delivered, wireDown, recvChain, produced, tampered, integrityFailed,
              srvSendSeq, recvSeq>>

\* A step that leaves the stream alone may only bring the WebSocket forward.
LEMMA DownStays ==
    ASSUME DownInv, UNCHANGED downVars, ws \in Ended => ws' \in Ended
    PROVE  DownInv'
BY DEF DownInv, DownTypes, Genuine, downVars

LEMMA StageForward ==
    ASSUME StageInv, UNCHANGED recvChain,
           \/ UNCHANGED <<key, ws>>
           \/ Socket!KeyImported \/ Socket!KeyFailed \/ Socket!Opened \/ Socket!Close
           \/ Socket!WsClosed
    PROVE  StageInv' /\ (ws \in Ended => ws' \in Ended)
BY DEF StageInv, Early, Ended, Socket!KeyImported, Socket!KeyFailed, Socket!Opened, Socket!Close,
       Socket!WsClosed

LEMMA DownWsClosed == ASSUME DownInv, StageInv, Socket!WsClosed PROVE DownInv'
<1>1. ws' \in Ended /\ wireDown' = <<>>
      /\ UNCHANGED <<delivered, recvChain, produced, tampered, integrityFailed, srvSendSeq, recvSeq>>
  BY DEF Socket!WsClosed, Socket!serverVars, Ended
<1>2. QED
  BY <1>1 DEF DownInv, DownTypes, Genuine

LEMMA DownServerSends ==
    ASSUME DownInv, StageInv, Socket!ServerSends PROVE DownInv' /\ StageInv'
<1>1. PICK ok \in BOOLEAN :
        /\ wireDown' = Append(wireDown, [seq |-> srvSendSeq, msg |-> produced + 1, ok |-> ok])
        /\ tampered' = IF ok THEN tampered ELSE tampered \union {produced + 1}
  BY DEF Socket!ServerSends, Socket!Frame
<1>2. /\ produced' = produced + 1 /\ srvSendSeq' = (srvSendSeq + 1) % SeqSpace /\ ws = "open"
      /\ UNCHANGED <<delivered, recvChain, integrityFailed, recvSeq, ws, key>>
  BY DEF Socket!ServerSends, Socket!clientVars
<1>3. ~integrityFailed /\ ws \notin Ended
  BY <1>2 DEF DownInv, Ended
<1> DEFINE f == [seq |-> srvSendSeq, msg |-> produced + 1, ok |-> ok]
<1>4. Num(produced) \in Nat /\ f \in SentFrame
  BY TransportAssumption, Divided DEF DownInv, DownTypes, SentFrame, Num
<1>5. DownTypes'
  BY <1>1, <1>2, <1>4 DEF DownInv, DownTypes
<1>6. srvSendSeq' = Num(produced')
  BY <1>2, NumNext DEF DownInv, DownTypes
<1>7. \A m \in tampered : m <= produced
  BY DEF DownInv
<1>8. ASSUME NEW g \in SentFrame, Genuine(g, tampered), g.msg <= produced PROVE Genuine(g, tampered')
  BY <1>1, <1>8 DEF Genuine, DownInv, DownTypes, SentFrame
<1>9. Genuine(f, tampered')
  <2>1. produced \in Nat /\ srvSendSeq = Num(produced) /\ produced + 1 \notin tampered
    BY <1>7 DEF DownInv, DownTypes
  <2>2. ok = (produced + 1 \notin tampered')
    <3>1. CASE ok
      BY <1>1, <2>1, <3>1
    <3>2. CASE ~ok
      BY <1>1, <2>1, <3>2
    <3>3. QED
      BY <3>1, <3>2
  <2>3. f.msg >= 1 /\ f.seq = Num(f.msg - 1)
    BY <2>1
  <2>4. QED
    BY <2>2, <2>3 DEF Genuine
<1>10. \A m \in tampered' : Len(delivered') < m /\ m <= produced'
  <2>1. Len(delivered) \in Nat /\ Len(recvChain) \in Nat /\ produced \in Nat
        /\ Len(delivered) + Len(recvChain) <= produced /\ tampered \subseteq Nat
    BY <1>3 DEF DownInv, DownTypes
  <2>2. \A m \in tampered : Len(delivered) < m /\ m <= produced
    BY DEF DownInv
  <2>3. tampered' \subseteq tampered \union {produced + 1}
    BY <1>1
  <2>4. QED
    BY <1>2, <2>1, <2>2, <2>3
<1>11. \A i \in 1 .. Len(recvChain') :
          Genuine(recvChain'[i].frame, tampered') /\ recvChain'[i].frame.msg = Len(delivered') + i
  <2>1. SUFFICES ASSUME NEW i \in 1 .. Len(recvChain)
                 PROVE  Genuine(recvChain'[i].frame, tampered') /\ recvChain'[i].frame.msg = Len(delivered') + i
    BY <1>2
  <2>2. Genuine(recvChain[i].frame, tampered) /\ recvChain[i].frame.msg = Len(delivered) + i
    BY <1>3 DEF DownInv
  <2>3. recvChain[i].frame \in SentFrame
    <3>1. recvChain[i] \in RecvLink
      BY DEF DownInv, DownTypes
    <3>2. QED
      BY <3>1 DEF RecvLink
  <2>4. Len(delivered) + i <= produced
    BY <1>3 DEF DownInv, DownTypes
  <2>5. QED
    BY <1>2, <1>8, <2>2, <2>3, <2>4
<1>12. /\ produced' = Len(delivered') + Len(recvChain') + Len(wireDown')
       /\ \A i \in 1 .. Len(wireDown') :
            Genuine(wireDown'[i], tampered') /\ wireDown'[i].msg = Len(delivered') + Len(recvChain') + i
  <2>1. Len(wireDown') = Len(wireDown) + 1 /\ wireDown'[Len(wireDown) + 1] = f
        /\ \A i \in 1 .. Len(wireDown) : wireDown'[i] = wireDown[i]
    BY <1>1, <1>4 DEF DownInv, DownTypes
  <2>2. produced = Len(delivered) + Len(recvChain) + Len(wireDown)
    BY <1>3 DEF DownInv
  <2>3. ASSUME NEW i \in 1 .. Len(wireDown)
        PROVE  Genuine(wireDown'[i], tampered') /\ wireDown'[i].msg = Len(delivered') + Len(recvChain') + i
    <3>1. Genuine(wireDown[i], tampered) /\ wireDown[i].msg = Len(delivered) + Len(recvChain) + i
      BY <1>3 DEF DownInv
    <3>2. wireDown \in Seq(SentFrame) /\ Len(delivered) \in Nat /\ Len(recvChain) \in Nat
      BY DEF DownInv, DownTypes
    <3>3. wireDown[i] \in SentFrame /\ wireDown[i].msg <= produced
      BY <2>2, <3>1, <3>2
    <3>5. Genuine(wireDown'[i], tampered')
      BY <1>8, <2>1, <3>1, <3>3
    <3>4. QED
      BY <3>1, <3>5, <2>1, <1>2
  <2>4. wireDown'[Len(wireDown) + 1].msg = Len(delivered') + Len(recvChain') + Len(wireDown) + 1
    BY <1>2, <2>1, <2>2 DEF DownInv, DownTypes
  <2>5. Genuine(wireDown'[Len(wireDown) + 1], tampered')
    BY <1>9, <2>1
  <2>6. Len(wireDown) \in Nat /\ Len(recvChain) \in Nat /\ Len(delivered) \in Nat
    BY DEF DownInv, DownTypes
  <2>7. ASSUME NEW i \in 1 .. Len(wireDown')
        PROVE  Genuine(wireDown'[i], tampered') /\ wireDown'[i].msg = Len(delivered') + Len(recvChain') + i
    <3>1. i \in 1 .. Len(wireDown) \/ i = Len(wireDown) + 1
      BY <2>1, <2>6
    <3>2. CASE i \in 1 .. Len(wireDown)
      BY <2>3, <3>2
    <3>3. CASE i = Len(wireDown) + 1
      BY <2>1, <2>4, <2>5, <2>6, <3>3, <1>2
    <3>4. QED
      BY <3>1, <3>2, <3>3
  <2>8. QED
    BY <1>2, <2>1, <2>2, <2>6, <2>7
<1>13. Len(delivered') + Len(recvChain') <= produced'
  BY <1>2, <1>3 DEF DownInv, DownTypes
<1>14. DownInv'
  BY <1>2, <1>3, <1>5, <1>6, <1>10, <1>11, <1>12, <1>13 DEF DownInv
<1>15. QED
  BY <1>2, <1>14 DEF StageInv

LEMMA DownMessage == ASSUME DownInv, StageInv, Socket!Message PROVE DownInv' /\ StageInv'
<1> DEFINE n == Len(delivered)
           c == Len(recvChain)
<1>1. /\ ws = "open" /\ wireDown # <<>> /\ wireDown' = Tail(wireDown)
      /\ recvChain' = Append(recvChain, [frame |-> Head(wireDown), st |-> "waiting"])
      /\ UNCHANGED <<delivered, produced, tampered, integrityFailed, srvSendSeq, recvSeq, ws, key>>
  BY DEF Socket!Message, Socket!serverVars
<1>2. ~integrityFailed /\ ws \notin Ended
  BY <1>1 DEF DownInv, Ended
<1>3. n \in Nat /\ c \in Nat /\ Len(wireDown) \in Nat /\ produced \in Nat
  BY DEF DownInv, DownTypes
<1>4. Head(wireDown) = wireDown[1] /\ wireDown[1] \in SentFrame /\ 1 \in 1 .. Len(wireDown)
  BY <1>1 DEF DownInv, DownTypes
<1>5. [frame |-> Head(wireDown), st |-> "waiting"] \in RecvLink
  BY <1>4 DEF RecvLink
<1>6. /\ Len(recvChain') = c + 1 /\ recvChain'[c + 1].frame = wireDown[1]
      /\ recvChain'[c + 1].st = "waiting"
      /\ \A i \in 1 .. c : recvChain'[i] = recvChain[i]
  BY <1>1, <1>4, <1>5 DEF DownInv, DownTypes
<1>7. Len(wireDown') = Len(wireDown) - 1 /\ \A i \in 1 .. Len(wireDown') : wireDown'[i] = wireDown[i + 1]
  BY <1>1, <1>3 DEF DownInv, DownTypes
<1>8. DownTypes'
  BY <1>1, <1>5 DEF DownInv, DownTypes
<1>9. \A i \in 1 .. Len(recvChain') :
        /\ i > 1 => recvChain'[i].st = "waiting"
        /\ Genuine(recvChain'[i].frame, tampered) /\ recvChain'[i].frame.msg = n + i
  <2>1. SUFFICES ASSUME NEW i \in 1 .. (c + 1)
                 PROVE  /\ i > 1 => recvChain'[i].st = "waiting"
                        /\ Genuine(recvChain'[i].frame, tampered) /\ recvChain'[i].frame.msg = n + i
    BY <1>6
  <2>2. CASE i \in 1 .. c
    BY <1>2, <1>6, <2>2 DEF DownInv
  <2>3. CASE i = c + 1
    <3>1. Genuine(wireDown[1], tampered) /\ wireDown[1].msg = n + c + 1
      BY <1>2, <1>4 DEF DownInv
    <3>2. QED
      BY <1>3, <1>6, <2>3, <3>1
  <2>4. QED
    BY <1>3, <2>2, <2>3
<1>10. \A i \in 1 .. Len(wireDown') :
         Genuine(wireDown'[i], tampered) /\ wireDown'[i].msg = n + (c + 1) + i
  <2>1. SUFFICES ASSUME NEW i \in 1 .. Len(wireDown')
                 PROVE  Genuine(wireDown'[i], tampered) /\ wireDown'[i].msg = n + (c + 1) + i
    OBVIOUS
  <2>2. i + 1 \in 1 .. Len(wireDown)
    BY <1>3, <1>7
  <2>3. Genuine(wireDown[i + 1], tampered) /\ wireDown[i + 1].msg = n + c + (i + 1)
    BY <1>2, <2>2 DEF DownInv
  <2>4. QED
    BY <1>3, <1>7, <2>3
<1>11. produced = n + c + Len(wireDown)
  BY <1>2 DEF DownInv
<1>12. recvChain' # <<>> /\ (recvChain'[1].st = "decrypting" <=> recvChain # <<>> /\ recvChain[1].st = "decrypting")
  <2>1. CASE c = 0
    <3>1. recvChain = <<>>
      BY <2>1 DEF DownInv, DownTypes
    <3>2. c + 1 = 1
      BY <2>1
    <3>3. recvChain'[1].st = "waiting"
      BY <1>6, <3>2
    <3>4. recvChain' # <<>>
      BY <1>6, <3>2
    <3>5. QED
      BY <3>1, <3>3, <3>4
  <2>2. CASE c # 0
    <3>1. 1 \in 1 .. c /\ recvChain # <<>>
      BY <1>3, <2>2 DEF DownInv, DownTypes
    <3>2. QED
      BY <1>3, <1>6, <3>1
  <2>3. QED
    BY <2>1, <2>2
<1>13. recvSeq' = Num(n + IF recvChain' # <<>> /\ recvChain'[1].st = "decrypting" THEN 1 ELSE 0)
  BY <1>1, <1>2, <1>12 DEF DownInv
<1>14. n + Len(recvChain') <= produced /\ produced = n + Len(recvChain') + Len(wireDown')
  BY <1>3, <1>4, <1>6, <1>7, <1>11
<1>15. DownInv'
  BY <1>1, <1>2, <1>6, <1>8, <1>9, <1>10, <1>13, <1>14 DEF DownInv
<1>16. QED
  BY <1>1, <1>15 DEF StageInv, Early

\* The first link leaves the chain.
LEMMA FirstLeaves ==
    ASSUME DownInv, 1 \in 1 .. Len(recvChain), recvChain' = Socket!RemoveAt(recvChain, 1)
    PROVE  /\ recvChain' \in Seq(RecvLink) /\ Len(recvChain') = Len(recvChain) - 1
           /\ \A i \in 1 .. Len(recvChain') :
                /\ i + 1 \in 2 .. Len(recvChain)
                /\ recvChain'[i] = recvChain[i + 1] /\ recvChain'[i].st = "waiting"
           /\ ~(recvChain' # <<>> /\ recvChain'[1].st = "decrypting")
<1>1. recvChain \in Seq(RecvLink)
  BY DEF DownInv, DownTypes
<1>2. recvChain' = Tail(recvChain)
  BY <1>1 DEF Socket!RemoveAt
<1>3. /\ recvChain' \in Seq(RecvLink) /\ Len(recvChain') = Len(recvChain) - 1
      /\ \A i \in 1 .. Len(recvChain') :
           i + 1 \in 2 .. Len(recvChain) /\ recvChain'[i] = recvChain[i + 1]
  BY <1>1, <1>2
<1>4. \A i \in 1 .. Len(recvChain') : recvChain'[i].st = "waiting"
  <2>1. SUFFICES ASSUME NEW i \in 1 .. Len(recvChain') PROVE recvChain'[i].st = "waiting"
    OBVIOUS
  <2>2. i + 1 \in 1 .. Len(recvChain) /\ i + 1 > 1
    BY <1>3
  <2>3. QED
    BY <1>3, <2>2 DEF DownInv
<1>5. recvChain' # <<>> => recvChain'[1].st = "waiting"
  BY <1>3, <1>4
<1>6. QED
  BY <1>3, <1>4, <1>5

\* Frames of a failed stream are passed over.
LEMMA DownPassed ==
    ASSUME DownInv, 1 \in 1 .. Len(recvChain), recvChain' = Socket!RemoveAt(recvChain, 1),
           UNCHANGED <<delivered, wireDown, produced, tampered, srvSendSeq, recvSeq>>,
           integrityFailed', tampered # {}, ws' \in Ended, integrityFailed' \in BOOLEAN
    PROVE  DownInv'
<1>1. DownTypes'
  BY FirstLeaves DEF DownInv, DownTypes
<1>2. \A i \in 1 .. Len(recvChain') : recvChain'[i].st = "waiting"
  BY FirstLeaves
<1>3. QED
  BY <1>1, <1>2 DEF DownInv

LEMMA DownStartDecrypt ==
    ASSUME DownInv, StageInv, Socket!StartDecrypt PROVE DownInv' /\ StageInv'
<1> DEFINE n == Len(delivered)
<1>1. 1 \in 1 .. Len(recvChain) /\ recvChain[1].st = "waiting"
  BY DEF Socket!StartDecrypt, Socket!MayStart
<1>2. UNCHANGED <<wireDown, produced, tampered, srvSendSeq, key>>
  BY DEF Socket!StartDecrypt, Socket!serverVars
<1>3. recvChain \in Seq(RecvLink) /\ recvChain # <<>> /\ n \in Nat
  BY <1>1 DEF DownInv, DownTypes
<1>4. ws \notin Early
  BY <1>3 DEF StageInv
<1>5. CASE integrityFailed
  <2>1. recvChain' = Socket!RemoveAt(recvChain, 1)
        /\ UNCHANGED <<recvSeq, delivered, integrityFailed, ws>>
    BY <1>5 DEF Socket!StartDecrypt, Socket!MayStart
  <2>2. DownInv'
    BY <1>1, <1>2, <1>5, <2>1, DownPassed DEF DownInv, DownTypes
  <2>3. QED
    BY <1>2, <1>4, <2>1, <2>2 DEF StageInv
<1>6. CASE ~integrityFailed
  <2>1. recvSeq = Num(n) /\ recvChain[1].frame.seq = Num(n)
    <3>1. recvSeq = Num(n + 0)
      BY <1>1, <1>6 DEF DownInv
    <3>2. recvChain[1].frame.msg = n + 1 /\ Genuine(recvChain[1].frame, tampered)
      BY <1>1, <1>6 DEF DownInv
    <3>3. QED
      BY <1>3, <3>1, <3>2 DEF Genuine
  <2>2. /\ recvSeq' = (recvSeq + 1) % SeqSpace
        /\ recvChain' = [recvChain EXCEPT ![1].st = "decrypting"]
        /\ UNCHANGED <<delivered, integrityFailed, ws>>
    BY <1>6, <2>1 DEF Socket!StartDecrypt, Socket!MayStart, Socket!NextSeq
  <2>3. recvSeq' = Num(n + 1)
    BY <1>3, <2>1, <2>2, NumNext
  <2>4. /\ Len(recvChain') = Len(recvChain) /\ recvChain' \in Seq(RecvLink)
        /\ recvChain'[1].st = "decrypting" /\ recvChain' # <<>>
        /\ \A i \in 1 .. Len(recvChain) :
             recvChain'[i].frame = recvChain[i].frame /\ (i > 1 => recvChain'[i].st = recvChain[i].st)
    <3>1. \A i \in 1 .. Len(recvChain) : recvChain[i] \in RecvLink
      BY <1>3
    <3>2. PICK l \in RecvLink : /\ recvChain' = [recvChain EXCEPT ![1] = l]
                                /\ l.st = "decrypting" /\ l.frame = recvChain[1].frame
      <4>1. [recvChain[1] EXCEPT !.st = "decrypting"] \in RecvLink
        BY <1>1, <3>1 DEF RecvLink
      <4>2. [recvChain[1] EXCEPT !.st = "decrypting"].st = "decrypting"
            /\ [recvChain[1] EXCEPT !.st = "decrypting"].frame = recvChain[1].frame
        BY <1>1, <3>1 DEF RecvLink
      <4>3. recvChain' = [recvChain EXCEPT ![1] = [recvChain[1] EXCEPT !.st = "decrypting"]]
        BY <2>2
      <4>4. QED
        BY <4>1, <4>2, <4>3
    <3>3. Len(recvChain') = Len(recvChain) /\ recvChain' \in Seq(RecvLink)
      BY <1>1, <1>3, <3>2
    <3>4. recvChain'[1] = l /\ \A i \in 1 .. Len(recvChain) : i > 1 => recvChain'[i] = recvChain[i]
      BY <1>1, <1>3, <3>2
    <3>5. recvChain' # <<>>
      BY <1>1, <3>3
    <3>6. ASSUME NEW i \in 1 .. Len(recvChain)
          PROVE  recvChain'[i].frame = recvChain[i].frame /\ (i > 1 => recvChain'[i].st = recvChain[i].st)
      <4>1. CASE i = 1
        BY <3>2, <3>4, <4>1
      <4>2. CASE i > 1
        BY <3>4, <4>2
      <4>3. QED
        BY <4>1, <4>2
    <3>7. QED
      BY <3>2, <3>3, <3>4, <3>5, <3>6
  <2>5. DownTypes'
    BY <1>2, <2>2, <2>4 DEF DownInv, DownTypes
  <2>6. DownInv'
    BY <1>2, <1>6, <2>2, <2>3, <2>4, <2>5 DEF DownInv
  <2>7. QED
    BY <1>2, <1>4, <2>2, <2>6 DEF StageInv
<1>7. QED
  BY <1>5, <1>6

LEMMA DownDecryptSettles ==
    ASSUME DownInv, StageInv, Socket!DecryptSettles PROVE DownInv' /\ StageInv'
<1> DEFINE n == Len(delivered)
           f == recvChain[1].frame
<1>1. PICK i \in 1 .. Len(recvChain) :
        /\ recvChain[i].st = "decrypting"
        /\ IF recvChain[i].frame.ok
           THEN /\ delivered' = Append(delivered, recvChain[i].frame.msg)
                /\ recvChain' = Socket!RemoveAt(recvChain, i)
                /\ UNCHANGED <<recvSeq, integrityFailed, ws>>
           ELSE Socket!Fail(i)
  BY DEF Socket!DecryptSettles
<1>2. i = 1 /\ ~integrityFailed /\ 1 \in 1 .. Len(recvChain)
  BY <1>1 DEF DownInv, DownTypes
<1>3. UNCHANGED <<wireDown, produced, tampered, srvSendSeq, key>>
  BY DEF Socket!DecryptSettles, Socket!serverVars
<1>4. recvChain \in Seq(RecvLink) /\ recvChain # <<>> /\ n \in Nat /\ delivered \in Seq(Nat)
  BY <1>2 DEF DownInv, DownTypes
<1>5. ws \notin Early /\ ws \in Early \union Ended \union {"open"}
  BY <1>4 DEF StageInv
<1>6. f.msg = n + 1 /\ f.ok = (n + 1 \notin tampered)
  BY <1>2 DEF DownInv, Genuine
<1>7. CASE ~f.ok
  <2>1. /\ integrityFailed' /\ integrityFailed' \in BOOLEAN
        /\ ws' = (IF ws = "open" THEN "closing" ELSE ws)
        /\ recvChain' = Socket!RemoveAt(recvChain, 1) /\ UNCHANGED <<recvSeq, delivered>>
    BY <1>1, <1>2, <1>7 DEF Socket!Fail
  <2>2. ws' \in Ended
    BY <1>5, <2>1 DEF Early, Ended
  <2>3. tampered # {}
    BY <1>6, <1>7
  <2>4. DownInv'
    BY <1>2, <1>3, <2>1, <2>2, <2>3, DownPassed
  <2>5. QED
    BY <1>3, <2>2, <2>4 DEF StageInv, Early, Ended
<1>8. CASE f.ok
  <2>1. /\ delivered' = Append(delivered, n + 1) /\ recvChain' = Socket!RemoveAt(recvChain, 1)
        /\ UNCHANGED <<recvSeq, integrityFailed, ws>>
    BY <1>1, <1>2, <1>6, <1>8
  <2>2. /\ delivered' \in Seq(Nat) /\ Len(delivered') = n + 1
        /\ \A j \in 1 .. Len(delivered') : delivered'[j] = j
    <3>1. \A j \in 1 .. n : delivered[j] = j
      BY DEF DownInv
    <3>2. /\ delivered' \in Seq(Nat) /\ Len(delivered') = n + 1 /\ delivered'[n + 1] = n + 1
          /\ \A j \in 1 .. n : delivered'[j] = delivered[j]
      BY <1>4, <2>1
    <3>3. QED
      BY <1>4, <3>1, <3>2
  <2>3. DownTypes'
    BY <1>2, <1>3, <2>1, <2>2, FirstLeaves DEF DownInv, DownTypes
  <2>4. \A m \in tampered : Len(delivered') < m /\ m <= produced
    <3>1. \A m \in tampered : n < m /\ m <= produced /\ m \in Nat /\ m # n + 1
      BY <1>6, <1>8 DEF DownInv, DownTypes
    <3>2. QED
      BY <1>4, <2>2, <3>1
  <2>5. recvSeq' = Num(Len(delivered') + 0)
    BY <1>1, <1>2, <1>4, <2>1, <2>2 DEF DownInv
  <2>6. \A j \in 1 .. Len(recvChain') :
          /\ Genuine(recvChain'[j].frame, tampered)
          /\ recvChain'[j].frame.msg = Len(delivered') + j
    <3>1. SUFFICES ASSUME NEW j \in 1 .. Len(recvChain')
                   PROVE  /\ Genuine(recvChain'[j].frame, tampered)
                          /\ recvChain'[j].frame.msg = Len(delivered') + j
      OBVIOUS
    <3>2. recvChain'[j] = recvChain[j + 1] /\ j + 1 \in 1 .. Len(recvChain)
      BY <1>2, <2>1, FirstLeaves
    <3>3. Genuine(recvChain[j + 1].frame, tampered) /\ recvChain[j + 1].frame.msg = n + (j + 1)
      BY <1>2, <3>2 DEF DownInv
    <3>4. QED
      BY <1>4, <2>2, <3>2, <3>3
  <2>7. Len(delivered') + Len(recvChain') = n + Len(recvChain) /\ Len(recvChain') \in Nat
    <3>1. Len(recvChain') = Len(recvChain) - 1 /\ recvChain' \in Seq(RecvLink)
      BY <1>2, <2>1, FirstLeaves
    <3>2. Len(recvChain) \in Nat /\ Len(recvChain') \in Nat
      BY <1>4, <3>1
    <3>3. QED
      BY <1>4, <2>2, <3>1, <3>2
  <2>8. DownInv'
    <3>1. n + Len(recvChain) <= produced
      BY <1>2 DEF DownInv
    <3>2. ws \notin Ended =>
              /\ produced = n + Len(recvChain) + Len(wireDown)
              /\ \A j \in 1 .. Len(wireDown) :
                   Genuine(wireDown[j], tampered) /\ wireDown[j].msg = n + Len(recvChain) + j
      BY <1>2 DEF DownInv
    <3>3. \A j \in 1 .. Len(recvChain') : recvChain'[j].st = "waiting"
      BY <1>2, <2>1, FirstLeaves
    <3>4. ~(recvChain' # <<>> /\ recvChain'[1].st = "decrypting")
      BY <1>2, <2>1, FirstLeaves
    <3>5. srvSendSeq' = Num(produced')
      BY <1>3 DEF DownInv
    <3>6. QED
      BY <1>2, <1>3, <2>1, <2>2, <2>3, <2>4, <2>5, <2>6, <2>7, <3>1, <3>2, <3>3, <3>4, <3>5 DEF DownInv
  <2>9. QED
    BY <1>3, <1>5, <2>1, <2>8 DEF StageInv
<1>9. QED
  BY <1>7, <1>8, <1>1, <1>2

-----------------------------------------------------------------------------
(* The socket: steps of the stream to the server. *)

upVars == <<sendQueue, sendChain, wireUp, taken, asked, encryptFailed, srvRejected, srvRecvSeq,
            sendSeq>>

\* A step that leaves the stream alone may only bring the WebSocket forward.
LEMMA UpStays ==
    ASSUME UpInv, UNCHANGED upVars,
           ws' \in Early => ws \in Early /\ readyState' # "open",
           ws' = "open" => ws = "open" /\ readyState' = "open" /\ key' = "ready"
    PROVE  UpInv'
<1>1. UpTypes' /\ Missing' = Missing
  BY DEF UpInv, UpTypes, upVars, Missing
<1>2. NotOpenInv'
  BY DEF UpInv, NotOpenInv, upVars
<1>3. OpenInv'
  BY <1>1 DEF UpInv, OpenInv, upVars
<1>4. WireUpInv'
  BY DEF UpInv, WireUpInv, upVars
<1>5. QED
  BY <1>1, <1>2, <1>3, <1>4 DEF UpInv

LEMMA UpForward ==
    ASSUME UpInv, StageInv, Socket!KeyImported \/ Socket!KeyFailed \/ Socket!Close PROVE UpInv'
<1>1. UNCHANGED upVars
  BY DEF Socket!KeyImported, Socket!KeyFailed, Socket!Close, Socket!serverVars, upVars
<1>2. ws' \in Early => ws \in Early /\ readyState' # "open"
  BY DEF Socket!KeyImported, Socket!KeyFailed, Socket!Close, StageInv, Early, UpInv, NotOpenInv
<1>3. ws' # "open"
  BY DEF Socket!KeyImported, Socket!KeyFailed, Socket!Close, StageInv
<1>4. QED
  BY <1>1, <1>2, <1>3, UpStays

LEMMA UpWsClosed == ASSUME UpInv, Socket!WsClosed PROVE UpInv'
<1>1. /\ ws' = "closed" /\ wireUp' = <<>>
      /\ UNCHANGED <<sendQueue, sendChain, taken, asked, encryptFailed, srvRejected, srvRecvSeq, sendSeq>>
  BY DEF Socket!WsClosed, Socket!serverVars
<1>2. UpTypes' /\ Len(wireUp') = 0
  BY <1>1 DEF UpInv, UpTypes
<1>3. NotOpenInv' /\ OpenInv'
  BY <1>1 DEF NotOpenInv, OpenInv, Early
<1>4. WireUpInv'
  BY <1>1, <1>2 DEF UpInv, WireUpInv
<1>5. QED
  BY <1>2, <1>3, <1>4 DEF UpInv

LEMMA UpSendQueued == ASSUME UpInv, StageInv, Socket!SendQueued PROVE UpInv'
<1>1. /\ asked' = asked + 1 /\ sendQueue' = Append(sendQueue, asked + 1)
      /\ readyState # "open" \/ key # "ready"
      /\ UNCHANGED <<sendChain, wireUp, taken, encryptFailed, srvRejected, srvRecvSeq, sendSeq,
                     ws, readyState, key>>
  BY DEF Socket!SendQueued, Socket!serverVars
<1>2. UpTypes'
  BY <1>1 DEF UpInv, UpTypes
<1>3. ws # "open"
  BY <1>1 DEF UpInv, OpenInv
<1>4. NotOpenInv'
  <2>1. CASE ws \in Early
    <3>1. Len(sendQueue) = asked /\ \A i \in 1 .. Len(sendQueue) : sendQueue[i] = i
      BY <2>1 DEF UpInv, NotOpenInv
    <3>2. sendQueue \in Seq(Nat) /\ asked \in Nat
      BY DEF UpInv, UpTypes
    <3>3. Len(sendQueue') = asked' /\ \A i \in 1 .. Len(sendQueue') : sendQueue'[i] = i
      BY <1>1, <3>1, <3>2
    <3>4. QED
      BY <1>1, <2>1, <3>3 DEF UpInv, NotOpenInv
  <2>2. CASE ws \notin Early
    BY <1>1, <2>2 DEF NotOpenInv
  <2>3. QED
    BY <2>1, <2>2
<1>5. OpenInv' /\ WireUpInv'
  BY <1>1, <1>3 DEF UpInv, OpenInv, WireUpInv
<1>6. QED
  BY <1>2, <1>4, <1>5 DEF UpInv

LEMMA UpOpened == ASSUME UpInv, StageInv, Socket!Opened PROVE UpInv'
<1> DEFINE q == Len(sendQueue)
<1>1. /\ ws = "connecting" /\ ws' = "open" /\ readyState' = "open" /\ sendQueue' = <<>>
      /\ sendChain' = sendChain \o Socket!EncryptAll(sendQueue)
      /\ sendSeq' = (sendSeq + q) % SeqSpace
      /\ UNCHANGED <<asked, wireUp, taken, encryptFailed, srvRejected, srvRecvSeq, key>>
  BY DEF Socket!Opened, Socket!serverVars
<1>2. /\ sendChain = <<>> /\ wireUp = <<>> /\ taken = <<>> /\ sendSeq = 0 /\ ~srvRejected
      /\ q = asked /\ \A i \in 1 .. q : sendQueue[i] = i
  BY <1>1 DEF UpInv, NotOpenInv, Early
<1>3. asked \in Nat /\ key = "ready" /\ sendQueue \in Seq(Nat)
  BY <1>1 DEF UpInv, UpTypes, StageInv
<1>4. sendSeq' = Num(asked) /\ sendSeq' \in Nat
  <2>1. sendSeq' = (0 + asked) % SeqSpace
    BY <1>1, <1>2
  <2>2. QED
    BY <1>3, <2>1, TransportAssumption, Divided DEF Num
<1>5. ASSUME NEW i \in 1 .. asked PROVE Socket!Encrypting((sendSeq + i - 1) % SeqSpace, sendQueue[i])
                                         = [seq |-> Num(i - 1), msg |-> i, st |-> "encrypting"]
  <2>1. sendSeq + i - 1 = i - 1 /\ sendQueue[i] = i
    BY <1>2, <1>3
  <2>2. QED
    BY <2>1 DEF Socket!Encrypting, Num
<1>6. sendChain' = [i \in 1 .. asked |-> [seq |-> Num(i - 1), msg |-> i, st |-> "encrypting"]]
  <2>1. Socket!EncryptAll(sendQueue)
          = [i \in 1 .. asked |-> [seq |-> Num(i - 1), msg |-> i, st |-> "encrypting"]]
    BY <1>2, <1>5 DEF Socket!EncryptAll
  <2>2. ASSUME NEW i \in 1 .. asked
        PROVE  [seq |-> Num(i - 1), msg |-> i, st |-> "encrypting"] \in Link
    BY <1>3, TransportAssumption, Divided DEF Link, Num
  <2>3. Socket!EncryptAll(sendQueue) \in Seq(Link)
    BY <1>3, <2>1, <2>2
  <2>4. QED
    BY <1>1, <1>2, <2>1, <2>3
<1>7. Len(sendChain') = asked /\ sendChain' \in Seq(Link)
  <2>1. ASSUME NEW i \in 1 .. asked
        PROVE  [seq |-> Num(i - 1), msg |-> i, st |-> "encrypting"] \in Link
    BY <1>3, TransportAssumption, Divided DEF Link, Num
  <2>2. QED
    BY <1>3, <1>6, <2>1
<1>8. \A i \in 1 .. asked : /\ sendChain'[i].seq = Num(i - 1) /\ sendChain'[i].msg = i
                            /\ sendChain'[i].st = "encrypting"
  BY <1>6
<1>9. UpTypes'
  BY <1>1, <1>4, <1>7 DEF UpInv, UpTypes
<1>10. Missing' = 0
  <2>1. Len(taken') = 0 /\ Len(wireUp') = 0 /\ asked' = asked
    BY <1>1, <1>2
  <2>2. QED
    BY <1>3, <1>7, <2>1 DEF Missing
<1>11. OpenInv'
  <2>1. \A i \in 1 .. Len(sendChain') :
          /\ sendChain'[i].msg = asked' - Len(sendChain') + i
          /\ sendChain'[i].seq = Num(sendChain'[i].msg - 1)
          /\ sendChain'[i].st # "failed"
    <3>1. Len(sendChain') = asked /\ asked' = asked
      BY <1>1, <1>7
    <3>2. ASSUME NEW i \in 1 .. asked PROVE sendChain'[i].msg = asked - asked + i
      <4>1. i \in Int /\ sendChain'[i].msg = i
        BY <1>3, <1>8
      <4>2. QED
        BY <1>3, <4>1
    <3>3. ASSUME NEW i \in 1 .. asked
          PROVE  sendChain'[i].seq = Num(sendChain'[i].msg - 1) /\ sendChain'[i].st # "failed"
      BY <1>8
    <3>4. QED
      BY <3>1, <3>2, <3>3
  <2>2. Len(sendChain') = asked' /\ Missing' = 0
    BY <1>1, <1>7, <1>10
  <2>3. readyState' = "open" /\ sendQueue' = <<>> /\ key' = "ready" /\ sendSeq' = Num(asked')
    BY <1>1, <1>3, <1>4
  <2>4. Len(sendChain') <= asked'
    BY <1>1, <1>3, <1>7
  <2>5. QED
    BY <2>1, <2>2, <2>3, <2>4 DEF OpenInv
<1>12. NotOpenInv' /\ WireUpInv'
  BY <1>1 DEF UpInv, NotOpenInv, WireUpInv, Early
<1>13. QED
  BY <1>9, <1>11, <1>12 DEF UpInv

LEMMA UpSendEncrypts == ASSUME UpInv, StageInv, Socket!SendEncrypts PROVE UpInv'
<1> DEFINE c == Len(sendChain)
           l == [seq |-> sendSeq, msg |-> asked + 1, st |-> "encrypting"]
<1>1. /\ readyState = "open" /\ asked' = asked + 1 /\ sendSeq' = (sendSeq + 1) % SeqSpace
      /\ sendChain' = Append(sendChain, l)
      /\ UNCHANGED <<sendQueue, wireUp, taken, encryptFailed, srvRejected, srvRecvSeq, ws,
                     readyState, key>>
  BY DEF Socket!SendEncrypts, Socket!serverVars, Socket!NextSeq, Socket!Encrypting
<1>2. ws \notin Early
  BY <1>1 DEF UpInv, NotOpenInv
<1>3. asked \in Nat /\ sendSeq \in Nat /\ sendChain \in Seq(Link) /\ c \in Nat /\ l \in Link
  BY DEF UpInv, UpTypes, Link
<1>4. sendSeq' \in Nat
  BY <1>1, <1>3, Divided, TransportAssumption
<1>5. /\ Len(sendChain') = c + 1 /\ sendChain' \in Seq(Link) /\ sendChain'[c + 1] = l
      /\ \A i \in 1 .. c : sendChain'[i] = sendChain[i]
  BY <1>1, <1>3
<1>6. UpTypes'
  BY <1>1, <1>3, <1>4, <1>5 DEF UpInv, UpTypes
<1>7. ASSUME ws = "open" PROVE OpenInv'
  <2>1. /\ sendQueue = <<>> /\ key = "ready" /\ sendSeq = Num(asked) /\ c <= asked
    BY <1>7 DEF UpInv, OpenInv
  <2>2. sendSeq' = Num(asked')
    BY <1>1, <1>3, <2>1, NumNext
  <2>3. \A i \in 1 .. c :
          /\ sendChain[i].msg = asked - c + i /\ sendChain[i].seq = Num(sendChain[i].msg - 1)
          /\ sendChain[i].st = "failed" => encryptFailed
    BY <1>7 DEF UpInv, OpenInv
  <2>4. /\ sendChain'[c + 1].msg = asked + 1 /\ sendChain'[c + 1].st = "encrypting"
        /\ sendChain'[c + 1].seq = Num(asked + 1 - 1)
    BY <1>3, <1>5, <2>1
  <2>5. ASSUME NEW i \in 1 .. (c + 1)
        PROVE  /\ sendChain'[i].msg = asked' - Len(sendChain') + i
               /\ sendChain'[i].seq = Num(sendChain'[i].msg - 1)
               /\ sendChain'[i].st = "failed" => encryptFailed'
    <3>1. asked' - Len(sendChain') = asked - c
      BY <1>1, <1>3, <1>5
    <3>2. CASE i \in 1 .. c
      BY <1>1, <1>5, <2>3, <3>1, <3>2
    <3>3. CASE i = c + 1
      <4>1. asked - c + (c + 1) = asked + 1
        BY <1>3
      <4>2. sendChain'[i].msg = asked + 1 /\ sendChain'[i].seq = Num(asked + 1 - 1)
            /\ sendChain'[i].st # "failed"
        BY <2>4, <3>3
      <4>3. sendChain'[i].msg = asked' - Len(sendChain') + i
        BY <3>1, <3>3, <4>1, <4>2
      <4>4. sendChain'[i].msg - 1 = asked /\ asked + 1 - 1 = asked
        BY <1>3, <4>2
      <4>5. sendChain'[i].seq = Num(sendChain'[i].msg - 1)
        BY <4>2, <4>4
      <4>6. QED
        BY <4>2, <4>3, <4>5
    <3>4. QED
      BY <1>3, <3>2, <3>3
  <2>6. ASSUME NEW i \in 1 .. (c + 1), NEW j \in 1 .. (c + 1),
               sendChain'[i].st = "failed", sendChain'[j].st = "failed"
        PROVE  i = j
    <3>1. i \in 1 .. c /\ j \in 1 .. c
      BY <1>3, <2>4, <2>6
    <3>2. QED
      BY <1>5, <1>7, <2>6, <3>1 DEF UpInv, OpenInv
  <2>7. Missing' = Missing
    <3>1. Len(taken) \in Nat /\ Len(wireUp) \in Nat
      BY DEF UpInv, UpTypes
    <3>2. QED
      BY <1>1, <1>3, <1>5, <3>1 DEF Missing
  <2>8. ~srvRejected => Missing \in {0, 1} /\ (Missing = 1 => encryptFailed)
    BY <1>7 DEF UpInv, OpenInv
  <2>9. ASSUME ~srvRejected, Missing = 1, NEW i \in 1 .. (c + 1) PROVE sendChain'[i].st # "failed"
    <3>1. CASE i \in 1 .. c
      BY <1>5, <1>7, <2>9, <3>1 DEF UpInv, OpenInv
    <3>2. CASE i = c + 1
      BY <2>4, <3>2
    <3>3. QED
      BY <1>3, <3>1, <3>2
  <2>10. Len(sendChain') <= asked'
    BY <1>1, <1>3, <1>5, <2>1
  <2>11. QED
    BY <1>1, <1>5, <1>7, <2>1, <2>2, <2>5, <2>6, <2>7, <2>8, <2>9, <2>10 DEF OpenInv
<1>8. OpenInv'
  BY <1>1, <1>7 DEF OpenInv
<1>9. NotOpenInv' /\ WireUpInv'
  BY <1>1, <1>2 DEF UpInv, NotOpenInv, WireUpInv
<1>10. QED
  BY <1>6, <1>8, <1>9 DEF UpInv

LEMMA UpEncryptSettles == ASSUME UpInv, Socket!EncryptSettles PROVE UpInv'
<1> DEFINE c == Len(sendChain)
<1>1. PICK k \in 1 .. c, st \in {"done", "failed"} :
        /\ sendChain[k].st = "encrypting"
        /\ st = "failed" => ~encryptFailed
        /\ sendChain' = [sendChain EXCEPT ![k].st = st]
        /\ encryptFailed' = (encryptFailed \/ st = "failed")
  <2>1. PICK k \in 1 .. c :
          /\ sendChain[k].st = "encrypting"
          /\ \E st \in {"done"} \union (IF MayFail /\ ~encryptFailed THEN {"failed"} ELSE {}) :
               /\ sendChain' = [sendChain EXCEPT ![k].st = st]
               /\ encryptFailed' = (encryptFailed \/ st = "failed")
    BY DEF Socket!EncryptSettles
  <2>2. PICK st \in {"done"} \union (IF MayFail /\ ~encryptFailed THEN {"failed"} ELSE {}) :
               /\ sendChain' = [sendChain EXCEPT ![k].st = st]
               /\ encryptFailed' = (encryptFailed \/ st = "failed")
    BY <2>1
  <2>3. st \in {"done", "failed"} /\ (st = "failed" => ~encryptFailed)
    BY <2>2
  <2>4. QED
    BY <2>1, <2>2, <2>3
<1>2. UNCHANGED <<sendQueue, wireUp, taken, asked, srvRejected, srvRecvSeq, sendSeq, ws, readyState, key>>
  BY DEF Socket!EncryptSettles, Socket!serverVars
<1>3. sendChain \in Seq(Link) /\ c \in Nat /\ encryptFailed \in BOOLEAN
  BY DEF UpInv, UpTypes
<1>4. PICK l \in Link : /\ sendChain' = [sendChain EXCEPT ![k] = l] /\ l.st = st
                        /\ l.seq = sendChain[k].seq /\ l.msg = sendChain[k].msg
  <2>1. sendChain[k] \in Link
    BY <1>3
  <2>2. /\ [sendChain[k] EXCEPT !.st = st] \in Link
        /\ [sendChain[k] EXCEPT !.st = st].st = st
        /\ [sendChain[k] EXCEPT !.st = st].seq = sendChain[k].seq
        /\ [sendChain[k] EXCEPT !.st = st].msg = sendChain[k].msg
    BY <2>1 DEF Link
  <2>3. sendChain' = [sendChain EXCEPT ![k] = [sendChain[k] EXCEPT !.st = st]]
    BY <1>1
  <2>4. QED
    BY <2>2, <2>3
<1>5. /\ sendChain' \in Seq(Link) /\ Len(sendChain') = c /\ sendChain'[k] = l
      /\ \A i \in 1 .. c : i # k => sendChain'[i] = sendChain[i]
  BY <1>3, <1>4
<1>6. /\ encryptFailed' \in BOOLEAN /\ (encryptFailed => encryptFailed')
      /\ (st = "failed" => encryptFailed')
  BY <1>1, <1>3
<1>7. UpTypes' /\ Missing' = Missing
  BY <1>2, <1>5, <1>6 DEF UpInv, UpTypes, Missing
<1>8. ws \notin Early
  <2>1. sendChain # <<>>
    BY <1>1, <1>3
  <2>2. QED
    BY <2>1 DEF UpInv, NotOpenInv
<1>9. ASSUME ws = "open" PROVE OpenInv'
  <2>1. /\ readyState = "open" /\ sendQueue = <<>> /\ key = "ready" /\ sendSeq = Num(asked) /\ c <= asked
        /\ ~srvRejected => Missing \in {0, 1} /\ (Missing = 1 => encryptFailed)
    BY <1>9 DEF UpInv, OpenInv
  <2>2. ASSUME NEW i \in 1 .. c
        PROVE  /\ sendChain[i].msg = asked - c + i /\ sendChain[i].seq = Num(sendChain[i].msg - 1)
               /\ sendChain[i].st = "failed" => encryptFailed
    BY <1>9 DEF UpInv, OpenInv
  <2>3. ASSUME NEW i \in 1 .. c
        PROVE  /\ sendChain'[i].msg = asked - c + i /\ sendChain'[i].seq = Num(sendChain'[i].msg - 1)
               /\ sendChain'[i].st = "failed" => encryptFailed'
    <3>1. CASE i = k
      BY <1>4, <1>5, <1>6, <2>2, <3>1
    <3>2. CASE i # k
      BY <1>5, <1>6, <2>2, <3>2
    <3>3. QED
      BY <3>1, <3>2
  <2>4. ASSUME NEW i \in 1 .. c, NEW j \in 1 .. c,
               sendChain'[i].st = "failed", sendChain'[j].st = "failed"
        PROVE  i = j
    <3>1. CASE st = "failed"
      <4>1. \A m \in 1 .. c : m # k => sendChain'[m].st # "failed"
        BY <1>1, <1>5, <2>2, <3>1
      <4>2. QED
        BY <2>4, <4>1
    <3>2. CASE st # "failed"
      <4>1. i # k /\ j # k
        BY <1>4, <1>5, <2>4, <3>2
      <4>2. QED
        BY <1>5, <1>9, <2>4, <4>1 DEF UpInv, OpenInv
    <3>3. QED
      BY <3>1, <3>2
  <2>5. ASSUME ~srvRejected, Missing = 1, NEW i \in 1 .. c PROVE sendChain'[i].st # "failed"
    <3>1. encryptFailed /\ sendChain[i].st # "failed"
      BY <1>9, <2>5 DEF UpInv, OpenInv
    <3>2. st # "failed"
      BY <1>1, <3>1
    <3>3. QED
      BY <1>4, <1>5, <3>1, <3>2
  <2>6. QED
    BY <1>2, <1>5, <1>6, <1>7, <2>1, <2>3, <2>4, <2>5 DEF OpenInv
<1>10. OpenInv'
  BY <1>2, <1>9 DEF OpenInv
<1>11. NotOpenInv'
  BY <1>2, <1>8 DEF NotOpenInv
<1>12. WireUpInv'
  <2>1. WireUpInv
    BY DEF UpInv
  <2>2. QED
    BY <1>2, <1>6, <2>1 DEF WireUpInv
<1>13. QED
  BY <1>7, <1>10, <1>11, <1>12 DEF UpInv

LEMMA UpHandOver == ASSUME UpInv, Socket!HandOver PROVE UpInv'
<1> DEFINE c == Len(sendChain)
           n == Len(taken)
           w == Len(wireUp)
           f == sendChain[1]
           g == [seq |-> f.seq, msg |-> f.msg, ok |-> TRUE]
<1>1. /\ 1 \in 1 .. c /\ f.st # "encrypting" /\ sendChain' = Socket!RemoveAt(sendChain, 1)
      /\ wireUp' = IF f.st = "done" /\ ws = "open" THEN Append(wireUp, g) ELSE wireUp
  BY DEF Socket!HandOver, Socket!SendReady, Socket!Frame
<1>2. UNCHANGED <<sendQueue, taken, asked, encryptFailed, srvRejected, srvRecvSeq, sendSeq, ws, readyState, key>>
  BY DEF Socket!HandOver, Socket!serverVars
<1>3. /\ sendChain \in Seq(Link) /\ c \in Nat /\ n \in Nat /\ w \in Nat /\ asked \in Nat
      /\ wireUp \in Seq(SentFrame)
  BY DEF UpInv, UpTypes
<1>4. sendChain' = Tail(sendChain)
  BY <1>1, <1>3 DEF Socket!RemoveAt
<1>5. /\ sendChain' \in Seq(Link) /\ Len(sendChain') = c - 1
      /\ \A i \in 1 .. Len(sendChain') : i + 1 \in 1 .. c /\ sendChain'[i] = sendChain[i + 1]
  <2>1. 1 \in 1 .. c
    BY <1>1
  <2>2. sendChain \in Seq(Link)
    BY <1>3
  <2>3. QED
    BY <1>4, <2>1, <2>2
<1>6. f \in Link
  BY <1>1, <1>3
<1>7. g \in SentFrame /\ f.st \in {"done", "failed"} /\ f.seq \in Nat /\ f.msg \in Nat
  BY <1>1, <1>6 DEF Link, SentFrame
<1>8. UpTypes'
  <2>1. wireUp' \in Seq(SentFrame)
    <3>1. Append(wireUp, g) \in Seq(SentFrame)
      BY <1>3, <1>7
    <3>2. QED
      BY <1>1, <1>3, <3>1
  <2>2. QED
    BY <1>2, <1>5, <2>1 DEF UpInv, UpTypes
<1>9. ws \notin Early
  <2>1. sendChain # <<>>
    BY <1>1, <1>3
  <2>2. QED
    BY <2>1 DEF UpInv, NotOpenInv
<1>10. NotOpenInv'
  BY <1>2, <1>9 DEF NotOpenInv
<1>11. CASE ws # "open"
  <2>1. wireUp' = wireUp
    BY <1>1, <1>11
  <2>2. WireUpInv'
    BY <1>2, <2>1 DEF UpInv, WireUpInv
  <2>3. OpenInv'
    BY <1>2, <1>11 DEF OpenInv
  <2>4. QED
    BY <1>8, <1>10, <2>2, <2>3 DEF UpInv
<1>12. CASE ws = "open"
  <2>1. /\ readyState = "open" /\ sendQueue = <<>> /\ key = "ready" /\ sendSeq = Num(asked) /\ c <= asked
        /\ ~srvRejected => Missing \in {0, 1} /\ (Missing = 1 => encryptFailed)
    BY <1>12 DEF UpInv, OpenInv
  <2>2. ASSUME NEW i \in 1 .. c
        PROVE  /\ sendChain[i].msg = asked - c + i /\ sendChain[i].seq = Num(sendChain[i].msg - 1)
               /\ sendChain[i].st = "failed" => encryptFailed
    BY <1>12 DEF UpInv, OpenInv
  <2>3. ASSUME NEW i \in 1 .. Len(sendChain')
        PROVE  /\ sendChain'[i].msg = asked' - Len(sendChain') + i
               /\ sendChain'[i].seq = Num(sendChain'[i].msg - 1)
               /\ sendChain'[i].st = "failed" => encryptFailed'
    <3>1. i + 1 \in 1 .. c /\ sendChain'[i] = sendChain[i + 1]
      BY <1>5
    <3>2. asked - c + (i + 1) = asked' - Len(sendChain') + i
      BY <1>2, <1>3, <1>5
    <3>3. QED
      BY <1>2, <2>2, <3>1, <3>2
  <2>4. ASSUME NEW i \in 1 .. Len(sendChain'), NEW j \in 1 .. Len(sendChain'),
               sendChain'[i].st = "failed", sendChain'[j].st = "failed"
        PROVE  i = j
    <3>1. /\ i + 1 \in 1 .. c /\ sendChain'[i] = sendChain[i + 1]
          /\ j + 1 \in 1 .. c /\ sendChain'[j] = sendChain[j + 1]
      BY <1>5
    <3>2. i + 1 = j + 1
      BY <1>12, <2>4, <3>1 DEF UpInv, OpenInv
    <3>3. QED
      BY <3>2
  <2>5. Len(sendChain') <= asked'
    BY <1>2, <1>3, <1>5, <2>1
  <2>6. f.msg = asked - c + 1 /\ f.seq = Num(f.msg - 1) /\ (f.st = "failed" => encryptFailed)
    BY <1>1, <2>2
  <2>7. CASE f.st = "done"
    <3>1. wireUp' = Append(wireUp, g)
      BY <1>1, <1>12, <2>7
    <3>2. Len(wireUp') = w + 1 /\ wireUp'[w + 1] = g /\ \A i \in 1 .. w : wireUp'[i] = wireUp[i]
      BY <1>3, <1>7, <3>1
    <3>3. Missing' = Missing
      BY <1>2, <1>3, <1>5, <3>2 DEF Missing
    <3>4. ASSUME ~srvRejected, Missing = 1, NEW i \in 1 .. Len(sendChain')
          PROVE  sendChain'[i].st # "failed"
      BY <1>5, <1>12, <3>4 DEF UpInv, OpenInv
    <3>5. OpenInv'
      BY <1>2, <2>1, <2>3, <2>4, <2>5, <3>3, <3>4 DEF OpenInv
    <3>6. ASSUME ~srvRejected, NEW i \in 1 .. (w + 1)
          PROVE  /\ wireUp'[i].msg \in {n + i, n + i + 1}
                 /\ wireUp'[i].msg # n + i => encryptFailed
                 /\ wireUp'[i].seq = Num(wireUp'[i].msg - 1)
      <4>1. CASE i \in 1 .. w
        BY <3>2, <3>6, <4>1 DEF UpInv, WireUpInv
      <4>2. CASE i = w + 1
        <5>1. Missing = asked - n - w - c /\ Missing \in {0, 1} /\ (Missing = 1 => encryptFailed)
          BY <2>1, <3>6 DEF Missing
        <5>2. f.msg = n + (w + 1) + Missing
          BY <1>3, <2>6, <5>1
        <5>3. wireUp'[i].msg = f.msg /\ wireUp'[i].seq = f.seq
          BY <3>2, <4>2
        <5>4. f.msg \in {n + i, n + i + 1} /\ (f.msg # n + i => encryptFailed)
          BY <1>3, <4>2, <5>1, <5>2
        <5>5. QED
          BY <2>6, <5>3, <5>4
      <4>3. QED
        BY <1>3, <4>1, <4>2
    <3>7. WireUpInv'
      BY <1>2, <3>2, <3>6 DEF UpInv, WireUpInv
    <3>8. QED
      BY <1>8, <1>10, <3>5, <3>7 DEF UpInv
  <2>8. CASE f.st = "failed"
    <3>1. wireUp' = wireUp
      BY <1>1, <2>8
    <3>2. ~srvRejected => Missing = 0
      BY <1>1, <1>12, <2>8 DEF UpInv, OpenInv
    <3>3. ~srvRejected => Missing' = 1
      BY <1>2, <1>3, <1>5, <3>1, <3>2 DEF Missing
    <3>4. ASSUME NEW i \in 1 .. Len(sendChain') PROVE sendChain'[i].st # "failed"
      <4>1. i + 1 \in 1 .. c /\ sendChain'[i] = sendChain[i + 1] /\ i + 1 # 1
        BY <1>5
      <4>2. QED
        BY <1>1, <1>12, <2>8, <4>1 DEF UpInv, OpenInv
    <3>5. encryptFailed
      BY <2>6, <2>8
    <3>6. OpenInv'
      BY <1>2, <2>1, <2>3, <2>4, <2>5, <3>3, <3>4, <3>5 DEF OpenInv
    <3>7. WireUpInv'
      BY <1>2, <3>1 DEF UpInv, WireUpInv
    <3>8. QED
      BY <1>8, <1>10, <3>6, <3>7 DEF UpInv
  <2>9. QED
    BY <1>7, <2>7, <2>8
<1>13. QED
  BY <1>11, <1>12

LEMMA UpServerTakes == ASSUME UpInv, Socket!ServerTakes PROVE UpInv'
<1> DEFINE n == Len(taken)
           w == Len(wireUp)
           f == wireUp[1]
<1>1. /\ wireUp # <<>> /\ ~srvRejected /\ wireUp' = Tail(wireUp)
      /\ UNCHANGED <<sendQueue, sendChain, asked, encryptFailed, sendSeq, ws, readyState, key>>
  BY DEF Socket!ServerTakes, Socket!clientVars
<1>2. /\ wireUp \in Seq(SentFrame) /\ w \in Nat /\ taken \in Seq(Nat) /\ n \in Nat /\ asked \in Nat
      /\ Len(sendChain) \in Nat
  BY DEF UpInv, UpTypes
<1>3. 1 \in 1 .. w /\ Head(wireUp) = f
  BY <1>1, <1>2
<1>4. /\ wireUp' \in Seq(SentFrame) /\ Len(wireUp') = w - 1
      /\ \A i \in 1 .. Len(wireUp') : i + 1 \in 1 .. w /\ wireUp'[i] = wireUp[i + 1]
  BY <1>1, <1>2, <1>3
<1>5. f.msg \in {n + 1, n + 1 + 1} /\ (f.msg # n + 1 => encryptFailed) /\ f.seq = Num(f.msg - 1)
  BY <1>1, <1>3 DEF UpInv, WireUpInv
<1>6. srvRecvSeq = Num(n) /\ \A i \in 1 .. n : taken[i] = i
  BY DEF UpInv, WireUpInv
<1>7. ws \notin Early
  BY <1>1 DEF UpInv, NotOpenInv
<1>8. NotOpenInv'
  BY <1>1, <1>7 DEF NotOpenInv
<1>9. CASE f.seq = srvRecvSeq
  <2>1. /\ taken' = Append(taken, f.msg) /\ srvRecvSeq' = (srvRecvSeq + 1) % SeqSpace
        /\ UNCHANGED srvRejected
    BY <1>3, <1>9 DEF Socket!ServerTakes
  <2>2. f.msg = n + 1
    <3>1. SUFFICES ASSUME f.msg = n + 1 + 1 PROVE FALSE
      BY <1>5
    <3>2. Num(n + 1) = Num(n)
      <4>1. f.msg - 1 = n + 1
        BY <1>2, <3>1
      <4>2. QED
        BY <1>5, <1>6, <1>9, <4>1
    <3>3. QED
      BY <1>2, <3>2, NumDiffers
  <2>3. /\ taken' \in Seq(Nat) /\ Len(taken') = n + 1
        /\ \A i \in 1 .. Len(taken') : taken'[i] = i
    <3>1. /\ taken' \in Seq(Nat) /\ Len(taken') = n + 1 /\ taken'[n + 1] = n + 1
          /\ \A i \in 1 .. n : taken'[i] = taken[i]
      BY <1>2, <2>1, <2>2
    <3>2. ASSUME NEW i \in 1 .. Len(taken') PROVE taken'[i] = i
      <4>1. i \in 1 .. n \/ i = n + 1
        BY <1>2, <3>1
      <4>2. CASE i \in 1 .. n
        BY <1>6, <3>1, <4>2
      <4>3. CASE i = n + 1
        BY <3>1, <4>3
      <4>4. QED
        BY <4>1, <4>2, <4>3
    <3>3. QED
      BY <3>1, <3>2
  <2>4. srvRecvSeq' = Num(Len(taken'))
    BY <1>2, <1>6, <2>1, <2>3, NumNext
  <2>5. UpTypes'
    BY <1>1, <1>4, <2>1, <2>3 DEF UpInv, UpTypes
  <2>6. Missing' = Missing
    BY <1>1, <1>2, <1>4, <2>3 DEF Missing
  <2>7. OpenInv'
    <3>1. OpenInv
      BY DEF UpInv
    <3>2. QED
      BY <1>1, <2>1, <2>6, <3>1 DEF OpenInv
  <2>8. ASSUME NEW i \in 1 .. Len(wireUp')
        PROVE  /\ wireUp'[i].msg \in {Len(taken') + i, Len(taken') + i + 1}
               /\ wireUp'[i].msg # Len(taken') + i => encryptFailed
               /\ wireUp'[i].seq = Num(wireUp'[i].msg - 1)
    <3>1. i + 1 \in 1 .. w /\ wireUp'[i] = wireUp[i + 1]
      BY <1>4
    <3>2. /\ wireUp[i + 1].msg \in {n + (i + 1), n + (i + 1) + 1}
          /\ wireUp[i + 1].msg # n + (i + 1) => encryptFailed
          /\ wireUp[i + 1].seq = Num(wireUp[i + 1].msg - 1)
      BY <1>1, <3>1 DEF UpInv, WireUpInv
    <3>3. n + (i + 1) = Len(taken') + i /\ n + (i + 1) + 1 = Len(taken') + i + 1
      BY <1>2, <2>3
    <3>4. QED
      BY <3>1, <3>2, <3>3
  <2>9. WireUpInv'
    BY <1>1, <2>1, <2>3, <2>4, <2>8 DEF WireUpInv
  <2>10. QED
    BY <1>8, <2>5, <2>7, <2>9 DEF UpInv
<1>10. CASE f.seq # srvRecvSeq
  <2>1. srvRejected' = TRUE /\ UNCHANGED <<taken, srvRecvSeq>>
    BY <1>3, <1>10 DEF Socket!ServerTakes
  <2>2. encryptFailed
    <3>1. f.msg # n + 1
      <4>1. SUFFICES ASSUME f.msg = n + 1 PROVE FALSE
        OBVIOUS
      <4>2. f.msg - 1 = n
        BY <1>2, <4>1
      <4>3. QED
        BY <1>5, <1>6, <1>10, <4>2
    <3>2. QED
      BY <1>5, <3>1
  <2>3. UpTypes'
    BY <1>1, <1>4, <2>1 DEF UpInv, UpTypes
  <2>4. OpenInv'
    <3>1. OpenInv
      BY DEF UpInv
    <3>2. QED
      BY <1>1, <2>1, <3>1 DEF OpenInv
  <2>5. WireUpInv'
    BY <1>1, <1>6, <2>1, <2>2 DEF WireUpInv
  <2>6. QED
    BY <1>8, <2>3, <2>4, <2>5 DEF UpInv
<1>11. QED
  BY <1>9, <1>10

\* Every step of the socket keeps its invariant.
LEMMA SocketStep == ASSUME SocketInv, Socket!Next PROVE SocketInv'
<1> USE DEF SocketInv
<1>1. CASE Socket!KeyImported \/ Socket!KeyFailed \/ Socket!Close
  <2>1. UNCHANGED downVars /\ UNCHANGED recvChain
    BY <1>1 DEF Socket!KeyImported, Socket!KeyFailed, Socket!Close, Socket!serverVars, downVars
  <2>2. StageInv' /\ (ws \in Ended => ws' \in Ended)
    BY <1>1, <2>1, StageForward
  <2>3. QED
    BY <1>1, <2>1, <2>2, DownStays, UpForward
<1>2. CASE Socket!Opened
  <2>1. UNCHANGED downVars /\ UNCHANGED recvChain
    BY <1>2 DEF Socket!Opened, Socket!serverVars, downVars
  <2>2. StageInv' /\ (ws \in Ended => ws' \in Ended)
    BY <1>2, <2>1, StageForward
  <2>3. QED
    BY <1>2, <2>1, <2>2, DownStays, UpOpened
<1>3. CASE Socket!WsClosed
  <2>1. UNCHANGED recvChain
    BY <1>3 DEF Socket!WsClosed
  <2>2. QED
    BY <1>3, <2>1, StageForward, DownWsClosed, UpWsClosed
<1>4. CASE Socket!SendQueued \/ Socket!SendEncrypts \/ Socket!EncryptSettles \/ Socket!HandOver
           \/ Socket!ServerTakes
  <2>1. UNCHANGED downVars /\ UNCHANGED <<recvChain, key, ws>>
    BY <1>4 DEF Socket!SendQueued, Socket!SendEncrypts, Socket!EncryptSettles, Socket!HandOver,
                Socket!ServerTakes, Socket!serverVars, Socket!clientVars, downVars
  <2>2. StageInv' /\ (ws \in Ended => ws' \in Ended)
    BY <2>1, StageForward
  <2>3. DownInv'
    BY <2>1, <2>2, DownStays
  <2>4. UpInv'
    BY <1>4, UpSendQueued, UpSendEncrypts, UpEncryptSettles, UpHandOver, UpServerTakes
  <2>5. QED
    BY <2>2, <2>3, <2>4
<1>5. CASE Socket!ServerSends \/ Socket!Message
  <2>1. UNCHANGED upVars /\ UNCHANGED <<ws, readyState, key>>
    BY <1>5 DEF Socket!ServerSends, Socket!Message, Socket!clientVars, Socket!serverVars, upVars
  <2>2. UpInv'
    BY <2>1, UpStays DEF UpInv, OpenInv, NotOpenInv
  <2>3. QED
    BY <1>5, <2>2, DownServerSends, DownMessage
<1>6. CASE Socket!StartDecrypt \/ Socket!DecryptSettles
  <2>1. UNCHANGED upVars /\ UNCHANGED <<readyState, key>>
    BY <1>6 DEF Socket!StartDecrypt, Socket!DecryptSettles, Socket!serverVars, upVars
  <2>2. ws' = ws \/ ws' = "closing"
    BY <1>6 DEF Socket!StartDecrypt, Socket!DecryptSettles, Socket!Fail
  <2>3. UpInv'
    BY <2>1, <2>2, UpStays DEF UpInv, OpenInv, NotOpenInv, Early
  <2>4. QED
    BY <1>6, <2>3, DownStartDecrypt, DownDecryptSettles
<1>7. QED
  BY <1>1, <1>2, <1>3, <1>4, <1>5, <1>6 DEF Socket!Next

LEMMA SocketRests == ASSUME SocketInv, UNCHANGED socket PROVE SocketInv'
<1>1. UNCHANGED downVars /\ UNCHANGED upVars /\ UNCHANGED <<ws, key, readyState, recvChain>>
  BY DEF socket, downVars, upVars
<1>2. StageInv' /\ (ws \in Ended => ws' \in Ended)
  BY <1>1, StageForward DEF SocketInv
<1>3. UpInv'
  BY <1>1, UpStays DEF SocketInv, UpInv, OpenInv, NotOpenInv
<1>4. QED
  BY <1>1, <1>2, <1>3, DownStays DEF SocketInv

\* The invariant of SecureVncSocket and the two counters of VncCryptoSession.
THEOREM SocketCorrect == Spec => []SocketInv
<1>1. Init => SocketInv
  BY SocketStarts DEF Init
<1>2. SocketInv /\ [Next]_vars => SocketInv'
  BY SocketStep, SocketRests DEF Next, vars
<1>3. QED
  BY <1>1, <1>2, PTL DEF Spec

\* What noVNC is given is what the server sent, in order and without a hole, and ends
\* before the first frame that was changed: _recvChain and _recvSeq do their work for
\* every order in which the decrypts settle and for streams that wrap the numbers.
THEOREM StreamDeliveredInOrder == Spec => []DeliveredInOrder
<1>1. SocketInv => DeliveredInOrder
  BY DEF SocketInv, DownInv, DeliveredInOrder, Socket!DeliveredInOrder
<1>2. QED
  BY <1>1, SocketCorrect, PTL

\* _deliver gives up ('out-of-order' or a bad tag, 4099) only after a frame was changed.
THEOREM StreamHoldsIfHealthy == Spec => []HealthyStreamHolds
<1>1. SocketInv => HealthyStreamHolds
  BY DEF SocketInv, DownInv, HealthyStreamHolds, Socket!HealthyStreamHolds
<1>2. QED
  BY <1>1, SocketCorrect, PTL

\* What the server takes is what noVNC sent, in order and without a hole, the queue of
\* the time before 'open' included.
THEOREM StreamTakenInOrder == Spec => []TakenInOrder
<1>1. SocketInv => TakenInOrder
  BY DEF SocketInv, UpInv, WireUpInv, TakenInOrder, Socket!TakenInOrder
<1>2. QED
  BY <1>1, SocketCorrect, PTL

\* The server refuses a frame only when an encrypt of the browser failed.
THEOREM SendHoldsIfHealthy == Spec => []HealthySendHolds
<1>1. SocketInv => HealthySendHolds
  BY DEF SocketInv, UpInv, WireUpInv, HealthySendHolds, Socket!HealthySendHolds
<1>2. QED
  BY <1>1, SocketCorrect, PTL

-----------------------------------------------------------------------------
(* Polling: the invariant. *)

Chunk == [seq : Nat, msg : Nat]

Answers == [chunks : Seq(Chunk), closed : BOOLEAN]
Sessions == [closed : BOOLEAN, buf : Seq(Chunk), sendSeq : Nat, recvSeq : Nat]
Posts == [seq : Nat, st : Polling!PostStates]

PollTypes ==
    /\ chunks \in Seq(Nat) /\ written \in Seq(Nat) /\ guestSent \in Nat
    /\ answer \in Answers /\ sess \in Sessions /\ posts \subseteq Posts /\ postSeq \in Nat

\* The loop has one request under way, and an answer only between its coming and its end.
LoopInv ==
    /\ pollState = "connecting" => loop = "none"
    /\ recvPost # "none" => loop = "ask"
    /\ loop # "chunks" /\ recvPost # "answered" => answer.chunks = <<>>

\* Chunks carry their number; what was given to noVNC is counted by _recvSeq.
NumbersInv ==
    /\ pollSeq = Len(chunks) /\ \A i \in 1 .. Len(chunks) : chunks[i] = i
    /\ \A i \in 1 .. Len(answer.chunks) : answer.chunks[i].msg = answer.chunks[i].seq + 1
    /\ \A i \in 1 .. Len(sess.buf) : sess.buf[i].msg = sess.buf[i].seq + 1
    /\ sess.sendSeq = guestSent

\* The answer continues what was delivered and the buffer continues the answer.
FlowInv ==
    ~answerLost /\ loop # "ended" =>
        /\ Len(chunks) + Len(answer.chunks) + Len(sess.buf) = guestSent
        /\ \A i \in 1 .. Len(answer.chunks) : answer.chunks[i].msg = Len(chunks) + i
        /\ \A i \in 1 .. Len(sess.buf) : sess.buf[i].msg = Len(chunks) + Len(answer.chunks) + i

\* What the guest was given, what waits for the lock and what failed.
Given == {written[i] : i \in 1 .. Len(written)}

GuestInv ==
    /\ Given \union Polling!Waiting \union failed = 1 .. sess.recvSeq
    /\ Given \cap Polling!Waiting = {} /\ Given \cap failed = {}
    /\ Polling!Waiting \cap failed = {}
    /\ \A i, j \in 1 .. Len(written) : written[i] = written[j] => i = j

PollInv == PollTypes /\ LoopInv /\ NumbersInv /\ FlowInv /\ GuestInv

LEMMA PollStarts == ASSUME Polling!Init PROVE PollInv
<1>1. /\ chunks = <<>> /\ written = <<>> /\ failed = {} /\ guestSent = 0 /\ pollSeq = 0 /\ postSeq = 0
      /\ posts = {}
      /\ loop = "none" /\ recvPost = "none"
      /\ answer = [chunks |-> <<>>, closed |-> FALSE]
      /\ sess = [closed |-> FALSE, buf |-> <<>>, sendSeq |-> 0, recvSeq |-> 0]
  BY DEF Polling!Init, Polling!NoAnswer
<1>2. /\ answer.chunks = <<>> /\ sess.buf = <<>> /\ sess.sendSeq = 0 /\ sess.recvSeq = 0
      /\ answer \in Answers /\ sess \in Sessions
  BY <1>1 DEF Answers, Sessions
<1>3. PollTypes
  BY <1>1, <1>2 DEF PollTypes
<1>4. LoopInv
  BY <1>1, <1>2 DEF LoopInv
<1>5. Len(chunks) = 0 /\ Len(written) = 0 /\ Len(answer.chunks) = 0 /\ Len(sess.buf) = 0
  BY <1>1, <1>2
<1>6. NumbersInv /\ FlowInv
  BY <1>1, <1>2, <1>5 DEF NumbersInv, FlowInv
<1>8. GuestInv
  <2>1. Given = {} /\ Polling!Waiting = {} /\ 1 .. sess.recvSeq = {}
    BY <1>1, <1>2, <1>5 DEF Given, Polling!Waiting
  <2>2. QED
    BY <1>1, <1>5, <2>1 DEF GuestInv
<1>7. QED
  BY <1>3, <1>4, <1>6, <1>8 DEF PollInv

\* A step that moves no chunk and takes no payload.
LEMMA PollStays ==
    ASSUME PollInv, LoopInv', UNCHANGED <<chunks, written, failed, guestSent, pollSeq>>,
           answer' \in Answers, answer'.chunks = answer.chunks,
           sess' \in Sessions, sess'.buf = sess.buf, sess'.sendSeq = sess.sendSeq,
           sess'.recvSeq = sess.recvSeq,
           posts' \subseteq Posts, Polling!Waiting' = Polling!Waiting, postSeq' \in Nat,
           (answerLost => answerLost'), loop' # "ended" => loop # "ended"
    PROVE  PollInv'
<1>1. PollTypes'
  BY DEF PollInv, PollTypes
<1>2. NumbersInv'
  BY DEF PollInv, NumbersInv
<1>3. FlowInv'
  BY DEF PollInv, FlowInv
<1>4. GuestInv'
  BY DEF PollInv, GuestInv, Given
<1>5. QED
  BY <1>1, <1>2, <1>3, <1>4 DEF PollInv

\* What waits for the lock depends on the sends alone.
LEMMA WaitingStays == ASSUME posts' = posts PROVE Polling!Waiting' = Polling!Waiting
BY DEF Polling!Waiting

\* A send waits for the lock from its decrypt to its write.
LEMMA WaitingMoves ==
    ASSUME posts \subseteq Posts, NEW p \in posts, NEW st \in Polling!PostStates \union {"gone"},
           Polling!Moved(p, st)
    PROVE  /\ posts' \subseteq Posts /\ p.seq \in Nat
           /\ p.st # "passed" /\ st # "passed" => Polling!Waiting' = Polling!Waiting
           /\ p.st # "passed" /\ st = "passed" => Polling!Waiting' = Polling!Waiting \union {p.seq + 1}
           /\ p.st = "passed" /\ st # "passed" =>
                  Polling!Waiting' = Polling!Waiting \ {p.seq + 1} /\ p.seq + 1 \in Polling!Waiting
<1> DEFINE m == [p EXCEPT !.st = st]
           P == {q \in posts : q.st = "passed"}
           R == {q \in posts' : q.st = "passed"}
<1>1. p \in Posts /\ p.seq \in Nat
  BY DEF Posts
<1>2. posts' = (posts \ {p}) \union (IF st = "gone" THEN {} ELSE {m})
  BY DEF Polling!Moved
<1>3. m.seq = p.seq /\ m.st = st /\ (st # "gone" => m \in Posts)
  BY <1>1 DEF Posts
<1>4. posts' \subseteq Posts
  BY <1>2, <1>3
<1>5. Polling!Waiting = {q.seq + 1 : q \in P} /\ Polling!Waiting' = {q.seq + 1 : q \in R}
  BY DEF Polling!Waiting
<1> HIDE DEF m
<1>6. ASSUME p.st # "passed", st # "passed" PROVE R = P
  BY <1>2, <1>3, <1>6
<1>7. ASSUME p.st # "passed", st = "passed" PROVE R = P \union {m}
  BY <1>2, <1>3, <1>7
<1>8. ASSUME p.st = "passed", st # "passed" PROVE R = P \ {p} /\ p \in P
  BY <1>2, <1>3, <1>8
<1>9. ASSUME p.st = "passed", NEW q \in P \ {p} PROVE q.seq + 1 # p.seq + 1
  <2>1. q \in Posts /\ q.st = p.st /\ q # p
    BY <1>9
  <2>2. q.seq # p.seq
    BY <1>1, <2>1 DEF Posts
  <2>3. q.seq \in Nat
    BY <2>1 DEF Posts
  <2>4. QED
    BY <1>1, <2>2, <2>3
<1> HIDE DEF P, R
<1>10. ASSUME p.st # "passed", st = "passed"
       PROVE  Polling!Waiting' = Polling!Waiting \union {p.seq + 1}
  BY <1>3, <1>5, <1>7, <1>10
<1>11. ASSUME p.st = "passed", st # "passed"
       PROVE  Polling!Waiting' = Polling!Waiting \ {p.seq + 1} /\ p.seq + 1 \in Polling!Waiting
  BY <1>5, <1>8, <1>9, <1>11
<1>12. QED
  BY <1>1, <1>4, <1>5, <1>6, <1>10, <1>11

LEMMA GuestStays ==
    ASSUME GuestInv, UNCHANGED <<written, failed>>, Polling!Waiting' = Polling!Waiting,
           sess'.recvSeq = sess.recvSeq
    PROVE  GuestInv'
BY DEF GuestInv, Given

\* stop() and the end of the pump set _closed of the session and nothing else.
LEMMA SessionCloses ==
    ASSUME sess \in Sessions, sess' = sess \/ sess' = [sess EXCEPT !.closed = TRUE]
    PROVE  /\ sess' \in Sessions /\ sess'.buf = sess.buf /\ sess'.sendSeq = sess.sendSeq
           /\ sess'.recvSeq = sess.recvSeq
<1>1. CASE sess' = sess
  BY <1>1
<1>2. CASE sess' = [sess EXCEPT !.closed = TRUE]
  BY <1>2 DEF Sessions
<1>3. QED
  BY <1>1, <1>2

\* The buffer of a session is drained.
LEMMA SessionDrained ==
    ASSUME NEW s \in Sessions, NEW t, t = [s EXCEPT !.buf = <<>>]
    PROVE  /\ t \in Sessions /\ t.buf = <<>> /\ t.sendSeq = s.sendSeq /\ t.recvSeq = s.recvSeq
           /\ t.closed = s.closed
<1> DEFINE B == Seq(Chunk)
           e == <<>>
<1>1. s \in [closed : BOOLEAN, buf : B, sendSeq : Nat, recvSeq : Nat] /\ e \in B
      /\ t = [s EXCEPT !.buf = e]
  BY DEF Sessions
<1> HIDE DEF B, e
<1>2. /\ t \in [closed : BOOLEAN, buf : B, sendSeq : Nat, recvSeq : Nat] /\ t.buf = e
      /\ t.sendSeq = s.sendSeq /\ t.recvSeq = s.recvSeq /\ t.closed = s.closed
  BY <1>1
<1>3. QED
  BY <1>2 DEF Sessions, B, e

LEMMA PollOpens ==
    ASSUME PollInv, Polling!Open \/ Polling!OpenFails \/ Polling!Close \/ Polling!CloseLost
    PROVE  PollInv'
<1>1. UNCHANGED <<chunks, written, failed, guestSent, pollSeq, answer, sess, posts, postSeq,
                  answerLost, recvPost>>
  BY DEF Polling!Open, Polling!OpenFails, Polling!Close, Polling!CloseLost, Polling!server
<1>2. loop' = loop \/ (pollState = "connecting" /\ loop' = "ask" /\ pollState' = "open")
  BY DEF Polling!Open, Polling!OpenFails, Polling!Close, Polling!CloseLost
<1>3. pollState' = pollState \/ pollState' # "connecting"
  BY DEF Polling!Open, Polling!OpenFails, Polling!Close, Polling!CloseLost, Polling!CloseSocket
<1>4. LoopInv' /\ (loop' # "ended" => loop # "ended")
  BY <1>1, <1>2, <1>3 DEF PollInv, LoopInv
<1>5. QED
  BY <1>1, <1>4, PollStays, WaitingStays DEF PollInv, PollTypes

LEMMA PollCloses ==
    ASSUME PollInv, Polling!ServerDrops \/ Polling!Reap \/ Polling!PumpEnds \/ Polling!StopEnds
    PROVE  PollInv'
<1>1. UNCHANGED <<chunks, written, failed, guestSent, pollSeq, answer, posts, postSeq, answerLost,
                  recvPost, loop, pollState>>
  BY DEF Polling!ServerDrops, Polling!Reap, Polling!PumpEnds, Polling!StopEnds, Polling!client
<1>2. sess' = sess \/ sess' = [sess EXCEPT !.closed = TRUE]
  BY DEF Polling!ServerDrops, Polling!Reap, Polling!PumpEnds, Polling!StopEnds, Polling!Stop
<1>3. LoopInv'
  BY <1>1 DEF PollInv, LoopInv
<1>4. QED
  BY <1>1, <1>2, <1>3, PollStays, WaitingStays, SessionCloses DEF PollInv, PollTypes

LEMMA PollPump == ASSUME PollInv, Polling!Pump PROVE PollInv'
<1> DEFINE b == [seq |-> sess.sendSeq, msg |-> guestSent + 1]
<1>1. /\ guestSent' = guestSent + 1 /\ ~sess.closed
      /\ sess' = [sess EXCEPT !.buf = Append(@, b), !.sendSeq = @ + 1]
      /\ UNCHANGED <<chunks, written, failed, pollSeq, answer, posts, postSeq, answerLost, recvPost, loop, pollState>>
  BY DEF Polling!Pump, Polling!client
<1>2. /\ sess \in Sessions /\ sess.buf \in Seq(Chunk) /\ sess.sendSeq = guestSent /\ guestSent \in Nat
      /\ answer.chunks \in Seq(Chunk) /\ chunks \in Seq(Nat)
  BY DEF PollInv, PollTypes, NumbersInv, Sessions, Answers
<1>3. b \in Chunk /\ b.msg = b.seq + 1 /\ b.msg = guestSent + 1
  BY <1>2 DEF Chunk
<1>4. /\ sess'.buf = Append(sess.buf, b) /\ sess'.sendSeq = guestSent + 1
      /\ sess'.recvSeq = sess.recvSeq /\ sess'.closed = sess.closed
  BY <1>1, <1>2 DEF Sessions
<1>5. sess' \in Sessions
  <2>1. Append(sess.buf, b) \in Seq(Chunk)
    BY <1>2, <1>3
  <2> DEFINE B == Seq(Chunk)
             a == Append(sess.buf, b)
  <2>2. /\ sess \in [closed : BOOLEAN, buf : B, sendSeq : Nat, recvSeq : Nat] /\ a \in B
        /\ sess' = [sess EXCEPT !.buf = a, !.sendSeq = @ + 1]
    BY <1>1, <1>2, <2>1 DEF Sessions
  <2> DEFINE t == [sess EXCEPT !.buf = a]
             k == sess.sendSeq + 1
             R == [closed : BOOLEAN, buf : B, sendSeq : Nat, recvSeq : Nat]
  <2> HIDE DEF B, a
  <2>3. t \in R /\ k \in Nat /\ sess' = [t EXCEPT !.sendSeq = k]
    BY <2>2
  <2> HIDE DEF t, k
  <2>4. [t EXCEPT !.sendSeq = k] \in R
    BY <2>3
  <2>5. QED
    BY <2>3, <2>4 DEF Sessions, B
<1> HIDE DEF b
<1>6. /\ Len(sess'.buf) = Len(sess.buf) + 1 /\ sess'.buf[Len(sess.buf) + 1] = b
      /\ \A i \in 1 .. Len(sess.buf) : sess'.buf[i] = sess.buf[i]
  BY <1>2, <1>3, <1>4
<1>7. Len(sess.buf) \in Nat /\ Len(answer.chunks) \in Nat /\ Len(chunks) \in Nat /\ guestSent \in Nat
  BY <1>2
<1>8. PollTypes'
  BY <1>1, <1>2, <1>5 DEF PollInv, PollTypes
<1>9. LoopInv'
  BY <1>1 DEF PollInv, LoopInv
<1>10. NumbersInv'
  <2>1. ASSUME NEW i \in 1 .. (Len(sess.buf) + 1) PROVE sess'.buf[i].msg = sess'.buf[i].seq + 1
    <3>1. CASE i \in 1 .. Len(sess.buf)
      BY <1>6, <3>1 DEF PollInv, NumbersInv
    <3>2. CASE i = Len(sess.buf) + 1
      BY <1>3, <1>6, <3>2
    <3>3. QED
      BY <1>7, <3>1, <3>2
  <2>2. QED
    BY <1>1, <1>4, <1>6, <2>1 DEF PollInv, NumbersInv
<1>11. FlowInv'
  <2>1. SUFFICES ASSUME ~answerLost, loop # "ended"
                 PROVE  /\ Len(chunks) + Len(answer.chunks) + Len(sess'.buf) = guestSent'
                        /\ \A i \in 1 .. Len(answer.chunks) : answer.chunks[i].msg = Len(chunks) + i
                        /\ \A i \in 1 .. Len(sess'.buf) :
                              sess'.buf[i].msg = Len(chunks) + Len(answer.chunks) + i
    BY <1>1 DEF FlowInv
  <2>2. /\ Len(chunks) + Len(answer.chunks) + Len(sess.buf) = guestSent
        /\ \A i \in 1 .. Len(answer.chunks) : answer.chunks[i].msg = Len(chunks) + i
        /\ \A i \in 1 .. Len(sess.buf) : sess.buf[i].msg = Len(chunks) + Len(answer.chunks) + i
    BY <2>1 DEF PollInv, FlowInv
  <2>0. Len(chunks) + Len(answer.chunks) + (Len(sess.buf) + 1) = guestSent + 1
    <3> DEFINE x == Len(chunks)
               y == Len(answer.chunks)
               z == Len(sess.buf)
    <3>1. x \in Nat /\ y \in Nat /\ z \in Nat /\ guestSent \in Nat /\ x + y + z = guestSent
      BY <1>7, <2>2
    <3> HIDE DEF x, y, z
    <3>2. x + y + (z + 1) = guestSent + 1
      BY <3>1
    <3>3. QED
      BY <3>2 DEF x, y, z
  <2>3. ASSUME NEW i \in 1 .. Len(sess'.buf)
        PROVE  sess'.buf[i].msg = Len(chunks) + Len(answer.chunks) + i
    <3>1. CASE i \in 1 .. Len(sess.buf)
      BY <1>6, <2>2, <3>1
    <3>2. CASE i = Len(sess.buf) + 1
      <4>1. sess'.buf[i].msg = guestSent + 1
        BY <1>3, <1>6, <3>2
      <4>2. guestSent + 1 = Len(chunks) + Len(answer.chunks) + i
        BY <2>0, <3>2
      <4>3. QED
        BY <4>1, <4>2
    <3>3. QED
      BY <1>6, <1>7, <3>1, <3>2
  <2>4. Len(chunks) + Len(answer.chunks) + Len(sess'.buf) = guestSent'
    <3>1. guestSent' = guestSent + 1 /\ Len(sess'.buf) = Len(sess.buf) + 1
      BY <1>1, <1>6
    <3>2. QED
      BY <2>0, <3>1
  <2>5. QED
    BY <2>2, <2>3, <2>4
<1>12. GuestInv'
  BY <1>1, <1>4, GuestStays, WaitingStays DEF PollInv
<1>13. QED
  BY <1>8, <1>9, <1>10, <1>11, <1>12 DEF PollInv

LEMMA PollAnswers == ASSUME PollInv, Polling!ServerAnswers PROVE PollInv'
<1>1. /\ recvPost = "sent" /\ recvPost' = "answered"
      /\ answer' = [chunks |-> sess.buf, closed |-> sess.closed]
      /\ sess' = [sess EXCEPT !.buf = <<>>]
      /\ UNCHANGED <<chunks, written, failed, pollSeq, guestSent, posts, postSeq, answerLost, loop, pollState>>
  BY DEF Polling!ServerAnswers, Polling!Drained
<1>2. loop = "ask" /\ answer.chunks = <<>>
  BY <1>1 DEF PollInv, LoopInv
<1>3. sess \in Sessions /\ sess.buf \in Seq(Chunk) /\ chunks \in Seq(Nat) /\ sess.closed \in BOOLEAN
  BY DEF PollInv, PollTypes, Sessions
<1>4. /\ sess'.buf = <<>> /\ sess'.sendSeq = sess.sendSeq /\ sess'.recvSeq = sess.recvSeq
      /\ sess'.closed = sess.closed /\ sess' \in Sessions
  BY <1>1, <1>3, SessionDrained
<1>5. answer'.chunks = sess.buf /\ answer' \in Answers
  BY <1>1, <1>3 DEF Answers
<1>6. Len(answer.chunks) = 0 /\ Len(sess'.buf) = 0 /\ Len(chunks) \in Nat /\ Len(sess.buf) \in Nat
  BY <1>2, <1>3, <1>4
<1>7. PollTypes' /\ LoopInv'
  BY <1>1, <1>2, <1>4, <1>5 DEF PollInv, PollTypes, LoopInv
<1>8. NumbersInv'
  BY <1>1, <1>4, <1>5, <1>6 DEF PollInv, NumbersInv
<1>9. FlowInv'
  <2>1. ASSUME ~answerLost
        PROVE  /\ Len(chunks) + 0 + Len(sess.buf) = guestSent
               /\ \A i \in 1 .. Len(sess.buf) : sess.buf[i].msg = Len(chunks) + 0 + i
    BY <1>2, <1>6, <2>1 DEF PollInv, FlowInv
  <2>2. ASSUME ~answerLost
        PROVE  /\ Len(chunks) + Len(sess.buf) + 0 = guestSent
               /\ \A i \in 1 .. Len(sess.buf) : sess.buf[i].msg = Len(chunks) + i
    BY <1>6, <2>1, <2>2
  <2>3. QED
    BY <1>1, <1>5, <1>6, <2>2 DEF FlowInv
<1>10. GuestInv'
  BY <1>1, <1>4, GuestStays, WaitingStays DEF PollInv
<1>11. QED
  BY <1>7, <1>8, <1>9, <1>10 DEF PollInv

LEMMA NothingAnswered == Polling!NoAnswer \in Answers /\ Polling!NoAnswer.chunks = <<>>
BY DEF Polling!NoAnswer, Answers

LEMMA PollRecvFails == ASSUME PollInv, Polling!RecvFails PROVE PollInv'
<1>1. /\ recvPost' = "lost" /\ answer' = Polling!NoAnswer /\ recvPost \in {"sent", "answered"}
      /\ UNCHANGED <<chunks, written, failed, pollSeq, guestSent, posts, postSeq, sess, loop, pollState>>
  BY DEF Polling!RecvFails, Polling!server
<1>2. loop = "ask" /\ answer'.chunks = <<>> /\ answer' \in Answers
  BY <1>1, NothingAnswered DEF PollInv, LoopInv
<1>3. LoopInv'
  BY <1>1, <1>2 DEF PollInv, LoopInv
<1>4. CASE recvPost = "sent"
  <2>1. answerLost' = answerLost /\ answer.chunks = <<>>
    BY <1>2, <1>4 DEF PollInv, LoopInv, Polling!RecvFails
  <2>2. QED
    BY <1>1, <1>2, <1>3, <2>1, PollStays, WaitingStays DEF PollInv, PollTypes
<1>5. CASE recvPost = "answered"
  <2>1. answerLost'
    BY <1>5 DEF Polling!RecvFails
  <2>2. FlowInv'
    BY <2>1 DEF FlowInv
  <2>3. PollTypes' /\ GuestInv'
    BY <1>1, <1>2, GuestStays, WaitingStays DEF PollInv, PollTypes
  <2>4. NumbersInv'
    <3>1. Len(answer'.chunks) = 0
      BY <1>2
    <3>2. QED
      BY <1>1, <3>1 DEF PollInv, NumbersInv
  <2>5. QED
    BY <1>3, <2>2, <2>3, <2>4 DEF PollInv
<1>6. QED
  BY <1>1, <1>4, <1>5

LEMMA PollLoop ==
    ASSUME PollInv, Polling!RecvAsks \/ Polling!RecvRetries \/ Polling!RecvArrives
    PROVE  PollInv'
<1>1. UNCHANGED <<chunks, written, failed, pollSeq, guestSent, posts, postSeq, sess, answer, answerLost, pollState>>
  BY DEF Polling!RecvAsks, Polling!RecvRetries, Polling!RecvArrives, Polling!server
<1>2. loop = "ask"
  BY DEF PollInv, LoopInv, Polling!RecvAsks, Polling!RecvRetries, Polling!RecvArrives
<1>3. \/ recvPost = "none" /\ recvPost' = "sent" /\ loop' = "ask"
      \/ recvPost = "lost" /\ recvPost' = "none"
      \/ recvPost' = "none" /\ loop' = "chunks"
  BY <1>2 DEF Polling!RecvAsks, Polling!RecvRetries, Polling!RecvArrives
<1>4. LoopInv'
  BY <1>1, <1>2, <1>3 DEF PollInv, LoopInv
<1>5. QED
  BY <1>1, <1>2, <1>4, PollStays, WaitingStays DEF PollInv, PollTypes

LEMMA PollChunksDone == ASSUME PollInv, Polling!ChunksDone PROVE PollInv'
<1>1. /\ answer' = Polling!NoAnswer /\ loop \in {"chunks", "ask"} /\ loop' \in {"ended", "ask"}
      /\ UNCHANGED <<chunks, written, failed, pollSeq, guestSent, posts, postSeq, sess, answerLost, recvPost>>
  BY DEF Polling!ChunksDone, Polling!server
<1>2. answer.chunks = <<>> /\ recvPost = "none"
  BY DEF Polling!ChunksDone, PollInv, LoopInv
<1>3. pollState' = pollState \/ pollState' = "closed"
  BY DEF Polling!ChunksDone, Polling!RemoteClosed
<1>4. answer' \in Answers /\ answer'.chunks = answer.chunks
  BY <1>1, <1>2, NothingAnswered
<1>5. LoopInv'
  BY <1>1, <1>2, <1>3, <1>4 DEF PollInv, LoopInv
<1>6. QED
  BY <1>1, <1>4, <1>5, PollStays, WaitingStays DEF PollInv, PollTypes

LEMMA PollTakeChunk == ASSUME PollInv, Polling!TakeChunk PROVE PollInv'
<1> DEFINE a == answer.chunks
           n == Len(chunks)
           h == a[1]
<1>1. /\ loop = "chunks" /\ a # <<>> /\ recvPost = "none"
      /\ UNCHANGED <<written, failed, guestSent, posts, postSeq, sess, answerLost, recvPost>>
  BY DEF Polling!TakeChunk, Polling!server, PollInv, LoopInv
<1>2. answer \in Answers /\ a \in Seq(Chunk) /\ chunks \in Seq(Nat) /\ n \in Nat /\ pollSeq = n
  BY DEF PollInv, PollTypes, NumbersInv, Answers
<1>3. 1 \in 1 .. Len(a) /\ Head(a) = h /\ h \in Chunk
  BY <1>1, <1>2
<1>4. h.msg = h.seq + 1
  BY <1>3 DEF PollInv, NumbersInv
<1>5. CASE h.seq = pollSeq
  <2>1. /\ pollSeq' = pollSeq + 1 /\ chunks' = Append(chunks, h.msg)
        /\ answer' = [answer EXCEPT !.chunks = Tail(a)] /\ UNCHANGED <<loop, pollState>>
    BY <1>3, <1>5 DEF Polling!TakeChunk, Polling!Expected
  <2>2. h.msg = n + 1
    BY <1>2, <1>4, <1>5
  <2>3. /\ chunks' \in Seq(Nat) /\ Len(chunks') = n + 1 /\ chunks'[n + 1] = n + 1
        /\ \A i \in 1 .. n : chunks'[i] = chunks[i]
    BY <1>2, <2>1, <2>2
  <2>4. \A i \in 1 .. Len(chunks') : chunks'[i] = i
    <3>1. ASSUME NEW i \in 1 .. Len(chunks') PROVE chunks'[i] = i
      <4>1. i \in 1 .. n \/ i = n + 1
        BY <1>2, <2>3
      <4>2. CASE i \in 1 .. n
        BY <2>3, <4>2 DEF PollInv, NumbersInv
      <4>3. CASE i = n + 1
        BY <2>3, <4>3
      <4>4. QED
        BY <4>1, <4>2, <4>3
    <3>2. QED
      BY <3>1
  <2>5. Tail(a) \in Seq(Chunk) /\ Len(Tail(a)) = Len(a) - 1
        /\ \A i \in 1 .. Len(Tail(a)) : i + 1 \in 1 .. Len(a) /\ Tail(a)[i] = a[i + 1]
    BY <1>2, <1>3
  <2>6. answer'.chunks = Tail(a) /\ answer' \in Answers
    <3> DEFINE B == Seq(Chunk)
               t == Tail(a)
    <3>1. answer \in [chunks : B, closed : BOOLEAN] /\ t \in B /\ answer' = [answer EXCEPT !.chunks = t]
      BY <1>2, <2>1, <2>5 DEF Answers
    <3> HIDE DEF B, t
    <3>2. answer'.chunks = t /\ answer' \in [chunks : B, closed : BOOLEAN]
      BY <3>1
    <3>3. QED
      BY <3>2 DEF Answers, B, t
  <2>7. PollTypes'
    BY <1>1, <2>3, <2>6 DEF PollInv, PollTypes
  <2>8. LoopInv'
    BY <1>1, <2>1 DEF PollInv, LoopInv
  <2>9. NumbersInv'
    <3>1. ASSUME NEW i \in 1 .. Len(Tail(a)) PROVE Tail(a)[i].msg = Tail(a)[i].seq + 1
      BY <2>5 DEF PollInv, NumbersInv
    <3>2. pollSeq' = Len(chunks')
      BY <1>2, <2>1, <2>3
    <3>3. QED
      BY <1>1, <2>4, <2>6, <3>1, <3>2 DEF PollInv, NumbersInv
  <2>10. FlowInv'
    <3>1. SUFFICES ASSUME ~answerLost
                   PROVE  /\ Len(chunks') + Len(Tail(a)) + Len(sess.buf) = guestSent
                          /\ \A i \in 1 .. Len(Tail(a)) : Tail(a)[i].msg = Len(chunks') + i
                          /\ \A i \in 1 .. Len(sess.buf) :
                               sess.buf[i].msg = Len(chunks') + Len(Tail(a)) + i
      BY <1>1, <2>1, <2>6 DEF FlowInv
    <3>2. /\ n + Len(a) + Len(sess.buf) = guestSent
          /\ \A i \in 1 .. Len(a) : a[i].msg = n + i
          /\ \A i \in 1 .. Len(sess.buf) : sess.buf[i].msg = n + Len(a) + i
      BY <1>1, <3>1 DEF PollInv, FlowInv
    <3>3. Len(chunks') + Len(Tail(a)) = n + Len(a)
      <4> DEFINE x == Len(chunks')
                 y == Len(Tail(a))
                 z == Len(a)
      <4>1. z \in Nat /\ n \in Nat /\ x = n + 1 /\ y = z - 1
        BY <1>2, <2>3, <2>5
      <4> HIDE DEF x, y, z, n
      <4>2. x + y = n + z
        BY <4>1
      <4>3. QED
        BY <4>2 DEF x, y, z
    <3>4. ASSUME NEW i \in 1 .. Len(Tail(a)) PROVE Tail(a)[i].msg = Len(chunks') + i
      <4>1. Tail(a)[i].msg = n + (i + 1)
        BY <2>5, <3>2
      <4>2. n + (i + 1) = Len(chunks') + i
        BY <1>2, <2>3
      <4>3. QED
        BY <4>1, <4>2
    <3>5. QED
      BY <3>2, <3>3, <3>4
  <2>11. GuestInv'
    BY <1>1, GuestStays, WaitingStays DEF PollInv
  <2>12. QED
    BY <2>7, <2>8, <2>9, <2>10, <2>11 DEF PollInv
<1>6. CASE h.seq # pollSeq
  <2>1. loop' = "ended" /\ answer' = Polling!NoAnswer /\ UNCHANGED <<pollSeq, chunks>>
    BY <1>3, <1>6 DEF Polling!TakeChunk, Polling!Expected
  <2>2. pollState' = pollState \/ pollState' = "closed"
    BY <1>3, <1>6 DEF Polling!TakeChunk, Polling!Expected, Polling!CloseSocket
  <2>3. answer' \in Answers /\ answer'.chunks = <<>> /\ Len(answer'.chunks) = 0
    BY <2>1, NothingAnswered
  <2>4. PollTypes' /\ LoopInv' /\ FlowInv'
    BY <1>1, <2>1, <2>2, <2>3 DEF PollInv, PollTypes, LoopInv, FlowInv
  <2>5. NumbersInv' /\ GuestInv'
    BY <1>1, <2>1, <2>3, GuestStays, WaitingStays DEF PollInv, NumbersInv
  <2>6. QED
    BY <2>4, <2>5 DEF PollInv
<1>7. QED
  BY <1>5, <1>6

LEMMA PollSends ==
    ASSUME PollInv, Polling!Send \/ Polling!PostSend \/ Polling!SendLost
    PROVE  PollInv'
<1>1. UNCHANGED <<chunks, written, failed, pollSeq, guestSent, sess, answer, loop, recvPost, pollState,
                  answerLost>>
  BY DEF Polling!Send, Polling!PostSend, Polling!SendLost, Polling!clientButPosts, Polling!server
<1>2. posts \subseteq Posts /\ postSeq \in Nat
  BY DEF PollInv, PollTypes
<1>3. posts' \subseteq Posts /\ Polling!Waiting' = Polling!Waiting /\ postSeq' \in Nat
  <2>1. CASE Polling!Send
    <3> DEFINE e == [seq |-> postSeq, st |-> "encrypting"]
    <3>1. posts' = posts \union {e} /\ postSeq' \in Nat
      BY <1>2, <2>1 DEF Polling!Send
    <3>2. e \in Posts /\ e.st # "passed"
      BY <1>2 DEF Posts, Polling!PostStates
    <3> HIDE DEF e
    <3>3. {q \in posts' : q.st = "passed"} = {q \in posts : q.st = "passed"}
      BY <3>1, <3>2
    <3>4. QED
      BY <1>2, <3>1, <3>2, <3>3 DEF Polling!Waiting
  <2>2. CASE Polling!PostSend
    <3>1. PICK p \in posts : p.st = "encrypting" /\ Polling!Moved(p, "sent")
      BY <2>2 DEF Polling!PostSend
    <3>2. QED
      BY <1>2, <2>2, <3>1, WaitingMoves DEF Polling!PostSend, Polling!PostStates, Polling!clientButPosts
  <2>3. CASE Polling!SendLost
    <3>1. PICK p \in posts : p.st = "sent" /\ Polling!Moved(p, "gone")
      BY <2>3 DEF Polling!SendLost
    <3>2. QED
      BY <1>2, <2>3, <3>1, WaitingMoves DEF Polling!SendLost, Polling!clientButPosts
  <2>4. QED
    BY <2>1, <2>2, <2>3
<1>4. LoopInv'
  BY <1>1 DEF PollInv, LoopInv
<1>5. QED
  BY <1>1, <1>3, <1>4, PollStays DEF PollInv, PollTypes

\* Nobody waits, and nothing is written, by a send that has not come to its decrypt.
LEMMA PollServerLooks == ASSUME PollInv, Polling!ServerLooks PROVE PollInv'
<1>1. PICK p \in posts :
        p.st = "sent" /\ Polling!Moved(p, IF pool /\ ~sess.closed THEN "looked" ELSE "gone")
  BY DEF Polling!ServerLooks
<1>2. UNCHANGED <<chunks, written, failed, pollSeq, guestSent, sess, answer, loop, recvPost, pollState,
                  answerLost, postSeq>>
  BY DEF Polling!ServerLooks, Polling!clientButPosts, Polling!server
<1>3. posts' \subseteq Posts /\ Polling!Waiting' = Polling!Waiting
  <2>1. PICK st \in {"looked", "gone"} : Polling!Moved(p, st)
    BY <1>1
  <2>2. QED
    BY <1>1, <2>1, WaitingMoves DEF PollInv, PollTypes, Polling!PostStates
<1>4. LoopInv'
  BY <1>2 DEF PollInv, LoopInv
<1>5. QED
  BY <1>2, <1>3, <1>4, PollStays DEF PollInv, PollTypes

\* The number that is accepted is the one behind all accepted before.
LEMMA PollServerDecrypts == ASSUME PollInv, Polling!ServerDecrypts PROVE PollInv'
<1>1. PICK p \in posts :
        /\ p.st = "looked"
        /\ IF p.seq = sess.recvSeq
           THEN sess' = [sess EXCEPT !.recvSeq = p.seq + 1] /\ Polling!Moved(p, "passed")
           ELSE Polling!Moved(p, "gone") /\ UNCHANGED sess
  BY DEF Polling!ServerDecrypts, Polling!NextNumber
<1>2. UNCHANGED <<chunks, written, failed, pollSeq, guestSent, answer, loop, recvPost, pollState,
                  answerLost, postSeq>>
  BY DEF Polling!ServerDecrypts, Polling!clientButPosts
<1>3. /\ posts \subseteq Posts /\ postSeq \in Nat /\ sess \in Sessions /\ answer \in Answers
      /\ sess.recvSeq \in Nat
  BY DEF PollInv, PollTypes, Sessions
<1>4. LoopInv'
  BY <1>2 DEF PollInv, LoopInv
<1>5. CASE p.seq # sess.recvSeq
  <2>1. UNCHANGED sess /\ Polling!Moved(p, "gone")
    BY <1>1, <1>5
  <2>2. posts' \subseteq Posts /\ Polling!Waiting' = Polling!Waiting
    BY <1>1, <1>3, <2>1, WaitingMoves
  <2>3. QED
    BY <1>2, <1>3, <1>4, <2>1, <2>2, PollStays
<1>6. CASE p.seq = sess.recvSeq
  <2> DEFINE n == sess.recvSeq
             k == n + 1
  <2>1. sess' = [sess EXCEPT !.recvSeq = k] /\ Polling!Moved(p, "passed") /\ k \in Nat
    BY <1>1, <1>3, <1>6
  <2>2. posts' \subseteq Posts /\ Polling!Waiting' = Polling!Waiting \union {k}
    BY <1>1, <1>3, <1>6, <2>1, WaitingMoves DEF Polling!PostStates
  <2> HIDE DEF k
  <2>3. /\ sess' \in Sessions /\ sess'.buf = sess.buf /\ sess'.sendSeq = sess.sendSeq
        /\ sess'.recvSeq = k
    BY <1>3, <2>1 DEF Sessions
  <2>4. GuestInv'
    <3>1. 1 .. k = (1 .. n) \union {k} /\ k \notin 1 .. n
      BY <1>3 DEF k
    <3>2. Given' = Given /\ failed' = failed /\ written' = written
      BY <1>2 DEF Given
    <3>3. Given \union Polling!Waiting \union failed = 1 .. n
      BY DEF PollInv, GuestInv
    <3>4. k \notin Given /\ k \notin Polling!Waiting /\ k \notin failed
      BY <3>1, <3>3
    <3>5. Given \union (Polling!Waiting \union {k}) \union failed = 1 .. k
      BY <3>1, <3>3
    <3>6. /\ Given \cap (Polling!Waiting \union {k}) = {} /\ Given \cap failed = {}
          /\ (Polling!Waiting \union {k}) \cap failed = {}
      BY <3>4 DEF PollInv, GuestInv
    <3>7. QED
      BY <2>2, <2>3, <3>2, <3>5, <3>6 DEF PollInv, GuestInv
  <2>5. PollTypes' /\ NumbersInv' /\ FlowInv'
    BY <1>2, <2>2, <2>3 DEF PollInv, PollTypes, NumbersInv, FlowInv
  <2>6. QED
    BY <1>4, <2>4, <2>5 DEF PollInv
<1>7. QED
  BY <1>5, <1>6

\* One that waited is written: it waits no longer.
LEMMA PollServerWrites == ASSUME PollInv, Polling!ServerWrites PROVE PollInv'
<1> DEFINE n == Len(written)
<1>1. PICK p \in posts :
        p.st = "passed" /\ Polling!Moved(p, "gone") /\ written' = Append(written, p.seq + 1)
  BY DEF Polling!ServerWrites
<1>2. UNCHANGED <<chunks, failed, pollSeq, guestSent, sess, answer, loop, recvPost, pollState,
                  answerLost, postSeq>>
  BY DEF Polling!ServerWrites, Polling!clientButPosts
<1>3. posts \subseteq Posts /\ written \in Seq(Nat) /\ n \in Nat
  BY DEF PollInv, PollTypes
<1> DEFINE k == p.seq + 1
<1>4. /\ posts' \subseteq Posts /\ k \in Nat
      /\ Polling!Waiting' = Polling!Waiting \ {k} /\ k \in Polling!Waiting
  BY <1>1, <1>3, WaitingMoves
<1> HIDE DEF k
<1>5. /\ written' \in Seq(Nat) /\ Len(written') = n + 1 /\ written'[n + 1] = k
      /\ \A i \in 1 .. n : written'[i] = written[i]
  BY <1>1, <1>3, <1>4 DEF k
<1>6. 1 .. (n + 1) = (1 .. n) \union {n + 1}
  BY <1>3
<1>7. Given' = Given \union {k}
  BY <1>5, <1>6 DEF Given
<1>8. GuestInv'
  <2>1. /\ Given \union Polling!Waiting \union failed = 1 .. sess.recvSeq
        /\ Given \cap Polling!Waiting = {} /\ Given \cap failed = {}
        /\ Polling!Waiting \cap failed = {}
        /\ \A i, j \in 1 .. n : written[i] = written[j] => i = j
    BY DEF PollInv, GuestInv
  <2>2. k \notin Given /\ k \notin failed
    BY <1>4, <2>1
  <2>3. ASSUME NEW i \in 1 .. (n + 1), NEW j \in 1 .. (n + 1), written'[i] = written'[j] PROVE i = j
    <3>1. \A m \in 1 .. n : written'[m] \in Given
      BY <1>5 DEF Given
    <3>2. QED
      BY <1>5, <1>6, <2>1, <2>2, <2>3, <3>1
  <2>4. /\ (Given \union {k}) \union (Polling!Waiting \ {k}) \union failed = 1 .. sess.recvSeq
        /\ (Given \union {k}) \cap (Polling!Waiting \ {k}) = {} /\ (Given \union {k}) \cap failed = {}
        /\ (Polling!Waiting \ {k}) \cap failed = {}
    BY <1>4, <2>1, <2>2
  <2>5. QED
    BY <1>2, <1>4, <1>5, <1>7, <2>3, <2>4 DEF GuestInv
<1>9. PollTypes' /\ LoopInv' /\ NumbersInv' /\ FlowInv'
  BY <1>2, <1>4, <1>5 DEF PollInv, PollTypes, LoopInv, NumbersInv, FlowInv
<1>10. QED
  BY <1>8, <1>9 DEF PollInv

\* One that waited has failed: it waits no longer and is not written.
LEMMA PollWriteFails == ASSUME PollInv, Polling!WriteFails PROVE PollInv'
<1>1. PICK p \in posts :
        p.st = "passed" /\ Polling!Moved(p, "failed") /\ failed' = failed \union {p.seq + 1}
  BY DEF Polling!WriteFails
<1>2. UNCHANGED <<chunks, written, pollSeq, guestSent, sess, answer, loop, recvPost, pollState,
                  answerLost, postSeq>>
  BY DEF Polling!WriteFails, Polling!clientButPosts
<1> DEFINE k == p.seq + 1
<1>3. /\ posts' \subseteq Posts
      /\ Polling!Waiting' = Polling!Waiting \ {k} /\ k \in Polling!Waiting
  BY <1>1, WaitingMoves DEF PollInv, PollTypes, Polling!PostStates
<1> HIDE DEF k
<1>4. failed' = failed \union {k} /\ Given' = Given
  BY <1>1, <1>2 DEF Given, k
<1>5. GuestInv'
  BY <1>2, <1>3, <1>4 DEF PollInv, GuestInv
<1>6. PollTypes' /\ LoopInv' /\ NumbersInv' /\ FlowInv'
  BY <1>2, <1>3 DEF PollInv, PollTypes, LoopInv, NumbersInv, FlowInv
<1>7. QED
  BY <1>5, <1>6 DEF PollInv

\* stop() behind a failed write closes the session and touches no payload.
LEMMA PollFailureStops == ASSUME PollInv, Polling!FailureStops PROVE PollInv'
<1>1. PICK p \in posts : p.st = "failed" /\ Polling!Moved(p, "gone")
  BY DEF Polling!FailureStops
<1>2. /\ UNCHANGED <<chunks, written, failed, pollSeq, guestSent, answer, loop, recvPost, pollState,
                     answerLost, postSeq>>
      /\ sess' = sess \/ sess' = [sess EXCEPT !.closed = TRUE]
  BY DEF Polling!FailureStops, Polling!Stop, Polling!clientButPosts
<1>3. posts' \subseteq Posts /\ Polling!Waiting' = Polling!Waiting
  BY <1>1, WaitingMoves DEF PollInv, PollTypes
<1>4. LoopInv'
  BY <1>2 DEF PollInv, LoopInv
<1>5. QED
  BY <1>2, <1>3, <1>4, PollStays, SessionCloses DEF PollInv, PollTypes

LEMMA PollStep == ASSUME PollInv, Polling!Next PROVE PollInv'
BY PollOpens, PollCloses, PollPump, PollAnswers, PollRecvFails, PollLoop, PollChunksDone,
   PollTakeChunk, PollSends, PollServerLooks, PollServerDecrypts, PollServerWrites,
   PollWriteFails, PollFailureStops DEF Polling!Next

LEMMA PollRests == ASSUME PollInv, UNCHANGED polling PROVE PollInv'
<1>1. Polling!Waiting' = Polling!Waiting /\ GuestInv'
  BY WaitingStays, GuestStays DEF PollInv, polling
<1>2. QED
  BY <1>1 DEF PollInv, PollTypes, LoopInv, NumbersInv, FlowInv, polling

\* The invariant of PollingVncSocket and of VncPollSession.
THEOREM PollCorrect == Spec => []PollInv
<1>1. Init => PollInv
  BY PollStarts DEF Init
<1>2. PollInv /\ [Next]_vars => PollInv'
  BY PollStep, PollRests DEF Next, vars
<1>3. QED
  BY <1>1, <1>2, PTL DEF Spec

\* Over HTTP, noVNC gets what the guest sent, in order and without a hole, whatever _post
\* loses and the loop retries; and each payload the server has decrypted, none before it
\* left out, is written to the guest once, waits for _pve_io_lock or its write has raised.
THEOREM PollingKeepsBoth == Spec => []PollingKeepsStream
<1>1. PollInv => PollingKeepsStream
  BY DEF PollInv, NumbersInv, GuestInv, Given, PollingKeepsStream, Polling!PollDeliversInOrder,
         Polling!AcceptedAccounted
<1>2. QED
  BY <1>1, PollCorrect, PTL

\* A sequence of numbers that continues another.
LEMMA Continues ==
    ASSUME NEW u \in Seq(Nat), NEW t \in Seq(Nat),
           \A i \in 1 .. Len(u) : u[i] = i, \A i \in 1 .. Len(t) : t[i] = Len(u) + i
    PROVE  /\ u \o t \in Seq(Nat) /\ Len(u \o t) = Len(u) + Len(t)
           /\ \A i \in 1 .. Len(u) + Len(t) : (u \o t)[i] = i
<1> DEFINE m == Len(u)
           b == Len(t)
<1>0. m \in Nat /\ b \in Nat
  OBVIOUS
<1>1. /\ u \o t \in Seq(Nat) /\ Len(u \o t) = Len(u) + Len(t)
      /\ \A i \in 1 .. Len(u) + Len(t) : (u \o t)[i] = IF i <= Len(u) THEN u[i] ELSE t[i - Len(u)]
  BY ConcatProperties
<1>2. /\ \A i \in 1 .. m : u[i] = i
      /\ \A i \in 1 .. b : t[i] = m + i
      /\ \A i \in 1 .. (m + b) : (u \o t)[i] = IF i <= m THEN u[i] ELSE t[i - m]
  BY <1>1
<1> HIDE DEF m, b
<1>3. ASSUME NEW i \in 1 .. (m + b) PROVE (u \o t)[i] = i
  <2>1. (u \o t)[i] = IF i <= m THEN u[i] ELSE t[i - m]
    BY <1>2
  <2>2. CASE i <= m
    BY <1>0, <1>2, <2>1, <2>2
  <2>3. CASE ~(i <= m)
    <3>1. i - m \in 1 .. b /\ m + (i - m) = i
      BY <1>0, <2>3
    <3>2. t[i - m] = m + (i - m)
      BY <1>2, <3>1
    <3>3. QED
      BY <2>1, <2>3, <3>1, <3>2
  <2>4. QED
    BY <2>2, <2>3
<1>4. QED
  BY <1>1, <1>3 DEF m, b

\* Each chunk of the pump is in the buffer of the session, in the answer of recv or given
\* to noVNC, exactly once and in that order, until an answer is lost or the loop is over.
THEOREM NoChunkIsLost == Spec => []ChunksAccounted
<1>1. PollInv => ChunksAccounted
  <2>1. SUFFICES ASSUME PollInv, ~answerLost, loop # "ended"
                 PROVE  chunks \o [i \in 1 .. Len(answer.chunks) |-> answer.chunks[i].msg]
                               \o [i \in 1 .. Len(sess.buf) |-> sess.buf[i].msg]
                          = [i \in 1 .. guestSent |-> i]
    BY DEF ChunksAccounted, Polling!ChunksAccounted
  <2> DEFINE n == Len(chunks)
             a == Len(answer.chunks)
             b == Len(sess.buf)
             s == [i \in 1 .. Len(answer.chunks) |-> answer.chunks[i].msg]
             t == [i \in 1 .. Len(sess.buf) |-> sess.buf[i].msg]
  <2>2. /\ chunks \in Seq(Nat) /\ answer.chunks \in Seq(Chunk) /\ sess.buf \in Seq(Chunk)
        /\ n \in Nat /\ a \in Nat /\ b \in Nat
    BY <2>1 DEF PollInv, PollTypes, Answers, Sessions
  <2>3. /\ n + a + b = guestSent
        /\ \A i \in 1 .. a : s[i] = n + i
        /\ \A i \in 1 .. b : t[i] = n + a + i
    BY <2>1 DEF PollInv, FlowInv
  <2>4. \A i \in 1 .. n : chunks[i] = i
    BY <2>1 DEF PollInv, NumbersInv
  <2>5. s \in Seq(Nat) /\ t \in Seq(Nat) /\ Len(s) = a /\ Len(t) = b
    <3>1. ASSUME NEW i \in 1 .. a PROVE answer.chunks[i].msg \in Nat
      <4>1. answer.chunks[i] \in Chunk
        BY <2>2
      <4>2. QED
        BY <4>1 DEF Chunk
    <3>2. ASSUME NEW i \in 1 .. b PROVE sess.buf[i].msg \in Nat
      <4>1. sess.buf[i] \in Chunk
        BY <2>2
      <4>2. QED
        BY <4>1 DEF Chunk
    <3>3. QED
      BY <2>2, <3>1, <3>2
  <2> HIDE DEF s, t, n, a, b
  <2>6. Len(chunks) = n
    BY DEF n
  <2>7. /\ chunks \o s \in Seq(Nat) /\ Len(chunks \o s) = n + a
        /\ \A i \in 1 .. (n + a) : (chunks \o s)[i] = i
    <3>1. chunks \in Seq(Nat) /\ s \in Seq(Nat) /\ Len(chunks) = n /\ Len(s) = a
      BY <2>2, <2>5, <2>6
    <3>2. (\A i \in 1 .. Len(chunks) : chunks[i] = i) /\ (\A i \in 1 .. Len(s) : s[i] = Len(chunks) + i)
      BY <2>3, <2>4, <3>1
    <3>3. /\ chunks \o s \in Seq(Nat) /\ Len(chunks \o s) = Len(chunks) + Len(s)
          /\ \A i \in 1 .. Len(chunks) + Len(s) : (chunks \o s)[i] = i
      BY <3>1, <3>2, Continues
    <3>4. QED
      BY <3>1, <3>3
  <2>8. /\ chunks \o s \o t \in Seq(Nat) /\ Len(chunks \o s \o t) = n + a + b
        /\ \A i \in 1 .. (n + a + b) : (chunks \o s \o t)[i] = i
    <3> DEFINE m == n + a
               u == chunks \o s
    <3>1. m \in Nat
      BY <2>2
    <3>2. u \in Seq(Nat) /\ Len(u) = m /\ \A i \in 1 .. m : u[i] = i
      BY <2>7
    <3>3. \A i \in 1 .. b : t[i] = m + i
      BY <2>3
    <3> HIDE DEF m, u
    <3>4. u \o t \in Seq(Nat) /\ Len(u \o t) = m + b /\ \A i \in 1 .. (m + b) : (u \o t)[i] = i
      <4>1. t \in Seq(Nat) /\ Len(t) = b
        BY <2>5
      <4>2. (\A i \in 1 .. Len(u) : u[i] = i) /\ (\A i \in 1 .. Len(t) : t[i] = Len(u) + i)
        BY <3>2, <3>3, <4>1
      <4>3. /\ u \o t \in Seq(Nat) /\ Len(u \o t) = Len(u) + Len(t)
            /\ \A i \in 1 .. Len(u) + Len(t) : (u \o t)[i] = i
        BY <3>2, <4>1, <4>2, Continues
      <4>4. QED
        BY <3>2, <4>1, <4>3
    <3>5. QED
      BY <3>4 DEF m, u
  <2>9. chunks \o s \o t = [i \in 1 .. guestSent |-> i]
    <3> DEFINE v == chunks \o s \o t
    <3>1. v \in Seq(Nat) /\ Len(v) = guestSent /\ \A i \in 1 .. guestSent : v[i] = i
      BY <2>3, <2>8
    <3> HIDE DEF v
    <3>2. v = [i \in 1 .. Len(v) |-> v[i]]
      BY <3>1
    <3>3. v = [i \in 1 .. guestSent |-> i]
      BY <3>1, <3>2
    <3>4. QED
      BY <3>3 DEF v
  <2>10. QED
    BY <2>9 DEF s, t
<1>2. QED
  BY <1>1, PollCorrect, PTL

-----------------------------------------------------------------------------
(* One close event. *)

\* A close event was given by a socket that is closed for good, or whose loop never began.
CloseInv ==
    /\ closeEvents \in {0, 1}
    /\ closeEvents = 1 => closed \/ (loop = "none" /\ pollState = "closed")
    /\ pollState = "connecting" => closeEvents = 0

LEMMA CloseStarts == ASSUME Polling!Init PROVE CloseInv
BY DEF Polling!Init, CloseInv

LEMMA CloseStep == ASSUME PollInv, CloseInv, Polling!Next PROVE CloseInv'
<1>1. CASE Polling!Open \/ Polling!OpenFails
  BY <1>1 DEF Polling!Open, Polling!OpenFails, PollInv, LoopInv, CloseInv
<1>2. CASE Polling!Close
  BY <1>2 DEF Polling!Close, Polling!CloseSocket, CloseInv
<1>3. CASE Polling!TakeChunk
  BY <1>3 DEF Polling!TakeChunk, Polling!CloseSocket, CloseInv
<1>4. CASE Polling!ChunksDone
  BY <1>4 DEF Polling!ChunksDone, Polling!RemoteClosed, CloseInv
<1>5. ASSUME UNCHANGED <<pollState, closed, closeEvents>>, loop' = loop \/ loop # "none"
      PROVE  CloseInv'
  BY <1>5 DEF CloseInv
<1>6. CASE \/ Polling!ServerDrops \/ Polling!CloseLost \/ Polling!Reap \/ Polling!Pump
           \/ Polling!PumpEnds \/ Polling!ServerAnswers \/ Polling!RecvFails
  BY <1>5, <1>6
  DEF Polling!ServerDrops, Polling!CloseLost, Polling!Reap, Polling!Pump, Polling!PumpEnds,
      Polling!ServerAnswers, Polling!RecvFails, Polling!client
<1>7. CASE Polling!RecvAsks \/ Polling!RecvRetries \/ Polling!RecvArrives
  BY <1>5, <1>7
  DEF Polling!RecvAsks, Polling!RecvRetries, Polling!RecvArrives, PollInv, LoopInv
<1>8. CASE \/ Polling!PostSend \/ Polling!ServerLooks \/ Polling!ServerDecrypts
           \/ Polling!ServerWrites \/ Polling!WriteFails \/ Polling!FailureStops \/ Polling!SendLost
  BY <1>5, <1>8
  DEF Polling!PostSend, Polling!ServerLooks, Polling!ServerDecrypts, Polling!ServerWrites,
      Polling!WriteFails, Polling!FailureStops, Polling!SendLost, Polling!clientButPosts
<1>10. CASE Polling!Send \/ Polling!StopEnds
  BY <1>5, <1>10 DEF Polling!Send, Polling!StopEnds, Polling!client
<1>9. QED
  BY <1>1, <1>2, <1>3, <1>4, <1>6, <1>7, <1>8, <1>10 DEF Polling!Next

\* noVNC gets one close event, whether it closed the socket itself, the open failed, the
\* stream failed in the middle of an answer or the server closed (close, _recvLoop).
THEOREM ClosesOnce == Spec => []Polling!OneCloseEvent
<1>1. Init => CloseInv
  BY CloseStarts DEF Init
<1>2. PollInv /\ CloseInv /\ [Next]_vars => CloseInv'
  <2>1. ASSUME CloseInv, UNCHANGED polling PROVE CloseInv'
    BY <2>1 DEF CloseInv, polling
  <2>2. QED
    BY <2>1, CloseStep DEF Next, vars
<1>3. CloseInv => Polling!OneCloseEvent
  BY DEF CloseInv, Polling!OneCloseEvent
<1>4. QED
  BY <1>1, <1>2, <1>3, PollCorrect, PTL DEF Spec
=============================================================================
