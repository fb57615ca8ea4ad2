--------------------------- MODULE HaLeaseProofs ---------------------------
(***************************************************************************)
(* Proofs about HaLease, for every group, every lease length, every        *)
(* margin, every clock within 10% of true time and every bound.            *)
(***************************************************************************)
EXTENDS HaLeaseInv, FiniteSetTheorems, TLAPS

USE DEF Epochs, RoundKinds, TickLength

-----------------------------------------------------------------------------
(* Constants and helpers. *)

(* Every duration is a natural number, and no shorter than what it covers. *)
LEMMA Durations ==
    /\ P \in Nat /\ PerRound \in Nat /\ PerRound > 0 /\ HoldAfterStart \in Nat /\ WTake \in Nat
    /\ P <= WonHold /\ WonHold \in Nat
    /\ 11 * PerRound <= 9 * P /\ P <= HoldAfterStart
  BY TimingAssumption DEF P, PerRound, HoldAfterStart, WTake

LEMMA CallsType ==
    ASSUME NEW n \in Data, NEW T \in Epochs, NEW round \in RoundKinds \cup {"none"},
           NEW held \in BOOLEAN, NEW rel \in Data \cup {None}
    PROVE  Calls(n, T, round, held, rel) \subseteq Renew
  <1>1. \A v \in Voters :
          [from |-> n, to |-> v, epoch |-> T, round |-> round, age |-> 0, hold |-> held,
           release |-> rel] \in Renew
    BY Durations DEF Renew
  <1>2. \A c \in Calls(n, T, round, held, rel) : \E v \in Voters :
          c = [from |-> n, to |-> v, epoch |-> T, round |-> round, age |-> 0, hold |-> held,
               release |-> rel]
    BY DEF Calls
  <1> QED
    BY <1>1, <1>2

LEMMA UnansweredType ==
    ASSUME NEW m \in Renew
    PROVE  /\ Unanswered(m) \in Renew
           /\ Unanswered(m).from = m.from /\ Unanswered(m).to = m.to
           /\ Unanswered(m).epoch = m.epoch /\ Unanswered(m).release = m.release
           /\ Unanswered(m).round = "none"
  <1> DEFINE o == [m EXCEPT !.round = "none"]
  <1>1. o \in Renew /\ o.from = m.from /\ o.to = m.to /\ o.epoch = m.epoch
        /\ o.release = m.release /\ o.round = "none"
    BY DEF Renew
  <1>2. Unanswered(m) = [o EXCEPT !.age = 0]
    BY DEF Unanswered
  <1> HIDE DEF o
  <1>3. 0 \in 0..PerRound
    BY Durations
  <1> QED
    BY <1>1, <1>2, <1>3 DEF Renew

LEMMA OrphanedType ==
    ASSUME NEW n, renews \subseteq Renew
    PROVE  Orphaned(n) \subseteq Renew
  <1>1. \A o \in Orphaned(n) : \E m \in renews : o = m \/ o = Unanswered(m)
    BY DEF Orphaned
  <1> QED
    BY <1>1, UnansweredType

(* What a process that ends leaves in memory. *)
MemoryOK ==
    /\ up \in [Voters -> BOOLEAN]
    /\ hold \in [Voters -> 0..HoldAfterStart]
    /\ lease \in [Voters -> 0..PerRound]
    /\ acting \in [Voters -> BOOLEAN]
    /\ wait \in [Voters -> 0..WTake]
    /\ booting \in [Voters -> BOOLEAN]
    /\ rounds \in [Voters -> SUBSET [kind : RoundKinds, age : 0..PerRound]]
    /\ promiseTo \in [Voters -> Data \cup {None}]
    /\ promise \in [Voters -> 0..WonHold]
    /\ allowTo \in [Voters -> Data \cup {None}]
    /\ allowEpoch \in [Voters -> Epochs]
    /\ allow \in [Voters -> 0..P]
    /\ renewed \in [Voters -> Data \cup {None}]
    /\ campEpoch \in [Voters -> Epochs]
    /\ campAge \in [Voters -> 0..WTake]
    /\ transferTo \in [Voters -> Data \cup {None}]
    /\ transferPhase \in [Voters -> {"none", "catchup", "release", "wait"}]
    /\ acks \subseteq Ack

LEMMA ForgetType ==
    ASSUME TypeOK, NEW n \in Voters, Forget(n)
    PROVE  MemoryOK'
  <1>1. 0 \in Epochs /\ 0 \in 0..HoldAfterStart /\ 0 \in 0..PerRound /\ 0 \in 0..WTake
        /\ 0 \in 0..WonHold /\ 0 \in 0..P
    BY Durations, BoundAssumption
  <1>2. (hold \in [Voters -> 0..HoldAfterStart])' /\ (lease \in [Voters -> 0..PerRound])'
        /\ (wait \in [Voters -> 0..WTake])' /\ (promise \in [Voters -> 0..WonHold])'
        /\ (allow \in [Voters -> 0..P])' /\ (campAge \in [Voters -> 0..WTake])'
        /\ (allowEpoch \in [Voters -> Epochs])' /\ (campEpoch \in [Voters -> Epochs])'
    BY <1>1 DEF TypeOK, Forget
  <1>3. (acks \subseteq Ack)'
    BY DEF TypeOK, Forget, NotTo
  <1> QED
    BY <1>2, <1>3 DEF TypeOK, Forget, MemoryOK

-----------------------------------------------------------------------------
(* Type correctness. *)

(* What LeaveBoot and EndCampaign, parts of several actions, leave typed. *)
LEMMA LeaveBootType ==
    ASSUME TypeOK, NEW n \in Voters, LeaveBoot(n)
    PROVE  /\ role' \in [Voters -> {"standby", "leader"}]
           /\ booting' \in [Voters -> BOOLEAN]
           /\ rounds' \in [Voters -> SUBSET [kind : RoundKinds, age : 0..PerRound]]
           /\ wait' \in [Voters -> 0..WTake]
  <1>1. 0 \in 0..WTake
    BY Durations
  <1> QED
    BY <1>1 DEF TypeOK, LeaveBoot

LEMMA EndCampaignType ==
    ASSUME TypeOK, NEW n \in Voters, EndCampaign(n)
    PROVE  campEpoch' \in [Voters -> Epochs] /\ campAge' \in [Voters -> 0..WTake]
  <1>1. 0 \in 0..WTake /\ 0 \in Epochs
    BY Durations, BoundAssumption
  <1> QED
    BY <1>1 DEF TypeOK, EndCampaign

LEMMA CallsMembers ==
    ASSUME NEW n, NEW T, NEW round, NEW held, NEW rel, NEW m \in Calls(n, T, round, held, rel)
    PROVE  /\ m.from = n /\ m.to \in Voters /\ m.to # n /\ m.epoch = T /\ m.round = round
           /\ m.age = 0 /\ m.hold = held /\ m.release = rel
  <1>1. PICK v \in Voters \ {n} :
          m = [from |-> n, to |-> v, epoch |-> T, round |-> round, age |-> 0, hold |-> held,
               release |-> rel]
    BY DEF Calls
  <1> QED
    BY <1>1

LEMMA CallsNamed ==
    ASSUME NEW n, NEW T, NEW round, NEW held, NEW rel, rel # None => T < MaxEpoch
    PROVE  \A m \in Calls(n, T, round, held, rel) : m.release # None => m.epoch < MaxEpoch
  BY CallsMembers

LEMMA OrphanedMembers ==
    ASSUME NEW n, renews \subseteq Renew, NEW o \in Orphaned(n)
    PROVE  \E m \in renews :
              /\ o.from = m.from /\ o.to = m.to /\ o.epoch = m.epoch /\ o.release = m.release
              /\ o.round # "none" => o = m /\ m.from # n
  <1>1. PICK m \in renews : o = IF m.from = n THEN Unanswered(m) ELSE m
    BY DEF Orphaned
  <1> QED
    BY <1>1, UnansweredType

LEMMA CastOwnVoteType ==
    ASSUME TypeOK, NEW n \in Data, NEW T \in Epochs, CastOwnVote(n, T),
           campaigns' \subseteq campaigns
    PROVE  TypeOK'
  <1>1. 0 \in 0..WTake /\ 0 \in Epochs /\ 0 \in 0..P /\ n \in Voters
    BY Durations, BoundAssumption DEF Voters
  <1>2. (voteReqs \subseteq VoteReq)'
    BY DEF TypeOK, CastOwnVote, VoteReq
  <1>3. /\ (allowEpoch \in [Voters -> Epochs])' /\ (allow \in [Voters -> 0..P])'
        /\ (allowTo \in [Voters -> Data \cup {None}])'
        /\ (renewed \in [Voters -> Data \cup {None}])'
    BY <1>1 DEF TypeOK, CastOwnVote
  <1>4. /\ (epoch \in [Voters -> Epochs])' /\ (voted \in [Voters -> Data \cup {None}])'
        /\ (campEpoch \in [Voters -> Epochs])' /\ (campAge \in [Voters -> 0..WTake])'
    BY <1>1 DEF TypeOK, CastOwnVote
  <1>5. (campaigns \subseteq [from : Data, to : Data, epoch : 0..(MaxEpoch - 1)])'
    BY DEF TypeOK
  <1>6. WitnessesFollow' /\ TransfersNamed'
    BY DEF TypeOK, CastOwnVote, WitnessesFollow, TransfersNamed, asLeader
  <1> QED
    BY <1>2, <1>3, <1>4, <1>5, <1>6 DEF TypeOK, CastOwnVote, asLeader

LEMMA LeavesLeadType ==
    ASSUME TypeOK, NEW n \in Voters, LeavesLead(n)
    PROVE  TypeOK'
  <1>1. MemoryOK'
    BY ForgetType DEF LeavesLead, StepDown
  <1>2. (role \in [Voters -> {"standby", "leader"}])'
    BY DEF TypeOK, LeavesLead, StepDown
  <1>3. (renews \subseteq Renew)'
    BY OrphanedType DEF TypeOK, LeavesLead
  <1>4. WitnessesFollow'
    BY DEF TypeOK, LeavesLead, StepDown, Forget, WitnessesFollow
  <1>5. TransfersNamed'
    <2>1. \A m \in renews' : m.release # None => m.epoch < MaxEpoch
      BY OrphanedMembers DEF TypeOK, LeavesLead, TransfersNamed
    <2> QED
      BY <2>1 DEF TypeOK, LeavesLead, StepDown, Forget, TransfersNamed
  <1> QED
    BY <1>1, <1>2, <1>3, <1>4, <1>5 DEF TypeOK, LeavesLead, MemoryOK

(* One step of a member, split by how the actions share their parts. *)
LEMMA TypeTick ==
    ASSUME TypeOK, Tick
    PROVE  TypeOK'
  <1>1. PICK run \in [Voters -> 9..11] :
          /\ take' = [n \in Voters |-> Left(take[n], run[n])]
          /\ hold' = [n \in Voters |-> Left(hold[n], run[n])]
          /\ lease' = [n \in Voters |-> Left(lease[n], run[n])]
          /\ wait' = [n \in Voters |-> Left(wait[n], run[n])]
          /\ promise' = [n \in Voters |-> Left(promise[n], run[n])]
          /\ allow' = [n \in Voters |-> Left(allow[n], run[n])]
          /\ campAge' = [n \in Voters |-> IF campEpoch[n] > 0
                                          THEN Aged(campAge[n], run[n], WTake) ELSE 0]
          /\ rounds' = [n \in Voters |-> {[k EXCEPT !.age = @ + run[n]] :
                                          k \in {x \in rounds[n] : x.age + run[n] < PerRound}}]
          /\ acks' = {[a EXCEPT !.age = @ + run[a.to]] :
                         a \in {x \in acks : x.age + run[x.to] < PerRound}}
          /\ renews' = {AgedCall(m, run[m.from]) : m \in renews}
    BY DEF Tick, ClockRuns
  <1>a. \A n \in Voters : run[n] \in Nat /\ run[n] \in 9..11
    BY <1>1
  <1>b. /\ \A n \in Voters : take[n] \in 0..WTake /\ wait[n] \in 0..WTake
        /\ \A n \in Voters : hold[n] \in 0..HoldAfterStart /\ lease[n] \in 0..PerRound
        /\ \A n \in Voters : promise[n] \in 0..WonHold /\ allow[n] \in 0..P
        /\ \A n \in Voters : campAge[n] \in 0..WTake
    BY DEF TypeOK
  <1>2. take' \in [Voters -> 0..WTake] /\ wait' \in [Voters -> 0..WTake]
    BY <1>1, <1>a, <1>b, Durations DEF Left
  <1>3. hold' \in [Voters -> 0..HoldAfterStart] /\ lease' \in [Voters -> 0..PerRound]
    BY <1>1, <1>a, <1>b, Durations DEF Left
  <1>4. promise' \in [Voters -> 0..WonHold] /\ allow' \in [Voters -> 0..P]
    BY <1>1, <1>a, <1>b, Durations DEF Left
  <1>5. campAge' \in [Voters -> 0..WTake]
    BY <1>1, <1>a, <1>b, Durations DEF Aged
  <1>6. rounds' \in [Voters -> SUBSET [kind : RoundKinds, age : 0..PerRound]]
    <2>1. ASSUME NEW n \in Voters, NEW x \in rounds[n], x.age + run[n] < PerRound
          PROVE  [x EXCEPT !.age = @ + run[n]] \in [kind : RoundKinds, age : 0..PerRound]
      <3>1. x \in [kind : RoundKinds, age : 0..PerRound]
        BY DEF TypeOK
      <3> QED
        BY <2>1, <3>1, <1>a, Durations
    <2>2. \A n \in Voters : rounds'[n] \subseteq [kind : RoundKinds, age : 0..PerRound]
      BY <1>1, <2>1
    <2> QED
      BY <1>1, <2>2
  <1>7. acks' \subseteq Ack
    <2>1. ASSUME NEW x \in acks, x.age + run[x.to] < PerRound
          PROVE  [x EXCEPT !.age = @ + run[x.to]] \in Ack
      BY <2>1, Durations DEF TypeOK, Ack, Voters
    <2> QED
      BY <1>1, <2>1
  <1>8. renews' \subseteq Renew /\ TransfersNamed'
    <2>1. ASSUME NEW m \in renews
          PROVE  /\ AgedCall(m, run[m.from]) \in Renew
                 /\ AgedCall(m, run[m.from]).release = m.release
                 /\ AgedCall(m, run[m.from]).epoch = m.epoch
      <3>1. m \in Renew /\ run[m.from] \in 9..11
        BY DEF TypeOK, Renew, Voters
      <3>2. CASE m.round # "none" /\ m.age + run[m.from] < PerRound
        BY <3>1, <3>2, Durations DEF AgedCall, Renew
      <3>3. CASE ~(m.round # "none" /\ m.age + run[m.from] < PerRound)
        BY <3>1, <3>3, UnansweredType DEF AgedCall
      <3> QED
        BY <3>2, <3>3
    <2>2. renews' \subseteq Renew
      BY <1>1, <2>1
    <2>3. \A m \in renews' : m.release # None => m.epoch < MaxEpoch
      <3>1. SUFFICES ASSUME NEW m \in renews, AgedCall(m, run[m.from]).release # None
                     PROVE  AgedCall(m, run[m.from]).epoch < MaxEpoch
        BY <1>1
      <3>2. m.release # None => m.epoch < MaxEpoch
        BY DEF TypeOK, TransfersNamed
      <3> QED
        BY <2>1, <3>1, <3>2
    <2>4. UNCHANGED <<transferPhase, transferTo, led>>
      BY DEF Tick
    <2> QED
      BY <2>2, <2>3, <2>4 DEF TypeOK, TransfersNamed
  <1> QED
    BY <1>2, <1>3, <1>4, <1>5, <1>6, <1>7, <1>8 DEF TypeOK, Tick, WitnessesFollow

(* The calls left behind by a process that ends, with those it sent last. *)
LEMMA OrphanedNamed ==
    ASSUME TypeOK, NEW n
    PROVE  \A m \in Orphaned(n) : m.release # None => m.epoch < MaxEpoch
  BY OrphanedMembers DEF TypeOK, TransfersNamed

LEMMA ForgetNamed ==
    ASSUME TypeOK, NEW n \in Voters, Forget(n), UNCHANGED led,
           \A m \in renews' : m.release # None => m.epoch < MaxEpoch
    PROVE  TransfersNamed'
  BY DEF TypeOK, TransfersNamed, Forget

LEMMA TypeCrash ==
    ASSUME TypeOK, NEW n \in Voters, Crash(n)
    PROVE  TypeOK'
  <1>1. MemoryOK' /\ renews' \subseteq Renew
    BY ForgetType, OrphanedType DEF Crash, TypeOK
  <1>2. WitnessesFollow'
    BY DEF TypeOK, Crash, Forget, WitnessesFollow, disk
  <1>3. TransfersNamed'
    BY ForgetNamed, OrphanedNamed DEF Crash, disk
  <1>4. crashes' \in 0..MaxCrashes /\ grants' \subseteq Grant
    BY BoundAssumption DEF TypeOK, Crash, NotTo
  <1> QED
    BY <1>1, <1>2, <1>3, <1>4 DEF TypeOK, Crash, MemoryOK, disk

LEMMA TypeBoot ==
    ASSUME TypeOK, NEW n \in Voters, NEW reboot \in BOOLEAN, Boot(n, reboot)
    PROVE  TypeOK'
  <1>1. hold' \in [Voters -> 0..HoldAfterStart]
    <2>1. PICK h \in {HoldAfterStart} \cup (IF n \in Forgetful THEN {0} ELSE {}) :
            hold' = [hold EXCEPT ![n] = h]
      BY DEF Boot
    <2>2. h \in 0..HoldAfterStart
      BY Durations
    <2> QED
      BY <2>1, <2>2 DEF TypeOK
  <1>2. CASE role[n] = "leader" /\ ~HandedItOn(n) /\ OwnTerm(n)
    <2>1. n \in Data /\ led[n] \in Epochs
      BY <1>2 DEF TypeOK, WitnessesFollow
    <2>2. Calls(n, led[n], "boot", FALSE, None) \subseteq Renew
      BY <2>1, CallsType
    <2>3. /\ renews' = renews \cup Calls(n, led[n], "boot", FALSE, None)
          /\ wait' = [wait EXCEPT ![n] = IF sameBoot[n] /\ ~reboot THEN take[n] ELSE WTake]
          /\ rounds' = [rounds EXCEPT ![n] = {[kind |-> "boot", age |-> 0]}]
          /\ UNCHANGED <<transferPhase, transferTo, led>>
      BY <1>2 DEF Boot
    <2>4. renews' \subseteq Renew /\ TransfersNamed'
      <3>0. \A m \in Calls(n, led[n], "boot", FALSE, None) : m.release # None => m.epoch < MaxEpoch
        BY CallsNamed
      <3>1. \A m \in renews' : m.release # None => m.epoch < MaxEpoch
        BY <2>3, <3>0 DEF TypeOK, TransfersNamed
      <3>2. renews' \subseteq Renew
        BY <2>2, <2>3 DEF TypeOK
      <3> QED
        BY <2>3, <3>1, <3>2 DEF TypeOK, TransfersNamed
    <2>5. wait' \in [Voters -> 0..WTake]
      <3>1. (IF sameBoot[n] /\ ~reboot THEN take[n] ELSE WTake) \in 0..WTake
        BY Durations DEF TypeOK
      <3> QED
        BY <2>3, <3>1 DEF TypeOK
    <2>6. rounds' \in [Voters -> SUBSET [kind : RoundKinds, age : 0..PerRound]]
      <3>1. [kind |-> "boot", age |-> 0] \in [kind : RoundKinds, age : 0..PerRound]
        BY Durations
      <3>2. rounds \in [Voters -> SUBSET [kind : RoundKinds, age : 0..PerRound]]
        BY DEF TypeOK
      <3> QED
        BY <2>3, <3>1, <3>2
    <2>7. /\ booting' \in [Voters -> BOOLEAN] /\ up' \in [Voters -> BOOLEAN]
          /\ sameBoot' \in [Voters -> BOOLEAN] /\ role' = role
      BY <1>2 DEF TypeOK, Boot
    <2> QED
      BY <1>1, <2>4, <2>5, <2>6, <2>7 DEF TypeOK, Boot, WitnessesFollow, asVoter, asCandidate
  <1>3. CASE ~(role[n] = "leader" /\ ~HandedItOn(n) /\ OwnTerm(n))
    <2>1. role' \in [Voters -> {"standby", "leader"}] /\ WitnessesFollow'
      BY <1>3 DEF TypeOK, Boot, WitnessesFollow, asCandidate
    <2>2. UNCHANGED <<sameBoot, booting, wait, rounds, renews>> /\ up' \in [Voters -> BOOLEAN]
      BY <1>3 DEF TypeOK, Boot
    <2> QED
      BY <1>1, <2>1, <2>2 DEF TypeOK, Boot, TransfersNamed, asVoter, asCandidate
  <1> QED
    BY <1>2, <1>3

LEMMA TypeBootAndLeave ==
    ASSUME TypeOK, NEW n \in Voters, BootAndLeave(n)
    PROVE  TypeOK'
  <1>1. n \in Data /\ led[n] \in Epochs
    BY DEF TypeOK, WitnessesFollow, BootAndLeave
  <1>2. renews' \subseteq Renew
    BY <1>1, CallsType DEF TypeOK, BootAndLeave
  <1>3. TransfersNamed'
    <2>0. \A m \in Calls(n, led[n], "none", FALSE, None) : m.release # None => m.epoch < MaxEpoch
      BY CallsNamed
    <2>1. \A m \in renews' : m.release # None => m.epoch < MaxEpoch
      BY <2>0 DEF TypeOK, TransfersNamed, BootAndLeave
    <2> QED
      BY <2>1 DEF TypeOK, BootAndLeave, TransfersNamed, asLeader
  <1>4. role' \in [Voters -> {"standby", "leader"}]
    BY DEF TypeOK, BootAndLeave
  <1>5. WitnessesFollow'
    BY <1>1 DEF TypeOK, BootAndLeave, WitnessesFollow, asCandidate
  <1> QED
    BY <1>2, <1>3, <1>4, <1>5 DEF TypeOK, BootAndLeave, asLeader, asVoter, asCandidate

LEMMA TypeBootFailed ==
    ASSUME TypeOK, NEW n \in Voters, BootFailed(n)
    PROVE  TypeOK'
  <1>1. /\ role' \in [Voters -> {"standby", "leader"}] /\ booting' \in [Voters -> BOOLEAN]
        /\ rounds' \in [Voters -> SUBSET [kind : RoundKinds, age : 0..PerRound]]
        /\ wait' \in [Voters -> 0..WTake]
    BY LeaveBootType DEF BootFailed
  <1>2. renews' \subseteq Renew /\ acks' \subseteq Ack
    BY OrphanedType DEF TypeOK, BootFailed, NotTo
  <1>3. WitnessesFollow'
    BY DEF TypeOK, BootFailed, LeaveBoot, WitnessesFollow, asCandidate
  <1>4. TransfersNamed'
    BY OrphanedNamed DEF TypeOK, BootFailed, TransfersNamed
  <1> QED
    BY <1>1, <1>2, <1>3, <1>4 DEF TypeOK, BootFailed, asVoter, asCandidate

LEMMA TypeStartVote ==
    ASSUME TypeOK, NEW n \in Voters, NEW T \in 1..MaxEpoch, StartVote(n, T)
    PROVE  TypeOK'
  <1>1. T \in Epochs /\ n \in Data /\ campaigns' \subseteq campaigns
    BY BoundAssumption DEF StartVote
  <1> QED
    BY <1>1, CastOwnVoteType DEF StartVote

LEMMA TypeOnCampaign ==
    ASSUME TypeOK, NEW n \in Voters, NEW c \in campaigns, OnCampaign(n, c)
    PROVE  TypeOK'
  <1>1. c.epoch + 1 \in Epochs /\ n \in Data /\ campaigns' \subseteq campaigns
    BY BoundAssumption DEF OnCampaign, TypeOK
  <1> QED
    BY <1>1, CastOwnVoteType DEF OnCampaign

LEMMA TypeCampaignLost ==
    ASSUME TypeOK, NEW n \in Voters, CampaignLost(n)
    PROVE  TypeOK'
  <1>1. campEpoch' \in [Voters -> Epochs] /\ campAge' \in [Voters -> 0..WTake]
    BY EndCampaignType DEF CampaignLost
  <1>2. WitnessesFollow'
    BY DEF TypeOK, CampaignLost, EndCampaign, WitnessesFollow, disk
  <1>3. grants' \subseteq Grant
    BY DEF TypeOK, CampaignLost, NotTo
  <1> QED
    BY <1>1, <1>2, <1>3 DEF TypeOK, CampaignLost, TransfersNamed, disk, asLeader, asVoter

LEMMA GrantSentType ==
    ASSUME TypeOK, NEW q \in voteReqs
    PROVE  GrantSent(q) \subseteq Grant
  BY DEF TypeOK, GrantSent, VoteReq, Grant

LEMMA VoteWrittenType ==
    ASSUME TypeOK, NEW v \in Voters, NEW q \in voteReqs, VoteWritten(v, q)
    PROVE  /\ epoch' \in [Voters -> Epochs] /\ voted' \in [Voters -> Data \cup {None}]
           /\ voteReqs' \subseteq VoteReq
  BY DEF TypeOK, VoteWritten, VoteReq

LEMMA TypeGrantVote ==
    ASSUME TypeOK, NEW v \in Voters, NEW q \in voteReqs, GrantVote(v, q)
    PROVE  TypeOK'
  <1>1. /\ role' \in [Voters -> {"standby", "leader"}] /\ booting' \in [Voters -> BOOLEAN]
        /\ rounds' \in [Voters -> SUBSET [kind : RoundKinds, age : 0..PerRound]]
        /\ wait' \in [Voters -> 0..WTake]
    BY LeaveBootType DEF GrantVote
  <1>2. campEpoch' \in [Voters -> Epochs] /\ campAge' \in [Voters -> 0..WTake]
    BY EndCampaignType DEF GrantVote
  <1>3. /\ epoch' \in [Voters -> Epochs] /\ voted' \in [Voters -> Data \cup {None}]
        /\ voteReqs' \subseteq VoteReq
    BY VoteWrittenType DEF GrantVote
  <1>4. renews' \subseteq Renew /\ acks' \subseteq Ack
    BY OrphanedType DEF TypeOK, GrantVote, NotTo
  <1>5. grants' \subseteq Grant
    BY GrantSentType DEF TypeOK, GrantVote, NotTo
  <1>6. /\ promiseTo' \in [Voters -> Data \cup {None}] /\ promise' \in [Voters -> 0..WonHold]
        /\ allowTo' \in [Voters -> Data \cup {None}] /\ allowEpoch' \in [Voters -> Epochs]
        /\ allow' \in [Voters -> 0..P] /\ renewed' \in [Voters -> Data \cup {None}]
    <2>1. P \in 0..WonHold /\ 0 \in 0..P /\ 0 \in Epochs /\ q.from \in Data
      BY Durations, BoundAssumption DEF TypeOK, VoteReq
    <2> QED
      BY <2>1 DEF TypeOK, GrantVote
  <1>7. WitnessesFollow'
    BY DEF TypeOK, GrantVote, LeaveBoot, EndCampaign, WitnessesFollow
  <1>8. TransfersNamed'
    BY OrphanedNamed DEF TypeOK, GrantVote, TransfersNamed
  <1> QED
    BY <1>1, <1>2, <1>3, <1>4, <1>5, <1>6, <1>7, <1>8 DEF TypeOK, GrantVote

LEMMA TypeGrantAndLeave ==
    ASSUME TypeOK, NEW v \in Voters, NEW q \in voteReqs, GrantAndLeave(v, q)
    PROVE  TypeOK'
  <1>1. MemoryOK' /\ renews' \subseteq Renew
    BY ForgetType, OrphanedType DEF GrantAndLeave, StepDown, TypeOK
  <1>2. role' \in [Voters -> {"standby", "leader"}] /\ WitnessesFollow'
    BY DEF TypeOK, GrantAndLeave, StepDown, Forget, WitnessesFollow
  <1>3. /\ epoch' \in [Voters -> Epochs] /\ voted' \in [Voters -> Data \cup {None}]
        /\ voteReqs' \subseteq VoteReq
    BY VoteWrittenType DEF GrantAndLeave
  <1>4. grants' \subseteq Grant
    BY GrantSentType DEF TypeOK, GrantAndLeave
  <1>5. TransfersNamed'
    BY ForgetNamed, OrphanedNamed DEF GrantAndLeave, StepDown
  <1> QED
    BY <1>1, <1>2, <1>3, <1>4, <1>5 DEF TypeOK, GrantAndLeave, MemoryOK

LEMMA VotesForType ==
    ASSUME TypeOK, NEW n \in Voters
    PROVE  VotesFor(n) \subseteq Voters
  BY DEF TypeOK, VotesFor, Grant

LEMMA TypeWon ==
    ASSUME TypeOK, NEW n \in Voters, Won(n)
    PROVE  TypeOK'
  <1>1. n \in Data /\ campEpoch[n] \in Epochs
    BY DEF TypeOK, Won, WitnessesFollow
  <1>2. MemoryOK'
    BY ForgetType DEF Won
  <1>3. renews' \subseteq Renew
    <2>1. Calls(n, campEpoch[n], "none", TRUE, None) \subseteq Renew
      BY <1>1, CallsType
    <2> QED
      BY <2>1 DEF TypeOK, Won
  <1>4. /\ role' \in [Voters -> {"standby", "leader"}] /\ led' \in [Voters -> Epochs]
        /\ sameBoot' \in [Voters -> BOOLEAN] /\ released' \in [Voters -> Epochs]
    BY <1>1, BoundAssumption DEF TypeOK, Won
  <1>5. take' \in [Voters -> 0..WTake]
    <2>1. WTake - campAge[n] \in 0..WTake
      BY Durations DEF TypeOK
    <2> QED
      BY <2>1 DEF TypeOK, Won
  <1>6. won' \subseteq [node : Data, epoch : Epochs, quorum : SUBSET Voters]
    BY <1>1, VotesForType DEF TypeOK, Won
  <1>7. grants' \subseteq Grant
    BY DEF TypeOK, Won, NotTo
  <1>8. WitnessesFollow'
    BY <1>1 DEF TypeOK, Won, Forget, WitnessesFollow
  <1>9. TransfersNamed'
    <2>1. \A m \in Calls(n, campEpoch[n], "none", TRUE, None) : m.release # None => m.epoch < MaxEpoch
      BY CallsNamed
    <2>2. \A m \in renews' : m.release # None => m.epoch < MaxEpoch
      BY <2>1 DEF TypeOK, TransfersNamed, Won
    <2>3. \A v \in Voters : transferPhase'[v] # "none" => transferTo'[v] \in Data /\ led'[v] < MaxEpoch
      BY DEF TypeOK, TransfersNamed, Won, Forget
    <2> QED
      BY <2>2, <2>3 DEF TransfersNamed
  <1> QED
    BY <1>2, <1>3, <1>4, <1>5, <1>6, <1>7, <1>8, <1>9 DEF TypeOK, Won, MemoryOK

LEMMA TypeStartRound ==
    ASSUME TypeOK, NEW n \in Voters, StartRound(n)
    PROVE  TypeOK'
  <1>1. n \in Data /\ led[n] \in Epochs
    BY DEF TypeOK, StartRound, Renewing, Leads, WitnessesFollow
  <1>2. PICK kind \in RoundKinds :
          /\ rounds' = [rounds EXCEPT ![n] = @ \cup {[kind |-> kind, age |-> 0]}]
          /\ renews' = renews \cup Calls(n, led[n], kind, FALSE, None)
    BY DEF StartRound
  <1>3. rounds' \in [Voters -> SUBSET [kind : RoundKinds, age : 0..PerRound]]
    <2>1. [kind |-> kind, age |-> 0] \in [kind : RoundKinds, age : 0..PerRound]
      BY Durations
    <2>2. rounds \in [Voters -> SUBSET [kind : RoundKinds, age : 0..PerRound]]
      BY DEF TypeOK
    <2> QED
      BY <1>2, <2>1, <2>2
  <1>4. renews' \subseteq Renew
    BY <1>1, <1>2, CallsType DEF TypeOK
  <1>5. TransfersNamed'
    <2>1. \A m \in Calls(n, led[n], kind, FALSE, None) : m.release # None => m.epoch < MaxEpoch
      BY CallsNamed
    <2>2. \A m \in renews' : m.release # None => m.epoch < MaxEpoch
      BY <1>2, <2>1 DEF TypeOK, TransfersNamed
    <2> QED
      BY <2>2 DEF TypeOK, TransfersNamed, StartRound, disk
  <1> QED
    BY <1>3, <1>4, <1>5 DEF TypeOK, StartRound, WitnessesFollow, disk, asVoter, asCandidate

LEMMA TypeOnRenew ==
    ASSUME TypeOK, NEW v \in Voters, NEW m \in renews, OnRenew(v, m)
    PROVE  TypeOK'
  <1>0. /\ m \in Renew /\ m.from \in Data /\ m.epoch \in Epochs /\ m.release \in Data \cup {None}
        /\ m.release # None => m.epoch + 1 \in Epochs
    BY BoundAssumption DEF TypeOK, Renew, TransfersNamed
  <1>1. /\ role' \in [Voters -> {"standby", "leader"}] /\ booting' \in [Voters -> BOOLEAN]
        /\ rounds' \in [Voters -> SUBSET [kind : RoundKinds, age : 0..PerRound]]
        /\ wait' \in [Voters -> 0..WTake]
    BY LeaveBootType DEF OnRenew
  <1>2. /\ campEpoch' \in [Voters -> Epochs] /\ campAge' \in [Voters -> 0..WTake]
        /\ grants' \subseteq Grant
    <2>1. CASE campEpoch[v] <= m.epoch + 1
      BY <2>1, EndCampaignType DEF TypeOK, OnRenew, NotTo
    <2>2. CASE ~(campEpoch[v] <= m.epoch + 1)
      BY <2>2 DEF TypeOK, OnRenew, asCandidate
    <2> QED
      BY <2>1, <2>2
  <1>3. epoch' \in [Voters -> Epochs] /\ voted' \in [Voters -> Data \cup {None}]
    BY <1>0 DEF TypeOK, OnRenew
  <1>4. promiseTo' \in [Voters -> Data \cup {None}] /\ promise' \in [Voters -> 0..WonHold]
    <2>1. (IF m.hold THEN WonHold ELSE P) \in 0..WonHold
      BY Durations
    <2> QED
      BY <1>0, <2>1 DEF TypeOK, OnRenew
  <1>5. /\ allowTo' \in [Voters -> Data \cup {None}] /\ allowEpoch' \in [Voters -> Epochs]
        /\ allow' \in [Voters -> 0..P] /\ renewed' \in [Voters -> Data \cup {None}]
    <2>1. P \in 0..P /\ 0 \in 0..P /\ 0 \in Epochs
      BY Durations, BoundAssumption
    <2> QED
      BY <1>0, <2>1 DEF TypeOK, OnRenew
  <1>6. renews' \subseteq Renew
    BY OrphanedType DEF TypeOK, OnRenew
  <1>7. acks' \subseteq Ack
    <2>1. m.round # "none" => [from |-> v, to |-> m.from, round |-> m.round, age |-> m.age] \in Ack
      BY <1>0 DEF Renew, Ack
    <2> QED
      BY <2>1 DEF TypeOK, OnRenew, NotTo
  <1>8. WitnessesFollow'
    <2>1. \A x \in Voters \ Data : role'[x] = "standby"
      BY DEF TypeOK, OnRenew, LeaveBoot, WitnessesFollow
    <2>2. \A x \in Voters \ Data : campEpoch'[x] = 0
      BY DEF TypeOK, OnRenew, EndCampaign, WitnessesFollow, asCandidate
    <2> QED
      BY <2>1, <2>2 DEF WitnessesFollow
  <1>9. TransfersNamed'
    BY OrphanedNamed DEF TypeOK, OnRenew, TransfersNamed
  <1> QED
    BY <1>1, <1>2, <1>3, <1>4, <1>5, <1>6, <1>7, <1>8, <1>9 DEF TypeOK, OnRenew

LEMMA TypeMajority ==
    ASSUME TypeOK, NEW n \in Voters, NEW k \in rounds[n], Majority(n, k)
    PROVE  TypeOK'
  <1>1. k \in [kind : RoundKinds, age : 0..PerRound]
    BY DEF TypeOK
  <1>2. lease' \in [Voters -> 0..PerRound]
    <2>1. Max2(lease[n], WorthOf(k)) \in 0..PerRound
      BY <1>1, Durations DEF TypeOK, Max2, WorthOf
    <2> QED
      BY <2>1 DEF TypeOK, Majority
  <1>3. /\ booting' \in [Voters -> BOOLEAN] /\ acting' \in [Voters -> BOOLEAN]
        /\ rounds' \in [Voters -> SUBSET [kind : RoundKinds, age : 0..PerRound]]
    BY DEF TypeOK, Majority
  <1>4. acks' \subseteq Ack
    BY DEF TypeOK, Majority
  <1>5. \A o \in renews' : \E m \in renews : o = m \/ o = Unanswered(m)
    BY DEF Majority
  <1>6. renews' \subseteq Renew /\ \A m \in renews' : m.release # None => m.epoch < MaxEpoch
    BY <1>5, UnansweredType DEF TypeOK, TransfersNamed
  <1>7. TransfersNamed'
    BY <1>6 DEF TypeOK, TransfersNamed, Majority, disk
  <1> QED
    BY <1>2, <1>3, <1>4, <1>6, <1>7 DEF TypeOK, Majority, WitnessesFollow, disk, asVoter, asCandidate

LEMMA TypeTransfer ==
    ASSUME TypeOK, NEW n \in Voters,
           \/ \E t \in Targets : TransferTo(n, t)
           \/ TransferRefused(n)
    PROVE  TypeOK'
  <1>1. CASE TransferRefused(n)
    BY <1>1 DEF TypeOK, TransferRefused, TransferStep, WitnessesFollow, TransfersNamed, disk, asVoter,
                asCandidate, network
  <1>2. CASE \E t \in Targets : TransferTo(n, t)
    BY <1>2, VotersAssumption DEF TypeOK, TransferTo, TransferStep, WitnessesFollow, TransfersNamed,
                                  disk, asVoter, asCandidate, network
  <1> QED
    BY <1>1, <1>2

LEMMA TypeRelease ==
    ASSUME TypeOK, NEW n \in Voters, Release(n)
    PROVE  TypeOK'
  <1>1. /\ n \in Data /\ led[n] \in Epochs /\ led[n] + 1 \in Epochs /\ led[n] < MaxEpoch
        /\ transferTo[n] \in Data
    BY BoundAssumption DEF TypeOK, Release, Leads, WitnessesFollow, TransfersNamed
  <1>2. renews' \subseteq Renew
    <2>1. Calls(n, led[n], "none", FALSE, transferTo[n]) \subseteq Renew
      BY <1>1, CallsType
    <2> QED
      BY <2>1 DEF TypeOK, Release
  <1>3. TransfersNamed'
    <2>1. \A m \in Calls(n, led[n], "none", FALSE, transferTo[n]) :
             m.release # None => m.epoch < MaxEpoch
      BY <1>1, CallsNamed
    <2>2. \A m \in renews' : m.release # None => m.epoch < MaxEpoch
      BY <2>1 DEF TypeOK, TransfersNamed, Release
    <2> QED
      BY <1>1, <2>2 DEF TypeOK, TransfersNamed, Release, TransferStep
  <1>4. /\ released' \in [Voters -> Epochs] /\ lease' \in [Voters -> 0..PerRound]
        /\ acting' \in [Voters -> BOOLEAN]
    BY <1>1, Durations DEF TypeOK, Release
  <1>5. /\ allowTo' \in [Voters -> Data \cup {None}] /\ allowEpoch' \in [Voters -> Epochs]
        /\ allow' \in [Voters -> 0..P]
        /\ transferPhase' \in [Voters -> {"none", "catchup", "release", "wait"}]
    BY <1>1, Durations DEF TypeOK, Release, TransferStep
  <1> QED
    BY <1>2, <1>3, <1>4, <1>5 DEF TypeOK, Release, WitnessesFollow, asCandidate

LEMMA TypeSendCampaign ==
    ASSUME TypeOK, NEW n \in Voters, SendCampaign(n)
    PROVE  TypeOK'
  <1>1. n \in Data /\ led[n] \in 0..(MaxEpoch - 1) /\ transferTo[n] \in Data
    BY BoundAssumption DEF TypeOK, SendCampaign, Leads, WitnessesFollow, TransfersNamed
  <1>2. campaigns' \subseteq [from : Data, to : Data, epoch : 0..(MaxEpoch - 1)]
    BY <1>1 DEF TypeOK, SendCampaign
  <1>3. /\ transferPhase' \in [Voters -> {"none", "catchup", "release", "wait"}]
        /\ TransfersNamed'
    BY <1>1 DEF TypeOK, SendCampaign, TransferStep, TransfersNamed, disk
  <1> QED
    BY <1>2, <1>3 DEF TypeOK, SendCampaign, WitnessesFollow, disk, asVoter, asCandidate

LEMMA TypePlannedRestart ==
    ASSUME TypeOK, NEW n \in Voters, PlannedRestart(n)
    PROVE  TypeOK'
  <1>1. n \in Data /\ led[n] \in Epochs
    BY DEF TypeOK, PlannedRestart, Leads, WitnessesFollow
  <1>2. Calls(n, led[n], "none", TRUE, None) \subseteq Renew
    BY <1>1, CallsType
  <1>3. MemoryOK' /\ renews' \subseteq Renew
    BY <1>2, ForgetType, OrphanedType DEF PlannedRestart, TypeOK
  <1>4. TransfersNamed'
    <2>1. \A m \in Calls(n, led[n], "none", TRUE, None) : m.release # None => m.epoch < MaxEpoch
      BY CallsNamed
    <2> QED
      BY <2>1, ForgetNamed, OrphanedNamed DEF PlannedRestart, disk
  <1>5. WitnessesFollow'
    BY DEF TypeOK, PlannedRestart, Forget, WitnessesFollow, disk
  <1> QED
    BY <1>3, <1>4, <1>5 DEF TypeOK, PlannedRestart, MemoryOK, disk

LEMMA TypeInit == Init => TypeOK
  <1> SUFFICES ASSUME Init PROVE TypeOK
    OBVIOUS
  <1>1. PICK x \in Data : FoundedBy(x)
    BY VotersAssumption DEF Init
  <1>2. /\ 0 \in Epochs /\ 1 \in Epochs /\ 0 \in 0..WTake /\ 0 \in 0..HoldAfterStart
        /\ 0 \in 0..PerRound /\ PerRound \in 0..PerRound /\ 0 \in 0..WonHold /\ P \in 0..WonHold
        /\ 0 \in 0..P /\ 0 \in 0..MaxCrashes
    BY Durations, BoundAssumption
  <1> QED
    BY <1>1, <1>2 DEF FoundedBy, TypeOK, WitnessesFollow, TransfersNamed

LEMMA TypeNext == TypeOK /\ [Next]_vars => TypeOK'
  <1> SUFFICES ASSUME TypeOK, [Next]_vars PROVE TypeOK'
    OBVIOUS
  <1>1. CASE Tick
    BY <1>1, TypeTick
  <1>2. ASSUME NEW n \in Voters, MemberStep(n) PROVE TypeOK'
    <2>1. CASE Crash(n) BY <2>1, TypeCrash
    <2>2. CASE \E reboot \in Reboots : Boot(n, reboot)
      BY <2>2, TypeBoot, VotersAssumption
    <2>3. CASE BootAndLeave(n) BY <2>3, TypeBootAndLeave
    <2>4. CASE BootFailed(n) BY <2>4, TypeBootFailed
    <2>5. CASE \E T \in 1..MaxEpoch : StartVote(n, T) BY <2>5, TypeStartVote
    <2>6. CASE CampaignLost(n) BY <2>6, TypeCampaignLost
    <2>7. CASE \E q \in voteReqs : GrantVote(n, q) BY <2>7, TypeGrantVote
    <2>8. CASE \E q \in voteReqs : GrantAndLeave(n, q) BY <2>8, TypeGrantAndLeave
    <2>9. CASE Won(n) BY <2>9, TypeWon
    <2>10. CASE StartRound(n) BY <2>10, TypeStartRound
    <2>11. CASE \E m \in renews : OnRenew(n, m) BY <2>11, TypeOnRenew
    <2>12. CASE \E k \in rounds[n] : Majority(n, k) BY <2>12, TypeMajority
    <2>13. CASE LeavesLead(n) BY <2>13, LeavesLeadType
    <2>14. CASE (\E t \in Targets : TransferTo(n, t)) \/ TransferRefused(n)
      BY <2>14, TypeTransfer
    <2>15. CASE Release(n) BY <2>15, TypeRelease
    <2>16. CASE SendCampaign(n) BY <2>16, TypeSendCampaign
    <2>17. CASE \E c \in campaigns : OnCampaign(n, c) BY <2>17, TypeOnCampaign
    <2>18. CASE PlannedRestart(n) BY <2>18, TypePlannedRestart
    <2> QED
      BY <1>2, <2>1, <2>2, <2>3, <2>4, <2>5, <2>6, <2>7, <2>8, <2>9, <2>10, <2>11, <2>12, <2>13,
         <2>14, <2>15, <2>16, <2>17, <2>18
      DEF MemberStep, Lose, TermMovedOn, SeesHigherEpoch, ToldToStepDown, TransferLost
  <1>3. ASSUME NEW m \in renews, LoseCall(m) PROVE TypeOK'
    BY <1>3 DEF TypeOK, LoseCall, WitnessesFollow, TransfersNamed, disk, asLeader, asVoter, asCandidate
  <1>4. CASE UNCHANGED vars
    BY <1>4 DEF TypeOK, WitnessesFollow, TransfersNamed, vars, disk, asLeader, asVoter, asCandidate,
                network
  <1> QED
    BY <1>1, <1>2, <1>3, <1>4 DEF Next

(* Every variable keeps its type, whatever the members do (all of Node). *)
THEOREM TypeCorrect == Spec => []TypeOK
  BY TypeInit, TypeNext, PTL DEF Spec

=============================================================================
