------------------------- MODULE HaExclusionProofs --------------------------
(***************************************************************************)
(* Two members of HaLease never hold a lease at the same moment, for every *)
(* group, every lease length and every pair of clocks within 10% of true   *)
(* time. LeaseInv is inductive on top of ElectionInv: what a process knows *)
(* of itself comes first (OwnTermInv, StagesInv, ReleasedInv), then rounds *)
(* and hand-overs, then the protection a lease rests on.                   *)
(***************************************************************************)
EXTENDS HaElectionProofs

USE DEF Epochs, RoundKinds

-----------------------------------------------------------------------------
(* A step of one member leaves every other alone. *)

SameMember(n) ==
    /\ role'[n] = role[n] /\ epoch'[n] = epoch[n] /\ voted'[n] = voted[n]
    /\ led'[n] = led[n] /\ released'[n] = released[n]
    /\ up'[n] = up[n] /\ hold'[n] = hold[n] /\ lease'[n] = lease[n]
    /\ acting'[n] = acting[n] /\ booting'[n] = booting[n] /\ rounds'[n] = rounds[n]
    /\ promiseTo'[n] = promiseTo[n] /\ promise'[n] = promise[n]
    /\ allowTo'[n] = allowTo[n] /\ allowEpoch'[n] = allowEpoch[n] /\ allow'[n] = allow[n]
    /\ transferPhase'[n] = transferPhase[n]

LEMMA ForgetOthers ==
    ASSUME TypeOK, NEW y \in Voters, Forget(y), NEW n \in Voters \ {y},
           role'[n] = role[n], epoch'[n] = epoch[n], voted'[n] = voted[n],
           led'[n] = led[n], released'[n] = released[n]
    PROVE  SameMember(n)
  BY DEF Forget, TypeOK, SameMember

LEMMA CastOwnVoteOthers ==
    ASSUME TypeOK, NEW y \in Voters, NEW T, CastOwnVote(y, T), NEW n \in Voters \ {y}
    PROVE  SameMember(n)
  BY DEF CastOwnVote, TypeOK, SameMember, asLeader

LEMMA OthersUntouched ==
    ASSUME TypeOK, NEW y \in Voters, MemberStep(y), NEW n \in Voters \ {y}
    PROVE  SameMember(n)
  <1>1. CASE Crash(y) \/ PlannedRestart(y)
    <2>1. /\ role'[n] = role[n] /\ epoch'[n] = epoch[n] /\ voted'[n] = voted[n]
          /\ led'[n] = led[n] /\ released'[n] = released[n] /\ Forget(y)
      BY <1>1 DEF Crash, PlannedRestart, disk
    <2> QED
      BY <2>1, ForgetOthers
  <1>2. CASE \E reboot \in Reboots : Boot(y, reboot)
    <2>1. PICK reboot \in Reboots : Boot(y, reboot)
      BY <1>2
    <2>2. role'[n] = role[n]
      BY <2>1 DEF Boot, TypeOK
    <2>4. up'[n] = up[n] /\ hold'[n] = hold[n]
      <3>1. up' = [up EXCEPT ![y] = TRUE] /\ \E h : hold' = [hold EXCEPT ![y] = h]
        BY <2>1 DEF Boot
      <3>2. up'[n] = up[n]
        BY <3>1, Zenon DEF TypeOK
      <3>3. hold'[n] = hold[n]
        BY <3>1 DEF TypeOK
      <3> QED
        BY <3>2, <3>3
    <2>3. booting'[n] = booting[n] /\ rounds'[n] = rounds[n]
      <3>1. \/ booting' = booting /\ rounds' = rounds
            \/ /\ booting' = [booting EXCEPT ![y] = TRUE]
               /\ \E R : rounds' = [rounds EXCEPT ![y] = R]
        BY <2>1 DEF Boot
      <3>2. booting'[n] = booting[n]
        BY <3>1, Zenon DEF TypeOK
      <3>3. rounds'[n] = rounds[n]
        BY <3>1 DEF TypeOK
      <3> QED
        BY <3>2, <3>3
    <2> QED
      <3>1. UNCHANGED <<epoch, voted, led, released, lease, acting, transferPhase, promiseTo,
                        promise, allowTo, allowEpoch, allow>>
        BY <2>1 DEF Boot, asVoter
      <3> QED
        BY <2>2, <2>3, <2>4, <3>1 DEF SameMember
  <1>3. CASE BootAndLeave(y)
    BY <1>3 DEF BootAndLeave, TypeOK, SameMember, asLeader, asVoter
  <1>4. CASE BootFailed(y)
    BY <1>4 DEF BootFailed, LeaveBoot, TypeOK, SameMember, asVoter
  <1>5. CASE \E T \in 1..MaxEpoch : StartVote(y, T)
    BY <1>5, CastOwnVoteOthers DEF StartVote
  <1>6. CASE CampaignLost(y)
    BY <1>6 DEF CampaignLost, TypeOK, SameMember, disk, asLeader, asVoter
  <1>7. CASE \E q \in voteReqs : GrantVote(y, q)
    BY <1>7 DEF GrantVote, VoteWritten, LeaveBoot, TypeOK, SameMember
  <1>8. CASE \E q \in voteReqs : GrantAndLeave(y, q)
    <2>1. /\ role'[n] = role[n] /\ epoch'[n] = epoch[n] /\ voted'[n] = voted[n]
          /\ led'[n] = led[n] /\ released'[n] = released[n] /\ Forget(y)
      BY <1>8 DEF GrantAndLeave, VoteWritten, StepDown, TypeOK
    <2> QED
      BY <2>1, ForgetOthers
  <1>9. CASE Won(y)
    <2>1. /\ role'[n] = role[n] /\ epoch'[n] = epoch[n] /\ voted'[n] = voted[n]
          /\ led'[n] = led[n] /\ released'[n] = released[n] /\ Forget(y)
      BY <1>9 DEF Won, TypeOK
    <2> QED
      BY <2>1, ForgetOthers
  <1>10. CASE StartRound(y)
    BY <1>10 DEF StartRound, TypeOK, SameMember, disk, asVoter
  <1>11. CASE \E m \in renews : OnRenew(y, m)
    BY <1>11 DEF OnRenew, LeaveBoot, TypeOK, SameMember
  <1>12. CASE \E k \in rounds[y] : Majority(y, k)
    BY <1>12 DEF Majority, TypeOK, SameMember, disk, asVoter
  <1>13. CASE LeavesLead(y)
    <2>1. /\ role'[n] = role[n] /\ epoch'[n] = epoch[n] /\ voted'[n] = voted[n]
          /\ led'[n] = led[n] /\ released'[n] = released[n] /\ Forget(y)
      BY <1>13 DEF LeavesLead, StepDown, TypeOK
    <2> QED
      BY <2>1, ForgetOthers
  <1>14. CASE (\E t \in Targets : TransferTo(y, t)) \/ TransferRefused(y) \/ SendCampaign(y)
    BY <1>14 DEF TransferTo, TransferRefused, SendCampaign, TransferStep, TypeOK, SameMember, disk,
                 asVoter
  <1>15. CASE Release(y)
    BY <1>15 DEF Release, TransferStep, TypeOK, SameMember
  <1>16. CASE \E c \in campaigns : OnCampaign(y, c)
    BY <1>16, CastOwnVoteOthers DEF OnCampaign
  <1> QED
    BY <1>1, <1>2, <1>3, <1>4, <1>5, <1>6, <1>7, <1>8, <1>9, <1>10, <1>11, <1>12, <1>13, <1>14,
       <1>15, <1>16
    DEF MemberStep, Lose, TermMovedOn, SeesHigherEpoch, ToldToStepDown, TransferLost

-----------------------------------------------------------------------------
(* What a process knows of itself. *)

ProcessOK(n) ==
    /\ (booting[n] \/ acting[n] \/ lease[n] > 0 \/ rounds[n] # {}) => Leads(n) /\ OwnTerm(n)
    /\ booting[n] => ~acting[n] /\ lease[n] = 0
    /\ transferPhase[n] # "none" => up[n] /\ ~booting[n]
    /\ Leads(n) /\ released[n] = led[n] + 1 =>
          /\ lease[n] = 0 /\ ~acting[n] /\ ~booting[n]
          /\ Renewing(n) => rounds[n] = {}

ProcessInv == \A n \in Voters : ProcessOK(n)

LEMMA ProcessParts == ProcessInv <=> OwnTermInv /\ StagesInv /\ ReleasedInv
  BY DEF ProcessInv, ProcessOK, OwnTermInv, StagesInv, ReleasedInv

LEMMA SameProcess ==
    ASSUME NEW n, ProcessOK(n), SameMember(n)
    PROVE  ProcessOK(n)'
  BY DEF SameMember, ProcessOK, Leads, OwnTerm, Renewing

LEMMA EndedProcess ==
    ASSUME TypeOK, NEW n \in Voters, Forget(n)
    PROVE  ProcessOK(n)'
  BY DEF Forget, TypeOK, ProcessOK, Leads

(* A process that leads nothing keeps it that way, whatever it votes. *)
LEMMA StandbyProcess ==
    ASSUME TypeOK, TypeOK', NEW n \in Voters, ProcessOK(n), ~Leads(n),
           lease'[n] = lease[n], acting'[n] = acting[n], booting'[n] = booting[n],
           rounds'[n] = rounds[n], transferPhase'[n] = transferPhase[n], up'[n] = up[n],
           role'[n] = role[n] \/ role'[n] = "standby"
    PROVE  ProcessOK(n)'
  BY DEF ProcessOK, Leads, TypeOK

(* A boot that ends leaves nothing behind to lead by. *)
LEMMA LeftBootProcess ==
    ASSUME TypeOK, TypeOK', NEW n \in Voters, ProcessOK(n), booting[n], LeaveBoot(n),
           UNCHANGED <<lease, acting, transferPhase, up>>
    PROVE  ProcessOK(n)'
  <1>1. /\ booting'[n] = FALSE /\ rounds'[n] = {}
        /\ lease'[n] = 0 /\ acting'[n] = FALSE /\ transferPhase'[n] = "none"
    BY DEF ProcessOK, LeaveBoot, TypeOK
  <1> QED
    BY <1>1 DEF ProcessOK

LEMMA LeaveBootProcess ==
    ASSUME TypeOK, TypeOK', NEW n \in Voters, ProcessOK(n), role[n] = "leader" => booting[n],
           LeaveBoot(n), UNCHANGED <<lease, acting, transferPhase, up>>
    PROVE  ProcessOK(n)'
  <1>1. CASE booting[n] BY <1>1, LeftBootProcess
  <1>2. CASE ~booting[n]
    <2>1. booting[n] = FALSE /\ ~Leads(n)
      BY <1>2 DEF Leads, TypeOK
    <2>2. role'[n] = role[n] /\ rounds'[n] = rounds[n]
      BY <1>2 DEF LeaveBoot, TypeOK
    <2>3. booting' = [booting EXCEPT ![n] = FALSE]
      BY DEF LeaveBoot
    <2>4. booting'[n] = booting[n]
      BY <2>1, <2>3, Zenon DEF TypeOK
    <2> QED
      BY <2>1, <2>2, <2>4, StandbyProcess
  <1> QED BY <1>1, <1>2

LEMMA BootProcess ==
    ASSUME TypeOK, TypeOK', NEW n \in Voters, ProcessOK(n), NEW reboot, Boot(n, reboot)
    PROVE  ProcessOK(n)'
  <1>1. ~up[n] /\ up'[n] /\ UNCHANGED <<epoch, voted, led, released, lease, acting, transferPhase>>
    BY DEF Boot, TypeOK
  <1>2. /\ ~booting[n] /\ ~acting[n] /\ lease[n] = 0 /\ rounds[n] = {}
        /\ transferPhase[n] = "none"
    BY <1>1 DEF ProcessOK, Leads, TypeOK
  <1>3. CASE role[n] = "leader" /\ ~HandedItOn(n) /\ OwnTerm(n)
    BY <1>1, <1>2, <1>3 DEF Boot, ProcessOK, Leads, OwnTerm, HandedItOn, TypeOK
  <1>4. CASE ~(role[n] = "leader" /\ ~HandedItOn(n) /\ OwnTerm(n))
    <2>1. UNCHANGED <<booting, rounds>>
      BY <1>4 DEF Boot
    <2> QED
      BY <1>1, <1>2, <2>1 DEF ProcessOK
  <1> QED BY <1>3, <1>4

LEMMA RoundProcess ==
    ASSUME TypeOK, TypeOK', NEW n \in Voters, ProcessOK(n),
           StartRound(n) \/ \E k \in rounds[n] : Majority(n, k)
    PROVE  ProcessOK(n)'
  <1>1. /\ Renewing(n) /\ UNCHANGED <<role, epoch, voted, led, released, up, transferPhase>>
        /\ released[n] # led[n] + 1 /\ OwnTerm(n)
    <2>1. CASE StartRound(n)
      BY <2>1 DEF StartRound, ProcessOK, Renewing, disk
    <2>2. CASE \E k \in rounds[n] : Majority(n, k)
      BY <2>2 DEF Majority, ProcessOK, Renewing, disk
    <2> QED BY <2>1, <2>2
  <1>2. /\ Leads(n)' /\ OwnTerm(n)' /\ ~(released[n] = led[n] + 1)'
    BY <1>1 DEF Renewing, Leads, OwnTerm
  <1>3. /\ booting'[n] => ~acting'[n] /\ lease'[n] = 0
        /\ transferPhase'[n] # "none" => up'[n] /\ ~booting'[n]
    <2>1. CASE StartRound(n)
      BY <2>1, <1>1 DEF StartRound, ProcessOK
    <2>2. CASE \E k \in rounds[n] : Majority(n, k)
      BY <2>2, <1>1 DEF Majority, ProcessOK, TypeOK
    <2> QED BY <2>1, <2>2
  <1> QED
    BY <1>2, <1>3 DEF ProcessOK

LEMMA TransferProcess ==
    ASSUME TypeOK, TypeOK', NEW n \in Voters, ProcessOK(n),
           \/ \E t \in Targets : TransferTo(n, t)
           \/ TransferRefused(n) \/ Release(n) \/ SendCampaign(n)
    PROVE  ProcessOK(n)'
  <1>1. CASE \E t \in Targets : TransferTo(n, t)
    <2>1. /\ UNCHANGED <<disk, up, lease, acting, booting, rounds>>
          /\ Leads(n) /\ acting[n] /\ transferPhase[n] = "none"
      BY <1>1 DEF TransferTo, IsActive, HoldsLease
    <2>2. released[n] # led[n] + 1 /\ ~booting[n] /\ up[n]
      BY <2>1 DEF ProcessOK, Leads
    <2> QED
      BY <2>1, <2>2 DEF ProcessOK, Leads, OwnTerm, disk
  <1>2. CASE TransferRefused(n)
    BY <1>2 DEF TransferRefused, TransferStep, ProcessOK, Leads, OwnTerm, Renewing, TypeOK, disk
  <1>3. CASE SendCampaign(n)
    BY <1>3 DEF SendCampaign, TransferStep, ProcessOK, Leads, OwnTerm, Renewing, TypeOK, disk
  <1>4. CASE Release(n)
    BY <1>4 DEF Release, TransferStep, ProcessOK, Leads, OwnTerm, Renewing, TypeOK
  <1> QED BY <1>1, <1>2, <1>3, <1>4

(* The steps of the process itself. *)
LEMMA ProcessStep ==
    ASSUME TypeOK, TypeOK', NEW n \in Voters, ProcessOK(n), MemberStep(n)
    PROVE  ProcessOK(n)'
  <1>1. CASE Forget(n) BY <1>1, EndedProcess
  <1>2. CASE \E reboot \in Reboots : Boot(n, reboot) BY <1>2, BootProcess
  <1>3. CASE BootAndLeave(n)
    <2>1. /\ ~Leads(n) /\ UNCHANGED <<lease, acting, booting, rounds, transferPhase, up>>
          /\ role'[n] = role[n] \/ role'[n] = "standby"
      BY <1>3 DEF BootAndLeave, Leads, asLeader, TypeOK
    <2> QED
      BY <2>1, StandbyProcess
  <1>4. CASE BootFailed(n)
    BY <1>4, LeaveBootProcess DEF BootFailed
  <1>5. ASSUME NEW T, CastOwnVote(n, T), role[n] = "standby" PROVE ProcessOK(n)'
    <2>1. ~Leads(n) /\ UNCHANGED <<role, lease, acting, booting, rounds, transferPhase, up>>
      BY <1>5 DEF CastOwnVote, Leads, asLeader
    <2> QED
      BY <2>1, StandbyProcess
  <1>6. CASE \/ \E T \in 1..MaxEpoch : StartVote(n, T)
             \/ \E c \in campaigns : OnCampaign(n, c)
    BY <1>5, <1>6 DEF StartVote, OnCampaign
  <1>7. CASE CampaignLost(n)
    <2>1. SameMember(n)
      BY <1>7 DEF CampaignLost, SameMember, disk, asLeader, asVoter
    <2> QED
      BY <2>1, SameProcess
  <1>8. CASE \E q \in voteReqs : GrantVote(n, q)
    BY <1>8, LeaveBootProcess DEF GrantVote
  <1>9. CASE \E m \in renews : OnRenew(n, m)
    BY <1>9, LeaveBootProcess DEF OnRenew
  <1>10. CASE StartRound(n) \/ \E k \in rounds[n] : Majority(n, k) BY <1>10, RoundProcess
  <1>11. CASE \/ \E t \in Targets : TransferTo(n, t)
              \/ TransferRefused(n) \/ Release(n) \/ SendCampaign(n)
    BY <1>11, TransferProcess
  <1>12. CASE
         \/ Crash(n) \/ (\E q \in voteReqs : GrantAndLeave(n, q)) \/ Won(n) \/ Lose(n)
         \/ TermMovedOn(n) \/ SeesHigherEpoch(n) \/ ToldToStepDown(n) \/ TransferLost(n)
         \/ PlannedRestart(n)
    BY <1>1, <1>12 DEF Crash, GrantAndLeave, Won, Lose, TermMovedOn, SeesHigherEpoch, ToldToStepDown,
           TransferLost, PlannedRestart, LeavesLead, StepDown
  <1> QED
    BY <1>2, <1>3, <1>4, <1>6, <1>7, <1>8, <1>9, <1>10, <1>11, <1>12 DEF MemberStep

LEMMA ProcessTick ==
    ASSUME TypeOK, TypeOK', NEW n \in Voters, ProcessOK(n), Tick
    PROVE  ProcessOK(n)'
  <1>1. PICK run \in ClockRuns :
          /\ lease' = [x \in Voters |-> Left(lease[x], run[x])]
          /\ rounds' = [x \in Voters |-> {[k EXCEPT !.age = @ + run[x]] :
                                          k \in {y \in rounds[x] : y.age + run[x] < PerRound}}]
    BY DEF Tick
  <1>2. UNCHANGED <<role, epoch, voted, led, released, up, acting, booting, transferPhase>>
    BY DEF Tick
  <1>3. (lease[n] = 0 => lease'[n] = 0) /\ (rounds[n] = {} => rounds'[n] = {})
    <2>0. run \in [Voters -> 9..11] /\ lease[n] \in 0..PerRound
      BY DEF ClockRuns, TypeOK
    <2>1. run[n] \in Nat /\ lease[n] \in Nat
      BY <2>0, Durations
    <2>2. lease[n] = 0 => lease'[n] = 0
      BY <1>1, <2>1 DEF Left
    <2>3. rounds'[n] = {[k EXCEPT !.age = @ + run[n]] :
                           k \in {y \in rounds[n] : y.age + run[n] < PerRound}}
      BY <1>1
    <2>4. rounds[n] = {} => rounds'[n] = {}
      BY <2>3
    <2> QED BY <2>2, <2>4
  <1>4. lease[n] \in Nat /\ lease'[n] \in Nat
    BY Durations DEF TypeOK
  <1>5. lease'[n] > 0 => lease[n] > 0
    BY <1>3, <1>4
  <1> QED
    BY <1>2, <1>3, <1>5 DEF ProcessOK, Leads, OwnTerm, Renewing

LEMMA ProcessNext ==
    ASSUME TypeOK, TypeOK', ProcessInv, [Next]_vars
    PROVE  ProcessInv'
  <1>1. CASE Tick BY <1>1, ProcessTick DEF ProcessInv
  <1>2. ASSUME NEW y \in Voters, MemberStep(y) PROVE ProcessInv'
    <2>1. ASSUME NEW n \in Voters PROVE ProcessOK(n)'
      <3>1. CASE n = y BY <1>2, <3>1, ProcessStep DEF ProcessInv
      <3>2. CASE n # y BY <1>2, <3>2, OthersUntouched, SameProcess DEF ProcessInv
      <3> QED BY <3>1, <3>2
    <2> QED BY <2>1 DEF ProcessInv
  <1>3. CASE UNCHANGED <<disk, up, hold, asLeader, asVoter>>
    <2>1. \A n \in Voters : SameMember(n)
      BY <1>3 DEF SameMember, disk, asLeader, asVoter
    <2> QED BY <2>1, SameProcess DEF ProcessInv
  <1>4. (\E m \in renews : LoseCall(m)) \/ UNCHANGED vars
           => UNCHANGED <<disk, up, hold, asLeader, asVoter>>
    BY DEF LoseCall, vars
  <1> QED
    BY <1>1, <1>2, <1>3, <1>4 DEF Next

-----------------------------------------------------------------------------
(* Rounds: what counts, counts for a round that is open. *)

Open(x, round, age) == [kind |-> round, age |-> age] \in rounds[x]
Silent(msgs) == \A m \in msgs : m.round = "none"

LEMMA SilentCalls ==
    ASSUME NEW n, NEW T, NEW held, NEW rel
    PROVE  Silent(Calls(n, T, "none", held, rel))
  BY CallsMembers DEF Silent

(* A step of n after which nothing on its way waits for n, and at most       *)
(* rounds of n are over.                                                     *)
LEMMA RoundsOver ==
    ASSUME ElectionInv, TypeOK', RoundInv, NEW n \in Voters,
           \A x \in Voters \ {n} : rounds'[x] = rounds[x] /\ led'[x] = led[x],
           rounds'[n] \subseteq rounds[n],
           \A m \in renews' : m.round # "none" => m \in renews /\ m.from # n,
           \A a \in acks' : a.to # n /\ a.from # a.to /\ Open(a.to, a.round, a.age)
    PROVE  RoundInv'
  <1>1. \A x \in Voters : \A k \in rounds'[x] : k.age < PerRound
    BY DEF RoundInv
  <1>2. \A m \in renews' : m.from \in Voters
    BY DEF TypeOK, Renew, Voters
  <1>3. \A a \in acks' : a.to \in Voters
    BY DEF TypeOK, Ack, Voters
  <1>4. \A m \in renews' : m.round # "none" =>
          m.epoch = led'[m.from] /\ [kind |-> m.round, age |-> m.age] \in rounds'[m.from]
    BY <1>2 DEF RoundInv
  <1>5. \A a \in acks' : a.from # a.to /\ [kind |-> a.round, age |-> a.age] \in rounds'[a.to]
    BY <1>3 DEF Open
  <1> QED
    BY <1>1, <1>4, <1>5 DEF RoundInv

(* A step that opens and closes no round and sends nothing that waits. *)
LEMMA RoundsKept ==
    ASSUME RoundInv, UNCHANGED <<rounds, led, acks>>,
           \A m \in renews' : m.round # "none" => m \in renews
    PROVE  RoundInv'
  BY DEF RoundInv

LEMMA OldAcks ==
    ASSUME RoundInv, NEW n
    PROVE  \A a \in NotTo(n, acks) : a.to # n /\ a.from # a.to /\ Open(a.to, a.round, a.age)
  BY DEF RoundInv, NotTo, Open

LEMMA OldCalls ==
    ASSUME ElectionInv, NEW n
    PROVE  \A m \in Orphaned(n) : m.round # "none" => m \in renews /\ m.from # n
  <1>1. renews \subseteq Renew
    BY DEF ElectionInv, TypeOK
  <1> QED
    BY <1>1, OrphanedMembers

(* Nothing waits for a process that leads nothing. *)
LEMMA IdleProcess ==
    ASSUME ElectionInv, ProcessInv, RoundInv, NEW n \in Voters, ~Leads(n)
    PROVE  /\ rounds[n] = {}
           /\ \A m \in renews : m.round # "none" => m.from # n
           /\ \A a \in acks : a.to # n
  <1>1. rounds[n] = {}
    BY DEF ProcessInv, ProcessOK
  <1> QED
    BY <1>1 DEF RoundInv

LEMMA EndedRounds ==
    ASSUME ElectionInv, TypeOK', RoundInv, NEW n \in Voters, Forget(n),
           \A x \in Voters \ {n} : led'[x] = led[x],
           \A m \in renews' : m.round # "none" => m \in renews /\ m.from # n
    PROVE  RoundInv'
  <1>1. rounds'[n] = {} /\ \A x \in Voters \ {n} : rounds'[x] = rounds[x]
    BY DEF Forget, ElectionInv, TypeOK
  <1>2. acks' = NotTo(n, acks)
    BY DEF Forget
  <1>3. \A a \in acks' : a.to # n /\ a.from # a.to /\ Open(a.to, a.round, a.age)
    BY <1>2, OldAcks
  <1> QED
    BY <1>1, <1>3, RoundsOver

LEMMA WonRounds ==
    ASSUME ElectionInv, TypeOK', ProcessInv, RoundInv, NEW n \in Voters, Won(n)
    PROVE  RoundInv'
  <1>1. ~Leads(n)
    BY DEF Won, ElectionInv, CampaignInv, Leads
  <1>2. \A m \in renews' : m.round # "none" => m \in renews /\ m.from # n
    <2>1. Silent(Calls(n, campEpoch[n], "none", TRUE, None))
      BY SilentCalls
    <2>2. \A m \in renews : m.round # "none" => m.from # n
      BY <1>1, IdleProcess
    <2> QED
      BY <2>1, <2>2 DEF Won, Silent
  <1>3. \A x \in Voters \ {n} : led'[x] = led[x]
    BY DEF Won, ElectionInv, TypeOK
  <1> QED
    BY <1>2, <1>3, EndedRounds DEF Won

LEMMA LeaveBootRounds ==
    ASSUME ElectionInv, TypeOK', RoundInv, NEW n \in Voters, LeaveBoot(n), UNCHANGED led,
           \A m \in renews' : m.round # "none" => m \in renews /\ m.from # n,
           \A a \in acks' : a.to # n /\ a.from # a.to /\ Open(a.to, a.round, a.age)
    PROVE  RoundInv'
  <1>1. /\ rounds'[n] \subseteq rounds[n]
        /\ \A x \in Voters \ {n} : rounds'[x] = rounds[x] /\ led'[x] = led[x]
    BY DEF LeaveBoot, ElectionInv, TypeOK
  <1> QED
    BY <1>1, RoundsOver

LEMMA OnRenewRounds ==
    ASSUME ElectionInv, TypeOK', RoundInv, NEW v \in Voters, NEW m \in renews, OnRenew(v, m)
    PROVE  RoundInv'
  <1>1. m.to = v /\ m.from # v
    BY DEF OnRenew, ElectionInv, LeaderInv
  <1>2. \A a \in acks' : a.to # v /\ a.from # a.to /\ Open(a.to, a.round, a.age)
    <2>1. \A a \in NotTo(v, acks) : a.to # v /\ a.from # a.to /\ Open(a.to, a.round, a.age)
      BY OldAcks
    <2>2. m.round # "none" => Open(m.from, m.round, m.age)
      BY DEF RoundInv, Open
    <2>3. ASSUME NEW a \in acks', a \notin NotTo(v, acks)
          PROVE  a.to # v /\ a.from # a.to /\ Open(a.to, a.round, a.age)
      <3>1. m.round # "none" /\ a = [from |-> v, to |-> m.from, round |-> m.round, age |-> m.age]
        BY <2>3 DEF OnRenew
      <3>2. a.from = v /\ a.to = m.from /\ a.round = m.round /\ a.age = m.age
        BY <3>1
      <3> QED
        BY <3>1, <3>2, <2>2, <1>1
    <2> QED
      BY <2>1, <2>3
  <1>3. \A o \in renews' : o.round # "none" => o \in renews /\ o.from # v
    BY OldCalls DEF OnRenew
  <1>4. LeaveBoot(v) /\ UNCHANGED led
    BY DEF OnRenew
  <1> QED
    BY <1>2, <1>3, <1>4, LeaveBootRounds

OfRound(msgs, n, T, kind) ==
    \A m \in msgs : m.from = n /\ m.epoch = T /\ m.round = kind /\ m.age = 0

LEMMA RoundCalls ==
    ASSUME NEW n, NEW T, NEW kind, NEW held, NEW rel
    PROVE  OfRound(Calls(n, T, kind, held, rel), n, T, kind)
  BY CallsMembers DEF OfRound

(* A round opens with the calls that wait for it. *)
LEMMA RoundOpens ==
    ASSUME ElectionInv, TypeOK', RoundInv, NEW n \in Voters, NEW kind,
           rounds' = [rounds EXCEPT ![n] = @ \cup {[kind |-> kind, age |-> 0]}],
           renews' = renews \cup Calls(n, led[n], kind, FALSE, None),
           UNCHANGED <<led, acks>>
    PROVE  RoundInv'
  <1>0. rounds \in [Voters -> SUBSET [kind : RoundKinds, age : 0..PerRound]]
    BY DEF ElectionInv, TypeOK
  <1>1. /\ \A x \in Voters : rounds[x] \subseteq rounds'[x]
        /\ [kind |-> kind, age |-> 0] \in rounds'[n]
        /\ \A x \in Voters : \A k \in rounds'[x] :
              k \in rounds[x] \/ k = [kind |-> kind, age |-> 0]
    BY <1>0
  <1>2. \A x \in Voters : \A k \in rounds'[x] : k.age < PerRound
    BY <1>1, Durations DEF RoundInv
  <1>3. ASSUME NEW m \in renews', m.round # "none"
        PROVE  m.epoch = led'[m.from] /\ [kind |-> m.round, age |-> m.age] \in rounds'[m.from]
    <2>1. CASE m \in renews
      <3>1. m.from \in Voters
        BY <2>1 DEF ElectionInv, TypeOK, Renew, Voters
      <3> QED
        BY <1>1, <1>3, <2>1, <3>1 DEF RoundInv
    <2>2. CASE m \in Calls(n, led[n], kind, FALSE, None)
      <3>1. OfRound(Calls(n, led[n], kind, FALSE, None), n, led[n], kind)
        BY RoundCalls
      <3> QED
        BY <2>2, <3>1, <1>1 DEF OfRound
    <2> QED BY <2>1, <2>2
  <1>4. \A a \in acks' : a.from # a.to /\ [kind |-> a.round, age |-> a.age] \in rounds'[a.to]
    <2>1. \A a \in acks : a.to \in Voters
      BY DEF ElectionInv, TypeOK, Ack, Voters
    <2> QED
      BY <1>1, <2>1 DEF RoundInv
  <1> QED
    BY <1>2, <1>3, <1>4 DEF RoundInv

LEMMA BootRounds ==
    ASSUME ElectionInv, TypeOK', ProcessInv, RoundInv, NEW n \in Voters, NEW reboot,
           Boot(n, reboot)
    PROVE  RoundInv'
  <1>1. UNCHANGED <<led, acks>> /\ ~up[n]
    BY DEF Boot
  <1>2. rounds[n] = {}
    BY <1>1, IdleProcess DEF Leads
  <1>3. CASE role[n] = "leader" /\ ~HandedItOn(n) /\ OwnTerm(n)
    <2>1. /\ rounds' = [rounds EXCEPT ![n] = @ \cup {[kind |-> "boot", age |-> 0]}]
          /\ renews' = renews \cup Calls(n, led[n], "boot", FALSE, None)
      BY <1>2, <1>3 DEF Boot
    <2> QED
      BY <1>1, <2>1, RoundOpens
  <1>4. CASE ~(role[n] = "leader" /\ ~HandedItOn(n) /\ OwnTerm(n))
    <2>1. UNCHANGED <<rounds, renews>>
      BY <1>4 DEF Boot
    <2> QED
      BY <1>1, <2>1, RoundsKept
  <1> QED BY <1>3, <1>4

LEMMA StartRoundRounds ==
    ASSUME ElectionInv, TypeOK', RoundInv, NEW n \in Voters, StartRound(n)
    PROVE  RoundInv'
  <1>1. PICK kind : /\ rounds' = [rounds EXCEPT ![n] = @ \cup {[kind |-> kind, age |-> 0]}]
                    /\ renews' = renews \cup Calls(n, led[n], kind, FALSE, None)
    BY DEF StartRound
  <1>2. UNCHANGED <<led, acks>>
    BY DEF StartRound, disk
  <1> QED
    BY <1>1, <1>2, RoundOpens

LEMMA MajorityRounds ==
    ASSUME ElectionInv, TypeOK', RoundInv, NEW n \in Voters, NEW k \in rounds[n], Majority(n, k)
    PROVE  RoundInv'
  <1>0. /\ rounds \in [Voters -> SUBSET [kind : RoundKinds, age : 0..PerRound]]
        /\ UNCHANGED led /\ rounds' = [rounds EXCEPT ![n] = @ \ {k}]
    BY DEF ElectionInv, TypeOK, Majority, disk
  <1>1. /\ rounds'[n] = rounds[n] \ {k}
        /\ \A x \in Voters \ {n} : rounds'[x] = rounds[x]
    BY <1>0
  <1>2. \A x \in Voters : \A j \in rounds'[x] : j.age < PerRound
    BY <1>1 DEF RoundInv
  <1>3. ASSUME NEW o \in renews', o.round # "none"
        PROVE  o.epoch = led'[o.from] /\ [kind |-> o.round, age |-> o.age] \in rounds'[o.from]
    <2>1. PICK m \in renews : o = IF m.from = n /\ m.round = k.kind /\ m.age = k.age
                                  THEN Unanswered(m) ELSE m
      BY DEF Majority
    <2>2. m \in Renew /\ m.from \in Voters
      BY DEF ElectionInv, TypeOK, Renew, Voters
    <2>3. o = m /\ ~(m.from = n /\ m.round = k.kind /\ m.age = k.age)
      BY <1>3, <2>1, <2>2, UnansweredType
    <2>4. m.epoch = led[m.from] /\ [kind |-> m.round, age |-> m.age] \in rounds[m.from]
      BY <1>3, <2>3 DEF RoundInv
    <2>5. m.from = n => [kind |-> m.round, age |-> m.age] # k
      BY <2>3
    <2> QED
      BY <1>0, <1>1, <2>2, <2>3, <2>4, <2>5
  <1>4. ASSUME NEW a \in acks'
        PROVE  a.from # a.to /\ [kind |-> a.round, age |-> a.age] \in rounds'[a.to]
    <2>1. a \in acks /\ ~(a.to = n /\ a.round = k.kind /\ a.age = k.age)
      BY <1>4 DEF Majority
    <2>2. a.to \in Voters
      BY <2>1 DEF ElectionInv, TypeOK, Ack, Voters
    <2>3. a.from # a.to /\ [kind |-> a.round, age |-> a.age] \in rounds[a.to]
      BY <2>1 DEF RoundInv
    <2>4. a.to = n => [kind |-> a.round, age |-> a.age] # k
      BY <2>1
    <2> QED
      BY <1>1, <2>2, <2>3, <2>4
  <1> QED
    BY <1>2, <1>3, <1>4 DEF RoundInv

(* A tick ages rounds, calls and answers alike. *)
AgedRounds(n, r) ==
    {[k EXCEPT !.age = @ + r] : k \in {x \in rounds[n] : x.age + r < PerRound}}

LEMMA TickedRounds ==
    ASSUME TypeOK, NEW n \in Voters, NEW r \in Nat
    PROVE  /\ \A k \in AgedRounds(n, r) : k.age < PerRound
           /\ \A k \in AgedRounds(n, r) : \E j \in rounds[n] :
                 j.kind = k.kind /\ k.age = j.age + r /\ j.age \in Nat
           /\ \A kind, age : Open(n, kind, age) /\ age + r < PerRound =>
                 [kind |-> kind, age |-> age + r] \in AgedRounds(n, r)
  <1>0. rounds[n] \subseteq [kind : RoundKinds, age : 0..PerRound] /\ PerRound \in Nat
    BY Durations DEF TypeOK
  <1>1. ASSUME NEW k \in AgedRounds(n, r)
        PROVE  k.age < PerRound /\ \E j \in rounds[n] :
                  j.kind = k.kind /\ k.age = j.age + r /\ j.age \in Nat
    <2>1. PICK j \in rounds[n] : j.age + r < PerRound /\ k = [j EXCEPT !.age = @ + r]
      BY <1>1 DEF AgedRounds
    <2>2. j \in [kind : RoundKinds, age : 0..PerRound]
      BY <1>0
    <2>3. k.age = j.age + r /\ k.kind = j.kind /\ j.age \in Nat
      BY <2>1, <2>2
    <2> QED
      BY <2>1, <2>3
  <1>2. ASSUME NEW kind, NEW age, Open(n, kind, age), age + r < PerRound
        PROVE  [kind |-> kind, age |-> age + r] \in AgedRounds(n, r)
    <2> DEFINE j == [kind |-> kind, age |-> age]
    <2>1. j \in rounds[n] /\ j.age + r < PerRound
      BY <1>2 DEF Open
    <2>2. [j EXCEPT !.age = @ + r] = [kind |-> kind, age |-> age + r]
      OBVIOUS
    <2>3. [j EXCEPT !.age = @ + r] \in AgedRounds(n, r)
      BY <2>1 DEF AgedRounds
    <2> QED
      BY <2>2, <2>3
  <1> QED BY <1>1, <1>2

(* What a tick does to everything that runs out. *)
Ticked(run) ==
    /\ run \in [Voters -> 9..11]
    /\ take' = [n \in Voters |-> Left(take[n], run[n])]
    /\ wait' = [n \in Voters |-> Left(wait[n], run[n])]
    /\ hold' = [n \in Voters |-> Left(hold[n], run[n])]
    /\ lease' = [n \in Voters |-> Left(lease[n], run[n])]
    /\ promise' = [n \in Voters |-> Left(promise[n], run[n])]
    /\ allow' = [n \in Voters |-> Left(allow[n], run[n])]
    /\ \A n \in Voters : rounds'[n] = AgedRounds(n, run[n])
    /\ acks' = {[a EXCEPT !.age = @ + run[a.to]] :
                   a \in {x \in acks : x.age + run[x.to] < PerRound}}
    /\ renews' = {AgedCall(m, run[m.from]) : m \in renews}
    /\ UNCHANGED <<role, epoch, voted, led, released, up, acting, booting, promiseTo, allowEpoch,
                   transferPhase, won>>

LEMMA TickTicks ==
    ASSUME Tick
    PROVE  \E run : Ticked(run)
  <1>1. PICK run \in ClockRuns :
          /\ take' = [n \in Voters |-> Left(take[n], run[n])]
          /\ wait' = [n \in Voters |-> Left(wait[n], run[n])]
          /\ hold' = [n \in Voters |-> Left(hold[n], run[n])]
          /\ lease' = [n \in Voters |-> Left(lease[n], run[n])]
          /\ promise' = [n \in Voters |-> Left(promise[n], run[n])]
          /\ allow' = [n \in Voters |-> Left(allow[n], run[n])]
          /\ rounds' = [n \in Voters |-> {[k EXCEPT !.age = @ + run[n]] :
                                          k \in {x \in rounds[n] : x.age + run[n] < PerRound}}]
          /\ acks' = {[a EXCEPT !.age = @ + run[a.to]] :
                         a \in {x \in acks : x.age + run[x.to] < PerRound}}
          /\ renews' = {AgedCall(m, run[m.from]) : m \in renews}
    BY DEF Tick
  <1>2. UNCHANGED <<role, epoch, voted, led, released, up, acting, booting, promiseTo, allowEpoch,
                    transferPhase, won>>
    BY DEF Tick
  <1>3. run \in [Voters -> 9..11]
    BY DEF ClockRuns
  <1>4. \A n \in Voters : rounds'[n] = AgedRounds(n, run[n])
    BY <1>1 DEF AgedRounds
  <1> QED
    BY <1>1, <1>2, <1>3, <1>4 DEF Ticked

(* An answer that still counts after a tick counted before it. *)
LEMMA TickedAcks ==
    ASSUME TypeOK, NEW run, Ticked(run), NEW b \in acks'
    PROVE  \E a \in acks : /\ b.from = a.from /\ b.to = a.to /\ b.round = a.round
                           /\ b.age = a.age + run[a.to] /\ a.age + run[a.to] < PerRound
                           /\ a.to \in Voters /\ a.age \in Nat
  <1>1. PICK a \in acks : a.age + run[a.to] < PerRound /\ b = [a EXCEPT !.age = @ + run[a.to]]
    BY DEF Ticked
  <1>2. a \in Ack /\ a.to \in Voters /\ a.age \in Nat
    BY Durations DEF TypeOK, Ack, Voters
  <1> QED
    BY <1>1, <1>2 DEF Ack

LEMMA TickedCalls ==
    ASSUME TypeOK, NEW run, Ticked(run), NEW o \in renews'
    PROVE  \E m \in renews :
              /\ o.from = m.from /\ o.to = m.to /\ o.epoch = m.epoch /\ o.release = m.release
              /\ o.round # "none" => /\ m.round = o.round /\ o.age = m.age + run[m.from]
                                     /\ m.age + run[m.from] < PerRound
  <1>1. PICK m \in renews : o = AgedCall(m, run[m.from])
    BY DEF Ticked
  <1>2. m \in Renew
    BY DEF TypeOK
  <1>3. CASE m.round # "none" /\ m.age + run[m.from] < PerRound
    BY <1>1, <1>2, <1>3 DEF AgedCall, Renew
  <1>4. CASE ~(m.round # "none" /\ m.age + run[m.from] < PerRound)
    BY <1>1, <1>2, <1>4, UnansweredType DEF AgedCall
  <1> QED BY <1>3, <1>4

LEMMA TickRounds ==
    ASSUME ElectionInv, RoundInv, Tick
    PROVE  RoundInv'
  <1>0. TypeOK
    BY DEF ElectionInv
  <1>1. PICK run : Ticked(run)
    BY TickTicks
  <1>2. \A x \in Voters : run[x] \in Nat /\ rounds'[x] = AgedRounds(x, run[x])
    BY <1>1 DEF Ticked
  <1>3. \A x \in Voters : \A k \in rounds'[x] : k.age < PerRound
    BY <1>0, <1>2, TickedRounds
  <1>4. ASSUME NEW o \in renews', o.round # "none"
        PROVE  o.epoch = led'[o.from] /\ [kind |-> o.round, age |-> o.age] \in rounds'[o.from]
    <2>1. PICK m \in renews :
             /\ o.from = m.from /\ o.epoch = m.epoch /\ m.round = o.round
             /\ o.age = m.age + run[m.from] /\ m.age + run[m.from] < PerRound
      BY <1>0, <1>1, <1>4, TickedCalls
    <2>2. m.from \in Voters
      BY <1>0 DEF TypeOK, Renew, Voters
    <2>3. m.epoch = led[m.from] /\ Open(m.from, m.round, m.age)
      BY <1>4, <2>1 DEF RoundInv, Open
    <2>4. [kind |-> m.round, age |-> m.age + run[m.from]] \in AgedRounds(m.from, run[m.from])
      BY <1>0, <1>2, <2>1, <2>2, <2>3, TickedRounds
    <2> QED
      BY <1>1, <1>2, <2>1, <2>2, <2>3, <2>4 DEF Ticked
  <1>5. ASSUME NEW b \in acks'
        PROVE  b.from # b.to /\ [kind |-> b.round, age |-> b.age] \in rounds'[b.to]
    <2>1. PICK a \in acks : /\ b.from = a.from /\ b.to = a.to /\ b.round = a.round
                            /\ b.age = a.age + run[a.to] /\ a.age + run[a.to] < PerRound
                            /\ a.to \in Voters
      BY <1>0, <1>1, TickedAcks
    <2>2. a.from # a.to /\ Open(a.to, a.round, a.age)
      BY DEF RoundInv, Open
    <2>3. [kind |-> a.round, age |-> a.age + run[a.to]] \in AgedRounds(a.to, run[a.to])
      BY <1>0, <1>2, <2>1, <2>2, TickedRounds
    <2> QED
      BY <1>2, <2>1, <2>2, <2>3
  <1> QED
    BY <1>3, <1>4, <1>5 DEF RoundInv

LEMMA RoundsNext ==
    ASSUME ElectionInv, TypeOK', ProcessInv, RoundInv, [Next]_vars
    PROVE  RoundInv'
  <1>1. CASE Tick BY <1>1, TickRounds
  <1>2. CASE UNCHANGED <<rounds, led, acks, renews>> BY <1>2, RoundsKept
  <1>3. ASSUME NEW n \in Voters, MemberStep(n) PROVE RoundInv'
    <2>1. CASE Crash(n) \/ LeavesLead(n) \/ \E q \in voteReqs : GrantAndLeave(n, q)
      <3>1. Forget(n) /\ UNCHANGED led /\ renews' = Orphaned(n)
        BY <2>1 DEF Crash, LeavesLead, GrantAndLeave, StepDown, disk
      <3> QED
        BY <3>1, OldCalls, EndedRounds
    <2>2. CASE PlannedRestart(n)
      <3>1. /\ Forget(n) /\ UNCHANGED led
            /\ renews' = Orphaned(n) \cup Calls(n, led[n], "none", TRUE, None)
        BY <2>2 DEF PlannedRestart, disk
      <3>2. Silent(Calls(n, led[n], "none", TRUE, None))
        BY SilentCalls
      <3>3. \A m \in renews' : m.round # "none" => m \in renews /\ m.from # n
        BY <3>1, <3>2, OldCalls DEF Silent
      <3> QED
        BY <3>1, <3>3, EndedRounds
    <2>3. CASE Won(n) BY <2>3, WonRounds
    <2>4. CASE \E reboot \in Reboots : Boot(n, reboot) BY <2>4, BootRounds
    <2>5. CASE BootAndLeave(n) \/ Release(n)
      <3>1. /\ UNCHANGED <<rounds, led, acks>>
            /\ \E rel : renews' = renews \cup Calls(n, led[n], "none", FALSE, rel)
        BY <2>5 DEF BootAndLeave, Release, asLeader
      <3>2. \A rel : Silent(Calls(n, led[n], "none", FALSE, rel))
        BY SilentCalls
      <3>3. \A m \in renews' : m.round # "none" => m \in renews
        BY <3>1, <3>2 DEF Silent
      <3> QED
        BY <3>1, <3>3, RoundsKept
    <2>6. CASE BootFailed(n) \/ \E q \in voteReqs : GrantVote(n, q)
      <3>1. LeaveBoot(n) /\ UNCHANGED led /\ renews' = Orphaned(n) /\ acks' = NotTo(n, acks)
        BY <2>6 DEF BootFailed, GrantVote
      <3> QED
        BY <3>1, OldCalls, OldAcks, LeaveBootRounds
    <2>7. CASE \E m \in renews : OnRenew(n, m) BY <2>7, OnRenewRounds
    <2>8. CASE \/ \E T \in 1..MaxEpoch : StartVote(n, T)
               \/ \E c \in campaigns : OnCampaign(n, c)
      BY <1>2, <2>8 DEF StartVote, OnCampaign, CastOwnVote, asLeader
    <2>9. CASE \/ CampaignLost(n) \/ (\E t \in Targets : TransferTo(n, t)) \/ TransferRefused(n)
               \/ SendCampaign(n)
      BY <1>2, <2>9 DEF CampaignLost, TransferTo, TransferRefused, SendCampaign, disk, asLeader,
                        network
    <2>10. CASE StartRound(n) BY <2>10, StartRoundRounds
    <2>11. CASE \E k \in rounds[n] : Majority(n, k) BY <2>11, MajorityRounds
    <2> QED
      BY <1>3, <2>1, <2>2, <2>3, <2>4, <2>5, <2>6, <2>7, <2>8, <2>9, <2>10, <2>11
      DEF MemberStep, Lose, TermMovedOn, SeesHigherEpoch, ToldToStepDown, TransferLost
  <1>4. ASSUME NEW m \in renews, LoseCall(m) PROVE RoundInv'
    BY <1>4, RoundsKept DEF LoseCall, disk, asLeader
  <1>5. CASE UNCHANGED vars
    BY <1>2, <1>5 DEF vars, disk, asLeader, network
  <1> QED
    BY <1>1, <1>3, <1>4, <1>5 DEF Next

-----------------------------------------------------------------------------
(* Hand-overs: what a leader wrote down stays written. *)

LEMMA LedAndReleased ==
    ASSUME [Next]_vars
    PROVE  UNCHANGED <<led, released, won>> \/ \E n \in Voters : Won(n) \/ Release(n)
  <1> DEFINE Same == UNCHANGED <<led, released, won>>
  <1>1. ASSUME NEW n \in Voters, MemberStep(n) PROVE Same \/ Won(n) \/ Release(n)
    <2>1. CASE Crash(n) \/ PlannedRestart(n) BY <2>1 DEF Crash, PlannedRestart, disk
    <2>2. CASE \E reboot \in Reboots : Boot(n, reboot) BY <2>2 DEF Boot
    <2>3. CASE BootAndLeave(n) \/ BootFailed(n) BY <2>3 DEF BootAndLeave, BootFailed
    <2>4. CASE \/ \E T \in 1..MaxEpoch : StartVote(n, T)
               \/ \E c \in campaigns : OnCampaign(n, c)
      BY <2>4 DEF StartVote, OnCampaign, CastOwnVote
    <2>5. CASE \E q \in voteReqs : GrantVote(n, q) \/ GrantAndLeave(n, q)
      BY <2>5 DEF GrantVote, GrantAndLeave
    <2>6. CASE \E m \in renews : OnRenew(n, m) BY <2>6 DEF OnRenew
    <2>7. CASE StartRound(n) \/ \E k \in rounds[n] : Majority(n, k)
      BY <2>7 DEF StartRound, Majority, disk
    <2>8. CASE LeavesLead(n) BY <2>8 DEF LeavesLead
    <2>9. CASE \/ CampaignLost(n) \/ (\E t \in Targets : TransferTo(n, t)) \/ TransferRefused(n)
               \/ SendCampaign(n)
      BY <2>9 DEF CampaignLost, TransferTo, TransferRefused, SendCampaign, disk
    <2> QED
      BY <1>1, <2>1, <2>2, <2>3, <2>4, <2>5, <2>6, <2>7, <2>8, <2>9
      DEF MemberStep, Lose, TermMovedOn, SeesHigherEpoch, ToldToStepDown, TransferLost
  <1>2. CASE Tick BY <1>2 DEF Tick
  <1>3. CASE (\E m \in renews : LoseCall(m)) \/ UNCHANGED vars
    BY <1>3 DEF LoseCall, vars, disk
  <1> QED
    BY <1>1, <1>2, <1>3 DEF Next

LEMMA HandOverStays ==
    ASSUME ElectionInv, TypeOK', [Next]_vars, NEW U, WroteHandOver(U)
    PROVE  WroteHandOver(U)'
  <1>0. TypeOK
    BY DEF ElectionInv
  <1>1. ASSUME won \subseteq won',
               \A n \in Voters : role'[n] = "leader" =>
                  role[n] = "leader" /\ led'[n] = led[n] /\ released'[n] = released[n]
        PROVE  WroteHandOver(U)'
    BY <1>1 DEF WroteHandOver
  <1>3. ASSUME NEW n \in Voters, Won(n) PROVE WroteHandOver(U)'
    <2>1. PICK w \in won : w.epoch + 1 = U
      BY DEF WroteHandOver
    <2>2. w.epoch # campEpoch[n]
      <3>1. SUFFICES ASSUME w.epoch = campEpoch[n] PROVE FALSE
        OBVIOUS
      <3>2. w.quorum \in Quorum /\ VotesFor(n) \in Quorum /\ campEpoch[n] > 0
        BY <1>3 DEF ElectionInv, WonInv, Won
      <3>3. w.quorum \cap VotesFor(n) = {}
        BY <3>1, <3>2 DEF ElectionInv, DisjointInv
      <3> QED
        BY <3>2, <3>3, QuorumsMeet
    <2>3. led'[n] = campEpoch[n] /\ campEpoch[n] \in Nat /\ w.epoch \in Nat
      BY <1>0, <1>3 DEF Won, TypeOK
    <2>4. \A x \in Voters \ {n} : role'[x] = role[x] /\ led'[x] = led[x] /\ released'[x] = released[x]
      BY <1>0, <1>3 DEF Won, TypeOK
    <2>5. w \in won'
      BY <1>3 DEF Won
    <2> QED
      BY <2>1, <2>2, <2>3, <2>4, <2>5 DEF WroteHandOver
  <1>4. ASSUME NEW n \in Voters, Release(n) PROVE WroteHandOver(U)'
    <2>1. UNCHANGED <<role, led, won>> /\ released'[n] = led[n] + 1
          /\ \A x \in Voters \ {n} : released'[x] = released[x]
      BY <1>0, <1>4 DEF Release, TypeOK
    <2> QED
      BY <2>1 DEF WroteHandOver
  <1>5. CASE \E n \in Voters : Won(n) \/ Release(n) BY <1>3, <1>4, <1>5
  <1>6. CASE ~\E n \in Voters : Won(n) \/ Release(n)
    <2>1. UNCHANGED <<led, released, won>>
      BY <1>6, LedAndReleased
    <2>2. \A n \in Voters : role'[n] = "leader" => role[n] = "leader"
      <3>1. CASE Quiet BY <3>1 DEF Quiet
      <3>2. ASSUME NEW n \in Voters, OwnVote(n) PROVE UNCHANGED role
        BY <3>2 DEF OwnVote, CastOwnVote
      <3>3. ASSUME NEW v \in Voters, NEW q \in voteReqs, Grants(v, q), NEW n \in Voters,
                   role'[n] = "leader"
            PROVE  role[n] = "leader"
        BY <3>3 DEF Grants
      <3>4. ASSUME NEW v \in Voters, NEW m \in renews, OnRenew(v, m), NEW n \in Voters,
                   role'[n] = "leader"
            PROVE  role[n] = "leader"
        BY <1>0, <3>4 DEF OnRenew, LeaveBoot, TypeOK
      <3> QED
        BY <1>6, <3>1, <3>2, <3>3, <3>4, StepKinds
    <2> QED
      BY <1>1, <2>1, <2>2
  <1> QED BY <1>5, <1>6

(* The same of the state after a step. *)
WrittenNext(U) ==
    /\ \E w \in won' : w.epoch + 1 = U
    /\ \A n \in Voters : role'[n] = "leader" /\ led'[n] + 1 = U => released'[n] = U

LEMMA StaysWritten ==
    ASSUME ElectionInv, TypeOK', [Next]_vars
    PROVE  \A U : WroteHandOver(U) => WrittenNext(U)
  BY HandOverStays DEF WroteHandOver, WrittenNext

LEMMA ReleaseWrites ==
    ASSUME ElectionInv, NEW n \in Voters, Release(n)
    PROVE  WrittenNext(led[n] + 1)
  <1>1. /\ UNCHANGED <<role, led, won>> /\ released'[n] = led[n] + 1 /\ role[n] = "leader"
        /\ \A x \in Voters : led[x] \in Nat
    BY DEF Release, Leads, ElectionInv, TypeOK
  <1>2. PICK w \in won : w.node = n /\ w.epoch = led[n]
    BY <1>1 DEF ElectionInv, LeaderInv, WonBy
  <1>3. ASSUME NEW x \in Voters, role[x] = "leader", led[x] = led[n] PROVE x = n
    <2>1. PICK y \in won : y.node = x /\ y.epoch = led[x]
      BY <1>3 DEF ElectionInv, LeaderInv, WonBy
    <2> QED
      BY <1>2, <1>3, <2>1 DEF ElectionInv, OneLeaderPerTerm
  <1> QED
    BY <1>1, <1>2, <1>3 DEF WrittenNext

(* The only calls that hand a term on are those of a release. *)
Keeping(msgs) == \A m \in msgs : m.release = None
Handing(msgs, T) == \A m \in msgs : m.epoch = T

LEMMA KeepingCalls ==
    ASSUME NEW n, NEW T, NEW round, NEW held, NEW rel
    PROVE  /\ Keeping(Calls(n, T, round, held, None))
           /\ Handing(Calls(n, T, round, held, rel), T)
  BY CallsMembers DEF Keeping, Handing

(* A call that was on its way before, or one like it. *)
WasSent(o) == \E m \in renews : m.epoch = o.epoch /\ m.release = o.release

LEMMA OrphanedSent ==
    ASSUME TypeOK, NEW n
    PROVE  \A o \in Orphaned(n) : WasSent(o)
  <1>1. renews \subseteq Renew
    BY DEF TypeOK
  <1> QED
    BY <1>1, OrphanedMembers DEF WasSent

LEMMA ReleasesSent ==
    ASSUME TypeOK, [Next]_vars, NEW o \in renews', o.release # None
    PROVE  WasSent(o) \/ \E n \in Voters : Release(n) /\ o.epoch = led[n]
  <1> DEFINE Goal == WasSent(o) \/ \E n \in Voters : Release(n) /\ o.epoch = led[n]
  <1>1. CASE o \in renews BY <1>1 DEF WasSent
  <1>2. ASSUME NEW n, o \in Orphaned(n) PROVE WasSent(o) BY <1>2, OrphanedSent
  <1>3. ASSUME NEW n, NEW T, NEW round, NEW held, o \in Calls(n, T, round, held, None) PROVE FALSE
    BY <1>3, KeepingCalls DEF Keeping
  <1>4. CASE Tick
    <2>1. PICK run : Ticked(run)
      BY <1>4, TickTicks
    <2> QED
      BY <2>1, TickedCalls DEF WasSent
  <1>5. ASSUME NEW n \in Voters, MemberStep(n) PROVE Goal
    <2>1. CASE renews' \subseteq renews BY <2>1, <1>1
    <2>2. CASE renews' \subseteq Orphaned(n) BY <2>2, <1>2
    <2>3. CASE PlannedRestart(n)
      <3>1. o \in Orphaned(n) \/ o \in Calls(n, led[n], "none", TRUE, None)
        BY <2>3 DEF PlannedRestart
      <3> QED BY <3>1, <1>2, <1>3
    <2>4. CASE Won(n)
      <3>1. o \in renews \/ o \in Calls(n, campEpoch[n], "none", TRUE, None)
        BY <2>4 DEF Won
      <3> QED BY <3>1, <1>1, <1>3
    <2>5. CASE BootAndLeave(n) \/ StartRound(n) \/ \E reboot \in Reboots : Boot(n, reboot)
      <3>1. \E round : renews' \subseteq renews \cup Calls(n, led[n], round, FALSE, None)
        BY <2>5 DEF BootAndLeave, StartRound, Boot
      <3> QED BY <3>1, <1>1, <1>3
    <2>6. CASE Release(n)
      <3>1. Handing(Calls(n, led[n], "none", FALSE, transferTo[n]), led[n])
        BY KeepingCalls
      <3>2. o \in renews \/ o \in Calls(n, led[n], "none", FALSE, transferTo[n])
        BY <2>6 DEF Release
      <3> QED
        BY <2>6, <3>1, <3>2, <1>1 DEF Handing
    <2>7. CASE \E k \in rounds[n] : Majority(n, k)
      <3>1. PICK m \in renews : o = m \/ o = Unanswered(m)
        BY <2>7 DEF Majority
      <3>2. m \in Renew
        BY DEF TypeOK
      <3> QED
        BY <3>1, <3>2, UnansweredType DEF WasSent
    <2>8. CASE \/ Crash(n) \/ LeavesLead(n) \/ BootFailed(n)
               \/ (\E q \in voteReqs : GrantVote(n, q) \/ GrantAndLeave(n, q))
               \/ (\E m \in renews : OnRenew(n, m))
      BY <2>2, <2>8 DEF Crash, LeavesLead, BootFailed, GrantVote, GrantAndLeave, OnRenew
    <2>9. CASE \/ \E T \in 1..MaxEpoch : StartVote(n, T)
               \/ \E c \in campaigns : OnCampaign(n, c)
      BY <2>1, <2>9 DEF StartVote, OnCampaign, CastOwnVote
    <2>10. CASE \/ CampaignLost(n) \/ (\E t \in Targets : TransferTo(n, t)) \/ TransferRefused(n)
                \/ SendCampaign(n)
      BY <2>1, <2>10 DEF CampaignLost, TransferTo, TransferRefused, SendCampaign, network
    <2> QED
      BY <1>5, <2>3, <2>4, <2>5, <2>6, <2>7, <2>8, <2>9, <2>10
      DEF MemberStep, Lose, TermMovedOn, SeesHigherEpoch, ToldToStepDown, TransferLost
  <1>6. CASE (\E m \in renews : LoseCall(m)) \/ UNCHANGED vars
    BY <1>1, <1>6 DEF LoseCall, vars, network
  <1> QED
    BY <1>4, <1>5, <1>6 DEF Next

(* What a member does to its own allowance: it keeps it, loses it, is given  *)
(* one by a renewal, or gives it to itself by a release.                     *)
LEMMA AllowanceMoves ==
    ASSUME TypeOK, NEW n \in Voters, MemberStep(n)
    PROVE  \/ allow'[n] = 0
           \/ allow'[n] = allow[n] /\ allowEpoch'[n] = allowEpoch[n]
           \/ Release(n)
           \/ \E m \in renews : OnRenew(n, m)
  <1> DEFINE Kept == allow'[n] = 0 \/ (allow'[n] = allow[n] /\ allowEpoch'[n] = allowEpoch[n])
  <1>1. CASE Forget(n) BY <1>1 DEF Forget, TypeOK
  <1>2. CASE UNCHANGED <<allow, allowEpoch>> BY <1>2
  <1>3. ASSUME NEW T, CastOwnVote(n, T) PROVE Kept
    BY <1>3 DEF CastOwnVote, TypeOK
  <1>4. CASE \/ \E T \in 1..MaxEpoch : StartVote(n, T)
             \/ \E c \in campaigns : OnCampaign(n, c)
    BY <1>3, <1>4 DEF StartVote, OnCampaign
  <1>5. CASE \E q \in voteReqs : GrantVote(n, q) BY <1>5 DEF GrantVote, TypeOK
  <1>6. CASE \/ Crash(n) \/ (\E q \in voteReqs : GrantAndLeave(n, q)) \/ Won(n) \/ LeavesLead(n)
             \/ PlannedRestart(n)
    BY <1>1, <1>6 DEF Crash, GrantAndLeave, Won, PlannedRestart, LeavesLead, StepDown
  <1>7. CASE \/ \E reboot \in Reboots : Boot(n, reboot)
             \/ BootAndLeave(n) \/ BootFailed(n) \/ CampaignLost(n)
    BY <1>2, <1>7 DEF Boot, BootAndLeave, BootFailed, CampaignLost, asVoter
  <1>8. CASE \/ StartRound(n) \/ (\E k \in rounds[n] : Majority(n, k))
             \/ (\E t \in Targets : TransferTo(n, t)) \/ TransferRefused(n) \/ SendCampaign(n)
    BY <1>2, <1>8 DEF StartRound, Majority, TransferTo, TransferRefused, SendCampaign, asVoter
  <1> QED
    BY <1>4, <1>5, <1>6, <1>7, <1>8
    DEF MemberStep, Lose, TermMovedOn, SeesHigherEpoch, ToldToStepDown, TransferLost

LEMMA AllowNext ==
    ASSUME ElectionInv, TypeOK', AllowInv, [Next]_vars
    PROVE  AllowInv'
  <1> DEFINE Fine(v) == allow'[v] > 0 =>
                allowEpoch'[v] <= epoch'[v] + 1 /\ WrittenNext(allowEpoch'[v])
  <1>0. TypeOK /\ \A v \in Voters : /\ allow[v] \in Nat /\ allowEpoch[v] \in Nat /\ epoch[v] \in Nat
                                    /\ epoch'[v] \in Nat
    BY Durations DEF ElectionInv, TypeOK
  <1>1. \A v \in Voters : epoch'[v] >= epoch[v]
    BY StepMovesVotes DEF VotesMove
  <1>2. \A U : WroteHandOver(U) => WrittenNext(U)
    BY StaysWritten
  <1>3. ASSUME NEW v \in Voters, allow'[v] > 0 => allow[v] > 0, allowEpoch'[v] = allowEpoch[v]
        PROVE  Fine(v)
    BY <1>0, <1>1, <1>2, <1>3 DEF AllowInv
  <1>4. ASSUME NEW v \in Voters PROVE Fine(v)
    <2>1. CASE Tick
      <3>1. PICK run : Ticked(run)
        BY <2>1, TickTicks
      <3>2. run[v] \in Nat /\ allow'[v] = Left(allow[v], run[v]) /\ allowEpoch'[v] = allowEpoch[v]
        BY <3>1 DEF Ticked
      <3>3. allow'[v] > 0 => allow[v] > 0
        BY <1>0, <3>2 DEF Left
      <3> QED
        BY <1>3, <3>2, <3>3
    <2>2. ASSUME NEW y \in Voters, MemberStep(y), y # v PROVE Fine(v)
      <3>1. SameMember(v)
        BY <1>0, <2>2, OthersUntouched
      <3> QED
        BY <1>3, <3>1 DEF SameMember
    <2>3. CASE MemberStep(v)
      <3>1. CASE allow'[v] = 0 BY <3>1
      <3>2. CASE allow'[v] = allow[v] /\ allowEpoch'[v] = allowEpoch[v] BY <1>3, <3>2
      <3>3. CASE Release(v)
        <4>1. allowEpoch'[v] = led[v] + 1 /\ epoch'[v] = led[v]
          BY <1>0, <3>3 DEF Release, OwnTerm, TypeOK
        <4>2. WrittenNext(led[v] + 1)
          BY <3>3, ReleaseWrites
        <4> QED
          BY <1>0, <4>1, <4>2
      <3>4. ASSUME NEW m \in renews, OnRenew(v, m) PROVE Fine(v)
        <4>1. epoch'[v] = m.epoch /\ m.epoch \in Nat
          BY <1>0, <3>4 DEF OnRenew, TypeOK, Renew
        <4>2. CASE m.release # None
          <5>1. allowEpoch'[v] = m.epoch + 1
            BY <1>0, <3>4, <4>2 DEF OnRenew, TypeOK
          <5>2. WrittenNext(m.epoch + 1)
            BY <1>2, <4>2 DEF AllowInv
          <5> QED
            BY <4>1, <5>1, <5>2
        <4>3. CASE m.release = None /\ allowEpoch[v] = m.epoch + 1
          <5>1. allowEpoch'[v] = allowEpoch[v] /\ allow'[v] = allow[v]
            BY <1>0, <3>4, <4>3 DEF OnRenew, TypeOK
          <5> QED
            BY <1>3, <5>1
        <4>4. CASE m.release = None /\ allowEpoch[v] # m.epoch + 1
          <5>1. allow'[v] = 0
            BY <1>0, <3>4, <4>4 DEF OnRenew, TypeOK
          <5> QED
            BY <5>1
        <4> QED BY <4>2, <4>3, <4>4
      <3> HIDE DEF Fine
      <3> QED
        BY <1>0, <2>3, <3>1, <3>2, <3>3, <3>4, AllowanceMoves
    <2>4. CASE (\E m \in renews : LoseCall(m)) \/ UNCHANGED vars
      BY <1>3, <2>4 DEF LoseCall, vars, asVoter
    <2> HIDE DEF Fine
    <2> QED
      BY <2>1, <2>2, <2>3, <2>4 DEF Next
  <1>5. ASSUME NEW o \in renews', o.release # None PROVE WrittenNext(o.epoch + 1)
    <2>1. CASE WasSent(o)
      <3>1. WroteHandOver(o.epoch + 1)
        BY <1>5, <2>1 DEF WasSent, AllowInv
      <3> QED
        BY <1>2, <3>1
    <2>2. CASE \E n \in Voters : Release(n) /\ o.epoch = led[n]
      BY <2>2, ReleaseWrites
    <2> QED
      BY <1>0, <1>5, <2>1, <2>2, ReleasesSent
  <1> QED
    BY <1>4, <1>5 DEF AllowInv, WroteHandOver, WrittenNext

-----------------------------------------------------------------------------
(* Protection: a voter that protects a leader keeps doing so. *)

(* A leader that still counts. *)
Counting(n) == Leads(n) /\ OwnTerm(n) /\ released[n] # led[n] + 1

LEMMA WhoCounts ==
    ASSUME ProcessInv, NEW n \in Voters,
           lease[n] > 0 \/ (Renewing(n) /\ \E k \in rounds[n] : TRUE)
    PROVE  Counting(n)
  BY DEF ProcessInv, ProcessOK, Counting

ProtectedNext(v, n, x) ==
    /\ epoch'[v] = led'[n] /\ voted'[v] = n
    /\ up'[v] => \/ promiseTo'[v] = n /\ 11 * x <= 9 * promise'[v]
                 \/ 11 * x <= 9 * hold'[v]

(* No rule lets a protecting voter into a later term but with the leader:    *)
(* only a term that was handed on is allowed, and then the leader stopped.   *)
LEMMA Shielded ==
    ASSUME ElectionInv, AllowInv, NEW n \in Voters, Counting(n), NEW v \in Voters \ {n},
           NEW x \in Nat, x > 0, Protected(v, n, x), up[v],
           NEW cand \in Data, NEW T \in Nat, T > epoch[v],
           PromiseLive(v) => promiseTo[v] = cand \/ Allowance(v, cand, T),
           hold[v] > 0 => cand = voted[v] \/ Allowance(v, cand, T)
    PROVE  cand = n
  <1>0. /\ epoch[v] \in Nat /\ led[n] \in Nat /\ epoch[v] = led[n] /\ voted[v] = n
        /\ promise[v] \in Nat /\ hold[v] \in Nat /\ n # None
        /\ (promiseTo[v] = n /\ 11 * x <= 9 * promise[v]) \/ 11 * x <= 9 * hold[v]
    BY Durations, VotersAssumption DEF ElectionInv, TypeOK, Protected
  <1>1. ~Allowance(v, cand, T)
    <2>1. SUFFICES ASSUME Allowance(v, cand, T) PROVE FALSE
      OBVIOUS
    <2>2. T <= epoch[v] + 1 /\ WroteHandOver(T)
      BY <2>1 DEF AllowInv, Allowance
    <2>3. T = led[n] + 1
      BY <1>0, <2>2
    <2> QED
      BY <2>2, <2>3 DEF WroteHandOver, Counting, Leads
  <1>2. CASE promiseTo[v] = n /\ 11 * x <= 9 * promise[v]
    <2>1. PromiseLive(v)
      BY <1>0, <1>2 DEF PromiseLive
    <2> QED
      BY <1>1, <1>2, <2>1
  <1>3. CASE 11 * x <= 9 * hold[v]
    <2>1. hold[v] > 0
      BY <1>0, <1>3
    <2> QED
      BY <1>0, <1>1, <2>1
  <1> QED BY <1>0, <1>2, <1>3

(* A vote such a voter grants is the one it gave before. *)
LEMMA GrantShielded ==
    ASSUME ElectionInv, AllowInv, NEW n \in Voters, Counting(n), NEW v \in Voters \ {n},
           NEW x \in Nat, x > 0, Protected(v, n, x), up[v], NEW q \in voteReqs, Grants(v, q)
    PROVE  q.from = n /\ q.epoch = led[n]
  <1>0. /\ q.from \in Data /\ q.epoch \in Nat /\ epoch[v] \in Nat /\ epoch[n] \in Nat
        /\ epoch[v] = led[n] /\ voted[v] = n /\ epoch[n] = led[n] /\ n # None
    BY VotersAssumption DEF ElectionInv, TypeOK, VoteReq, Protected, Counting, OwnTerm
  <1>1. VoteRules(v, q.from, q.epoch)
    BY DEF Grants
  <1>2. CASE q.epoch > epoch[v]
    <2>1. q.from = n
      BY <1>0, <1>1, <1>2, Shielded DEF VoteRules
    <2>2. q.epoch <= epoch[n]
      BY <2>1 DEF ElectionInv, VoteReqInv
    <2> QED
      BY <1>0, <1>2, <2>2
  <1>3. CASE ~(q.epoch > epoch[v])
    BY <1>0, <1>1, <1>3 DEF VoteRules
  <1> QED BY <1>2, <1>3

(* What the rounds of a leader are worth, a promise and a hold outlive. *)
LEMMA PromiseCovers ==
    ASSUME NEW x \in Nat, x <= PerRound
    PROVE  11 * x <= 9 * P /\ 11 * x <= 9 * WonHold /\ 11 * x <= 9 * HoldAfterStart
  BY Durations

LEMMA KeepsProtection ==
    ASSUME ElectionInv, AllowInv, Forgetful = {}, NEW v \in Voters, MemberStep(v),
           NEW n \in Voters \ {v}, Counting(n), NEW x \in Nat, x > 0, x <= PerRound,
           Protected(v, n, x)
    PROVE  ProtectedNext(v, n, x) \/ \E w \in won : w.epoch > led[n]
  <1>0. TypeOK /\ led'[n] = led[n] /\ epoch[v] = led[n] /\ voted[v] = n
    BY OthersUntouched DEF ElectionInv, SameMember, Protected
  <1>1. ASSUME epoch'[v] = epoch[v], voted'[v] = voted[v], ~up'[v]
        PROVE  ProtectedNext(v, n, x)
    BY <1>0, <1>1 DEF ProtectedNext
  <1>2. ASSUME UNCHANGED <<epoch, voted, up, promiseTo, promise, hold>>
        PROVE  ProtectedNext(v, n, x)
    BY <1>0, <1>2 DEF ProtectedNext, Protected
  <1>3. Forget(v) => ~up'[v]
    BY <1>0 DEF Forget, TypeOK
  <1>4. CASE Crash(v) \/ Won(v) \/ LeavesLead(v) \/ PlannedRestart(v)
    BY <1>1, <1>3, <1>4 DEF Crash, Won, LeavesLead, PlannedRestart, StepDown, disk
  <1>5. CASE \E reboot \in Reboots : Boot(v, reboot)
    <2>1. hold' = [hold EXCEPT ![v] = HoldAfterStart] /\ UNCHANGED <<epoch, voted>>
      BY <1>5 DEF Boot
    <2>2. hold'[v] = HoldAfterStart
      BY <1>0, <2>1 DEF TypeOK
    <2> QED
      BY <1>0, <2>1, <2>2, PromiseCovers DEF ProtectedNext
  <1>6. CASE \/ BootAndLeave(v) \/ BootFailed(v) \/ CampaignLost(v) \/ StartRound(v)
             \/ (\E k \in rounds[v] : Majority(v, k))
             \/ (\E t \in Targets : TransferTo(v, t))
             \/ TransferRefused(v) \/ Release(v) \/ SendCampaign(v)
    <2>1. UNCHANGED <<epoch, voted, up, promiseTo, promise, hold>>
      BY <1>6 DEF BootAndLeave, BootFailed, CampaignLost, StartRound, Majority, TransferTo,
                  TransferRefused, Release, SendCampaign, disk, asVoter
    <2> QED
      BY <1>2, <2>1
  <1>7. ASSUME OwnVote(v) PROVE FALSE
    <2>1. PICK T \in Epochs : T > epoch[v] /\ SelfOk(v, T) /\ up[v] /\ v \in Data
      BY <1>7 DEF OwnVote, CastOwnVote
    <2> QED
      BY <2>1, Shielded DEF SelfOk
  <1>8. CASE \/ \E T \in 1..MaxEpoch : StartVote(v, T)
             \/ \E c \in campaigns : OnCampaign(v, c)
    <2>1. CASE \E T \in 1..MaxEpoch : StartVote(v, T)
      BY <1>7, <2>1, BoundAssumption DEF StartVote, OwnVote
    <2>2. ASSUME NEW c \in campaigns, OnCampaign(v, c) PROVE FALSE
      <3>1. c.epoch + 1 \in Epochs /\ v \in Data
        BY <1>0, <2>2, BoundAssumption DEF OnCampaign, TypeOK
      <3> QED
        BY <1>7, <2>2, <3>1 DEF OnCampaign, OwnVote
    <2> QED BY <1>8, <2>1, <2>2
  <1>9. ASSUME NEW q \in voteReqs, GrantVote(v, q) PROVE ProtectedNext(v, n, x)
    <2>1. q.from = n /\ q.epoch = led[n]
      BY <1>9, GrantVoteGrants, GrantShielded DEF GrantVote
    <2>2. /\ epoch'[v] = led[n] /\ voted'[v] = n /\ promiseTo'[v] = n /\ promise'[v] = P
      BY <1>0, <1>9, <2>1 DEF GrantVote, VoteWritten, TypeOK
    <2> QED
      BY <1>0, <2>2, PromiseCovers DEF ProtectedNext
  <1>10. ASSUME NEW q \in voteReqs, GrantAndLeave(v, q) PROVE ProtectedNext(v, n, x)
    <2>1. up[v]
      BY <1>10 DEF GrantAndLeave, HandedTo, Leads
    <2>2. q.from = n /\ q.epoch = led[n]
      BY <1>10, <2>1, GrantAndLeaveGrants, GrantShielded
    <2>3. epoch'[v] = led[n] /\ voted'[v] = n /\ ~up'[v]
      BY <1>0, <1>3, <1>10, <2>2 DEF GrantAndLeave, StepDown, VoteWritten, TypeOK
    <2> QED
      BY <1>0, <2>3 DEF ProtectedNext
  <1>11. ASSUME NEW m \in renews, OnRenew(v, m)
         PROVE  ProtectedNext(v, n, x) \/ \E w \in won : w.epoch > led[n]
    <2>1. m.epoch \in Nat /\ led[n] \in Nat /\ m.epoch >= led[n] /\ WonBy(m.from, m.epoch)
      BY <1>0, <1>11 DEF OnRenew, ElectionInv, LeaderInv, TypeOK, Renew
    <2>2. CASE m.epoch > led[n]
      BY <2>1, <2>2 DEF WonBy
    <2>3. CASE m.epoch = led[n]
      <3>1. WonBy(n, led[n])
        BY DEF Counting, Leads, ElectionInv, LeaderInv
      <3>2. m.from = n
        BY <2>1, <2>3, <3>1 DEF WonBy, ElectionInv, OneLeaderPerTerm
      <3>3. /\ epoch'[v] = led[n] /\ voted'[v] = n /\ promiseTo'[v] = n
            /\ promise'[v] \in {WonHold, P}
        BY <1>0, <1>11, <2>3, <3>2 DEF OnRenew, TypeOK
      <3> QED
        BY <1>0, <3>3, PromiseCovers DEF ProtectedNext
    <2> QED BY <2>1, <2>2, <2>3
  <1> QED
    BY <1>4, <1>5, <1>6, <1>8, <1>9, <1>10, <1>11
    DEF MemberStep, Lose, TermMovedOn, SeesHigherEpoch, ToldToStepDown, TransferLost

(* The same whoever takes the step. *)
LEMMA KeepsProtecting ==
    ASSUME ElectionInv, AllowInv, Forgetful = {}, NEW y \in Voters, MemberStep(y),
           NEW n \in Voters, Counting(n), led'[n] = led[n], NEW v \in Voters \ {n},
           NEW x \in Nat, x > 0, x <= PerRound, Protected(v, n, x)
    PROVE  ProtectedNext(v, n, x) \/ \E w \in won : w.epoch > led[n]
  <1>1. CASE y = v BY <1>1, KeepsProtection
  <1>2. CASE y # v
    <2>1. SameMember(v)
      BY <1>2, OthersUntouched DEF ElectionInv
    <2> QED
      BY <2>1 DEF SameMember, Protected, ProtectedNext
  <1> QED BY <1>1, <1>2

-----------------------------------------------------------------------------
(* Leases rest on majorities. *)

(* While a majority is in the leader's term, nobody won a later one. *)
LEMMA NoLaterWin ==
    ASSUME ElectionInv, NEW n \in Voters, OwnTerm(n), NEW Q \in Quorum,
           \A v \in Q \ {n} : epoch[v] = led[n]
    PROVE  \A w \in won : ~(w.epoch > led[n])
  <1>1. SUFFICES ASSUME NEW w \in won, w.epoch > led[n] PROVE FALSE
    OBVIOUS
  <1>2. PICK v \in Voters : v \in Q /\ v \in w.quorum
    BY QuorumsMeet DEF ElectionInv, WonInv
  <1>3. epoch[v] = led[n]
    BY <1>2 DEF OwnTerm
  <1>4. epoch[v] > w.epoch \/ epoch[v] = w.epoch
    BY <1>2 DEF ElectionInv, WonInv
  <1>5. epoch[v] \in Nat /\ w.epoch \in Nat
    BY <1>2 DEF ElectionInv, TypeOK
  <1> QED
    BY <1>1, <1>3, <1>4, <1>5

(* Only a majority renews a lease. *)
LEMMA LeaseMoves ==
    ASSUME TypeOK, NEW y \in Voters, MemberStep(y), NEW n \in Voters, lease'[n] > 0
    PROVE  /\ led'[n] = led[n]
           /\ lease'[n] = lease[n] \/ \E k \in rounds[n] : Majority(n, k)
  <1>1. CASE y # n
    BY <1>1, OthersUntouched DEF SameMember
  <1>2. CASE y = n
    <2>0. MemberStep(n)
      BY <1>2
    <2>1. ~Forget(n)
      BY DEF Forget, TypeOK
    <2>2. CASE \E k \in rounds[n] : Majority(n, k)
      BY <2>2 DEF Majority, disk
    <2>3. ASSUME Release(n) PROVE FALSE
      BY <2>3 DEF Release, TypeOK
    <2>4. CASE UNCHANGED <<led, lease>> BY <2>4
    <2>5. CASE \/ \E T \in 1..MaxEpoch : StartVote(n, T)
               \/ \E c \in campaigns : OnCampaign(n, c)
      BY <2>4, <2>5 DEF StartVote, OnCampaign, CastOwnVote, asLeader
    <2>6. CASE \/ \E reboot \in Reboots : Boot(n, reboot)
               \/ BootAndLeave(n) \/ BootFailed(n) \/ CampaignLost(n)
      BY <2>4, <2>6 DEF Boot, BootAndLeave, BootFailed, CampaignLost, asLeader, disk
    <2>7. CASE (\E q \in voteReqs : GrantVote(n, q)) \/ (\E m \in renews : OnRenew(n, m))
      BY <2>4, <2>7 DEF GrantVote, OnRenew
    <2>8. CASE \/ StartRound(n) \/ (\E t \in Targets : TransferTo(n, t))
               \/ TransferRefused(n) \/ SendCampaign(n)
      BY <2>4, <2>8 DEF StartRound, TransferTo, TransferRefused, SendCampaign, disk
    <2>9. CASE \/ Crash(n) \/ (\E q \in voteReqs : GrantAndLeave(n, q)) \/ Won(n) \/ LeavesLead(n)
               \/ PlannedRestart(n)
      BY <2>1, <2>9 DEF Crash, GrantAndLeave, Won, PlannedRestart, LeavesLead, StepDown
    <2> QED
      BY <2>0, <2>2, <2>3, <2>5, <2>6, <2>7, <2>8, <2>9
      DEF MemberStep, Lose, TermMovedOn, SeesHigherEpoch, ToldToStepDown, TransferLost
  <1> QED BY <1>1, <1>2

BackedNext(n) ==
    \E Q \in Quorum : n \in Q /\ \A v \in Q \ {n} : ProtectedNext(v, n, lease'[n])

LEMMA BackedStep ==
    ASSUME ElectionInv, ProcessInv, AllowInv, BackedInv, AckedInv, Forgetful = {},
           NEW y \in Voters, MemberStep(y), NEW n \in Voters, lease'[n] > 0
    PROVE  BackedNext(n)
  <1>0. TypeOK /\ lease[n] \in 0..PerRound /\ PerRound \in Nat
    BY Durations DEF ElectionInv, TypeOK
  <1>1. led'[n] = led[n] /\ (lease'[n] = lease[n] \/ \E k \in rounds[n] : Majority(n, k))
    BY <1>0, LeaseMoves
  <1>2. CASE lease'[n] = lease[n]
    <2>1. Counting(n) /\ OwnTerm(n)
      BY <1>2, WhoCounts DEF Counting
    <2>2. PICK Q \in Quorum : n \in Q /\ \A v \in Q \ {n} : Protected(v, n, lease[n])
      BY <1>2 DEF BackedInv
    <2>3. \A w \in won : ~(w.epoch > led[n])
      BY <2>1, <2>2, NoLaterWin DEF Protected
    <2>4. ASSUME NEW v \in Q \ {n} PROVE ProtectedNext(v, n, lease[n])
      <3>1. v \in Voters \ {n}
        BY DEF Quorum
      <3>2. lease[n] \in Nat /\ lease[n] > 0 /\ lease[n] <= PerRound
        BY <1>0, <1>2
      <3> QED
        BY <1>1, <2>1, <2>2, <2>3, <3>1, <3>2, KeepsProtecting
    <2> QED
      BY <1>2, <2>2, <2>4 DEF BackedNext
  <1>3. ASSUME NEW k \in rounds[n], Majority(n, k), lease'[n] # lease[n]
        PROVE  BackedNext(n)
    <2>0. k.age \in Nat /\ lease'[n] = PerRound - k.age
      <3>1. k \in [kind : RoundKinds, age : 0..PerRound]
        BY <1>0 DEF TypeOK
      <3>2. lease'[n] = Max2(lease[n], WorthOf(k))
        BY <1>0, <1>3 DEF Majority, TypeOK
      <3> QED
        BY <1>3, <3>1, <3>2, Durations DEF Max2, WorthOf
    <2>1. Renewing(n) /\ AckedBy(n, k) \in Quorum /\ n \in AckedBy(n, k)
      BY <1>3 DEF Majority, AckedBy
    <2>2. Counting(n)
      BY <2>1, WhoCounts
    <2>3. \A v \in AckedBy(n, k) \ {n} : Protected(v, n, PerRound - k.age)
      <3>1. SUFFICES ASSUME NEW w \in won, w.quorum \cap AckedBy(n, k) = {} PROVE FALSE
        BY <2>1 DEF AckedInv
      <3> QED
        BY <2>1, <3>1, QuorumsMeet DEF ElectionInv, WonInv
    <2>4. UNCHANGED <<epoch, voted, led, up, promiseTo, promise, hold>>
      BY <1>3 DEF Majority, disk, asVoter
    <2>5. \A v \in AckedBy(n, k) \ {n} : ProtectedNext(v, n, lease'[n])
      BY <2>0, <2>3, <2>4 DEF Protected, ProtectedNext
    <2> QED
      BY <2>1, <2>5 DEF BackedNext
  <1> QED BY <1>1, <1>2, <1>3

(* A tick takes no more of a protection than of what it protects: 11/9 of    *)
(* what the slowest clock counts is what the fastest counts.                 *)
LEMMA TickedProtection ==
    ASSUME TypeOK, NEW run, Ticked(run), NEW n \in Voters, NEW v \in Voters, NEW x \in Nat,
           x > run[n], Protected(v, n, x)
    PROVE  ProtectedNext(v, n, x - run[n])
  <1>1. /\ run[n] \in 9..11 /\ run[v] \in 9..11
        /\ promise[v] \in Nat /\ hold[v] \in Nat
        /\ promise'[v] = Left(promise[v], run[v]) /\ hold'[v] = Left(hold[v], run[v])
        /\ UNCHANGED <<epoch, voted, led, up, promiseTo>>
    BY Durations DEF Ticked, TypeOK
  <1>2. ASSUME NEW p \in Nat, 11 * x <= 9 * p
        PROVE  11 * (x - run[n]) <= 9 * Left(p, run[v])
    BY <1>1, <1>2 DEF Left
  <1> QED
    BY <1>1, <1>2 DEF Protected, ProtectedNext

LEMMA BackedTick ==
    ASSUME ElectionInv, BackedInv, Tick, NEW n \in Voters, lease'[n] > 0
    PROVE  BackedNext(n)
  <1>0. TypeOK /\ lease[n] \in Nat
    BY Durations DEF ElectionInv, TypeOK
  <1>1. PICK run : Ticked(run)
    BY TickTicks
  <1>2. run[n] \in Nat /\ lease'[n] = Left(lease[n], run[n])
    BY <1>1 DEF Ticked
  <1>3. lease[n] > run[n] /\ lease'[n] = lease[n] - run[n] /\ lease[n] > 0
    BY <1>0, <1>2 DEF Left
  <1>4. PICK Q \in Quorum : n \in Q /\ \A v \in Q \ {n} : Protected(v, n, lease[n])
    BY <1>3 DEF BackedInv
  <1>5. \A v \in Q \ {n} : ProtectedNext(v, n, lease'[n])
    <2>1. Q \subseteq Voters
      BY DEF Quorum
    <2> QED
      BY <1>0, <1>1, <1>3, <1>4, <2>1, TickedProtection
  <1> QED
    BY <1>4, <1>5 DEF BackedNext

-----------------------------------------------------------------------------
(* Whoever answered protects. *)

(* The answer v gives to m in this step. *)
Answers(v, m, a) ==
    /\ OnRenew(v, m) /\ m.round # "none"
    /\ a.from = v /\ a.to = m.from /\ a.round = m.round /\ a.age = m.age

LEMMA AcksMove ==
    ASSUME NEW y \in Voters, MemberStep(y), NEW a \in acks'
    PROVE  a \in acks \/ \E m \in renews : Answers(y, m, a)
  <1>1. CASE acks' \subseteq acks BY <1>1
  <1>2. CASE acks' = NotTo(y, acks) BY <1>2 DEF NotTo
  <1>3. CASE Forget(y) BY <1>2, <1>3 DEF Forget
  <1>4. CASE \/ Crash(y) \/ (\E q \in voteReqs : GrantAndLeave(y, q)) \/ Won(y) \/ LeavesLead(y)
             \/ PlannedRestart(y)
    BY <1>3, <1>4 DEF Crash, GrantAndLeave, Won, PlannedRestart, LeavesLead, StepDown
  <1>5. CASE BootFailed(y) \/ \E q \in voteReqs : GrantVote(y, q)
    BY <1>2, <1>5 DEF BootFailed, GrantVote
  <1>6. ASSUME NEW m \in renews, OnRenew(y, m), a \notin acks PROVE Answers(y, m, a)
    <2>1. m.round # "none" /\ a = [from |-> y, to |-> m.from, round |-> m.round, age |-> m.age]
      BY <1>6 DEF OnRenew, NotTo
    <2> QED
      BY <1>6, <2>1 DEF Answers
  <1>7. CASE \E k \in rounds[y] : Majority(y, k) BY <1>1, <1>7 DEF Majority
  <1>8. CASE \/ \E T \in 1..MaxEpoch : StartVote(y, T)
             \/ \E c \in campaigns : OnCampaign(y, c)
    BY <1>1, <1>8 DEF StartVote, OnCampaign, CastOwnVote
  <1>9. CASE (\E reboot \in Reboots : Boot(y, reboot)) \/ BootAndLeave(y)
    BY <1>1, <1>9 DEF Boot, BootAndLeave
  <1>10. CASE \/ CampaignLost(y) \/ StartRound(y) \/ (\E t \in Targets : TransferTo(y, t))
              \/ TransferRefused(y) \/ Release(y) \/ SendCampaign(y)
    BY <1>1, <1>10 DEF CampaignLost, StartRound, TransferTo, TransferRefused, Release, SendCampaign,
                       network
  <1> QED
    BY <1>4, <1>5, <1>6, <1>7, <1>8, <1>9, <1>10
    DEF MemberStep, Lose, TermMovedOn, SeesHigherEpoch, ToldToStepDown, TransferLost

Counts(a, n, k) == a.to = n /\ a.round = k.kind /\ a.age = k.age
AckedNext(n, k) == {n} \cup {a.from : a \in {x \in acks' : Counts(x, n, k)}}

(* A round a member goes on counting was open before, or nobody answered it. *)
LEMMA RoundsMove ==
    ASSUME ElectionInv, ProcessInv, RoundInv, NEW y \in Voters, MemberStep(y), NEW n \in Voters,
           up'[n], role'[n] = "leader", transferPhase'[n] \in {"none", "catchup"},
           NEW k \in rounds'[n]
    PROVE  /\ led'[n] = led[n]
           /\ \/ Renewing(n) /\ k \in rounds[n]
              \/ \A a \in acks' : ~Counts(a, n, k)
  <1> DEFINE Goal == /\ led'[n] = led[n]
                     /\ \/ Renewing(n) /\ k \in rounds[n]
                        \/ \A a \in acks' : ~Counts(a, n, k)
  <1>0. TypeOK /\ ProcessOK(n)
    BY DEF ElectionInv, ProcessInv
  <1>1. CASE y # n
    BY <1>0, <1>1, OthersUntouched DEF SameMember, Renewing, Leads
  <1>2. CASE y = n
    <2>0. MemberStep(n)
      BY <1>2
    <2>1. ASSUME Forget(n) PROVE FALSE
      BY <1>0, <2>1 DEF Forget, TypeOK
    <2>2. CASE StartRound(n)
      <3>1. /\ led'[n] = led[n] /\ Renewing(n) /\ UNCHANGED acks
            /\ \A j \in rounds[n] : j.age > 0
            /\ k \in rounds[n] \/ k.age = 0
        BY <1>0, <2>2 DEF StartRound, disk, TypeOK
      <3>2. CASE k.age = 0
        <4>1. ASSUME NEW a \in acks, Counts(a, n, k) PROVE FALSE
          <5>1. [kind |-> a.round, age |-> a.age] \in rounds[n] /\ a.age = 0
            BY <3>2, <4>1 DEF RoundInv, Counts
          <5>2. [kind |-> a.round, age |-> a.age].age = a.age
            OBVIOUS
          <5> QED
            BY <3>1, <5>1, <5>2
        <4> QED
          BY <3>1, <4>1
      <3> QED BY <3>1, <3>2
    <2>3. CASE \E reboot \in Reboots : Boot(n, reboot)
      <3>1. ~Leads(n) /\ UNCHANGED <<led, acks>>
        BY <2>3 DEF Boot, Leads
      <3> QED
        BY <3>1, IdleProcess DEF Counts
    <2>4. CASE BootFailed(n) \/ (\E q \in voteReqs : GrantVote(n, q)) \/ \E m \in renews : OnRenew(n, m)
      <3>1. LeaveBoot(n) /\ UNCHANGED <<led, transferPhase>>
        BY <2>4 DEF BootFailed, GrantVote, OnRenew
      <3>2. k \in rounds[n]
        BY <1>0, <3>1 DEF LeaveBoot, TypeOK
      <3>3. Renewing(n)
        BY <1>0, <3>1, <3>2 DEF ProcessOK, Renewing
      <3> QED BY <3>1, <3>2, <3>3
    <2>5. CASE \E j \in rounds[n] : Majority(n, j)
      BY <1>0, <2>5 DEF Majority, disk, TypeOK
    <2>6. CASE CampaignLost(n)
      BY <2>6 DEF CampaignLost, disk, asLeader, Renewing, Leads
    <2>7. CASE (\E t \in Targets : TransferTo(n, t)) \/ TransferRefused(n)
      <3>1. /\ UNCHANGED <<led, rounds>> /\ Leads(n) /\ transferPhase[n] \in {"none", "catchup"}
        BY <2>7 DEF TransferTo, TransferRefused, IsActive, HoldsLease, disk
      <3> QED
        BY <3>1 DEF Renewing
    <2>8. ASSUME Release(n) \/ SendCampaign(n) PROVE FALSE
      BY <1>0, <2>8 DEF Release, SendCampaign, TransferStep, TypeOK
    <2>9. ASSUME \/ \E T \in 1..MaxEpoch : StartVote(n, T)
                 \/ \E c \in campaigns : OnCampaign(n, c)
          PROVE FALSE
      BY <2>9 DEF StartVote, OnCampaign, CastOwnVote
    <2>10. ASSUME BootAndLeave(n) PROVE FALSE
      BY <2>10 DEF BootAndLeave
    <2>11. ASSUME \/ Crash(n) \/ (\E q \in voteReqs : GrantAndLeave(n, q)) \/ Won(n) \/ LeavesLead(n)
                  \/ PlannedRestart(n)
           PROVE FALSE
      BY <2>1, <2>11 DEF Crash, GrantAndLeave, Won, PlannedRestart, LeavesLead, StepDown
    <2> HIDE DEF Goal
    <2> QED
      BY <2>0, <2>2, <2>3, <2>4, <2>5, <2>6, <2>7, <2>8, <2>9, <2>10, <2>11
      DEF MemberStep, Lose, TermMovedOn, SeesHigherEpoch, ToldToStepDown, TransferLost
  <1> QED BY <1>1, <1>2

(* Who voted in a later term answers no round of this one. *)
LEMMA LaterWinUnanswered ==
    ASSUME ElectionInv, ProcessInv, RoundInv, NEW y \in Voters, MemberStep(y), NEW n \in Voters,
           NEW k \in rounds[n], NEW w \in won, w.epoch > led[n], w.quorum \cap AckedBy(n, k) = {}
    PROVE  w.quorum \cap AckedNext(n, k) = {}
  <1> SUFFICES ASSUME NEW v \in AckedNext(n, k), v \in w.quorum PROVE FALSE
    OBVIOUS
  <1>0. TypeOK
    BY DEF ElectionInv
  <1>1. v \notin AckedBy(n, k)
    OBVIOUS
  <1>2. PICK a \in acks' : Counts(a, n, k) /\ a.from = v
    BY <1>1 DEF AckedNext, AckedBy
  <1>3. a \notin acks
    BY <1>1, <1>2 DEF AckedBy, Counts
  <1>4. PICK m \in renews : Answers(y, m, a)
    BY <1>3, AcksMove
  <1>5. v = y /\ m.from = n /\ m.round # "none" /\ m.epoch >= epoch[y]
    BY <1>2, <1>4 DEF Answers, Counts, OnRenew
  <1>6. m.epoch = led[n]
    BY <1>5 DEF RoundInv
  <1>7. epoch[y] \in Nat /\ led[n] \in Nat /\ w.epoch \in Nat
    BY <1>0 DEF TypeOK
  <1>8. epoch[y] > w.epoch \/ epoch[y] = w.epoch
    BY <1>5 DEF ElectionInv, WonInv
  <1> QED
    BY <1>5, <1>6, <1>7, <1>8

AckedOKNext(n, k) ==
    \/ \A v \in AckedNext(n, k) \ {n} : ProtectedNext(v, n, PerRound - k.age)
    \/ \E w \in won' : w.epoch > led'[n] /\ w.quorum \cap AckedNext(n, k) = {}

LEMMA AckedStep ==
    ASSUME ElectionInv, ProcessInv, RoundInv, AllowInv, AckedInv, Forgetful = {},
           NEW y \in Voters, MemberStep(y), NEW n \in Voters,
           up'[n], role'[n] = "leader", transferPhase'[n] \in {"none", "catchup"},
           NEW k \in rounds'[n]
    PROVE  AckedOKNext(n, k)
  <1>1. /\ led'[n] = led[n]
        /\ \/ Renewing(n) /\ k \in rounds[n]
           \/ \A a \in acks' : ~Counts(a, n, k)
    BY RoundsMove
  <1>2. CASE \A a \in acks' : ~Counts(a, n, k)
    BY <1>2 DEF AckedOKNext, AckedNext
  <1>3. CASE Renewing(n) /\ k \in rounds[n]
    <2>0. /\ TypeOK /\ k.age \in Nat /\ k.age < PerRound /\ PerRound \in Nat
          /\ PerRound - k.age \in Nat /\ PerRound - k.age > 0 /\ PerRound - k.age <= PerRound
      <3>1. k \in [kind : RoundKinds, age : 0..PerRound]
        BY <1>3 DEF ElectionInv, TypeOK
      <3>2. k.age < PerRound
        BY <1>3 DEF RoundInv
      <3> QED
        BY <3>1, <3>2, Durations DEF ElectionInv
    <2>1. Counting(n) /\ epoch[n] = led[n] /\ led[n] \in Nat
      <3>1. Counting(n)
        BY <1>3, WhoCounts
      <3> QED
        BY <2>0, <3>1 DEF Counting, OwnTerm, TypeOK
    <2>2. won \subseteq won'
      BY LedAndReleased DEF Next, Won, Release
    <2>3. \A v \in AckedBy(n, k) : v \in Voters
      BY <2>0 DEF AckedBy, TypeOK, Ack
    \* Who answers now is in the leader's term, and goes on protecting it.
    <2>4. ASSUME NEW v \in AckedNext(n, k), v \notin AckedBy(n, k)
          PROVE  ProtectedNext(v, n, PerRound - k.age)
      <3>1. PICK a \in acks' : Counts(a, n, k) /\ a.from = v
        BY <2>4 DEF AckedNext, AckedBy
      <3>2. a \notin acks
        BY <2>4, <3>1 DEF AckedBy, Counts
      <3>3. PICK m \in renews : Answers(y, m, a)
        BY <3>2, AcksMove
      <3>4. v = y /\ m.from = n /\ OnRenew(y, m) /\ m.round # "none"
        BY <3>1, <3>3 DEF Answers, Counts
      <3>5. m.epoch = led[n]
        BY <3>4 DEF RoundInv
      <3>6. /\ m.epoch >= epoch[y] /\ epoch'[y] = m.epoch /\ voted'[y] = n /\ promiseTo'[y] = n
            /\ promise'[y] \in {WonHold, P}
        BY <2>0, <3>4 DEF OnRenew, TypeOK
      <3> QED
        BY <1>1, <2>0, <3>4, <3>5, <3>6, PromiseCovers DEF ProtectedNext
    <2>5. ASSUME NEW w \in won, w.epoch > led[n], w.quorum \cap AckedBy(n, k) = {}
          PROVE  AckedOKNext(n, k)
      <3>1. w.quorum \cap AckedNext(n, k) = {}
        BY <1>3, <2>5, LaterWinUnanswered
      <3> QED
        BY <1>1, <2>2, <2>5, <3>1 DEF AckedOKNext
    <2>6. CASE \A v \in AckedBy(n, k) \ {n} : Protected(v, n, PerRound - k.age)
      <3>1. ASSUME NEW w \in won, w.epoch > led[n] PROVE AckedOKNext(n, k)
        <4>1. \A v \in AckedBy(n, k) : epoch[v] = led[n]
          BY <2>1, <2>6 DEF Protected
        <4>2. w.quorum \cap AckedBy(n, k) = {}
          <5>1. w.epoch \in Nat
            BY <2>0 DEF TypeOK
          <5>2. \A v \in w.quorum : epoch[v] > w.epoch \/ epoch[v] = w.epoch
            BY DEF ElectionInv, WonInv
          <5> QED
            BY <2>1, <3>1, <4>1, <5>1, <5>2
        <4> QED
          BY <2>5, <3>1, <4>2
      <3>2. CASE ~\E w \in won : w.epoch > led[n]
        <4>1. ASSUME NEW v \in AckedNext(n, k) \ {n}
              PROVE  ProtectedNext(v, n, PerRound - k.age)
          <5>1. CASE v \in AckedBy(n, k)
            BY <1>1, <2>0, <2>1, <2>3, <2>6, <3>2, <4>1, <5>1, KeepsProtecting
          <5>2. CASE v \notin AckedBy(n, k) BY <2>4, <4>1, <5>2
          <5> QED BY <5>1, <5>2
        <4> QED
          BY <4>1 DEF AckedOKNext
      <3> QED BY <3>1, <3>2
    <2> QED
      BY <1>3, <2>5, <2>6 DEF AckedInv
  <1> QED BY <1>1, <1>2, <1>3

(* Who counts for a round after a tick counted before it. *)
LEMMA TickedAnswers ==
    ASSUME TypeOK, NEW run, Ticked(run), NEW n \in Voters, NEW k, NEW j, run[n] \in Nat,
           j.kind = k.kind, k.age = j.age + run[n], j.age \in Nat
    PROVE  AckedNext(n, k) \subseteq AckedBy(n, j)
  <1>1. ASSUME NEW b \in acks', Counts(b, n, k) PROVE b.from \in AckedBy(n, j)
    <2>1. PICK a \in acks : /\ b.from = a.from /\ b.to = a.to /\ b.round = a.round
                            /\ b.age = a.age + run[a.to] /\ a.age \in Nat
      BY TickedAcks
    <2>2. a.to = n /\ a.round = j.kind /\ a.age = j.age
      BY <1>1, <2>1 DEF Counts
    <2> QED
      BY <2>1, <2>2 DEF AckedBy
  <1>2. n \in AckedBy(n, j)
    BY DEF AckedBy
  <1> QED
    BY <1>1, <1>2 DEF AckedNext

LEMMA AckedTick ==
    ASSUME ElectionInv, RoundInv, AckedInv, Tick, NEW n \in Voters,
           up'[n], role'[n] = "leader", transferPhase'[n] \in {"none", "catchup"},
           NEW k \in rounds'[n]
    PROVE  AckedOKNext(n, k)
  <1>0. TypeOK
    BY DEF ElectionInv
  <1>1. PICK run : Ticked(run)
    BY TickTicks
  <1>2. /\ run[n] \in Nat /\ rounds'[n] = AgedRounds(n, run[n])
        /\ UNCHANGED <<led, won, up, role, transferPhase>>
    BY <1>1 DEF Ticked
  <1>3. PICK j \in rounds[n] : j.kind = k.kind /\ k.age = j.age + run[n] /\ j.age \in Nat
    BY <1>0, <1>2, TickedRounds
  <1>4. k.age < PerRound /\ PerRound \in Nat
    BY <1>0, <1>2, TickedRounds, Durations
  <1>5. AckedNext(n, k) \subseteq AckedBy(n, j)
    BY <1>0, <1>1, <1>2, <1>3, TickedAnswers
  <1>6. Renewing(n)
    BY <1>2 DEF Renewing, Leads
  <1>7. CASE \A v \in AckedBy(n, j) \ {n} : Protected(v, n, PerRound - j.age)
    <2>1. ASSUME NEW v \in AckedNext(n, k) \ {n} PROVE ProtectedNext(v, n, PerRound - k.age)
      <3>1. v \in Voters /\ Protected(v, n, PerRound - j.age)
        BY <1>0, <1>5, <1>7, <2>1 DEF AckedBy, TypeOK, Ack
      <3>2. /\ PerRound - j.age \in Nat /\ PerRound - j.age > run[n]
            /\ (PerRound - j.age) - run[n] = PerRound - k.age
        BY <1>2, <1>3, <1>4
      <3>3. ProtectedNext(v, n, (PerRound - j.age) - run[n])
        BY <1>0, <1>1, <3>1, <3>2, TickedProtection
      <3> QED
        BY <3>2, <3>3
    <2> QED
      BY <2>1 DEF AckedOKNext
  <1>8. CASE \E w \in won : w.epoch > led[n] /\ w.quorum \cap AckedBy(n, j) = {}
    BY <1>2, <1>5, <1>8 DEF AckedOKNext
  <1> QED
    BY <1>6, <1>7, <1>8 DEF AckedInv

-----------------------------------------------------------------------------
(* The invariant. *)

LEMMA LeaseInit == Init => LeaseInv
  <1> SUFFICES ASSUME Init PROVE LeaseInv
    OBVIOUS
  <1>1. PICK a \in Data : FoundedBy(a)
    BY VotersAssumption DEF Init
  <1>2. a \in Voters /\ a # None
    BY VotersAssumption DEF Voters
  <1>3. Voters \in Quorum
    <2>1. Cardinality(Voters) \in Nat /\ Cardinality(Voters) # 0
      BY <1>2, VotersAssumption, FS_CardinalityType, FS_EmptySet
    <2> QED
      BY <2>1 DEF Quorum
  <1>4. /\ \A n \in Voters : /\ rounds[n] = {} /\ allow[n] = 0
                             /\ epoch[n] = 1 /\ voted[n] = a /\ released[n] = 0
                             /\ transferPhase[n] = "none"
        /\ \A n \in Voters \ {a} : /\ lease[n] = 0 /\ promiseTo[n] = a /\ promise[n] = P
        /\ led[a] = 1 /\ lease[a] = PerRound /\ role[a] = "leader"
        /\ renews = {} /\ acks = {}
    BY <1>1, <1>2 DEF FoundedBy
  <1>5. \A n \in Voters : booting[n] = FALSE /\ up[n] = TRUE
    BY <1>1, <1>2 DEF FoundedBy
  <1>6. \A n \in Voters \ {a} : acting[n] = FALSE /\ role[n] = "standby"
    BY <1>1, <1>2 DEF FoundedBy
  <1>7. Leads(a) /\ OwnTerm(a)
    BY <1>2, <1>4, <1>5 DEF Leads, OwnTerm
  <1>8. OwnTermInv
    <2>1. ASSUME NEW n \in Voters, n # a
          PROVE  ~(booting[n] \/ acting[n] \/ lease[n] > 0 \/ rounds[n] # {})
      BY <1>4, <1>5, <1>6, <2>1
    <2> QED
      BY <1>7, <2>1 DEF OwnTermInv
  <1>9. StagesInv
    BY <1>4, <1>5 DEF StagesInv
  <1>10. ReleasedInv
    <2>1. \A n \in Voters : Leads(n) => n = a
      BY <1>6 DEF Leads
    <2> QED
      BY <1>2, <1>4, <2>1 DEF ReleasedInv
  <1>11. RoundInv /\ AllowInv
    BY <1>4 DEF RoundInv, AllowInv
  <1>12. BackedInv
    <2>1. \A v \in Voters \ {a} : Protected(v, a, lease[a])
      BY <1>2, <1>4, Durations DEF Protected
    <2>2. \A n \in Voters : lease[n] > 0 => n = a
      BY <1>4
    <2> QED
      BY <1>2, <1>3, <2>1, <2>2 DEF BackedInv
  <1>13. AckedInv
    BY <1>4 DEF AckedInv
  <1> QED
    BY <1>8, <1>9, <1>10, <1>11, <1>12, <1>13 DEF LeaseInv

(* A step that touches no member and no answer keeps what leases rest on. *)
LEMMA BackingKept ==
    ASSUME BackedInv, AckedInv, UNCHANGED <<disk, up, hold, asLeader, asVoter, acks, won>>
    PROVE  BackedInv' /\ AckedInv'
  <1>1. UNCHANGED <<role, epoch, voted, led, up, hold, lease, rounds, transferPhase, promiseTo,
                    promise, acks, won>>
    BY DEF disk, asLeader, asVoter
  <1>2. BackedInv'
    BY <1>1 DEF BackedInv, Protected
  <1>3. AckedInv'
    BY <1>1 DEF AckedInv, Protected, AckedBy, Renewing, Leads
  <1> QED
    BY <1>2, <1>3

LEMMA BackingNext ==
    ASSUME ElectionInv, ProcessInv, RoundInv, AllowInv, BackedInv, AckedInv, Forgetful = {},
           [Next]_vars
    PROVE  BackedInv' /\ AckedInv'
  <1>1. CASE (\E m \in renews : LoseCall(m)) \/ UNCHANGED vars
    <2>1. UNCHANGED <<disk, up, hold, asLeader, asVoter, acks, won>>
      BY <1>1 DEF LoseCall, vars, network
    <2> QED
      BY <2>1, BackingKept
  <1>2. CASE Tick \/ \E y \in Voters : MemberStep(y)
    <2>1. ASSUME NEW n \in Voters, lease'[n] > 0 PROVE BackedNext(n)
      BY <1>2, <2>1, BackedStep, BackedTick
    <2>2. ASSUME NEW n \in Voters, up'[n], role'[n] = "leader",
                 transferPhase'[n] \in {"none", "catchup"}, NEW k \in rounds'[n]
          PROVE  AckedOKNext(n, k)
      BY <1>2, <2>2, AckedStep, AckedTick
    <2>3. BackedInv'
      BY <2>1 DEF BackedInv, Protected, BackedNext, ProtectedNext
    <2>4. AckedInv'
      BY <2>2 DEF AckedInv, AckedBy, Protected, AckedNext, Counts, AckedOKNext, ProtectedNext,
                  Renewing, Leads
    <2> QED BY <2>3, <2>4
  <1> QED
    BY <1>1, <1>2 DEF Next

LEMMA LeaseNext == ElectionInv /\ LeaseInv /\ [Next]_vars => LeaseInv'
  <1> SUFFICES ASSUME ElectionInv, LeaseInv, [Next]_vars PROVE LeaseInv'
    OBVIOUS
  <1>1. TypeOK /\ TypeOK'
    BY TypeNext DEF ElectionInv
  <1>2. ProcessInv /\ RoundInv /\ AllowInv
    BY ProcessParts DEF LeaseInv
  <1>3. OwnTermInv' /\ StagesInv' /\ ReleasedInv'
    <2>1. ProcessInv'
      BY <1>1, <1>2, ProcessNext
    <2> QED
      BY <2>1 DEF ProcessInv, ProcessOK, OwnTermInv, StagesInv, ReleasedInv
  <1>4. RoundInv'
    BY <1>1, <1>2, RoundsNext
  <1>5. AllowInv'
    BY <1>1, <1>2, AllowNext
  <1>6. ASSUME Forgetful = {} PROVE BackedInv' /\ AckedInv'
    BY <1>2, <1>6, BackingNext DEF LeaseInv
  <1> QED
    BY <1>3, <1>4, <1>5, <1>6 DEF LeaseInv

(* What the leases rest on holds at all times: a lease on a majority that    *)
(* protects it to its end, an open round on the answers it got, an allowance *)
(* on a hand-over that is on disk (_majority, _on_renew, _boot, released).   *)
THEOREM LeaseCorrect == Spec => []LeaseInv
  <1>1. ElectionInv /\ LeaseInv /\ [Next]_vars => LeaseInv'
    BY LeaseNext
  <1> QED
    BY <1>1, LeaseInit, ElectionCorrect, PTL DEF Spec

(* A lease rests on a majority in its own term, so no later term was won.    *)
LEMMA UnderALease ==
    ASSUME ElectionInv, LeaseInv, Forgetful = {}
    PROVE  NoWinUnderALease
  <1>1. ASSUME NEW n \in Voters, NEW w \in won, HoldsLease(n) PROVE w.epoch <= led[n]
    <2>1. OwnTerm(n) /\ lease[n] > 0
      BY <1>1 DEF LeaseInv, OwnTermInv, HoldsLease
    <2>2. PICK Q \in Quorum : n \in Q /\ \A v \in Q \ {n} : Protected(v, n, lease[n])
      BY <2>1 DEF LeaseInv, BackedInv
    <2>3. ~(w.epoch > led[n])
      BY <2>1, <2>2, NoLaterWin DEF Protected
    <2>4. w.epoch \in Nat /\ led[n] \in Nat
      BY DEF ElectionInv, TypeOK
    <2> QED
      BY <2>3, <2>4
  <1> QED
    BY <1>1 DEF NoWinUnderALease

(* Two holders lead the same term, which has one winner.                     *)
LEMMA OneHolder ==
    ASSUME ElectionInv, LeaseInv, Forgetful = {}
    PROVE  LeaseExclusive
  <1>1. ASSUME NEW n \in Voters, NEW m \in Voters, HoldsLease(n), HoldsLease(m)
        PROVE  n = m
    <2>1. WonBy(n, led[n]) /\ WonBy(m, led[m])
      BY <1>1 DEF ElectionInv, LeaderInv, HoldsLease, Leads
    <2>2. led[m] <= led[n] /\ led[n] <= led[m]
      BY <1>1, <2>1, UnderALease DEF NoWinUnderALease, WonBy
    <2>3. led[n] = led[m]
      <3>1. led[n] \in Nat /\ led[m] \in Nat
        BY DEF ElectionInv, TypeOK
      <3> QED
        BY <2>2, <3>1
    <2> QED
      BY <2>1, <2>3 DEF ElectionInv, OneLeaderPerTerm, WonBy
  <1> QED
    BY <1>1 DEF LeaseExclusive

LEMMA HandedOnMeansStopped ==
    ASSUME ElectionInv, LeaseInv
    PROVE  HandedOnStops
  <1>1. ASSUME NEW n \in Voters, HoldsLease(n), HandedOn(led[n] + 1) PROVE FALSE
    <2>1. WroteHandOver(led[n] + 1)
      BY <1>1 DEF HandedOn, LeaseInv, AllowInv
    <2>2. released[n] = led[n] + 1
      BY <1>1, <2>1 DEF WroteHandOver, HoldsLease, Leads
    <2> QED
      BY <1>1, <2>2 DEF LeaseInv, ReleasedInv, HoldsLease
  <1> QED
    BY <1>1 DEF HandedOnStops

(* Two members never hold a lease at the same moment, in a group of any size,*)
(* with every clock within 10% of true time and any calls late or lost, as   *)
(* long as no member comes back without the hold after its start             *)
(* (holds_lease, _majority, _vote_rules).                                    *)
THEOREM OneLease ==
    ASSUME Forgetful = {}
    PROVE  Spec => []LeaseExclusive
  <1>1. ElectionInv /\ LeaseInv => LeaseExclusive
    BY OneHolder
  <1> QED
    BY <1>1, ElectionCorrect, LeaseCorrect, PTL

(* Under the same condition no term is won while a lease of an earlier one   *)
(* still runs: every promise and every hold after a start outlives the       *)
(* leases that rest on it (_won, _on_vote, _on_renew).                       *)
THEOREM LeasesOutlived ==
    ASSUME Forgetful = {}
    PROVE  Spec => []NoWinUnderALease
  <1>1. ElectionInv /\ LeaseInv => NoWinUnderALease
    BY UnderALease
  <1> QED
    BY <1>1, ElectionCorrect, LeaseCorrect, PTL

(* A leader that handed its term on holds no lease of it any more, in this   *)
(* process or in one it restarts into, forgetful or not (released, _boot).   *)
THEOREM HandOverStops == Spec => []HandedOnStops
  <1>1. ElectionInv /\ LeaseInv => HandedOnStops
    BY HandedOnMeansStopped
  <1> QED
    BY <1>1, ElectionCorrect, LeaseCorrect, PTL

-----------------------------------------------------------------------------
(* The lease protocol implements the abstract leader, unless a member may come back without the
   hold after its start. *)

(* A term that no later one follows. *)
IsNewest(w) == \A x \in won : x.epoch <= w.epoch
SomeNewest == \E w \in won : IsNewest(w)

LEMMA NewestInit == Init => SomeNewest
  <1> SUFFICES ASSUME Init PROVE SomeNewest
    OBVIOUS
  <1>1. PICK a \in Data : won = {[node |-> a, epoch |-> 1, quorum |-> Voters]}
    BY VotersAssumption DEF Init, FoundedBy
  <1> QED
    BY <1>1 DEF SomeNewest, IsNewest

(* Who won a step: nobody, or one candidate. *)
LEMMA WonOrNot ==
    ASSUME TypeOK, [Next]_vars
    PROVE  won' = won \/ \E n \in Voters : Won(n)
  <1>1. CASE Tick BY <1>1 DEF Tick
  <1>2. ASSUME NEW n \in Voters, MemberStep(n) PROVE won' = won \/ Won(n)
    BY <1>2
    DEF MemberStep, Crash, Boot, BootAndLeave, BootFailed, StartVote, CastOwnVote, CampaignLost,
        GrantVote, GrantAndLeave, StartRound, OnRenew, Majority, Lose, TermMovedOn,
        SeesHigherEpoch, ToldToStepDown, LeavesLead, TransferTo, TransferRefused, Release,
        SendCampaign, OnCampaign, TransferLost, PlannedRestart
  <1>3. CASE (\E m \in renews : LoseCall(m)) \/ UNCHANGED vars
    BY <1>3 DEF LoseCall, vars
  <1> QED
    BY <1>1, <1>2, <1>3 DEF Next

NewWin(n) == [node |-> n, epoch |-> campEpoch[n], quorum |-> VotesFor(n)]

LEMMA NewestNext ==
    ASSUME TypeOK, TypeOK', SomeNewest, [Next]_vars
    PROVE  SomeNewest'
  <1>1. CASE won' = won BY <1>1 DEF SomeNewest, IsNewest
  <1>2. ASSUME NEW n \in Voters, Won(n) PROVE SomeNewest'
    <2>1. won' = won \cup {NewWin(n)}
      BY <1>2 DEF Won, NewWin
    <2>2. PICK w \in won : \A x \in won : x.epoch <= w.epoch
      BY DEF SomeNewest, IsNewest
    <2>3. NewWin(n) \in won' /\ w \in won' /\ \A x \in won' : x.epoch \in Nat
      <3>1. \A x \in won' : x.epoch \in Nat
        BY DEF TypeOK
      <3> QED
        BY <2>1, <3>1
    <2>4. CASE NewWin(n).epoch <= w.epoch
      <3>1. \A x \in won' : x.epoch <= w.epoch
        BY <2>1, <2>2, <2>4
      <3> QED
        BY <2>3, <3>1 DEF SomeNewest, IsNewest
    <2>5. CASE w.epoch <= NewWin(n).epoch
      <3>1. \A x \in won' : x.epoch <= NewWin(n).epoch
        BY <2>1, <2>2, <2>3, <2>5
      <3> QED
        BY <2>3, <3>1 DEF SomeNewest, IsNewest
    <2> QED
      BY <2>3, <2>4, <2>5
  <1> QED
    BY <1>1, <1>2, WonOrNot

(* What the refinement rests on. *)
LeadInv == ElectionInv /\ LeaseExclusive /\ NoWinUnderALease /\ SomeNewest

LEMMA NewestIsNewest ==
    ASSUME SomeNewest
    PROVE  Newest \in won /\ \A x \in won : x.epoch <= Newest.epoch
  BY DEF SomeNewest, IsNewest, Newest

(* The lease is with the winner of the newest term, or with nobody. *)
LEMMA HolderWon ==
    ASSUME LeadInv, NEW n \in Voters, HoldsLease(n)
    PROVE  n = Newest.node
  <1>1. Newest \in won /\ \A x \in won : x.epoch <= Newest.epoch
    BY NewestIsNewest DEF LeadInv
  <1>2. PICK w \in won : w.node = n /\ w.epoch = led[n]
    BY DEF LeadInv, ElectionInv, LeaderInv, HoldsLease, Leads, WonBy
  <1>3. Newest.epoch <= w.epoch /\ w.epoch <= Newest.epoch
    BY <1>1, <1>2 DEF LeadInv, NoWinUnderALease
  <1>4. Newest.epoch \in Nat /\ w.epoch \in Nat
    BY <1>1 DEF LeadInv, ElectionInv, TypeOK
  <1>5. Newest.epoch = w.epoch
    BY <1>3, <1>4
  <1> QED
    BY <1>1, <1>2, <1>5 DEF LeadInv, ElectionInv, OneLeaderPerTerm

HolderIsTheWinner == Holder \in {None, Newest.node}

LEMMA HolderIs == LeadInv => HolderIsTheWinner
  BY HolderWon DEF Holder, HolderIsTheWinner

(* A candidate that wins holds no lease before or after, and whoever does    *)
(* keeps it.                                                                 *)
LEMMA HoldersOfAWin ==
    ASSUME ElectionInv, NEW n \in Voters, Won(n)
    PROVE  \A m \in Voters : HoldsLease(m)' <=> HoldsLease(m)
  <1>0. TypeOK /\ role[n] = "standby"
    BY DEF ElectionInv, CampaignInv, Won
  <1>1. ~HoldsLease(n) /\ ~HoldsLease(n)'
    BY <1>0 DEF HoldsLease, Leads, Won, Forget, TypeOK
  <1>2. ASSUME NEW m \in Voters, m # n PROVE HoldsLease(m)' <=> HoldsLease(m)
    BY <1>0, <1>2 DEF HoldsLease, Leads, Won, Forget, TypeOK
  <1> QED
    BY <1>1, <1>2

LEMMA WinImplements ==
    ASSUME LeadInv, LeadInv', NEW n \in Voters, Won(n)
    PROVE  Leader!Elect \/ UNCHANGED Leader!vars
  <1>0. Newest \in won /\ \A x \in won : x.epoch <= Newest.epoch
    BY NewestIsNewest DEF LeadInv
  <1>1. Newest' \in won' /\ \A x \in won' : x.epoch <= Newest'.epoch
    <2>1. SomeNewest'
      BY DEF LeadInv
    <2> QED
      BY <2>1 DEF SomeNewest, IsNewest, Newest
  <1>2. won' = won \cup {NewWin(n)}
    BY DEF Won, NewWin
  <1>3. \A m \in Voters : HoldsLease(m)' <=> HoldsLease(m)
    BY HoldersOfAWin DEF LeadInv
  <1>4. \A x \in won' : x.epoch \in Nat /\ x.node \in Data
    BY DEF LeadInv, ElectionInv, TypeOK
  <1>5. \A x, y \in won' : x.epoch = y.epoch => x.node = y.node
    BY DEF LeadInv, ElectionInv, OneLeaderPerTerm
  <1>6. Holder' = Holder
    <2>1. (\E m \in Voters : HoldsLease(m)') <=> \E m \in Voters : HoldsLease(m)
      BY <1>3
    <2>2. (CHOOSE m \in Voters : HoldsLease(m)') = CHOOSE m \in Voters : HoldsLease(m)
      BY <1>3
    <2> QED
      BY <2>1, <2>2 DEF Holder
  <1>7. CASE Newest'.epoch = Newest.epoch
    <2>1. Newest'.node = Newest.node
      BY <1>0, <1>1, <1>2, <1>5, <1>7
    <2> QED
      BY <1>6, <1>7, <2>1 DEF Leader!vars
  <1>8. CASE Newest'.epoch # Newest.epoch
    <2>1. Newest'.epoch > Newest.epoch
      BY <1>0, <1>1, <1>2, <1>4, <1>8
    <2>2. ASSUME NEW m \in Voters, HoldsLease(m) PROVE FALSE
      <3>1. HoldsLease(m)'
        BY <1>3, <2>2
      <3>2. Newest'.epoch <= led'[m]
        BY <1>1, <3>1 DEF LeadInv, NoWinUnderALease
      <3>3. m # n
        BY <2>2 DEF LeadInv, ElectionInv, CampaignInv, Won, HoldsLease, Leads
      <3>4. led'[m] = led[m]
        BY <3>3 DEF Won, LeadInv, ElectionInv, TypeOK
      <3>5. led[m] <= Newest.epoch
        BY <1>0, <2>2 DEF LeadInv, ElectionInv, LeaderInv, HoldsLease, Leads, WonBy
      <3>6. led[m] \in Nat
        BY DEF LeadInv, ElectionInv, TypeOK
      <3> QED
        BY <1>0, <1>1, <1>2, <1>4, <2>1, <3>2, <3>4, <3>5, <3>6
    <2>3. Holder = None
      BY <2>2 DEF Holder
    <2> QED
      BY <1>1, <1>4, <1>6, <2>1, <2>3 DEF Leader!Elect
  <1> QED BY <1>7, <1>8

LEMMA StepImplements ==
    ASSUME LeadInv, LeadInv', [Next]_vars
    PROVE  [Leader!Next]_(Leader!vars)
  <1>1. CASE won' = won
    <2>1. Newest' = Newest
      BY <1>1 DEF Newest
    <2>2. Holder \in {None, Newest.node}
      BY HolderIs DEF HolderIsTheWinner
    <2>3. Holder' \in {None, Newest'.node}
      <3>1. (LeadInv => HolderIsTheWinner)'
        BY HolderIs, PTL
      <3> QED
        BY <3>1 DEF HolderIsTheWinner
    <2>4. Newest.node # None
      BY NewestIsNewest, VotersAssumption DEF LeadInv, ElectionInv, TypeOK, Voters
    <2> QED
      BY <2>1, <2>2, <2>3, <2>4 DEF Leader!Next, Leader!Gain, Leader!Lapse, Leader!vars
  <1>2. ASSUME NEW n \in Voters, Won(n) PROVE [Leader!Next]_(Leader!vars)
    BY <1>2, WinImplements DEF Leader!Next
  <1>3. TypeOK
    BY DEF LeadInv, ElectionInv
  <1> QED
    BY <1>1, <1>2, <1>3, WonOrNot

LEMMA InitImplements == Init => Leader!Init
  <1> SUFFICES ASSUME Init PROVE Leader!Init
    OBVIOUS
  <1>1. PICK a \in Data : FoundedBy(a)
    BY VotersAssumption DEF Init
  <1>2. a \in Voters
    BY DEF Voters
  <1>3. won = {[node |-> a, epoch |-> 1, quorum |-> Voters]}
    BY <1>1 DEF FoundedBy
  <1>4. Newest.epoch = 1 /\ Newest.node = a
    <2>1. Newest \in won
      BY NewestInit, NewestIsNewest
    <2> QED
      BY <1>3, <2>1
  <1>5. Holder = a
    <2>1. lease = [n \in Voters |-> IF n = a THEN PerRound ELSE 0] /\ PerRound > 0
      BY <1>1, Durations DEF FoundedBy
    <2>2. role[a] = "leader" /\ up[a] = TRUE
      BY <1>1, <1>2 DEF FoundedBy
    <2>3. HoldsLease(a)
      BY <1>2, <2>1, <2>2 DEF HoldsLease, Leads
    <2>4. \A n \in Voters : HoldsLease(n) => n = a
      BY <2>1 DEF HoldsLease
    <2> QED
      BY <1>2, <2>3, <2>4 DEF Holder
  <1> QED
    BY <1>4, <1>5 DEF Leader!Init

LEMMA NewestAlways == Spec => []SomeNewest
  <1>1. TypeOK /\ TypeOK' /\ SomeNewest /\ [Next]_vars => SomeNewest'
    BY NewestNext
  <1> QED
    BY <1>1, NewestInit, TypeCorrect, PTL DEF Spec

(* The lease protocol implements the abstract leader: one lease, always with *)
(* the winner of the newest term, and no term begins while it is held, for   *)
(* every group, every lease length and all clocks within 10%, as long as no  *)
(* member comes back without the hold after its start (holds_lease, _won,    *)
(* _majority, _lease_check).                                                 *)
THEOREM Implements ==
    ASSUME Forgetful = {}
    PROVE  Spec => LeaderSpec
  <1>1. ElectionInv /\ LeaseInv /\ SomeNewest => LeadInv
    BY OneHolder, UnderALease DEF LeadInv
  <1>2. LeadInv /\ LeadInv' /\ [Next]_vars => [Leader!Next]_(Leader!vars)
    BY StepImplements
  <1>3. Init => Leader!Init
    BY InitImplements
  <1> QED
    BY <1>1, <1>2, <1>3, ElectionCorrect, LeaseCorrect, NewestAlways, PTL
    DEF Spec, LeaderSpec, Leader!Spec

-----------------------------------------------------------------------------
(* The takeover wait alone keeps two instances from acting at once: whatever the voters forgot
   when they came back. *)

(* What is left of the takeover wait of m outlasts x on the clock of any other member. *)
Outwaits(m, x) == 11 * x <= 9 * take[m]

(* Whoever acts, or is about to, waited as long as its disk says. *)
WaitOK(m) == booting[m] \/ acting[m] => wait[m] >= take[m]

(* A leader of a later term outwaits every lease of an earlier one and what a round of it is
   still worth, unless nobody who voted for a later term answered that round. *)
TakeoverOK(n, m) ==
    role[m] = "leader" /\ led[n] < led[m] =>
        /\ Outwaits(m, lease[n])
        /\ Renewing(n) => \A k \in rounds[n] :
              \/ Outwaits(m, PerRound - k.age)
              \/ \E w \in won : w.epoch > led[n] /\ w.quorum \cap AckedBy(n, k) = {}

TakeoverInv ==
    /\ \A m \in Voters : WaitOK(m)
    /\ \A n, m \in Voters : TakeoverOK(n, m)

LEMMA TakeoverInit == Init => TakeoverInv
  <1> SUFFICES ASSUME Init PROVE TakeoverInv
    OBVIOUS
  <1>1. PICK a \in Data : FoundedBy(a)
    BY VotersAssumption DEF Init
  <1>2. \A m \in Voters : take[m] = 0 /\ wait[m] = 0 /\ rounds[m] = {}
    BY <1>1 DEF FoundedBy
  <1>3. \A m \in Voters : role[m] = "leader" => m = a
    BY <1>1 DEF FoundedBy
  <1>4. \A n \in Voters : n # a => lease[n] = 0
    BY <1>1 DEF FoundedBy
  <1>5. led[a] = 1
    BY <1>1 DEF FoundedBy, Voters
  <1>6. \A m \in Voters : WaitOK(m)
    BY <1>2 DEF WaitOK
  <1>7. ASSUME NEW n \in Voters, NEW m \in Voters, role[m] = "leader", led[n] < led[m]
        PROVE  Outwaits(m, lease[n])
    <2>1. m = a /\ n # a
      BY <1>3, <1>5, <1>7
    <2> QED
      BY <1>2, <1>4, <2>1 DEF Outwaits
  <1>8. \A n, m \in Voters : TakeoverOK(n, m)
    BY <1>2, <1>7 DEF TakeoverOK
  <1> QED
    BY <1>6, <1>8 DEF TakeoverInv

(* A win waits for every lease and every round there is: its votes came within T_vote. *)
LEMMA WinOutwaits ==
    ASSUME TypeOK, LateAnswers = FALSE, NEW m \in Voters, Won(m), NEW x \in 0..PerRound
    PROVE  11 * x <= 9 * take'[m]
  <1>1. take'[m] = WTake - campAge[m] /\ campAge[m] <= 10 * VoteTenth
    BY DEF Won, TypeOK
  <1>2. campAge[m] \in Nat
    BY Durations DEF TypeOK
  <1>3. WTake - campAge[m] >= 11 * LeaseTenth + D
    BY <1>1, <1>2, TimingAssumption DEF WTake
  <1>4. x \in Nat /\ x <= 9 * LeaseTenth - D
    BY TimingAssumption, Durations DEF PerRound
  <1> QED
    BY <1>1, <1>2, <1>3, <1>4, TimingAssumption, Durations

(* Who leads won in this step, or led its term before. *)
LEMMA LeaderMoves ==
    ASSUME TypeOK, NEW y \in Voters, MemberStep(y), NEW m \in Voters, role'[m] = "leader"
    PROVE  Won(m) \/ (role[m] = "leader" /\ led'[m] = led[m] /\ take'[m] = take[m])
  <1>1. CASE Won(y)
    BY <1>1 DEF Won, TypeOK
  <1>2. CASE UNCHANGED <<role, led, take>>
    BY <1>2
  <1>3. CASE LeaveBoot(y) /\ UNCHANGED <<led, take>>
    BY <1>3 DEF LeaveBoot, TypeOK
  <1>4. CASE StepDown(y) /\ UNCHANGED <<led, take>>
    BY <1>4 DEF StepDown, TypeOK
  <1>5. CASE BootFailed(y) \/ (\E q \in voteReqs : GrantVote(y, q)) \/ \E k \in renews : OnRenew(y, k)
    BY <1>3, <1>5 DEF BootFailed, GrantVote, OnRenew
  <1>6. CASE (\E q \in voteReqs : GrantAndLeave(y, q)) \/ LeavesLead(y)
    BY <1>4, <1>6 DEF GrantAndLeave, LeavesLead
  <1>7. CASE \/ \E T \in 1..MaxEpoch : StartVote(y, T)
             \/ \E c \in campaigns : OnCampaign(y, c)
    BY <1>2, <1>7 DEF StartVote, OnCampaign, CastOwnVote
  <1>8. CASE (\E reboot \in Reboots : Boot(y, reboot)) \/ BootAndLeave(y)
    BY <1>8 DEF Boot, BootAndLeave, TypeOK
  <1>9. CASE \/ Crash(y) \/ CampaignLost(y) \/ StartRound(y) \/ (\E k \in rounds[y] : Majority(y, k))
             \/ (\E t \in Targets : TransferTo(y, t)) \/ TransferRefused(y) \/ Release(y)
             \/ SendCampaign(y) \/ PlannedRestart(y)
    BY <1>2, <1>9 DEF Crash, CampaignLost, StartRound, Majority, TransferTo, TransferRefused,
                      Release, SendCampaign, PlannedRestart, disk
  <1> QED
    BY <1>1, <1>5, <1>6, <1>7, <1>8, <1>9
    DEF MemberStep, Lose, TermMovedOn, SeesHigherEpoch, ToldToStepDown, TransferLost

LEMMA WaitStep ==
    ASSUME TypeOK, NEW y \in Voters, MemberStep(y), NEW m \in Voters, ProcessOK(m), WaitOK(m)
    PROVE  booting'[m] \/ acting'[m] => wait'[m] >= take'[m]
  <1> DEFINE Goal == booting'[m] \/ acting'[m] => wait'[m] >= take'[m]
  <1>0. wait[m] \in Nat /\ take[m] \in Nat /\ WTake \in Nat /\ take[m] <= WTake
    BY Durations DEF TypeOK
  <1>1. CASE UNCHANGED <<booting, acting, wait, take>>
    BY <1>1 DEF WaitOK
  <1>2. CASE Forget(y) /\ (m # y => take'[m] = take[m])
    BY <1>2 DEF Forget, TypeOK, WaitOK
  <1>3. CASE LeaveBoot(y) /\ UNCHANGED <<acting, take>>
    BY <1>3 DEF LeaveBoot, TypeOK, WaitOK, ProcessOK
  <1>4. CASE \E reboot \in Reboots : Boot(y, reboot)
    <2>1. PICK reboot \in Reboots : Boot(y, reboot)
      BY <1>4
    <2>2. UNCHANGED <<acting, take>>
      BY <2>1 DEF Boot
    <2>3. \/ UNCHANGED <<booting, wait>>
          \/ /\ wait' = [wait EXCEPT ![y] = IF sameBoot[y] /\ ~reboot THEN take[y] ELSE WTake]
             /\ booting' = [booting EXCEPT ![y] = TRUE]
      BY <2>1 DEF Boot
    <2>4. CASE UNCHANGED <<booting, wait>>
      BY <2>2, <2>4 DEF WaitOK
    <2>5. CASE /\ wait' = [wait EXCEPT ![y] = IF sameBoot[y] /\ ~reboot THEN take[y] ELSE WTake]
               /\ booting' = [booting EXCEPT ![y] = TRUE]
      <3>1. CASE m = y
        <4>1. wait'[m] \in {take[m], WTake}
          BY <2>5, <3>1 DEF TypeOK
        <4> QED
          BY <1>0, <2>2, <4>1
      <3>2. CASE m # y
        <4>1. wait'[m] = wait[m] /\ booting'[m] = booting[m]
          BY <2>5, <3>2 DEF TypeOK
        <4> QED
          BY <2>2, <4>1 DEF WaitOK
      <3> QED
        BY <3>1, <3>2
    <2> QED
      BY <2>3, <2>4, <2>5
  <1>5. CASE \E k \in rounds[y] : Majority(y, k)
    <2>1. /\ booting' = [booting EXCEPT ![y] = FALSE]
          /\ acting' = [acting EXCEPT ![y] = @ \/ booting[y]]
          /\ UNCHANGED <<wait, take>>
      BY <1>5 DEF Majority, disk
    <2>2. booting'[m] \/ acting'[m] => booting[m] \/ acting[m]
      BY <2>1, Zenon DEF TypeOK
    <2> QED
      BY <2>1, <2>2 DEF WaitOK
  <1>6. CASE Release(y)
    BY <1>6 DEF Release, TypeOK, WaitOK
  <1>7. CASE BootFailed(y) \/ (\E q \in voteReqs : GrantVote(y, q)) \/ \E k \in renews : OnRenew(y, k)
    BY <1>3, <1>7 DEF BootFailed, GrantVote, OnRenew
  <1>8. CASE \/ (\E q \in voteReqs : GrantAndLeave(y, q)) \/ LeavesLead(y) \/ Crash(y)
             \/ PlannedRestart(y)
    BY <1>2, <1>8 DEF GrantAndLeave, LeavesLead, StepDown, Crash, PlannedRestart, disk
  <1>9. CASE Won(y)
    BY <1>2, <1>9 DEF Won, TypeOK
  <1>10. CASE \/ \E T \in 1..MaxEpoch : StartVote(y, T)
              \/ \E c \in campaigns : OnCampaign(y, c)
    BY <1>1, <1>10 DEF StartVote, OnCampaign, CastOwnVote, asLeader
  <1>11. CASE \/ BootAndLeave(y) \/ CampaignLost(y) \/ StartRound(y)
              \/ (\E t \in Targets : TransferTo(y, t)) \/ TransferRefused(y) \/ SendCampaign(y)
    BY <1>1, <1>11 DEF BootAndLeave, CampaignLost, StartRound, TransferTo, TransferRefused,
                       SendCampaign, disk, asLeader
  <1> HIDE DEF Goal
  <1> QED
    BY <1>4, <1>5, <1>6, <1>7, <1>8, <1>9, <1>10, <1>11
    DEF MemberStep, Lose, TermMovedOn, SeesHigherEpoch, ToldToStepDown, TransferLost

OutwaitsNext(m, x) == 11 * x <= 9 * take'[m]

TakeoverOKNext(n, m) ==
    role'[m] = "leader" /\ led'[n] < led'[m] =>
        /\ OutwaitsNext(m, lease'[n])
        /\ up'[n] /\ role'[n] = "leader" /\ transferPhase'[n] \in {"none", "catchup"} =>
              \A k \in rounds'[n] :
                 \/ OutwaitsNext(m, PerRound - k.age)
                 \/ \E w \in won' : w.epoch > led'[n] /\ w.quorum \cap AckedNext(n, k) = {}

LEMMA TakeoverStep ==
    ASSUME ElectionInv, ElectionInv', ProcessInv, ProcessInv', RoundInv, RoundInv',
           LateAnswers = FALSE, NEW y \in Voters, MemberStep(y), NEW n \in Voters, NEW m \in Voters,
           TakeoverOK(n, m)
    PROVE  TakeoverOKNext(n, m)
  <1> SUFFICES ASSUME role'[m] = "leader", led'[n] < led'[m]
               PROVE  /\ OutwaitsNext(m, lease'[n])
                      /\ up'[n] /\ role'[n] = "leader" /\ transferPhase'[n] \in {"none", "catchup"} =>
                            \A k \in rounds'[n] :
                               \/ OutwaitsNext(m, PerRound - k.age)
                               \/ \E w \in won' : /\ w.epoch > led'[n]
                                                  /\ w.quorum \cap AckedNext(n, k) = {}
    BY DEF TakeoverOKNext
  <1>0. TypeOK /\ TypeOK' /\ PerRound \in Nat
    BY Durations DEF ElectionInv
  <1>1. Won(m) \/ (role[m] = "leader" /\ led'[m] = led[m] /\ take'[m] = take[m])
    BY <1>0, LeaderMoves
  <1>2. lease'[n] \in 0..PerRound /\ take'[m] \in Nat
    BY <1>0, Durations DEF TypeOK
  <1>3. OutwaitsNext(m, lease'[n])
    <2>1. CASE Won(m)
      BY <1>0, <1>2, <2>1, WinOutwaits DEF OutwaitsNext
    <2>2. CASE lease'[n] = 0
      BY <1>2, <2>2 DEF OutwaitsNext
    <2>3. CASE ~Won(m) /\ lease'[n] # 0
      <3>1. role[m] = "leader" /\ led'[m] = led[m] /\ take'[m] = take[m]
        BY <1>1, <2>3
      <3>2. lease'[n] > 0
        BY <1>0, <1>2, <2>3
      <3>3. /\ led'[n] = led[n]
            /\ lease'[n] = lease[n] \/ \E k \in rounds[n] : Majority(n, k)
        BY <1>0, <3>2, LeaseMoves
      <3>4. CASE lease'[n] = lease[n]
        BY <3>1, <3>3, <3>4 DEF TakeoverOK, Outwaits, OutwaitsNext
      <3>5. ASSUME NEW k \in rounds[n], Majority(n, k) PROVE OutwaitsNext(m, lease'[n])
        <4>1. /\ Renewing(n) /\ AckedBy(n, k) \in Quorum
              /\ lease'[n] \in {lease[n], PerRound - k.age}
          BY <1>0, <3>5 DEF Majority, Max2, WorthOf, TypeOK
        <4>2. ASSUME NEW w \in won PROVE w.quorum \cap AckedBy(n, k) # {}
          BY <4>1, QuorumsMeet DEF ElectionInv, WonInv
        <4>3. Outwaits(m, lease[n]) /\ Outwaits(m, PerRound - k.age)
          BY <3>1, <3>3, <3>5, <4>1, <4>2 DEF TakeoverOK
        <4> QED
          BY <3>1, <4>1, <4>3 DEF Outwaits, OutwaitsNext
      <3> QED
        BY <3>3, <3>4, <3>5
    <2> QED
      BY <2>1, <2>2, <2>3
  <1>4. ASSUME up'[n], role'[n] = "leader", transferPhase'[n] \in {"none", "catchup"},
               NEW k \in rounds'[n]
        PROVE  \/ OutwaitsNext(m, PerRound - k.age)
               \/ \E w \in won' : w.epoch > led'[n] /\ w.quorum \cap AckedNext(n, k) = {}
    <2>0. PerRound - k.age \in 0..PerRound
      <3>1. k \in [kind : RoundKinds, age : 0..PerRound]
        BY <1>0, <1>4 DEF TypeOK
      <3> QED
        BY <1>0, <3>1
    <2>1. CASE Won(m)
      BY <1>0, <2>0, <2>1, WinOutwaits DEF OutwaitsNext
    <2>2. CASE \A a \in acks' : ~Counts(a, n, k)
      <3>1. PICK w \in won' : w.node = m /\ w.epoch = led'[m]
        BY DEF ElectionInv, LeaderInv, WonBy
      <3>2. epoch'[n] = led'[n]
        BY <1>4 DEF ProcessInv, ProcessOK, OwnTerm
      <3>3. led'[n] \in Nat /\ led'[m] \in Nat
        BY <1>0 DEF TypeOK
      <3>4. n \in w.quorum => epoch'[n] > w.epoch \/ epoch'[n] = w.epoch
        BY <3>1 DEF ElectionInv, WonInv
      <3>5. n \notin w.quorum
        BY <3>1, <3>2, <3>3, <3>4
      <3>6. AckedNext(n, k) = {n}
        BY <2>2 DEF AckedNext
      <3> QED
        BY <3>1, <3>3, <3>5, <3>6
    <2>3. CASE ~Won(m) /\ Renewing(n) /\ k \in rounds[n] /\ led'[n] = led[n]
      <3>1. role[m] = "leader" /\ led'[m] = led[m] /\ take'[m] = take[m]
        BY <1>1, <2>3
      <3>2. \/ Outwaits(m, PerRound - k.age)
            \/ \E w \in won : w.epoch > led[n] /\ w.quorum \cap AckedBy(n, k) = {}
        BY <2>3, <3>1 DEF TakeoverOK
      <3>3. CASE Outwaits(m, PerRound - k.age)
        BY <3>1, <3>3 DEF Outwaits, OutwaitsNext
      <3>4. ASSUME NEW w \in won, w.epoch > led[n], w.quorum \cap AckedBy(n, k) = {}
            PROVE  w \in won' /\ w.quorum \cap AckedNext(n, k) = {}
        <4>1. won \subseteq won'
          BY LedAndReleased DEF Next, Won, Release
        <4> QED
          BY <2>3, <3>4, <4>1, LaterWinUnanswered
      <3> QED
        BY <2>3, <3>2, <3>3, <3>4
    <2>4. /\ led'[n] = led[n]
          /\ \/ Renewing(n) /\ k \in rounds[n]
             \/ \A a \in acks' : ~Counts(a, n, k)
      BY <1>4, RoundsMove
    <2> QED
      BY <2>1, <2>2, <2>3, <2>4
  <1> QED
    BY <1>3, <1>4

(* A tick takes 9/11 of what it may take of a wait off the lease of a slow clock. *)
LEMMA TickedWait ==
    ASSUME NEW x \in Nat, NEW t \in Nat, NEW r \in 9..11, NEW s \in 9..11, 11 * x <= 9 * t
    PROVE  11 * Left(x, r) <= 9 * Left(t, s)
  BY DEF Left

LEMMA TakeoverTick ==
    ASSUME ElectionInv, RoundInv, Tick, NEW n \in Voters, NEW m \in Voters, TakeoverOK(n, m)
    PROVE  TakeoverOKNext(n, m)
  <1> SUFFICES ASSUME role'[m] = "leader", led'[n] < led'[m]
               PROVE  /\ OutwaitsNext(m, lease'[n])
                      /\ up'[n] /\ role'[n] = "leader" /\ transferPhase'[n] \in {"none", "catchup"} =>
                            \A k \in rounds'[n] :
                               \/ OutwaitsNext(m, PerRound - k.age)
                               \/ \E w \in won' : /\ w.epoch > led'[n]
                                                  /\ w.quorum \cap AckedNext(n, k) = {}
    BY DEF TakeoverOKNext
  <1>0. TypeOK /\ PerRound \in Nat /\ lease[n] \in Nat /\ take[m] \in Nat
    BY Durations DEF ElectionInv, TypeOK
  <1>1. PICK run : Ticked(run)
    BY TickTicks
  <1>2. /\ run[n] \in 9..11 /\ run[m] \in 9..11 /\ run[n] \in Nat
        /\ lease'[n] = Left(lease[n], run[n]) /\ take'[m] = Left(take[m], run[m])
        /\ rounds'[n] = AgedRounds(n, run[n])
        /\ UNCHANGED <<led, won, up, role, transferPhase>>
    BY <1>1 DEF Ticked
  <1>3. Outwaits(m, lease[n])
    BY <1>2 DEF TakeoverOK
  <1>4. OutwaitsNext(m, lease'[n])
    BY <1>0, <1>2, <1>3, TickedWait DEF Outwaits, OutwaitsNext
  <1>5. ASSUME up'[n], role'[n] = "leader", transferPhase'[n] \in {"none", "catchup"},
               NEW k \in rounds'[n]
        PROVE  \/ OutwaitsNext(m, PerRound - k.age)
               \/ \E w \in won' : w.epoch > led'[n] /\ w.quorum \cap AckedNext(n, k) = {}
    <2>1. PICK j \in rounds[n] : j.kind = k.kind /\ k.age = j.age + run[n] /\ j.age \in Nat
      BY <1>0, <1>2, <1>5, TickedRounds
    <2>2. k.age < PerRound
      BY <1>0, <1>2, <1>5, TickedRounds
    <2>3. Renewing(n)
      BY <1>2, <1>5 DEF Renewing, Leads
    <2>4. \/ Outwaits(m, PerRound - j.age)
          \/ \E w \in won : w.epoch > led[n] /\ w.quorum \cap AckedBy(n, j) = {}
      BY <1>2, <2>1, <2>3 DEF TakeoverOK
    <2>5. CASE Outwaits(m, PerRound - j.age)
      <3>1. PerRound - j.age \in Nat /\ Left(PerRound - j.age, run[n]) = PerRound - k.age
        BY <1>0, <1>2, <2>1, <2>2 DEF Left
      <3> QED
        BY <1>0, <1>2, <2>5, <3>1, TickedWait DEF Outwaits, OutwaitsNext
    <2>6. CASE \E w \in won : w.epoch > led[n] /\ w.quorum \cap AckedBy(n, j) = {}
      <3>1. AckedNext(n, k) \subseteq AckedBy(n, j)
        BY <1>0, <1>1, <1>2, <2>1, TickedAnswers
      <3> QED
        BY <1>2, <2>6, <3>1
    <2> QED
      BY <2>4, <2>5, <2>6
  <1> QED
    BY <1>4, <1>5

LEMMA WaitTick ==
    ASSUME TypeOK, Tick, NEW m \in Voters, WaitOK(m)
    PROVE  booting'[m] \/ acting'[m] => wait'[m] >= take'[m]
  <1>1. PICK run : Ticked(run)
    BY TickTicks
  <1>2. /\ run[m] \in Nat /\ wait'[m] = Left(wait[m], run[m]) /\ take'[m] = Left(take[m], run[m])
        /\ UNCHANGED <<booting, acting>>
    BY <1>1 DEF Ticked
  <1>3. wait[m] \in Nat /\ take[m] \in Nat
    BY Durations DEF TypeOK
  <1>4. wait[m] >= take[m] => wait'[m] >= take'[m]
    BY <1>2, <1>3 DEF Left
  <1> QED
    BY <1>2, <1>4 DEF WaitOK

LEMMA TakeoverNext ==
    ASSUME ElectionInv, LeaseInv, ElectionInv', LeaseInv', TakeoverInv, [Next]_vars,
           LateAnswers = FALSE
    PROVE  TakeoverInv'
  <1>0. /\ TypeOK /\ ProcessInv /\ ProcessInv' /\ RoundInv /\ RoundInv'
        /\ \A m \in Voters : WaitOK(m)
        /\ \A n, m \in Voters : TakeoverOK(n, m)
    BY ProcessParts DEF ElectionInv, LeaseInv, TakeoverInv, ProcessInv, ProcessOK, OwnTermInv,
                        StagesInv, ReleasedInv
  <1>1. ASSUME \A m \in Voters : booting'[m] \/ acting'[m] => wait'[m] >= take'[m],
               \A n, m \in Voters : TakeoverOKNext(n, m)
        PROVE  TakeoverInv'
    BY <1>1 DEF TakeoverInv, WaitOK, TakeoverOK, TakeoverOKNext, Outwaits, OutwaitsNext, Renewing,
                Leads, AckedBy, AckedNext, Counts
  <1>2. CASE Tick
    BY <1>0, <1>1, <1>2, WaitTick, TakeoverTick
  <1>3. ASSUME NEW y \in Voters, MemberStep(y) PROVE TakeoverInv'
    <2>1. \A m \in Voters : booting'[m] \/ acting'[m] => wait'[m] >= take'[m]
      BY <1>0, <1>3, WaitStep DEF ProcessInv
    <2>2. \A n, m \in Voters : TakeoverOKNext(n, m)
      BY <1>0, <1>3, TakeoverStep
    <2> QED
      BY <1>1, <2>1, <2>2
  <1>4. CASE (\E m \in renews : LoseCall(m)) \/ UNCHANGED vars
    <2>1. UNCHANGED <<role, led, take, up, lease, acting, wait, booting, rounds, transferPhase,
                      acks, won>>
      BY <1>4 DEF LoseCall, vars, network, disk, asLeader
    <2>2. ASSUME NEW m \in Voters PROVE WaitOK(m)'
      BY <1>0, <2>1 DEF WaitOK
    <2>3. ASSUME NEW n \in Voters, NEW m \in Voters PROVE TakeoverOK(n, m)'
      <3>1. TakeoverOK(n, m)
        BY <1>0
      <3> QED
        BY <2>1, <3>1 DEF TakeoverOK, Outwaits, Renewing, Leads, AckedBy
    <2> QED
      BY <2>2, <2>3 DEF TakeoverInv
  <1> QED
    BY <1>2, <1>3, <1>4 DEF Next

LEMMA OneActs ==
    ASSUME ElectionInv, TakeoverInv
    PROVE  ActingExclusive
  <1> SUFFICES ASSUME NEW n \in Voters, NEW m \in Voters, IsActive(n), IsActive(m), led[n] < led[m]
               PROVE  FALSE
    <2>1. ASSUME NEW n \in Voters, NEW m \in Voters, IsActive(n), IsActive(m), led[n] = led[m]
          PROVE  n = m
      BY <2>1 DEF ElectionInv, LeaderInv, WonBy, OneLeaderPerTerm, IsActive, HoldsLease, Leads
    <2>2. \A n \in Voters : led[n] \in Nat
      BY DEF ElectionInv, TypeOK
    <2> QED
      BY <2>1, <2>2 DEF ActingExclusive
  <1>1. lease[n] \in Nat /\ lease[n] > 0 /\ take[m] \in Nat
    BY Durations DEF ElectionInv, TypeOK, IsActive, HoldsLease
  <1>2. take[m] = 0
    BY <1>1 DEF TakeoverInv, WaitOK, IsActive
  <1>3. 11 * lease[n] <= 9 * take[m]
    BY DEF TakeoverInv, TakeoverOK, Outwaits, IsActive, HoldsLease, Leads
  <1> QED
    BY <1>1, <1>2, <1>3

(* Two instances never act at the same moment (is_active), also when members come back without
   the hold after their start and vote a running lease away: the winner waits it out (_won,
   _booted). Votes that count after T_vote are excluded, as in the run takeover_wait: the wait
   does not cover them. *)
THEOREM OneActing ==
    ASSUME LateAnswers = FALSE
    PROVE  Spec => []ActingExclusive
  <1>1. TakeoverInv /\ ElectionInv /\ LeaseInv /\ ElectionInv' /\ LeaseInv' /\ [Next]_vars
            => TakeoverInv'
    BY TakeoverNext
  <1>2. ElectionInv /\ TakeoverInv => ActingExclusive
    BY OneActs
  <1> QED
    BY TakeoverInit, <1>1, <1>2, ElectionCorrect, LeaseCorrect, PTL DEF Spec
=============================================================================
