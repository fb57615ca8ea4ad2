------------------------------ MODULE HaLease ------------------------------
(***************************************************************************)
(* Who may lead, and for how long: the lease protocol of one automatic     *)
(* group (pegaprox/core/ha_vote.py, class Node), as every member runs it.  *)
(*                                                                         *)
(* The voter config is fixed (automatic mode, one lease length): the chain *)
(* of configs is another component.  A vote refused because the candidate  *)
(* is behind (OLD_CFG, STALE, BELOW_FLOOR) is a vote request that is not   *)
(* answered here. The pre-vote that precedes a vote changes nothing at any *)
(* member, so it is left out: a candidate may ask for votes whenever its   *)
(* own rules let it, which is more often than the code does.               *)
(*                                                                         *)
(* Time.  Every deadline x of the code is kept as x - clock(): what is     *)
(* left of it on that member's own clock, 0 once it is over.  One Tick is  *)
(* TickLength units of true time, in which the clock of member n runs some *)
(* r \in Rates[n], within 10% of it.  A call and its answer are in flight  *)
(* for any time, in any order, and may be lost; "age" is how long ago a    *)
(* round started, on the clock of the member that started it.  No member   *)
(* has to run at any moment, so a pause of a process is just its actions   *)
(* not happening.                                                          *)
(***************************************************************************)
EXTENDS Integers, FiniteSets

CONSTANTS
    Founders,     \* members that may have led the group first
    Data,         \* the data voters: they may campaign and lead
    Witnesses,    \* voters that hold no data and never campaign
    None,         \* Python's None
    LeaseTenth,   \* a tenth of the lease length L
    VoteTenth,    \* a tenth of the vote timeout T_vote
    D,            \* the safety margin
    G,            \* the grace added to the takeover wait
    WonHold,      \* how long a winner or a planned restart asks to be held for
    Rates,        \* how much each member's clock may run in one tick
    Saves,        \* outcomes of the write of a leader that leaves: subset of BOOLEAN
    Forgetful,    \* members that may come back without the hold after start
    LateAnswers,  \* whether a vote counts after T_vote, before the tick that ends it
    Crashing,     \* members that may crash
    Losing,       \* members to which a call may get lost, not just late
    Reboots,      \* whether a start may follow a reboot of the host: subset of BOOLEAN
    Planned,      \* members that may be restarted by plan
    Targets,      \* members an admin may make leader
    MaxEpoch,     \* bound: the highest epoch campaigned for
    MaxCrashes,   \* bound: crashes
    MaxInFlight   \* bound: unanswered renewals one member holds of another

Voters == Data \cup Witnesses
TickLength == 10
Quorum == {Q \in SUBSET Voters : 2 * Cardinality(Q) > Cardinality(Voters)}

(* Timings.__init__: every duration follows from the lease length. *)
P == 11 * LeaseTenth
PerRoundUnscaled == 10 * LeaseTenth - D
PerRound == 9 * LeaseTenth - D
NoHoldAfterStart == 0
HoldAfterStart == P + D
WTakeGraceOnly == D + G
WTake == 11 * (LeaseTenth + VoteTenth) + D + G

ASSUME VotersAssumption ==
    /\ IsFiniteSet(Voters)
    /\ Data \cap Witnesses = {}
    /\ None \notin Voters
    /\ Forgetful \subseteq Voters /\ Crashing \subseteq Voters /\ Losing \subseteq Voters
    /\ Founders \subseteq Data /\ Planned \subseteq Data /\ Targets \subseteq Data
    /\ Reboots \subseteq BOOLEAN
ASSUME TimingAssumption ==
    /\ LeaseTenth \in Nat /\ VoteTenth \in Nat /\ D \in Nat /\ G \in Nat
    /\ WonHold \in Nat /\ WonHold >= P
    /\ PerRound > 0
ASSUME ClockAssumption ==
    /\ Rates \in [Voters -> SUBSET (9..11)]
    /\ Saves \subseteq BOOLEAN
    /\ LateAnswers \in BOOLEAN
ASSUME BoundAssumption == MaxEpoch \in Nat \ {0} /\ MaxCrashes \in Nat /\ MaxInFlight \in Nat

VARIABLES
    \* on disk (new_state)
    role,        \* "standby" or "leader"
    epoch, voted,
    led,         \* led.epoch, 0 while it never led
    take,        \* what is left of led.take_after
    sameBoot,    \* led.take_after was written on this boot (of a leader)
    released,    \* the epoch this leader handed on, 0 for none
    \* memory of the process
    up,          \* the process runs (not dead)
    hold,        \* hold_until
    lease,       \* lease_until
    acting, wait,\* _acting, acting_from
    booting,
    rounds,      \* the renewal rounds out: [kind, age]
    promiseTo, promise,
    allowTo, allowEpoch, allow,    \* self.allow: to, epoch and until
    renewed,     \* whose renewal was last taken in the epoch held
    campEpoch, campAge,            \* _campaign: the epoch asked for, 0 for none
    transferTo, transferPhase,
    \* calls and answers in flight
    voteReqs, grants, renews, acks, campaigns,
    \* history and bounds
    won,         \* every election ever won: who, at which epoch, by which votes
    crashes

disk == <<role, epoch, voted, led, take, sameBoot, released>>
asLeader == <<lease, acting, wait, booting, rounds, transferTo, transferPhase>>
asVoter == <<promiseTo, promise, allowTo, allowEpoch, allow, renewed>>
asCandidate == <<campEpoch, campAge>>
network == <<voteReqs, grants, renews, acks, campaigns>>
vars == <<disk, up, hold, asLeader, asVoter, asCandidate, network, won, crashes>>

Epochs == 0..MaxEpoch
VoteReq == [from : Data, to : Voters, epoch : Epochs]
Grant == [from : Voters, to : Data, epoch : Epochs]
RoundKinds == {"renew", "boot"}
\* A renewal names the round that waits for its answer, "none" when no lease
\* can rest on it any more: a hold, a release, a round closed since.
Renew == [from : Data, to : Voters, epoch : Epochs, round : RoundKinds \cup {"none"},
          age : 0..PerRound, hold : BOOLEAN, release : Data \cup {None}]
Ack == [from : Voters, to : Data, round : RoundKinds, age : 0..PerRound]

(* A witness neither campaigns nor leads, and a term that is handed on goes  *)
(* to somebody.                                                              *)
WitnessesFollow ==
    \A n \in Voters \ Data : role[n] = "standby" /\ campEpoch[n] = 0
TransfersNamed ==
    /\ \A n \in Voters : transferPhase[n] # "none" => transferTo[n] \in Data /\ led[n] < MaxEpoch
    /\ \A m \in renews : m.release # None => m.epoch < MaxEpoch

TypeOK ==
    /\ role \in [Voters -> {"standby", "leader"}]
    /\ epoch \in [Voters -> Epochs]
    /\ voted \in [Voters -> Data \cup {None}]
    /\ led \in [Voters -> Epochs]
    /\ take \in [Voters -> 0..WTake]
    /\ sameBoot \in [Voters -> BOOLEAN]
    /\ released \in [Voters -> Epochs]
    /\ up \in [Voters -> BOOLEAN]
    /\ hold \in [Voters -> 0..HoldAfterStart]
    /\ lease \in [Voters -> 0..PerRound]
    /\ acting \in [Voters -> BOOLEAN]
    /\ wait \in [Voters -> 0..WTake]
    /\ booting \in [Voters -> BOOLEAN]
    /\ rounds \in [Voters -> SUBSET [kind : RoundKinds, age : 0..PerRound]]
    /\ promiseTo \in [Voters -> Data \cup {None}]
    /\ promise \in [Voters -> 0..WonHold]
    /\ allowTo \in [Voters -> Data \cup {None}]
    /\ allowEpoch \in [Voters -> Epochs]
    /\ allow \in [Voters -> 0..P]
    /\ renewed \in [Voters -> Data \cup {None}]
    /\ campEpoch \in [Voters -> Epochs]
    /\ campAge \in [Voters -> 0..WTake]
    /\ transferTo \in [Voters -> Data \cup {None}]
    /\ transferPhase \in [Voters -> {"none", "catchup", "release", "wait"}]
    /\ voteReqs \subseteq VoteReq
    /\ grants \subseteq Grant
    /\ renews \subseteq Renew
    /\ acks \subseteq Ack
    /\ campaigns \subseteq [from : Data, to : Data, epoch : 0..(MaxEpoch - 1)]
    /\ won \subseteq [node : Data, epoch : Epochs, quorum : SUBSET Voters]
    /\ crashes \in 0..MaxCrashes
    /\ WitnessesFollow /\ TransfersNamed

-----------------------------------------------------------------------------
(* What the rules read. *)

PromiseLive(v) == promiseTo[v] # None /\ promise[v] > 0

(* _allowance: the leader handed epoch T to exactly this candidate. *)
Allowance(v, cand, T) == allowTo[v] = cand /\ allowEpoch[v] = T /\ allow[v] > 0

(* A fault of the rules: a vote given twice in a term.                       *)
VoteRulesTwice(v, cand, T) ==
    /\ T >= epoch[v]
    /\ PromiseLive(v) => promiseTo[v] = cand \/ Allowance(v, cand, T)
    /\ hold[v] > 0 => cand = voted[v] \/ Allowance(v, cand, T)

(* _vote_rules, rules 3-5: a term of its own, no promise to anyone else and  *)
(* the hold after start, which only lets the persisted voted_for through.    *)
VoteRules(v, cand, T) ==
    /\ T > epoch[v] \/ (T = epoch[v] /\ voted[v] \in {None, cand})
    /\ PromiseLive(v) => promiseTo[v] = cand \/ Allowance(v, cand, T)
    /\ hold[v] > 0 => cand = voted[v] \/ Allowance(v, cand, T)

(* _self_ok: within the hold a candidate does not even count itself. *)
SelfOk(n, T) ==
    /\ T > epoch[n] \/ (T = epoch[n] /\ voted[n] \in {None, n})
    /\ PromiseLive(n) => promiseTo[n] = n \/ Allowance(n, n, T)
    /\ hold[n] > 0 => Allowance(n, n, T)

OwnTermUnchecked(n) == epoch[n] >= led[n]

(* _lead: the epoch held is the one it won. *)
OwnTerm(n) == epoch[n] = led[n] /\ voted[n] = n

HandedOnForgotten(n) == FALSE

(* _boot: the disk says that this leader handed the next term on. *)
HandedItOn(n) == released[n] = led[n] + 1

Leads(n) == up[n] /\ role[n] = "leader"

(* What the gates read: holds_lease() and is_active(). *)
HoldsLease(n) == Leads(n) /\ lease[n] > 0
IsActive(n) == HoldsLease(n) /\ acting[n] /\ wait[n] = 0

RenewingAfterRelease(n) == Leads(n)

(* A leader that still counts rounds: not one that released its term. *)
Renewing(n) == Leads(n) /\ transferPhase[n] \in {"none", "catchup"}

(* _on_vote: a leader that released its term still votes for the target. *)
HandedTo(n, cand, T) ==
    Leads(n) /\ transferTo[n] = cand /\ T = led[n] + 1 /\ Allowance(n, cand, T)

Max2(a, b) == IF a >= b THEN a ELSE b

-----------------------------------------------------------------------------
(* The answers to calls of n reach a closed round from here on. *)
Unanswered(m) == [m EXCEPT !.round = "none", !.age = 0]
Orphaned(n) == {IF m.from = n THEN Unanswered(m) ELSE m : m \in renews}
NotTo(n, msgs) == {m \in msgs : m.to # n}

(* What a process forgets when it ends: everything that is not on disk. *)
Forget(n) ==
    /\ up' = [up EXCEPT ![n] = FALSE]
    /\ hold' = [hold EXCEPT ![n] = 0]
    /\ lease' = [lease EXCEPT ![n] = 0]
    /\ acting' = [acting EXCEPT ![n] = FALSE]
    /\ wait' = [wait EXCEPT ![n] = 0]
    /\ booting' = [booting EXCEPT ![n] = FALSE]
    /\ rounds' = [rounds EXCEPT ![n] = {}]
    /\ promiseTo' = [promiseTo EXCEPT ![n] = None]
    /\ promise' = [promise EXCEPT ![n] = 0]
    /\ allowTo' = [allowTo EXCEPT ![n] = None]
    /\ allowEpoch' = [allowEpoch EXCEPT ![n] = 0]
    /\ allow' = [allow EXCEPT ![n] = 0]
    /\ renewed' = [renewed EXCEPT ![n] = None]
    /\ campEpoch' = [campEpoch EXCEPT ![n] = 0]
    /\ campAge' = [campAge EXCEPT ![n] = 0]
    /\ transferTo' = [transferTo EXCEPT ![n] = None]
    /\ transferPhase' = [transferPhase EXCEPT ![n] = "none"]
    /\ acks' = NotTo(n, acks)

(* _step_down and _exit: the role goes to disk if it can, and the process    *)
(* ends either way.                                                          *)
StepDown(n) ==
    /\ \E saved \in Saves :
          role' = [role EXCEPT ![n] = IF saved THEN "standby" ELSE @]
    /\ Forget(n)

(* _end_campaign; the answers still on their way count for nothing. *)
EndCampaign(n) ==
    /\ campEpoch' = [campEpoch EXCEPT ![n] = 0]
    /\ campAge' = [campAge EXCEPT ![n] = 0]

(* The calls of one round of n: to every member that does not hold           *)
(* MaxInFlight unanswered ones of n already (_start_round, _owed).           *)
Calls(n, T, round, held, rel) ==
    {[from |-> n, to |-> v, epoch |-> T, round |-> round, age |-> 0, hold |-> held,
      release |-> rel] :
        v \in {x \in Voters \ {n} :
                 Cardinality({r \in renews : r.from = n /\ r.to = x}) < MaxInFlight}}

-----------------------------------------------------------------------------
(* Time, crashes and starts. *)

Left(x, r) == IF x > r THEN x - r ELSE 0
Aged(a, r, cap) == IF a + r < cap THEN a + r ELSE cap

(* A call whose round is as old as a lease waits for no answer any more. *)
AgedCall(m, r) ==
    IF m.round # "none" /\ m.age + r < PerRound
    THEN [m EXCEPT !.age = @ + r]
    ELSE Unanswered(m)

(* How far every clock may run in one tick. *)
ClockRuns == {run \in [Voters -> 9..11] : \A n \in Voters : run[n] \in Rates[n]}

Tick ==
    \E run \in ClockRuns :
      /\ take' = [n \in Voters |-> Left(take[n], run[n])]
      /\ hold' = [n \in Voters |-> Left(hold[n], run[n])]
      /\ lease' = [n \in Voters |-> Left(lease[n], run[n])]
      /\ wait' = [n \in Voters |-> Left(wait[n], run[n])]
      /\ promise' = [n \in Voters |-> Left(promise[n], run[n])]
      /\ allow' = [n \in Voters |-> Left(allow[n], run[n])]
      /\ campAge' = [n \in Voters |-> IF campEpoch[n] > 0
                                      THEN Aged(campAge[n], run[n], WTake) ELSE 0]
      /\ rounds' = [n \in Voters |-> {[k EXCEPT !.age = @ + run[n]] :
                                      k \in {x \in rounds[n] : x.age + run[n] < PerRound}}]
      /\ acks' = {[a EXCEPT !.age = @ + run[a.to]] :
                     a \in {x \in acks : x.age + run[x.to] < PerRound}}
      /\ renews' = {AgedCall(m, run[m.from]) : m \in renews}
      /\ UNCHANGED <<role, epoch, voted, led, sameBoot, released, up, acting, booting,
                     promiseTo, allowTo, allowEpoch, renewed, campEpoch,
                     transferTo, transferPhase, voteReqs, grants, campaigns, won, crashes>>

Crash(n) ==
    /\ n \in Crashing /\ up[n] /\ crashes < MaxCrashes
    /\ crashes' = crashes + 1
    /\ Forget(n)
    /\ grants' = NotTo(n, grants)
    /\ renews' = Orphaned(n)
    /\ UNCHANGED <<disk, voteReqs, campaigns, won>>

(* lease_boot: Node.__init__, _boot, the first tick, which comes before the  *)
(* first call goes out, and the takeover wait of _booted. A leader on disk   *)
(* sends rounds at the epoch it won, unless it handed the next one on: then  *)
(* it goes on as a standby (_boot_failed).                                   *)
Boot(n, reboot) ==
    /\ ~up[n]
    /\ up' = [up EXCEPT ![n] = TRUE]
    /\ \E h \in {HoldAfterStart} \cup (IF n \in Forgetful THEN {0} ELSE {}) :
          hold' = [hold EXCEPT ![n] = h]
    /\ \/ /\ role[n] = "leader" /\ ~HandedItOn(n) /\ OwnTerm(n)
          /\ booting' = [booting EXCEPT ![n] = TRUE]
          /\ sameBoot' = [sameBoot EXCEPT ![n] = @ /\ ~reboot]
          /\ wait' = [wait EXCEPT ![n] = IF sameBoot[n] /\ ~reboot THEN take[n] ELSE WTake]
          /\ rounds' = [rounds EXCEPT ![n] = {[kind |-> "boot", age |-> 0]}]
          /\ renews' = renews \cup Calls(n, led[n], "boot", FALSE, None)
          /\ UNCHANGED role
       \/ /\ role[n] = "leader" /\ HandedItOn(n)
          /\ \E saved \in Saves :
                role' = [role EXCEPT ![n] = IF saved THEN "standby" ELSE @]
          /\ UNCHANGED <<sameBoot, booting, wait, rounds, renews>>
       \/ /\ role[n] = "standby"
          /\ UNCHANGED <<role, sameBoot, booting, wait, rounds, renews>>
    /\ UNCHANGED <<epoch, voted, led, take, released, lease, acting, transferTo, transferPhase,
                   asVoter, asCandidate, voteReqs, grants, acks, campaigns, won, crashes>>

(* The first tick finds that the term moved on since (_lead): the calls of   *)
(* _boot go out all the same, and the process ends.                          *)
BootAndLeave(n) ==
    /\ ~up[n] /\ role[n] = "leader" /\ ~HandedItOn(n) /\ ~OwnTerm(n)
    /\ \E saved \in Saves :
          role' = [role EXCEPT ![n] = IF saved THEN "standby" ELSE @]
    /\ renews' = renews \cup Calls(n, led[n], "none", FALSE, None)
    /\ UNCHANGED <<epoch, voted, led, take, sameBoot, released, up, hold, asLeader, asVoter,
                   asCandidate, voteReqs, grants, acks, campaigns, won, crashes>>

(* _boot_failed as far as the leader goes: its rounds close with it, and the *)
(* role goes to disk if it can.                                              *)
LeaveBoot(n) ==
    /\ \E saved \in Saves :
          role' = [role EXCEPT ![n] = IF booting[n] /\ saved THEN "standby" ELSE @]
    /\ booting' = [booting EXCEPT ![n] = FALSE]
    /\ rounds' = [rounds EXCEPT ![n] = IF booting[n] THEN {} ELSE @]
    /\ wait' = [wait EXCEPT ![n] = IF booting[n] THEN 0 ELSE @]

(* boot_wait ended with no majority, or an answer or a request named a       *)
(* higher epoch. Nothing acted yet: the process goes on as a standby.        *)
BootFailed(n) ==
    /\ Leads(n) /\ booting[n]
    /\ LeaveBoot(n)
    /\ renews' = Orphaned(n)
    /\ acks' = NotTo(n, acks)
    /\ UNCHANGED <<epoch, voted, led, take, sameBoot, released, up, hold, lease, acting,
                   transferTo, transferPhase, asVoter, asCandidate, voteReqs, grants, campaigns,
                   won, crashes>>

-----------------------------------------------------------------------------
(* Elections. *)

(* _vote: its own vote is on disk before the calls go out. *)
CastOwnVote(n, T) ==
    /\ T > epoch[n] /\ SelfOk(n, T)
    /\ epoch' = [epoch EXCEPT ![n] = T]
    /\ voted' = [voted EXCEPT ![n] = n]
    /\ LET spent == allowTo[n] = n /\ allowEpoch[n] = T
       IN  /\ allowTo' = [allowTo EXCEPT ![n] = IF spent THEN None ELSE @]
           /\ allowEpoch' = [allowEpoch EXCEPT ![n] = IF spent THEN 0 ELSE @]
           /\ allow' = [allow EXCEPT ![n] = IF spent THEN 0 ELSE @]
    /\ renewed' = [renewed EXCEPT ![n] = None]
    /\ campEpoch' = [campEpoch EXCEPT ![n] = T]
    /\ campAge' = [campAge EXCEPT ![n] = 0]
    /\ voteReqs' = voteReqs \cup {[from |-> n, to |-> v, epoch |-> T] : v \in Voters \ {n}}
    /\ UNCHANGED <<role, led, take, sameBoot, released, up, hold, asLeader, promiseTo, promise,
                   grants, renews, acks, won, crashes>>

StartVoteOfAnyone(n, T) ==
    /\ up[n] /\ role[n] = "standby" /\ campEpoch[n] = 0
    /\ \E v \in Voters : T <= epoch[v] + 1
    /\ CastOwnVote(n, T)
    /\ UNCHANGED campaigns

(* _maybe_campaign or campaign_now, then _prevote and _vote. The term is one *)
(* above every epoch this member saw.                                        *)
StartVote(n, T) ==
    /\ n \in Data /\ up[n] /\ role[n] = "standby" /\ campEpoch[n] = 0
    /\ \E v \in Voters : T <= epoch[v] + 1
    /\ CastOwnVote(n, T)
    /\ UNCHANGED campaigns

(* _lost: the round timed out, was refused by too many, met a higher epoch,  *)
(* or the write of the vote or of the win failed.                            *)
CampaignLost(n) ==
    /\ up[n] /\ campEpoch[n] > 0
    /\ EndCampaign(n)
    /\ grants' = NotTo(n, grants)
    /\ UNCHANGED <<disk, up, hold, asLeader, asVoter, voteReqs, renews, acks, campaigns, won,
                   crashes>>

(* The answer to a vote request counts while the campaign is open. *)
GrantSent(q) ==
    IF campEpoch[q.from] = q.epoch
    THEN {[from |-> q.to, to |-> q.from, epoch |-> q.epoch]} ELSE {}

VoteWritten(v, q) ==
    /\ epoch' = [epoch EXCEPT ![v] = q.epoch]
    /\ voted' = [voted EXCEPT ![v] = q.from]
    /\ voteReqs' = voteReqs \ {q}

(* _on_vote of a member that leads nothing, or whose boot as a leader ends   *)
(* with this request. The promise counts from here.                          *)
GrantVote(v, q) ==
    /\ q.to = v /\ up[v] /\ VoteRules(v, q.from, q.epoch)
    /\ role[v] = "leader" => booting[v] /\ q.epoch > led[v]
    /\ VoteWritten(v, q)
    /\ LeaveBoot(v) /\ role'[v] = "standby"
    /\ promiseTo' = [promiseTo EXCEPT ![v] = q.from]
    /\ promise' = [promise EXCEPT ![v] = P]
    /\ allowTo' = [allowTo EXCEPT ![v] = None]
    /\ allowEpoch' = [allowEpoch EXCEPT ![v] = 0]
    /\ allow' = [allow EXCEPT ![v] = 0]
    /\ renewed' = [renewed EXCEPT ![v] = IF q.epoch = epoch[v] THEN @ ELSE None]
    /\ EndCampaign(v)
    /\ grants' = NotTo(v, grants) \cup GrantSent(q)
    /\ renews' = Orphaned(v)
    /\ acks' = NotTo(v, acks)
    /\ UNCHANGED <<led, take, sameBoot, released, up, hold, lease, acting, transferTo,
                   transferPhase, campaigns, won, crashes>>

(* _on_vote of a leader that handed this very term on, or of one whose boot  *)
(* failed and that could not write so: it votes, promises nothing and leaves.*)
GrantAndLeave(v, q) ==
    /\ q.to = v /\ VoteRules(v, q.from, q.epoch)
    /\ \/ HandedTo(v, q.from, q.epoch)
       \/ Leads(v) /\ booting[v] /\ q.epoch > led[v] /\ FALSE \in Saves
    /\ VoteWritten(v, q)
    /\ StepDown(v)
    /\ grants' = grants \cup GrantSent(q)
    /\ renews' = Orphaned(v)
    /\ UNCHANGED <<led, take, sameBoot, released, campaigns, won, crashes>>

VotesFor(n) ==
    {n} \cup {g.from : g \in {x \in grants : x.to = n /\ x.epoch = campEpoch[n]}}

(* _won: the win is on disk, the members are asked to hold for the restart,  *)
(* and the process ends (restart_on_win).                                    *)
Won(n) ==
    /\ up[n] /\ campEpoch[n] > 0 /\ VotesFor(n) \in Quorum
    /\ LateAnswers \/ campAge[n] <= 10 * VoteTenth
    /\ role' = [role EXCEPT ![n] = "leader"]
    /\ led' = [led EXCEPT ![n] = campEpoch[n]]
    /\ take' = [take EXCEPT ![n] = WTake - campAge[n]]
    /\ sameBoot' = [sameBoot EXCEPT ![n] = TRUE]
    /\ released' = [released EXCEPT ![n] = 0]
    /\ won' = won \cup {[node |-> n, epoch |-> campEpoch[n], quorum |-> VotesFor(n)]}
    /\ renews' = renews \cup Calls(n, campEpoch[n], "none", TRUE, None)
    /\ Forget(n)
    /\ grants' = NotTo(n, grants)
    /\ UNCHANGED <<epoch, voted, voteReqs, campaigns, crashes>>

-----------------------------------------------------------------------------
(* Leading. *)

(* _start_round out of _lead (every R, and at boot until a majority          *)
(* answered) and out of _confirm_round.                                      *)
StartRound(n) ==
    /\ Renewing(n)
    /\ \/ booting[n] /\ OwnTerm(n)
       \/ ~booting[n] /\ acting[n]
    /\ \A k \in rounds[n] : k.age > 0
    /\ LET kind == IF booting[n] THEN "boot" ELSE "renew"
       IN  /\ rounds' = [rounds EXCEPT ![n] = @ \cup {[kind |-> kind, age |-> 0]}]
           /\ renews' = renews \cup Calls(n, led[n], kind, FALSE, None)
    /\ UNCHANGED <<disk, up, hold, lease, acting, wait, booting, transferTo, transferPhase,
                   asVoter, asCandidate, voteReqs, grants, acks, campaigns, won, crashes>>

(* A second member renewing in a term gets nothing while the promise to the  *)
(* first still runs.                                                         *)
OneLeaderRenews(v, m) ==
    (m.epoch = epoch[v] /\ renewed[v] # None /\ promiseTo[v] = renewed[v] /\ PromiseLive(v))
        => renewed[v] = m.from

(* _on_renew: the epoch and its leader are on disk before the answer.        *)
OnRenew(v, m) ==
    /\ m.to = v /\ up[v] /\ m.epoch >= epoch[v]
    /\ role[v] = "leader" => booting[v] /\ m.epoch >= led[v]
    /\ OneLeaderRenews(v, m)
    /\ epoch' = [epoch EXCEPT ![v] = m.epoch]
    /\ voted' = [voted EXCEPT ![v] = m.from]
    /\ LeaveBoot(v)
    /\ promiseTo' = [promiseTo EXCEPT ![v] = m.from]
    /\ promise' = [promise EXCEPT ![v] = IF m.hold THEN WonHold ELSE P]
    /\ LET keeps == allowEpoch[v] = m.epoch + 1
           given == m.release # None
       IN  /\ allowTo' = [allowTo EXCEPT ![v] = IF given THEN m.release
                                                ELSE IF keeps THEN @ ELSE None]
           /\ allowEpoch' = [allowEpoch EXCEPT ![v] = IF given THEN m.epoch + 1
                                                      ELSE IF keeps THEN @ ELSE 0]
           /\ allow' = [allow EXCEPT ![v] = IF given THEN P ELSE IF keeps THEN @ ELSE 0]
    /\ renewed' = [renewed EXCEPT ![v] = m.from]
    /\ IF campEpoch[v] <= m.epoch + 1
       THEN EndCampaign(v) /\ grants' = NotTo(v, grants)
       ELSE UNCHANGED <<asCandidate, grants>>
    /\ renews' = Orphaned(v) \ {m}
    /\ acks' = NotTo(v, acks) \cup
                 (IF m.round # "none"
                  THEN {[from |-> v, to |-> m.from, round |-> m.round, age |-> m.age]} ELSE {})
    /\ UNCHANGED <<led, take, sameBoot, released, up, hold, lease, acting, transferTo,
                   transferPhase, voteReqs, campaigns, won, crashes>>

AckedBy(n, k) ==
    {n} \cup {a.from : a \in {x \in acks : x.to = n /\ x.round = k.kind /\ x.age = k.age}}

(* A round is worth a lease from the moment it started, not from its answers. *)
WorthOf(k) == PerRound - k.age

(* _majority: the lease counts from the start of the round. The round of a   *)
(* boot makes the process act, once the takeover wait is over (_booted).     *)
Majority(n, k) ==
    /\ Renewing(n) /\ k \in rounds[n] /\ AckedBy(n, k) \in Quorum
    /\ lease' = [lease EXCEPT ![n] = Max2(@, WorthOf(k))]
    /\ booting' = [booting EXCEPT ![n] = FALSE]
    /\ acting' = [acting EXCEPT ![n] = @ \/ booting[n]]
    /\ rounds' = [rounds EXCEPT ![n] = @ \ {k}]
    /\ acks' = {a \in acks : ~(a.to = n /\ a.round = k.kind /\ a.age = k.age)}
    /\ renews' = {IF m.from = n /\ m.round = k.kind /\ m.age = k.age
                  THEN Unanswered(m) ELSE m : m \in renews}
    /\ UNCHANGED <<disk, up, hold, wait, transferTo, transferPhase, asVoter, asCandidate,
                   voteReqs, grants, campaigns, won, crashes>>

LeavesLead(n) ==
    /\ StepDown(n)
    /\ renews' = Orphaned(n)
    /\ UNCHANGED <<epoch, voted, led, take, sameBoot, released, voteReqs, grants, campaigns,
                   won, crashes>>

(* _lease_check, of every tick and every request. *)
Lose(n) ==
    /\ Renewing(n) /\ ~booting[n] /\ lease[n] = 0
    /\ LeavesLead(n)

(* _lead: a leader whose term moved on renews no more. *)
TermMovedOn(n) ==
    /\ Leads(n) /\ ~OwnTerm(n)
    /\ LeavesLead(n)

(* A vote request or a renewal at a higher epoch, or an answer of a member   *)
(* that is at one (_on_vote, _on_renew, on_answer).                          *)
SeesHigherEpoch(n) ==
    /\ Leads(n) /\ ~booting[n]
    /\ \/ \E q \in voteReqs : q.to = n /\ q.epoch > led[n] /\ ~HandedTo(n, q.from, q.epoch)
       \/ \E m \in renews : m.to = n /\ m.epoch >= led[n]
       \/ \E v \in Voters : epoch[v] > led[n]
    /\ LeavesLead(n)

(* step_down: a newer claim on a cluster, or a tombstone. *)
ToldToStepDown(n) == Leads(n) /\ LeavesLead(n)

-----------------------------------------------------------------------------
(* Handing the term on. *)

TransferStep(n, phase) == transferPhase' = [transferPhase EXCEPT ![n] = phase]

(* transfer_to *)
TransferTo(n, t) ==
    /\ IsActive(n) /\ transferPhase[n] = "none" /\ t # n /\ led[n] < MaxEpoch
    /\ TransferStep(n, "catchup")
    /\ transferTo' = [transferTo EXCEPT ![n] = t]
    /\ UNCHANGED <<disk, up, hold, lease, acting, wait, booting, rounds, asVoter, asCandidate,
                   network, won, crashes>>

(* The target did not catch up in time, or the hand-over was not written. *)
TransferRefused(n) ==
    /\ Leads(n) /\ transferPhase[n] = "catchup"
    /\ TransferStep(n, "none")
    /\ transferTo' = [transferTo EXCEPT ![n] = None]
    /\ UNCHANGED <<disk, up, hold, lease, acting, wait, booting, rounds, asVoter, asCandidate,
                   network, won, crashes>>

(* The target caught up: the hand-over goes to disk, the leader stops acting *)
(* and hands the next term to exactly this member.                           *)
Release(n) ==
    /\ Leads(n) /\ transferPhase[n] = "catchup" /\ OwnTerm(n)
    /\ released' = [released EXCEPT ![n] = led[n] + 1]
    /\ lease' = [lease EXCEPT ![n] = 0]
    /\ acting' = [acting EXCEPT ![n] = FALSE]
    /\ allowTo' = [allowTo EXCEPT ![n] = transferTo[n]]
    /\ allowEpoch' = [allowEpoch EXCEPT ![n] = led[n] + 1]
    /\ allow' = [allow EXCEPT ![n] = P]
    /\ renews' = renews \cup Calls(n, led[n], "none", FALSE, transferTo[n])
    /\ TransferStep(n, "release")
    /\ UNCHANGED <<role, epoch, voted, led, take, sameBoot, up, hold, wait, booting, rounds,
                   transferTo, promiseTo, promise, renewed, asCandidate, voteReqs, grants, acks,
                   campaigns, won, crashes>>

(* The release round is back or over: the target is told to campaign. *)
SendCampaign(n) ==
    /\ Leads(n) /\ transferPhase[n] = "release" /\ OwnTerm(n)
    /\ campaigns' = campaigns \cup {[from |-> n, to |-> transferTo[n], epoch |-> led[n]]}
    /\ TransferStep(n, "wait")
    /\ UNCHANGED <<disk, up, hold, lease, acting, wait, booting, rounds, transferTo, asVoter,
                   asCandidate, voteReqs, grants, renews, acks, won, crashes>>

(* _on_campaign: a vote without a pre-vote. *)
OnCampaign(v, c) ==
    /\ c.to = v /\ up[v] /\ role[v] = "standby" /\ epoch[v] = c.epoch
    /\ Allowance(v, v, c.epoch + 1) /\ campEpoch[v] = 0
    /\ CastOwnVote(v, c.epoch + 1)
    /\ campaigns' = campaigns \ {c}

(* The transfer did not complete in time. *)
TransferLost(n) ==
    /\ Leads(n) /\ transferPhase[n] = "wait"
    /\ LeavesLead(n)

(* planned_restart: the role stays on disk, the members are asked to hold. *)
PlannedRestart(n) ==
    /\ n \in Planned /\ Leads(n)
    /\ renews' = Orphaned(n) \cup Calls(n, led[n], "none", TRUE, None)
    /\ Forget(n)
    /\ UNCHANGED <<disk, voteReqs, grants, campaigns, won, crashes>>

(* A renewal that never arrives. *)
LoseCall(m) ==
    /\ m.to \in Losing
    /\ renews' = renews \ {m}
    /\ UNCHANGED <<disk, up, hold, asLeader, asVoter, asCandidate, voteReqs, grants, acks,
                   campaigns, won, crashes>>

-----------------------------------------------------------------------------
(* The group right after the first round of its first leader reached everyone. *)
FoundedBy(a) ==
    LET here(x, y) == [n \in Voters |-> IF n = a THEN x ELSE y]
        all(x) == [n \in Voters |-> x]
    IN  /\ role = here("leader", "standby")
        /\ epoch = all(1) /\ voted = all(a)
        /\ led = here(1, 0) /\ take = all(0) /\ sameBoot = all(TRUE) /\ released = all(0)
        /\ up = all(TRUE) /\ hold = all(0)
        /\ lease = here(PerRound, 0) /\ acting = here(TRUE, FALSE) /\ wait = all(0)
        /\ booting = all(FALSE) /\ rounds = all({})
        /\ promiseTo = here(None, a) /\ promise = here(0, P)
        /\ allowTo = all(None) /\ allowEpoch = all(0) /\ allow = all(0)
        /\ renewed = here(None, a)
        /\ campEpoch = all(0) /\ campAge = all(0)
        /\ transferTo = all(None) /\ transferPhase = all("none")
        /\ voteReqs = {} /\ grants = {} /\ renews = {} /\ acks = {} /\ campaigns = {}
        /\ won = {[node |-> a, epoch |-> 1, quorum |-> Voters]}
        /\ crashes = 0

Init == \E a \in Founders : FoundedBy(a)

MemberStep(n) ==
    \/ Crash(n)
    \/ \E reboot \in Reboots : Boot(n, reboot)
    \/ BootAndLeave(n)
    \/ BootFailed(n)
    \/ \E T \in 1..MaxEpoch : StartVote(n, T)
    \/ CampaignLost(n)
    \/ \E q \in voteReqs : GrantVote(n, q)
    \/ \E q \in voteReqs : GrantAndLeave(n, q)
    \/ Won(n)
    \/ StartRound(n)
    \/ \E m \in renews : OnRenew(n, m)
    \/ \E k \in rounds[n] : Majority(n, k)
    \/ Lose(n)
    \/ TermMovedOn(n)
    \/ SeesHigherEpoch(n)
    \/ ToldToStepDown(n)
    \/ \E t \in Targets : TransferTo(n, t)
    \/ TransferRefused(n)
    \/ Release(n)
    \/ SendCampaign(n)
    \/ \E c \in campaigns : OnCampaign(n, c)
    \/ TransferLost(n)
    \/ PlannedRestart(n)

Next ==
    \/ Tick
    \/ \E n \in Voters : MemberStep(n)
    \/ \E m \in renews : LoseCall(m)

Spec == Init /\ [][Next]_vars

-----------------------------------------------------------------------------
(* Correctness. *)

(* A term has one winner: no two elections of one epoch were won by          *)
(* different members, whatever was granted late, lost or crashed (_on_vote,  *)
(* _vote, _won).                                                             *)
OneLeaderPerTerm ==
    \A x, y \in won : x.epoch = y.epoch => x.node = y.node

(* What the module promises in its first paragraph: two instances never hold *)
(* a valid lease at the same moment (holds_lease).                           *)
LeaseExclusive ==
    \A n, m \in Voters : HoldsLease(n) /\ HoldsLease(m) => n = m

(* Nobody wins a later term while a lease of an earlier one still runs: the  *)
(* promises and the hold after start outlive every lease that rests on them. *)
NoWinUnderALease ==
    \A n \in Voters, w \in won : HoldsLease(n) => w.epoch <= led[n]

(* Two instances never act at the same moment (is_active).                   *)
ActingExclusive ==
    \A n, m \in Voters : IsActive(n) /\ IsActive(m) => n = m

(* Once a term was handed on, to a voter or in a call still on its way, no   *)
(* member holds a lease of the term before it, in this process or in one it  *)
(* restarts into (released, _boot, _majority).                               *)
HandedOn(U) ==
    \/ \E v \in Voters : allowEpoch[v] = U /\ allow[v] > 0
    \/ \E m \in renews : m.release # None /\ m.epoch + 1 = U
HandedOnStops ==
    \A n \in Voters : HoldsLease(n) => ~HandedOn(led[n] + 1)

(* What a restart relies on: an epoch on disk never goes back, and within an *)
(* epoch voted_for only ever moves to the member that won it (_on_renew).    *)
VotesMoveToTheWinner ==
    [][\A v \in Voters :
          /\ epoch'[v] >= epoch[v]
          /\ (epoch'[v] = epoch[v] /\ voted'[v] # voted[v]) =>
                 \E w \in won : w.node = voted'[v] /\ w.epoch = epoch[v]]_vars

-----------------------------------------------------------------------------
(* What the rest of the program is promised. *)

Newest == CHOOSE w \in won : \A x \in won : x.epoch <= w.epoch
Holder == IF \E n \in Voters : HoldsLease(n)
          THEN CHOOSE n \in Voters : HoldsLease(n) ELSE None

Leader == INSTANCE HaLeader
    WITH Members <- Data, term <- Newest.epoch, winner <- Newest.node, holder <- Holder

(* The lease protocol gives one lease: to the winner of the newest term, and *)
(* only after nobody holds one does a newer term begin (holds_lease, _won,   *)
(* _majority, _lease_check).                                                 *)
LeaderSpec == Leader!Spec

=============================================================================
