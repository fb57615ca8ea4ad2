-------------------------- MODULE HaElectionProofs --------------------------
(***************************************************************************)
(* A term of HaLease has one winner, for every group and whatever crashes, *)
(* gets lost or comes late. ElectionInv is inductive: most steps leave     *)
(* votes and terms alone (KeepsElections), and a candidate's own vote, a   *)
(* vote granted, a win and a renewal get a lemma each.                     *)
(***************************************************************************)
EXTENDS HaLeaseProofs

USE DEF Epochs, RoundKinds

-----------------------------------------------------------------------------
(* Any two majorities share a voter. *)
LEMMA QuorumsMeet ==
    ASSUME NEW Q \in Quorum, NEW R \in Quorum
    PROVE  \E v \in Voters : v \in Q /\ v \in R
  <1>1. /\ Q \subseteq Voters /\ R \subseteq Voters /\ IsFiniteSet(Voters)
        /\ 2 * Cardinality(Q) > Cardinality(Voters) /\ 2 * Cardinality(R) > Cardinality(Voters)
    BY VotersAssumption DEF Quorum
  <1>2. /\ Cardinality(Q) \in Nat /\ Cardinality(R) \in Nat /\ Cardinality(Voters) \in Nat
    BY <1>1, FS_Subset, FS_CardinalityType
  <1>3. Cardinality(Q) + Cardinality(R) > Cardinality(Voters)
    BY <1>1, <1>2
  <1>4. Q \cap R # {}
    BY <1>1, <1>3, FS_MajoritiesIntersect
  <1> QED
    BY <1>1, <1>4

(* What counts for a candidate: its own vote and the grants of its term. *)
LEMMA VoteCounts ==
    ASSUME NEW n, NEW x
    PROVE  x \in VotesFor(n) <=>
              x = n \/ \E g \in grants : g.to = n /\ g.epoch = campEpoch[n] /\ g.from = x
  BY DEF VotesFor

(* A renewal on its way stays one of a winner, and a leader sends no other. *)
FromWinners(msgs) == \A m \in msgs : m.from # m.to /\ WonBy(m.from, m.epoch)

LEMMA OrphanedFromWinners ==
    ASSUME ElectionInv, NEW n
    PROVE  FromWinners(Orphaned(n))
  <1>1. renews \subseteq Renew
    BY DEF ElectionInv, TypeOK
  <1>2. FromWinners(renews)
    BY DEF ElectionInv, LeaderInv, FromWinners
  <1> QED
    BY <1>1, <1>2, OrphanedMembers DEF FromWinners

SentBy(msgs, n, T) == \A m \in msgs : m.from = n /\ m.to # n /\ m.epoch = T

LEMMA CallsFrom ==
    ASSUME NEW n, NEW T, NEW round, NEW held, NEW rel
    PROVE  SentBy(Calls(n, T, round, held, rel), n, T)
  BY CallsMembers DEF SentBy

LEMMA CallsFromWinners ==
    ASSUME ElectionInv, NEW n \in Voters, role[n] = "leader",
           NEW round, NEW held, NEW rel
    PROVE  FromWinners(Calls(n, led[n], round, held, rel))
  <1>1. WonBy(n, led[n])
    BY DEF ElectionInv, LeaderInv
  <1> QED
    BY <1>1, CallsFrom DEF FromWinners, SentBy

-----------------------------------------------------------------------------
(* A step that moves no vote and no term: it may end campaigns, lose what is *)
(* on its way to them, and send renewals of a winner.                        *)
Quiet ==
    /\ UNCHANGED <<epoch, voted, led, won>>
    /\ voteReqs' \subseteq voteReqs /\ grants' \subseteq grants
    /\ \A c \in Voters : campEpoch'[c] > 0 =>
          campEpoch'[c] = campEpoch[c] /\ up'[c] /\ role'[c] = "standby"
    /\ \A g \in grants' : campEpoch'[g.to] = campEpoch[g.to]
    /\ \A n \in Voters : role'[n] = "leader" => role[n] = "leader"
    /\ FromWinners(renews')

LEMMA KeepsElections ==
    ASSUME ElectionInv, TypeOK', Quiet
    PROVE  ElectionInv'
  <1>0. /\ CampaignInv /\ VoteReqInv /\ VotedInv /\ GrantInv /\ WonInv /\ DisjointInv
        /\ LeaderInv /\ OneLeaderPerTerm
    BY DEF ElectionInv
  <1>1. \A n, T : WonBy(n, T)' = WonBy(n, T)
    BY DEF Quiet, WonBy
  <1>2. CampaignInv'
    BY <1>0 DEF Quiet, CampaignInv
  <1>3. VoteReqInv' /\ VotedInv'
    BY <1>0 DEF Quiet, VoteReqInv, VotedInv
  <1>4. GrantInv'
    BY <1>0, <1>1 DEF Quiet, GrantInv
  <1>5. WonInv' /\ OneLeaderPerTerm'
    BY <1>0 DEF Quiet, WonInv, OneLeaderPerTerm
  <1>6. \A c \in Voters : campEpoch'[c] > 0 => VotesFor(c)' \subseteq VotesFor(c)
    BY DEF Quiet, VotesFor
  <1>7. DisjointInv'
    <2>1. ASSUME NEW c \in Voters, NEW d \in Voters, c # d, campEpoch'[c] > 0,
                 campEpoch'[c] = campEpoch'[d]
          PROVE  VotesFor(c)' \cap VotesFor(d)' = {}
      <3>1. VotesFor(c) \cap VotesFor(d) = {}
        BY <2>1, <1>0 DEF Quiet, DisjointInv
      <3> QED
        BY <2>1, <3>1, <1>6
    <2>2. ASSUME NEW c \in Voters, NEW w \in won', campEpoch'[c] > 0, w.epoch = campEpoch'[c]
          PROVE  w.node # c /\ w.quorum \cap VotesFor(c)' = {}
      <3>1. w.node # c /\ w.quorum \cap VotesFor(c) = {}
        BY <2>2, <1>0 DEF Quiet, DisjointInv
      <3> QED
        BY <2>2, <3>1, <1>6
    <2> QED
      BY <2>1, <2>2 DEF DisjointInv
  <1>8. LeaderInv'
    BY <1>0, <1>1 DEF Quiet, LeaderInv, FromWinners
  <1> QED
    BY <1>2, <1>3, <1>4, <1>5, <1>7, <1>8 DEF ElectionInv

-----------------------------------------------------------------------------
(* The steps that move votes. *)

(* A candidate's own vote opens a campaign that shares no vote with any      *)
(* other of that term: whoever voted in it already is at that epoch.         *)
LEMMA CastOwnVoteElects ==
    ASSUME ElectionInv, TypeOK', NEW n \in Data, NEW T \in Epochs, CastOwnVote(n, T),
           up[n], role[n] = "standby", campEpoch[n] = 0
    PROVE  ElectionInv'
  <1>0. /\ TypeOK /\ CampaignInv /\ VoteReqInv /\ VotedInv /\ GrantInv /\ WonInv /\ DisjointInv
        /\ LeaderInv /\ OneLeaderPerTerm /\ n \in Voters
    BY DEF ElectionInv, Voters
  <1>1. /\ T > epoch[n] /\ T > 0
        /\ epoch' = [epoch EXCEPT ![n] = T] /\ voted' = [voted EXCEPT ![n] = n]
        /\ campEpoch' = [campEpoch EXCEPT ![n] = T]
        /\ voteReqs' = voteReqs \cup {[from |-> n, to |-> v, epoch |-> T] : v \in Voters \ {n}}
        /\ UNCHANGED <<role, led, up, grants, renews, won>>
    BY <1>0 DEF CastOwnVote, TypeOK
  <1>2. /\ \A v \in Voters : epoch[v] \in Nat /\ epoch'[v] \in Nat /\ epoch'[v] >= epoch[v]
        /\ \A v \in Voters \ {n} : epoch'[v] = epoch[v] /\ voted'[v] = voted[v]
        /\ epoch'[n] = T /\ voted'[n] = n /\ campEpoch'[n] = T
        /\ \A c \in Voters \ {n} : campEpoch'[c] = campEpoch[c]
    BY <1>0, <1>1 DEF TypeOK
  <1>3. \A x, U : WonBy(x, U)' = WonBy(x, U)
    BY <1>1 DEF WonBy
  <1>4. \A g \in grants : g.to # n /\ g.to \in Voters /\ g.from \in Voters /\ g.epoch \in Nat
    BY <1>0, <1>1 DEF GrantInv, TypeOK, Grant, Voters
  <1>5. CampaignInv'
    BY <1>0, <1>1, <1>2 DEF CampaignInv
  <1>6. VoteReqInv' /\ VotedInv'
    <2>1. ASSUME NEW q \in voteReqs
          PROVE  q.from # q.to /\ q.epoch > 0 /\ q.epoch <= epoch'[q.from]
      <3>1. q.from \in Voters /\ q.epoch \in Nat
        BY <1>0 DEF TypeOK, VoteReq, Voters
      <3> QED
        BY <3>1, <1>0, <1>2 DEF VoteReqInv
    <2>2. VotedInv'
      BY <1>0, <1>2 DEF VotedInv
    <2> QED
      BY <2>1, <2>2, <1>1, <1>2 DEF VoteReqInv
  <1>7. GrantInv'
    BY <1>0, <1>1, <1>2, <1>3, <1>4 DEF GrantInv
  <1>8. WonInv' /\ OneLeaderPerTerm'
    <2>1. \A w \in won : w.epoch \in Nat /\ w.quorum \subseteq Voters
      BY <1>0 DEF TypeOK
    <2> QED
      BY <2>1, <1>0, <1>1, <1>2 DEF WonInv, OneLeaderPerTerm
  <1>9. DisjointInv'
    <2>1. /\ VotesFor(n)' = {n}
          /\ \A c \in Voters \ {n} : VotesFor(c)' = VotesFor(c)
      BY <1>1, <1>2, <1>4 DEF VotesFor
    <2>2. ASSUME NEW c \in Voters \ {n}, campEpoch[c] = T
          PROVE  n \notin VotesFor(c)
      <3>1. SUFFICES ASSUME NEW g \in grants, g.from = n, g.epoch = T PROVE FALSE
        BY <2>2 DEF VotesFor
      <3> QED
        BY <3>1, <1>0, <1>1, <1>2 DEF GrantInv
    <2>3. ASSUME NEW w \in won, w.epoch = T
          PROVE  w.node # n /\ n \notin w.quorum
      BY <2>3, <1>0, <1>1, <1>2 DEF WonInv
    <2>4. ASSUME NEW c \in Voters, NEW d \in Voters, c # d, campEpoch'[c] > 0,
                 campEpoch'[c] = campEpoch'[d]
          PROVE  VotesFor(c)' \cap VotesFor(d)' = {}
      <3>1. CASE c = n BY <3>1, <2>4, <2>1, <2>2, <1>2
      <3>2. CASE d = n BY <3>2, <2>4, <2>1, <2>2, <1>2
      <3>3. CASE c # n /\ d # n BY <3>3, <2>4, <2>1, <1>0, <1>2 DEF DisjointInv
      <3> QED BY <3>1, <3>2, <3>3
    <2>5. ASSUME NEW c \in Voters, NEW w \in won', campEpoch'[c] > 0, w.epoch = campEpoch'[c]
          PROVE  w.node # c /\ w.quorum \cap VotesFor(c)' = {}
      <3>1. CASE c = n BY <3>1, <2>5, <2>1, <2>3, <1>1, <1>2
      <3>2. CASE c # n BY <3>2, <2>5, <2>1, <1>0, <1>1, <1>2 DEF DisjointInv
      <3> QED BY <3>1, <3>2
    <2> QED
      BY <2>4, <2>5 DEF DisjointInv
  <1>10. LeaderInv'
    BY <1>0, <1>1, <1>3 DEF LeaderInv
  <1> QED
    BY <1>5, <1>6, <1>7, <1>8, <1>9, <1>10 DEF ElectionInv

(* What every way to grant a vote does to votes and terms. *)
Grants(v, q) ==
    /\ VoteRules(v, q.from, q.epoch) /\ q.to = v
    /\ epoch' = [epoch EXCEPT ![v] = q.epoch] /\ voted' = [voted EXCEPT ![v] = q.from]
    /\ campEpoch' = [campEpoch EXCEPT ![v] = 0]
    /\ voteReqs' \subseteq voteReqs
    /\ grants' = NotTo(v, grants) \cup GrantSent(q)
    /\ UNCHANGED <<led, won>>
    /\ \A c \in Voters \ {v} : up'[c] = up[c] /\ role'[c] = role[c]
    /\ role'[v] = "leader" => role[v] = "leader"
    /\ FromWinners(renews')

(* A vote granted: a voter that voted in that term before voted for the same *)
(* candidate, so no other one of that term and no winner had its vote.       *)
LEMMA GrantElects ==
    ASSUME ElectionInv, TypeOK', NEW v \in Voters, NEW q \in voteReqs, Grants(v, q)
    PROVE  ElectionInv'
  <1>0. /\ TypeOK /\ CampaignInv /\ VoteReqInv /\ VotedInv /\ GrantInv /\ WonInv /\ DisjointInv
        /\ LeaderInv /\ OneLeaderPerTerm
    BY DEF ElectionInv
  <1> DEFINE c0 == q.from
             T == q.epoch
  <1>q. c0 \in Data /\ c0 \in Voters /\ c0 # v /\ T \in Nat /\ T > 0
    BY <1>0 DEF TypeOK, VoteReq, Voters, VoteReqInv, Grants
  <1> HIDE DEF c0, T
  <1>1. /\ epoch[v] \in Nat
        /\ T > epoch[v] \/ (T = epoch[v] /\ voted[v] = c0)
    <2>1. voted[v] # None
      BY <1>0, VotersAssumption DEF VotedInv, Voters
    <2> QED
      BY <2>1, <1>0 DEF Grants, VoteRules, TypeOK, c0, T
  <1>2. /\ \A x \in Voters : epoch[x] \in Nat /\ epoch'[x] \in Nat /\ epoch'[x] >= epoch[x]
        /\ \A x \in Voters \ {v} : epoch'[x] = epoch[x] /\ voted'[x] = voted[x]
        /\ epoch'[v] = T /\ voted'[v] = c0 /\ campEpoch'[v] = 0
        /\ \A c \in Voters \ {v} : campEpoch'[c] = campEpoch[c]
    BY <1>0, <1>1, <1>q DEF TypeOK, Grants, c0, T
  <1>3. \A x, U : WonBy(x, U)' = WonBy(x, U)
    BY DEF WonBy, Grants
  <1>4. \A g \in grants : g.to \in Voters /\ g.from \in Voters /\ g.epoch \in Nat
    BY <1>0 DEF TypeOK, Grant, Voters
  <1>5. \A g \in grants' : \/ g \in grants /\ g.to # v
                           \/ /\ g.from = v /\ g.to = c0 /\ g.epoch = T /\ campEpoch[c0] = T
    BY DEF Grants, NotTo, GrantSent, c0, T
  <1>6. CampaignInv'
    BY <1>0, <1>2 DEF CampaignInv, Grants
  <1>7. VoteReqInv' /\ VotedInv'
    <2>1. ASSUME NEW p \in voteReqs
          PROVE  p.from # p.to /\ p.epoch > 0 /\ p.epoch <= epoch'[p.from]
      <3>1. p.from \in Voters /\ p.epoch \in Nat
        BY <1>0 DEF TypeOK, VoteReq, Voters
      <3> QED
        BY <3>1, <1>0, <1>2 DEF VoteReqInv
    <2>2. VotedInv'
      BY <1>0, <1>2, <1>q DEF VotedInv
    <2> QED
      BY <2>1, <2>2 DEF VoteReqInv, Grants
  <1>8. GrantInv'
    <2>1. SUFFICES ASSUME NEW g \in grants'
                   PROVE  /\ g.epoch > 0 /\ campEpoch'[g.to] = g.epoch /\ g.from # g.to
                          /\ epoch'[g.from] >= g.epoch
                          /\ epoch'[g.from] = g.epoch =>
                                voted'[g.from] = g.to \/ WonBy(voted'[g.from], g.epoch)
      BY <1>3 DEF GrantInv
    <2>2. CASE g.from = v /\ g.to = c0 /\ g.epoch = T /\ campEpoch[c0] = T
      BY <2>2, <1>2, <1>q
    <2>3. CASE g \in grants /\ g.to # v
      <3>1. /\ g.epoch > 0 /\ campEpoch[g.to] = g.epoch /\ g.from # g.to
            /\ epoch[g.from] >= g.epoch
            /\ epoch[g.from] = g.epoch => voted[g.from] = g.to \/ WonBy(voted[g.from], g.epoch)
        BY <2>3, <1>0 DEF GrantInv
      <3>2. CASE g.from = v
        BY <3>1, <3>2, <2>3, <1>1, <1>2, <1>4
      <3>3. CASE g.from # v
        BY <3>1, <3>3, <2>3, <1>2, <1>4
      <3> QED BY <3>2, <3>3
    <2> QED BY <2>2, <2>3, <1>5
  <1>9. WonInv' /\ OneLeaderPerTerm'
    <2>1. \A w \in won : w.epoch \in Nat /\ w.quorum \subseteq Voters
      BY <1>0 DEF TypeOK
    <2>2. ASSUME NEW w \in won, NEW x \in w.quorum
          PROVE  epoch'[x] > w.epoch \/ (epoch'[x] = w.epoch /\ voted'[x] = w.node)
      <3>1. x \in Voters /\ (epoch[x] > w.epoch \/ (epoch[x] = w.epoch /\ voted[x] = w.node))
        BY <2>1, <1>0 DEF WonInv
      <3>2. CASE x = v BY <3>1, <3>2, <2>1, <1>1, <1>2
      <3>3. CASE x # v BY <3>1, <3>3, <1>2
      <3> QED BY <3>2, <3>3
    <2> QED
      BY <2>2, <1>0 DEF WonInv, OneLeaderPerTerm, Grants
  <1>10. DisjointInv'
    <2>1. ASSUME NEW c \in Voters, campEpoch'[c] > 0
          PROVE  /\ c # v /\ campEpoch'[c] = campEpoch[c]
                 /\ \A x \in VotesFor(c)' : x \in VotesFor(c) \/
                       (x = v /\ c = c0 /\ campEpoch[c] = T)
      <3>1. c # v /\ campEpoch'[c] = campEpoch[c]
        BY <2>1, <1>2
      <3>2. \A x \in VotesFor(c)' : x = c \/ \E g \in grants' :
               g.to = c /\ g.epoch = campEpoch'[c] /\ g.from = x
        BY DEF VotesFor
      <3> QED
        BY <3>1, <3>2, <1>5 DEF VotesFor
    <2>2. ASSUME NEW w \in won, w.epoch = T, campEpoch[c0] = T
          PROVE  v \notin w.quorum
      <3>1. w.node # c0
        BY <2>2, <1>0, <1>q DEF DisjointInv
      <3> QED
        BY <3>1, <2>2, <1>0, <1>1, <1>q DEF WonInv
    <2>3. ASSUME NEW d \in Voters, d # c0, d # v, campEpoch[d] = T, campEpoch[c0] = T
          PROVE  v \notin VotesFor(d)
      <3>1. SUFFICES ASSUME NEW g \in grants, g.from = v, g.to = d, g.epoch = T PROVE FALSE
        BY <2>3 DEF VotesFor
      <3>2. epoch[v] = T /\ voted[v] = c0 /\ WonBy(c0, T)
        BY <3>1, <2>3, <1>0, <1>1, <1>q DEF GrantInv
      <3> QED
        BY <3>2, <2>3, <1>0, <1>q DEF WonBy, DisjointInv
    <2>4. ASSUME NEW c \in Voters, NEW d \in Voters, c # d, campEpoch'[c] > 0,
                 campEpoch'[c] = campEpoch'[d]
          PROVE  VotesFor(c)' \cap VotesFor(d)' = {}
      <3>1. VotesFor(c) \cap VotesFor(d) = {}
        BY <2>1, <2>4, <1>0 DEF DisjointInv
      <3> QED
        BY <3>1, <2>1, <2>3, <2>4
    <2>5. ASSUME NEW c \in Voters, NEW w \in won', campEpoch'[c] > 0, w.epoch = campEpoch'[c]
          PROVE  w.node # c /\ w.quorum \cap VotesFor(c)' = {}
      <3>1. w \in won
        BY DEF Grants
      <3>2. w.node # c /\ w.quorum \cap VotesFor(c) = {}
        BY <3>1, <2>1, <2>5, <1>0 DEF DisjointInv
      <3> QED
        BY <3>1, <3>2, <2>1, <2>2, <2>5
    <2> QED
      BY <2>4, <2>5 DEF DisjointInv
  <1>11. LeaderInv'
    BY <1>0, <1>3 DEF LeaderInv, Grants, FromWinners
  <1> QED
    BY <1>6, <1>7, <1>8, <1>9, <1>10, <1>11 DEF ElectionInv

(* A win: nobody won that term before, because its majority would share a    *)
(* voter with this one.                                                      *)
LEMMA WonElects ==
    ASSUME ElectionInv, TypeOK', NEW n \in Voters, Won(n)
    PROVE  ElectionInv'
  <1>0. /\ TypeOK /\ CampaignInv /\ VoteReqInv /\ VotedInv /\ GrantInv /\ WonInv /\ DisjointInv
        /\ LeaderInv /\ OneLeaderPerTerm
    BY DEF ElectionInv
  <1> DEFINE T == campEpoch[n]
             Q == VotesFor(n)
             new == [node |-> n, epoch |-> T, quorum |-> Q]
  <1>1. /\ T \in Nat /\ T > 0 /\ Q \in Quorum
        /\ role' = [role EXCEPT ![n] = "leader"] /\ led' = [led EXCEPT ![n] = T]
        /\ won' = won \cup {new}
        /\ renews' = renews \cup Calls(n, T, "none", TRUE, None)
        /\ up' = [up EXCEPT ![n] = FALSE] /\ campEpoch' = [campEpoch EXCEPT ![n] = 0]
        /\ grants' = NotTo(n, grants)
        /\ UNCHANGED <<epoch, voted, voteReqs>>
    BY <1>0 DEF Won, Forget, TypeOK
  <1>2. new.node = n /\ new.epoch = T /\ new.quorum = Q /\ n \in Q /\ n \in Voters
    BY DEF VotesFor
  <1>3. epoch[n] = T /\ voted[n] = n
    BY <1>0, <1>1 DEF CampaignInv
  <1> HIDE DEF T, Q, new
  <1>4. \A w \in won : w.epoch # T
    <2>1. SUFFICES ASSUME NEW w \in won, w.epoch = T PROVE FALSE
      OBVIOUS
    <2>2. w.quorum \cap Q = {}
      BY <2>1, <1>0, <1>1 DEF DisjointInv, T, Q
    <2>3. w.quorum \in Quorum
      BY <1>0 DEF WonInv
    <2> QED
      BY <2>2, <2>3, <1>1, QuorumsMeet
  <1>5. \A w \in won' : w \in won \/ w = new
    BY <1>1
  <1>6. \A v \in Q : epoch[v] > T \/ (epoch[v] = T /\ voted[v] = n)
    <2>1. SUFFICES ASSUME NEW v \in Q, v # n
                   PROVE  epoch[v] > T \/ (epoch[v] = T /\ voted[v] = n)
      BY <1>3
    <2>2. PICK g \in grants : g.to = n /\ g.epoch = T /\ g.from = v
      BY <2>1, VoteCounts DEF Q, T
    <2>3. ~WonBy(voted[v], T)
      BY <1>4 DEF WonBy
    <2>4. v \in Voters /\ epoch[v] \in Nat
      BY <2>2, <1>0 DEF TypeOK, Grant, Voters
    <2> QED
      BY <2>2, <2>3, <2>4, <1>0, <1>1 DEF GrantInv
  <1>7. \A x, U : WonBy(x, U) => WonBy(x, U)'
    BY <1>1 DEF WonBy
  <1>8. \A U : U = T => WonBy(n, U)'
    BY <1>1, <1>2 DEF WonBy
  <1>9. /\ \A c \in Voters \ {n} : /\ campEpoch'[c] = campEpoch[c] /\ up'[c] = up[c]
                                   /\ role'[c] = role[c] /\ led'[c] = led[c]
        /\ campEpoch'[n] = 0 /\ led'[n] = T
    BY <1>0, <1>1 DEF TypeOK
  <1>10. CampaignInv' /\ VoteReqInv' /\ VotedInv'
    BY <1>0, <1>1, <1>9 DEF CampaignInv, VoteReqInv, VotedInv
  <1>11. GrantInv'
    <2>1. \A g \in grants' : g \in grants /\ g.to # n /\ g.to \in Voters
      BY <1>0, <1>1 DEF NotTo, TypeOK, Grant, Voters
    <2> QED
      BY <2>1, <1>0, <1>1, <1>7, <1>9 DEF GrantInv
  <1>12. WonInv'
    <2>1. SUFFICES ASSUME NEW w \in won'
                   PROVE  /\ w.epoch > 0 /\ w.quorum \in Quorum /\ w.node \in w.quorum
                          /\ \A v \in w.quorum :
                                epoch[v] > w.epoch \/ (epoch[v] = w.epoch /\ voted[v] = w.node)
      BY <1>1 DEF WonInv
    <2>2. CASE w = new
      BY <2>2, <1>1, <1>2, <1>6
    <2>3. CASE w \in won
      BY <2>3, <1>0 DEF WonInv
    <2> QED BY <2>2, <2>3, <1>5
  <1>13. OneLeaderPerTerm'
    BY <1>0, <1>2, <1>4, <1>5 DEF OneLeaderPerTerm
  <1>14. DisjointInv'
    <2>1. \A c \in Voters \ {n} : VotesFor(c)' = VotesFor(c)
      BY <1>1, <1>9 DEF VotesFor, NotTo
    <2>2. ASSUME NEW c \in Voters, NEW d \in Voters, c # d, campEpoch'[c] > 0,
                 campEpoch'[c] = campEpoch'[d]
          PROVE  VotesFor(c)' \cap VotesFor(d)' = {}
      BY <2>1, <2>2, <1>0, <1>9 DEF DisjointInv
    <2>3. ASSUME NEW c \in Voters, NEW w \in won', campEpoch'[c] > 0, w.epoch = campEpoch'[c]
          PROVE  w.node # c /\ w.quorum \cap VotesFor(c)' = {}
      <3>1. c # n /\ campEpoch[c] = campEpoch'[c] /\ VotesFor(c)' = VotesFor(c)
        BY <2>1, <2>3, <1>9
      <3>2. CASE w = new
        <4>1. campEpoch[c] = campEpoch[n] /\ campEpoch[c] > 0
          BY <3>1, <3>2, <2>3, <1>2 DEF T
        <4>2. VotesFor(n) \cap VotesFor(c) = {}
          BY <4>1, <3>1, <1>0 DEF DisjointInv
        <4> QED
          BY <3>1, <3>2, <4>2, <1>2 DEF Q
      <3>3. CASE w \in won
        BY <3>1, <3>3, <2>3, <1>0 DEF DisjointInv
      <3> QED BY <3>2, <3>3, <1>5
    <2> QED
      BY <2>2, <2>3 DEF DisjointInv
  <1>15. LeaderInv'
    <2>1. \A m \in renews' : m.from # m.to /\ WonBy(m.from, m.epoch)'
      <3>1. \A m \in Calls(n, T, "none", TRUE, None) : m.from # m.to /\ WonBy(m.from, m.epoch)'
        <4>1. SentBy(Calls(n, T, "none", TRUE, None), n, T)
          BY CallsFrom
        <4> QED
          BY <4>1, <1>8 DEF SentBy
      <3>2. \A m \in renews : m.from # m.to /\ WonBy(m.from, m.epoch)'
        BY <1>0, <1>7 DEF LeaderInv
      <3> QED
        BY <3>1, <3>2, <1>1
    <2>2. ASSUME NEW x \in Voters, role'[x] = "leader"
          PROVE  WonBy(x, led[x])'
      <3>1. CASE x = n
        BY <3>1, <1>8, <1>9
      <3>2. CASE x # n
        BY <3>2, <2>2, <1>0, <1>7, <1>9 DEF LeaderInv
      <3> QED BY <3>1, <3>2
    <2> QED
      BY <2>1, <2>2 DEF LeaderInv
  <1> QED
    BY <1>10, <1>11, <1>12, <1>13, <1>14, <1>15 DEF ElectionInv

(* A renewal taken: it comes from the winner of its term, so a vote that     *)
(* moves within the term moves to the winner.                                *)
LEMMA OnRenewElects ==
    ASSUME ElectionInv, TypeOK', NEW v \in Voters, NEW m \in renews, OnRenew(v, m)
    PROVE  ElectionInv'
  <1>0. /\ TypeOK /\ CampaignInv /\ VoteReqInv /\ VotedInv /\ GrantInv /\ WonInv /\ DisjointInv
        /\ LeaderInv /\ OneLeaderPerTerm
    BY DEF ElectionInv
  <1>m. m.from \in Data /\ m.epoch \in Nat /\ WonBy(m.from, m.epoch)
    BY <1>0 DEF LeaderInv, TypeOK, Renew
  <1>1. /\ m.epoch >= epoch[v]
        /\ epoch' = [epoch EXCEPT ![v] = m.epoch] /\ voted' = [voted EXCEPT ![v] = m.from]
        /\ LeaveBoot(v) /\ renews' = Orphaned(v) \ {m}
        /\ UNCHANGED <<led, up, voteReqs, won>>
    BY DEF OnRenew
  <1>2. campEpoch' = [campEpoch EXCEPT ![v] = 0] /\ grants' = NotTo(v, grants)
    <2>1. campEpoch[v] <= m.epoch + 1
      <3>1. epoch[v] \in Nat /\ campEpoch[v] \in Nat
        BY <1>0 DEF TypeOK
      <3> QED
        BY <3>1, <1>0, <1>1, <1>m DEF CampaignInv
    <2> QED
      BY <2>1 DEF OnRenew, EndCampaign
  <1>3. /\ \A x \in Voters : epoch[x] \in Nat /\ epoch'[x] \in Nat /\ epoch'[x] >= epoch[x]
        /\ \A x \in Voters \ {v} : epoch'[x] = epoch[x] /\ voted'[x] = voted[x]
        /\ epoch'[v] = m.epoch /\ voted'[v] = m.from /\ campEpoch'[v] = 0
        /\ \A c \in Voters \ {v} : campEpoch'[c] = campEpoch[c]
    BY <1>0, <1>1, <1>2, <1>m DEF TypeOK
  <1>4. /\ \A c \in Voters \ {v} : role'[c] = role[c]
        /\ role'[v] = "leader" => role[v] = "leader"
    BY <1>0, <1>1 DEF LeaveBoot, TypeOK
  <1>5. \A x, U : WonBy(x, U)' = WonBy(x, U)
    BY <1>1 DEF WonBy
  <1>6. \A g \in grants' : /\ g \in grants /\ g.to # v /\ g.to \in Voters /\ g.from \in Voters
                           /\ g.epoch \in Nat
    BY <1>0, <1>2 DEF NotTo, TypeOK, Grant, Voters
  <1>7. CampaignInv'
    BY <1>0, <1>1, <1>3, <1>4 DEF CampaignInv
  <1>8. VoteReqInv' /\ VotedInv'
    <2>1. \A p \in voteReqs : p.from \in Voters /\ p.epoch \in Nat
      BY <1>0 DEF TypeOK, VoteReq, Voters
    <2>2. VotedInv'
      BY <1>0, <1>3, <1>m DEF VotedInv
    <2> QED
      BY <2>1, <2>2, <1>0, <1>1, <1>3 DEF VoteReqInv
  <1>9. GrantInv'
    BY <1>0, <1>3, <1>5, <1>6, <1>m DEF GrantInv
  <1>10. WonInv' /\ OneLeaderPerTerm'
    <2>1. \A w \in won : w.epoch \in Nat /\ w.quorum \subseteq Voters
      BY <1>0 DEF TypeOK
    <2>2. \A w \in won : w.epoch = m.epoch => w.node = m.from
      BY <1>0, <1>m DEF WonBy, OneLeaderPerTerm
    <2>3. ASSUME NEW w \in won, NEW x \in w.quorum
          PROVE  epoch'[x] > w.epoch \/ (epoch'[x] = w.epoch /\ voted'[x] = w.node)
      <3>1. x \in Voters /\ (epoch[x] > w.epoch \/ (epoch[x] = w.epoch /\ voted[x] = w.node))
        BY <2>1, <1>0 DEF WonInv
      <3>2. CASE x = v BY <3>1, <3>2, <2>1, <2>2, <1>1, <1>3
      <3>3. CASE x # v BY <3>1, <3>3, <1>3
      <3> QED BY <3>2, <3>3
    <2> QED
      BY <2>3, <1>0, <1>1 DEF WonInv, OneLeaderPerTerm
  <1>11. DisjointInv'
    <2>1. \A c \in Voters : campEpoch'[c] > 0 =>
             c # v /\ campEpoch'[c] = campEpoch[c] /\ VotesFor(c)' \subseteq VotesFor(c)
      BY <1>2, <1>3 DEF VotesFor, NotTo
    <2>2. ASSUME NEW c \in Voters, NEW d \in Voters, c # d, campEpoch'[c] > 0,
                 campEpoch'[c] = campEpoch'[d]
          PROVE  VotesFor(c)' \cap VotesFor(d)' = {}
      <3>1. VotesFor(c) \cap VotesFor(d) = {}
        BY <2>1, <2>2, <1>0 DEF DisjointInv
      <3> QED
        BY <3>1, <2>1, <2>2
    <2>3. ASSUME NEW c \in Voters, NEW w \in won', campEpoch'[c] > 0, w.epoch = campEpoch'[c]
          PROVE  w.node # c /\ w.quorum \cap VotesFor(c)' = {}
      <3>1. w.node # c /\ w.quorum \cap VotesFor(c) = {}
        BY <2>1, <2>3, <1>0, <1>1 DEF DisjointInv
      <3> QED
        BY <3>1, <2>1, <2>3
    <2> QED
      BY <2>2, <2>3 DEF DisjointInv
  <1>12. LeaderInv'
    BY <1>0, <1>1, <1>4, <1>5, OrphanedFromWinners DEF LeaderInv, FromWinners
  <1> QED
    BY <1>7, <1>8, <1>9, <1>10, <1>11, <1>12 DEF ElectionInv

-----------------------------------------------------------------------------
(* The steps that leave votes and terms alone. *)

LEMMA TickQuiet ==
    ASSUME ElectionInv, Tick
    PROVE  Quiet
  <1>1. PICK run \in ClockRuns :
          /\ UNCHANGED <<role, epoch, voted, led, up, campEpoch, voteReqs, grants, won>>
          /\ renews' = {AgedCall(m, run[m.from]) : m \in renews}
    BY DEF Tick
  <1>2. FromWinners(renews')
    <2>1. ASSUME NEW m \in renews, NEW r
          PROVE  /\ AgedCall(m, r).from = m.from /\ AgedCall(m, r).to = m.to
                 /\ AgedCall(m, r).epoch = m.epoch
      <3>1. m \in Renew
        BY DEF ElectionInv, TypeOK
      <3>2. CASE m.round # "none" /\ m.age + r < PerRound
        BY <3>1, <3>2 DEF AgedCall, Renew
      <3>3. CASE ~(m.round # "none" /\ m.age + r < PerRound)
        BY <3>1, <3>3, UnansweredType DEF AgedCall
      <3> QED BY <3>2, <3>3
    <2>2. FromWinners(renews)
      BY DEF ElectionInv, LeaderInv, FromWinners
    <2> QED
      BY <1>1, <2>1, <2>2 DEF FromWinners
  <1> QED
    BY <1>1, <1>2 DEF Quiet, ElectionInv, CampaignInv

(* A process that ends takes its campaign and the votes for it along. *)
LEMMA ForgetQuiet ==
    ASSUME ElectionInv, NEW n \in Voters, Forget(n),
           UNCHANGED <<epoch, voted, led, won, voteReqs>>,
           grants' = NotTo(n, grants) \/ (grants' = grants /\ role[n] = "leader"),
           \A x \in Voters : role'[x] = role[x] \/ (x = n /\ role'[x] = "standby"),
           FromWinners(renews')
    PROVE  Quiet
  <1>1. /\ campEpoch'[n] = 0
        /\ \A c \in Voters \ {n} : campEpoch'[c] = campEpoch[c] /\ up'[c] = up[c]
    BY DEF Forget, ElectionInv, TypeOK
  <1>2. \A g \in grants' : g \in grants /\ g.to # n /\ g.to \in Voters
    BY DEF NotTo, ElectionInv, GrantInv, CampaignInv, TypeOK, Grant, Voters
  <1> QED
    BY <1>1, <1>2 DEF Quiet, ElectionInv, CampaignInv

LEMMA CrashQuiet ==
    ASSUME ElectionInv, NEW n \in Voters, Crash(n) \/ PlannedRestart(n)
    PROVE  Quiet
  <1>1. CASE Crash(n)
    BY <1>1, ForgetQuiet, OrphanedFromWinners DEF Crash, disk
  <1>2. CASE PlannedRestart(n)
    <2>1. role[n] = "leader"
      BY <1>2 DEF PlannedRestart, Leads
    <2>2. FromWinners(Orphaned(n)) /\ FromWinners(Calls(n, led[n], "none", TRUE, None))
      BY <2>1, OrphanedFromWinners, CallsFromWinners
    <2>3. FromWinners(renews')
      BY <1>2, <2>2 DEF PlannedRestart, FromWinners
    <2> QED
      BY <1>2, <2>1, <2>3, ForgetQuiet DEF PlannedRestart, disk
  <1> QED BY <1>1, <1>2

LEMMA LeavesLeadQuiet ==
    ASSUME ElectionInv, NEW n \in Voters, role[n] = "leader", LeavesLead(n)
    PROVE  Quiet
  <1>1. \A x \in Voters : role'[x] = role[x] \/ (x = n /\ role'[x] = "standby")
    BY DEF LeavesLead, StepDown, ElectionInv, TypeOK
  <1> QED
    BY <1>1, ForgetQuiet, OrphanedFromWinners DEF LeavesLead, StepDown

(* A step that keeps all campaigns, and at most ends a leadership. *)
LEMMA LeadQuiet ==
    ASSUME ElectionInv,
           UNCHANGED <<epoch, voted, led, won, voteReqs, grants, campEpoch>>,
           \A x \in Voters : up[x] => up'[x],
           \A x \in Voters : role'[x] = role[x] \/ role'[x] = "standby",
           FromWinners(renews')
    PROVE  Quiet
  BY DEF Quiet, ElectionInv, CampaignInv

LEMMA BootQuiet ==
    ASSUME ElectionInv, NEW n \in Voters,
           (\E reboot \in Reboots : Boot(n, reboot)) \/ BootAndLeave(n) \/ BootFailed(n)
    PROVE  Quiet
  <1>0. TypeOK /\ FromWinners(renews)
    BY DEF ElectionInv, LeaderInv, FromWinners
  <1>1. \A round, rel : role[n] = "leader" =>
           FromWinners(renews \cup Calls(n, led[n], round, FALSE, rel))
    <2>1. ASSUME NEW round, NEW rel, role[n] = "leader"
          PROVE  FromWinners(Calls(n, led[n], round, FALSE, rel))
      BY <2>1, CallsFromWinners
    <2> QED
      BY <2>1, <1>0 DEF FromWinners
  <1>2. ASSUME NEW reboot \in Reboots, Boot(n, reboot)
        PROVE  Quiet
    <2>1. \A x \in Voters : up[x] => up'[x]
      BY <1>2, <1>0 DEF Boot, TypeOK
    <2>2. \A x \in Voters : role'[x] = role[x] \/ role'[x] = "standby"
      BY <1>2, <1>0 DEF Boot, TypeOK
    <2>3. FromWinners(renews')
      <3>1. \/ role[n] = "leader" /\ renews' = renews \cup Calls(n, led[n], "boot", FALSE, None)
            \/ renews' = renews
        BY <1>2 DEF Boot
      <3> QED
        BY <3>1, <1>0, <1>1
    <2>4. UNCHANGED <<epoch, voted, led, won, voteReqs, grants, campEpoch>>
      BY <1>2 DEF Boot, asCandidate
    <2> QED
      BY <2>1, <2>2, <2>3, <2>4, LeadQuiet
  <1>3. CASE BootAndLeave(n)
    <2>1. \A x \in Voters : role'[x] = role[x] \/ role'[x] = "standby"
      BY <1>3, <1>0 DEF BootAndLeave, TypeOK
    <2>2. FromWinners(renews')
      BY <1>3, <1>1 DEF BootAndLeave
    <2>3. UNCHANGED <<epoch, voted, led, won, voteReqs, grants, campEpoch, up>>
      BY <1>3 DEF BootAndLeave, asCandidate
    <2> QED
      BY <2>1, <2>2, <2>3, LeadQuiet
  <1>4. CASE BootFailed(n)
    <2>1. \A x \in Voters : role'[x] = role[x] \/ role'[x] = "standby"
      BY <1>4, <1>0 DEF BootFailed, LeaveBoot, TypeOK
    <2>2. FromWinners(renews')
      BY <1>4, OrphanedFromWinners DEF BootFailed
    <2>3. UNCHANGED <<epoch, voted, led, won, voteReqs, grants, campEpoch, up>>
      BY <1>4 DEF BootFailed, asCandidate
    <2> QED
      BY <2>1, <2>2, <2>3, LeadQuiet
  <1> QED BY <1>2, <1>3, <1>4

LEMMA CampaignLostQuiet ==
    ASSUME ElectionInv, NEW n \in Voters, CampaignLost(n)
    PROVE  Quiet
  <1>1. /\ UNCHANGED <<role, epoch, voted, led, won, voteReqs, up, renews>>
        /\ campEpoch' = [campEpoch EXCEPT ![n] = 0] /\ grants' = NotTo(n, grants)
    BY DEF CampaignLost, EndCampaign, disk
  <1>2. /\ campEpoch'[n] = 0 /\ \A c \in Voters \ {n} : campEpoch'[c] = campEpoch[c]
        /\ \A g \in grants' : g \in grants /\ g.to # n /\ g.to \in Voters
    BY <1>1 DEF NotTo, ElectionInv, TypeOK, Grant, Voters
  <1>3. FromWinners(renews')
    BY <1>1 DEF ElectionInv, LeaderInv, FromWinners
  <1> QED
    BY <1>1, <1>2, <1>3 DEF Quiet, ElectionInv, CampaignInv

(* The renewals of a leader, and the handing on of its term. *)
LEMMA RenewalsQuiet ==
    ASSUME ElectionInv, NEW n \in Voters,
           \/ StartRound(n) \/ Release(n) \/ SendCampaign(n) \/ TransferRefused(n)
           \/ \E t \in Targets : TransferTo(n, t)
           \/ \E k \in rounds[n] : Majority(n, k)
    PROVE  Quiet
  <1>0. FromWinners(renews) /\ TypeOK
    BY DEF ElectionInv, LeaderInv, FromWinners
  <1>1. /\ UNCHANGED <<role, epoch, voted, led, won, voteReqs, grants, campEpoch, up>>
    BY DEF StartRound, Release, SendCampaign, TransferRefused, TransferTo, Majority, disk, network,
           asCandidate
  <1>2. FromWinners(renews')
    <2>1. CASE StartRound(n)
      <3>1. role[n] = "leader"
        BY <2>1 DEF StartRound, Renewing, Leads
      <3>2. \A kind : FromWinners(Calls(n, led[n], kind, FALSE, None))
        BY <3>1, CallsFromWinners
      <3> QED
        BY <2>1, <3>2, <1>0 DEF StartRound, FromWinners
    <2>2. CASE Release(n)
      <3>1. role[n] = "leader"
        BY <2>2 DEF Release, Leads
      <3>2. FromWinners(Calls(n, led[n], "none", FALSE, transferTo[n]))
        BY <3>1, CallsFromWinners
      <3> QED
        BY <2>2, <3>2, <1>0 DEF Release, FromWinners
    <2>3. CASE SendCampaign(n) \/ TransferRefused(n) \/ \E t \in Targets : TransferTo(n, t)
      BY <2>3, <1>0 DEF SendCampaign, TransferRefused, TransferTo, network, FromWinners
    <2>4. ASSUME NEW k \in rounds[n], Majority(n, k)
          PROVE  FromWinners(renews')
      <3>1. \A o \in renews' : \E m \in renews : o = m \/ o = Unanswered(m)
        BY <2>4 DEF Majority
      <3>2. \A m \in renews : m \in Renew
        BY <1>0 DEF TypeOK
      <3> QED
        BY <3>1, <3>2, <1>0, UnansweredType DEF FromWinners
    <2> QED
      BY <2>1, <2>2, <2>3, <2>4
  <1> QED
    BY <1>1, <1>2, LeadQuiet

LEMMA LoseCallQuiet ==
    ASSUME ElectionInv, NEW m \in renews, LoseCall(m)
    PROVE  Quiet
  <1>1. /\ UNCHANGED <<role, epoch, voted, led, won, voteReqs, grants, campEpoch, up>>
        /\ renews' \subseteq renews
    BY DEF LoseCall, disk, asCandidate
  <1>2. FromWinners(renews')
    BY <1>1 DEF ElectionInv, LeaderInv, FromWinners
  <1> QED
    BY <1>1, <1>2, LeadQuiet

-----------------------------------------------------------------------------
(* Both ways to grant a vote are a Grants step. A leader that grants and     *)
(* leaves had no campaign, so nothing on its way to it is lost.              *)
LEMMA GrantVoteGrants ==
    ASSUME ElectionInv, NEW v \in Voters, NEW q \in voteReqs, GrantVote(v, q)
    PROVE  Grants(v, q)
  <1>1. /\ role'[v] = "leader" => role[v] = "leader"
        /\ \A c \in Voters \ {v} : up'[c] = up[c] /\ role'[c] = role[c]
    BY DEF GrantVote, LeaveBoot, ElectionInv, TypeOK
  <1>2. FromWinners(renews')
    BY OrphanedFromWinners DEF GrantVote
  <1> QED
    BY <1>1, <1>2 DEF GrantVote, VoteWritten, EndCampaign, Grants

LEMMA GrantAndLeaveGrants ==
    ASSUME ElectionInv, NEW v \in Voters, NEW q \in voteReqs, GrantAndLeave(v, q)
    PROVE  Grants(v, q)
  <1>1. /\ role'[v] = "leader" => role[v] = "leader"
        /\ \A c \in Voters \ {v} : up'[c] = up[c] /\ role'[c] = role[c]
        /\ campEpoch' = [campEpoch EXCEPT ![v] = 0]
    BY DEF GrantAndLeave, StepDown, Forget, ElectionInv, TypeOK
  <1>2. FromWinners(renews')
    BY OrphanedFromWinners DEF GrantAndLeave
  <1>3. grants = NotTo(v, grants)
    <2>1. role[v] = "leader"
      BY DEF GrantAndLeave, HandedTo, Leads
    <2>2. \A g \in grants : g.to # v
      BY <2>1 DEF ElectionInv, CampaignInv, GrantInv
    <2> QED
      BY <2>2 DEF NotTo
  <1> QED
    BY <1>1, <1>2, <1>3 DEF GrantAndLeave, VoteWritten, Grants

(* The candidate's own vote, on its own account or told to campaign. *)
OwnVote(n) ==
    /\ n \in Data /\ up[n] /\ role[n] = "standby" /\ campEpoch[n] = 0
    /\ \E T \in Epochs : CastOwnVote(n, T)

(* Every step moves votes in one of four ways or not at all. *)
LEMMA StepKinds ==
    ASSUME ElectionInv, [Next]_vars
    PROVE  \/ Quiet
           \/ \E n \in Voters : OwnVote(n)
           \/ \E v \in Voters : \E q \in voteReqs : Grants(v, q)
           \/ \E n \in Voters : Won(n)
           \/ \E v \in Voters : \E m \in renews : OnRenew(v, m)
  <1> DEFINE Kinds == \/ Quiet
                      \/ \E n \in Voters : OwnVote(n)
                      \/ \E v \in Voters : \E q \in voteReqs : Grants(v, q)
                      \/ \E n \in Voters : Won(n)
                      \/ \E v \in Voters : \E m \in renews : OnRenew(v, m)
  <1>1. CASE Tick BY <1>1, TickQuiet
  <1>2. ASSUME NEW n \in Voters, MemberStep(n) PROVE Kinds
    <2>1. CASE Crash(n) \/ PlannedRestart(n) BY <2>1, CrashQuiet
    <2>2. CASE (\E reboot \in Reboots : Boot(n, reboot)) \/ BootAndLeave(n) \/ BootFailed(n)
      BY <2>2, BootQuiet
    <2>3. CASE \E T \in 1..MaxEpoch : StartVote(n, T)
      BY <2>3, BoundAssumption DEF StartVote, OwnVote
    <2>4. CASE CampaignLost(n) BY <2>4, CampaignLostQuiet
    <2>5. CASE \E q \in voteReqs : GrantVote(n, q) BY <2>5, GrantVoteGrants
    <2>6. CASE \E q \in voteReqs : GrantAndLeave(n, q) BY <2>6, GrantAndLeaveGrants
    <2>7. CASE Won(n) BY <2>7
    <2>8. CASE \E m \in renews : OnRenew(n, m) BY <2>8
    <2>9. CASE \/ StartRound(n) \/ Release(n) \/ SendCampaign(n) \/ TransferRefused(n)
               \/ \E t \in Targets : TransferTo(n, t)
               \/ \E k \in rounds[n] : Majority(n, k)
      BY <2>9, RenewalsQuiet
    <2>10. CASE role[n] = "leader" /\ LeavesLead(n) BY <2>10, LeavesLeadQuiet
    <2>11. ASSUME NEW c \in campaigns, OnCampaign(n, c) PROVE Kinds
      <3>1. c.epoch + 1 \in Epochs /\ n \in Data
        BY <2>11, BoundAssumption DEF OnCampaign, ElectionInv, TypeOK
      <3> QED
        BY <2>11, <3>1 DEF OnCampaign, OwnVote
    <2>12. Lose(n) \/ TermMovedOn(n) \/ SeesHigherEpoch(n) \/ ToldToStepDown(n) \/ TransferLost(n)
              => role[n] = "leader" /\ LeavesLead(n)
      BY DEF Lose, TermMovedOn, SeesHigherEpoch, ToldToStepDown, TransferLost, Renewing, Leads
    <2> QED
      BY <1>2, <2>1, <2>2, <2>3, <2>4, <2>5, <2>6, <2>7, <2>8, <2>9, <2>10, <2>11, <2>12
      DEF MemberStep
  <1>3. ASSUME NEW m \in renews, LoseCall(m) PROVE Kinds
    BY <1>3, LoseCallQuiet
  <1>4. CASE UNCHANGED vars
    <2>1. UNCHANGED <<role, epoch, voted, led, won, voteReqs, grants, campEpoch, up, renews>>
      BY <1>4 DEF vars, disk, asCandidate, network
    <2>2. FromWinners(renews')
      BY <2>1 DEF ElectionInv, LeaderInv, FromWinners
    <2> QED
      BY <2>1, <2>2, LeadQuiet
  <1> QED
    BY <1>1, <1>2, <1>3, <1>4 DEF Next

LEMMA ElectionInit == Init => ElectionInv
  <1> SUFFICES ASSUME Init PROVE ElectionInv
    OBVIOUS
  <1>1. TypeOK
    BY TypeInit
  <1>2. PICK a \in Data : FoundedBy(a)
    BY VotersAssumption DEF Init
  <1>3. a \in Voters
    BY DEF Voters
  <1>4. Voters \in Quorum
    <2>1. Cardinality(Voters) \in Nat /\ Cardinality(Voters) # 0
      BY <1>3, VotersAssumption, FS_CardinalityType, FS_EmptySet
    <2> QED
      BY <2>1 DEF Quorum
  <1>5. /\ \A n \in Voters : epoch[n] = 1 /\ voted[n] = a /\ campEpoch[n] = 0
        /\ \A n \in Voters : role[n] = "leader" => n = a
        /\ led[a] = 1
        /\ voteReqs = {} /\ grants = {} /\ renews = {}
        /\ won = {[node |-> a, epoch |-> 1, quorum |-> Voters]}
    BY <1>2, <1>3 DEF FoundedBy
  <1>6. WonBy(a, 1)
    BY <1>5 DEF WonBy
  <1>7. CampaignInv /\ VoteReqInv /\ VotedInv /\ GrantInv /\ DisjointInv /\ LeaderInv
    BY <1>5, <1>6 DEF CampaignInv, VoteReqInv, VotedInv, GrantInv, DisjointInv, LeaderInv
  <1>8. WonInv /\ OneLeaderPerTerm
    BY <1>3, <1>4, <1>5 DEF WonInv, OneLeaderPerTerm
  <1> QED
    BY <1>1, <1>7, <1>8 DEF ElectionInv

LEMMA ElectionNext == ElectionInv /\ [Next]_vars => ElectionInv'
  <1> SUFFICES ASSUME ElectionInv, [Next]_vars PROVE ElectionInv'
    OBVIOUS
  <1>1. TypeOK'
    BY TypeNext DEF ElectionInv
  <1>2. CASE Quiet BY <1>1, <1>2, KeepsElections
  <1>3. ASSUME NEW n \in Voters, OwnVote(n) PROVE ElectionInv'
    <2>1. PICK T \in Epochs : CastOwnVote(n, T)
      BY <1>3 DEF OwnVote
    <2> QED
      BY <1>1, <1>3, <2>1, CastOwnVoteElects DEF OwnVote
  <1>4. CASE \E v \in Voters : \E q \in voteReqs : Grants(v, q) BY <1>1, <1>4, GrantElects
  <1>5. CASE \E n \in Voters : Won(n) BY <1>1, <1>5, WonElects
  <1>6. CASE \E v \in Voters : \E m \in renews : OnRenew(v, m) BY <1>1, <1>6, OnRenewElects
  <1> QED
    BY <1>2, <1>3, <1>4, <1>5, <1>6, StepKinds

(* What the elections rest on holds at all times: open campaigns and wins of *)
(* one term share no vote, and only winners lead and renew (_on_vote, _vote, *)
(* _won, _on_renew).                                                         *)
THEOREM ElectionCorrect == Spec => []ElectionInv
  BY ElectionInit, ElectionNext, PTL DEF Spec

(* A term has one winner, in every group and however many members crash,     *)
(* restart, answer late or fail to write that they left (_won).              *)
THEOREM OneWinner == Spec => []OneLeaderPerTerm
  <1>1. ElectionInv => OneLeaderPerTerm
    BY DEF ElectionInv
  <1> QED
    BY <1>1, ElectionCorrect, PTL

(* What one step may do to the votes on disk. *)
VotesMove ==
    \A v \in Voters :
        /\ epoch'[v] >= epoch[v]
        /\ (epoch'[v] = epoch[v] /\ voted'[v] # voted[v]) =>
               \E w \in won : w.node = voted'[v] /\ w.epoch = epoch[v]

LEMMA StepMovesVotes ==
    ASSUME ElectionInv, [Next]_vars
    PROVE  VotesMove
  <1>0. TypeOK /\ \A v \in Voters : epoch[v] \in Nat
    BY DEF ElectionInv, TypeOK
  <1>1. CASE UNCHANGED <<epoch, voted>>
    BY <1>0, <1>1 DEF VotesMove
  <1>2. CASE Quiet BY <1>1, <1>2 DEF Quiet
  <1>3. ASSUME NEW n \in Voters, OwnVote(n) PROVE VotesMove
    <2>1. PICK T \in Epochs : T > epoch[n] /\ epoch' = [epoch EXCEPT ![n] = T]
                              /\ voted' = [voted EXCEPT ![n] = n]
      BY <1>3 DEF OwnVote, CastOwnVote
    <2> QED
      BY <1>0, <2>1 DEF VotesMove, TypeOK
  <1>4. ASSUME NEW v \in Voters, NEW q \in voteReqs, Grants(v, q) PROVE VotesMove
    <2>1. voted[v] # None /\ q.epoch \in Nat
      BY <1>0, VotersAssumption DEF ElectionInv, VotedInv, Voters, TypeOK, VoteReq
    <2>2. q.epoch > epoch[v] \/ (q.epoch = epoch[v] /\ voted[v] = q.from)
      BY <1>4, <2>1 DEF Grants, VoteRules
    <2>3. epoch' = [epoch EXCEPT ![v] = q.epoch] /\ voted' = [voted EXCEPT ![v] = q.from]
      BY <1>4 DEF Grants
    <2> QED
      BY <1>0, <2>1, <2>2, <2>3 DEF VotesMove, TypeOK
  <1>5. CASE \E n \in Voters : Won(n) BY <1>1, <1>5 DEF Won
  <1>6. ASSUME NEW v \in Voters, NEW m \in renews, OnRenew(v, m) PROVE VotesMove
    <2>1. m.epoch \in Nat /\ \E w \in won : w.node = m.from /\ w.epoch = m.epoch
      BY <1>0 DEF ElectionInv, LeaderInv, WonBy, TypeOK, Renew
    <2>2. /\ m.epoch >= epoch[v] /\ epoch' = [epoch EXCEPT ![v] = m.epoch]
          /\ voted' = [voted EXCEPT ![v] = m.from]
      BY <1>6 DEF OnRenew
    <2> QED
      BY <1>0, <2>1, <2>2 DEF VotesMove, TypeOK
  <1> QED
    BY <1>2, <1>3, <1>4, <1>5, <1>6, StepKinds

(* An epoch on disk never goes back, and within an epoch the vote on disk    *)
(* only moves to the member that won it (_on_renew, _on_vote, _vote).        *)
THEOREM VotesOnDisk == Spec => VotesMoveToTheWinner
  <1>1. ElectionInv /\ [Next]_vars => [VotesMove]_vars
    BY StepMovesVotes
  <1>2. ElectionInv /\ [Next]_vars =>
          [\A v \in Voters :
             /\ epoch'[v] >= epoch[v]
             /\ (epoch'[v] = epoch[v] /\ voted'[v] # voted[v]) =>
                    \E w \in won : w.node = voted'[v] /\ w.epoch = epoch[v]]_vars
    BY <1>1 DEF VotesMove
  <1> QED
    BY <1>2, ElectionCorrect, PTL DEF Spec, VotesMoveToTheWinner

=============================================================================
