---------------------------- MODULE HaLeaseInv -----------------------------
(***************************************************************************)
(* Why HaLease is safe: the inductive invariant behind its properties, in  *)
(* two layers. ElectionInv is about votes and terms and needs no clock.    *)
(* LeaseInv is about promises and leases and rests on the first.           *)
(***************************************************************************)
EXTENDS HaLease

(* The elections. *)

(* A campaign belongs to a process that voted for itself at that epoch. *)
CampaignInv ==
    \A c \in Voters : campEpoch[c] > 0 =>
        /\ c \in Data /\ up[c] /\ role[c] = "standby"
        /\ epoch[c] = campEpoch[c] /\ voted[c] = c

VoteReqInv ==
    \A q \in voteReqs : q.from # q.to /\ q.epoch > 0 /\ q.epoch <= epoch[q.from]

(* Whoever is in a group follows somebody: it took a renewal or voted. *)
VotedInv == \A v \in Voters : voted[v] \in Data

WonBy(n, T) == \E w \in won : w.node = n /\ w.epoch = T

(* A vote counts for an open campaign, and its voter keeps it until the term *)
(* is won or a later one comes.                                              *)
GrantInv ==
    \A g \in grants :
        /\ g.epoch > 0 /\ campEpoch[g.to] = g.epoch /\ g.from # g.to
        /\ epoch[g.from] >= g.epoch
        /\ epoch[g.from] = g.epoch => voted[g.from] = g.to \/ WonBy(voted[g.from], g.epoch)

(* Who voted for a winner never votes against it in its term. *)
WonInv ==
    \A w \in won :
        /\ w.epoch > 0 /\ w.quorum \in Quorum /\ w.node \in w.quorum
        /\ \A v \in w.quorum :
              epoch[v] > w.epoch \/ (epoch[v] = w.epoch /\ voted[v] = w.node)

(* Two open campaigns for one term share no vote, and one that was won       *)
(* shares none with a campaign still open.                                   *)
DisjointInv ==
    /\ \A c, d \in Voters :
          c # d /\ campEpoch[c] > 0 /\ campEpoch[c] = campEpoch[d]
              => VotesFor(c) \cap VotesFor(d) = {}
    /\ \A c \in Voters, w \in won :
          campEpoch[c] > 0 /\ w.epoch = campEpoch[c]
              => w.node # c /\ w.quorum \cap VotesFor(c) = {}

(* Only a winner leads, and only a winner renews. *)
LeaderInv ==
    /\ \A n \in Voters : role[n] = "leader" => WonBy(n, led[n])
    /\ \A m \in renews : m.from # m.to /\ WonBy(m.from, m.epoch)

ElectionInv ==
    /\ TypeOK
    /\ CampaignInv /\ VoteReqInv /\ VotedInv /\ GrantInv /\ WonInv /\ DisjointInv /\ LeaderInv
    /\ OneLeaderPerTerm

-----------------------------------------------------------------------------
(* The leases. *)

(* What a leader counts by belongs to a process that leads its own term. *)
OwnTermInv ==
    \A n \in Voters :
        (booting[n] \/ acting[n] \/ lease[n] > 0 \/ rounds[n] # {}) =>
            Leads(n) /\ OwnTerm(n)

(* A process acts and holds a lease after its boot, and a term is handed on  *)
(* by a process that is past it.                                             *)
StagesInv ==
    \A n \in Voters :
        /\ booting[n] => ~acting[n] /\ lease[n] = 0
        /\ transferPhase[n] # "none" => up[n] /\ ~booting[n]

(* A call that waits for an answer, and an answer that counts, belong to a   *)
(* round that is open.                                                       *)
RoundInv ==
    /\ \A n \in Voters : \A k \in rounds[n] : k.age < PerRound
    /\ \A m \in renews : m.round # "none" =>
          m.epoch = led[m.from] /\ [kind |-> m.round, age |-> m.age] \in rounds[m.from]
    /\ \A a \in acks : a.from # a.to /\ [kind |-> a.round, age |-> a.age] \in rounds[a.to]

(* v will let no other member have its vote for x more of the slowest clock  *)
(* of n: by the promise it remembers or by the hold after its start.         *)
Protected(v, n, x) ==
    /\ epoch[v] = led[n] /\ voted[v] = n
    /\ up[v] => \/ promiseTo[v] = n /\ 11 * x <= 9 * promise[v]
                \/ 11 * x <= 9 * hold[v]

(* A lease rests on a majority that protects it to its end. *)
BackedInv ==
    \A n \in Voters : lease[n] > 0 =>
        \E Q \in Quorum : n \in Q /\ \A v \in Q \ {n} : Protected(v, n, lease[n])

(* Whoever answered a round that is still open protects what it would be     *)
(* worth, or a later term was won without any of them.                       *)
AckedInv ==
    \A n \in Voters : Renewing(n) => \A k \in rounds[n] :
        \/ \A v \in AckedBy(n, k) \ {n} : Protected(v, n, PerRound - k.age)
        \/ \E w \in won : w.epoch > led[n] /\ w.quorum \cap AckedBy(n, k) = {}

(* A leader that wrote its hand-over down has stopped for good. *)
ReleasedInv ==
    \A n \in Voters : Leads(n) /\ released[n] = led[n] + 1 =>
        /\ lease[n] = 0 /\ ~acting[n] /\ ~booting[n]
        /\ Renewing(n) => rounds[n] = {}

(* The leader of the term before an allowance wrote the hand-over down. *)
WroteHandOver(U) ==
    /\ \E w \in won : w.epoch + 1 = U
    /\ \A n \in Voters : role[n] = "leader" /\ led[n] + 1 = U => released[n] = U
AllowInv ==
    /\ \A v \in Voters : allow[v] > 0 =>
          allowEpoch[v] <= epoch[v] + 1 /\ WroteHandOver(allowEpoch[v])
    /\ \A m \in renews : m.release # None => WroteHandOver(m.epoch + 1)

LeaseInv ==
    /\ OwnTermInv /\ StagesInv /\ RoundInv /\ ReleasedInv /\ AllowInv
    /\ (Forgetful = {} => BackedInv /\ AckedInv)

=============================================================================
