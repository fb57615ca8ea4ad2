-------------------------- MODULE AuthSessionProofs --------------------------
(***************************************************************************)
(* Sign-in and session of the page, for every number of users, sessions    *)
(* and requests under way.                                                 *)
(*                                                                         *)
(* AuthInv ties what the page shows to the requests somebody waits for: a  *)
(* check of the session runs alone on a page that still loads, a login on  *)
(* a page that shows nobody and under the cookie it brought, a request of  *)
(* the dashboard under the cookie of the page, unless a GET of another     *)
(* dashboard was joined or a callback has put its cookie in between.  A    *)
(* session that is gone never comes back, so what an answer said of it     *)
(* stays true until the page hears it.                                     *)
(***************************************************************************)
EXTENDS AuthSession, WellFoundedInduction, TLAPS

\* Somebody waits for the answer.
Heard(c) == c # None /\ c.heard # "gone"

\* The sessions handed out so far, and those a call may name.
Known(gv) == (1 .. gv) \cup {None}
LiveIn(s, ow) == s # None /\ ow[s] # None

\* What holds of one call, whatever the page shows: it names sessions that were handed out,
\* and what its answer says of a session is still so, or the session is gone.
CallFits(c, ow, gv) ==
    /\ c \in Call /\ c.sid \in Known(gv) /\ c.new \in Known(gv)
    /\ c.at = "sent" => c.new = None
    /\ c.new # None => c.kind \in {"login", "callback"}
    /\ c.heard = "dashboard" => c.kind \in {"poll", "add", "probe"}
    /\ c.heard = "left" => c.kind = "poll"
    /\ c.kind = "probe" => c.heard # "page"
    /\ c.at = "lost" => ~LiveIn(c.sid, ow)
    /\ c.kind = "probe" /\ c.at # "sent" /\ c.who = None => ~LiveIn(c.sid, ow)
    /\ c.kind = "check" /\ c.at # "sent" /\ c.who # None => c.sid # None /\ ow[c.sid] \in {c.who, None}
    /\ c.kind = "login" /\ c.new # None => ow[c.new] \in {c.who, None}

\* What the calls that are waited for say of the page: the check of the session runs alone,
\* a login on a page that shows nobody, under its own cookie from its headers on; a call of
\* the dashboard under the cookie of the page, where nothing of another session is mixed in;
\* the page that the check signs off has no sign-on to redeem.
ScreenFits(cs, u, ld, us, tm, ck, mx) ==
    \A i \in Slots : Heard(cs[i]) =>
        /\ cs[i].kind = "check" => /\ ld /\ us = None /\ ~tm /\ ~u /\ cs[i].sid = ck
                                   /\ \A j \in Slots : Heard(cs[j]) => j = i
        /\ cs[i].kind = "login" => /\ ~ld /\ us = None
                                   /\ \A j \in Slots : Heard(cs[j]) /\ cs[j].kind = "login" => j = i
        /\ cs[i].kind = "login" /\ cs[i].at = "body" =>
                ck \in {cs[i].new, None} \/ "callback" \in mx
        /\ cs[i].heard = "dashboard" => us # None /\ (mx = {} => cs[i].sid = ck)
        /\ cs[i].kind = "logout" /\ cs[i].by = "check" =>
                ~u /\ \A j \in Slots : Heard(cs[j]) => cs[j].kind # "callback"

Flags ==
    /\ \A x \in {code, url, loading, overlay, probed, timer} : x \in BOOLEAN
    /\ mixed \subseteq {"callback", "joined"}
Sessions ==
    /\ given \in 0 .. MaxSessions /\ owner \in [Sids -> Users \cup {None}]
    /\ \A s \in Sids : s > given => owner[s] = None
    /\ cookie \in Known(given) /\ user \in Users \cup {None}
CallsFit(cs, ow, gv) ==
    cs \in [Slots -> Call \cup {None}] /\ \A i \in Slots : cs[i] # None => CallFits(cs[i], ow, gv)
OverlayFits == overlay => user # None /\ (mixed = {} => ~Live(cookie))

AuthInv ==
    /\ Flags /\ Sessions /\ CallsFit(calls, owner, given)
    /\ ScreenFits(calls, url, loading, user, timer, cookie, mixed)
    /\ OverlayFits /\ PageShowsOwner

-----------------------------------------------------------------------------
(* Slots. *)

LEMMA LeastOne ==
    ASSUME NEW T \in SUBSET Nat, T # {}
    PROVE  \E x \in T : \A y \in T : x <= y
<1> DEFINE R == OpToRel(<, Nat)
<1>1. IsWellFoundedOn(R, Nat)
  BY NatLessThanWellFounded
<1>2. \A x, y \in Nat : x < y => <<x, y>> \in R
  BY DEF OpToRel
<1> HIDE DEF R
<1>3. \E x \in T : \A y \in T : ~(<<y, x>> \in R)
  BY <1>1, WFMin
<1>4. PICK x \in T : \A y \in T : ~(<<y, x>> \in R)
  BY <1>3
<1>5. ASSUME NEW y \in T PROVE x <= y
  <2>1. x \in Nat /\ y \in Nat
    OBVIOUS
  <2>2. ~(y < x)
    BY <1>2, <1>4, <2>1, Zenon
  <2>3. QED
    BY <2>1, <2>2
<1>6. QED
  BY <1>5

\* A request goes into one free slot.
LEMMA PutFacts ==
    ASSUME NEW cs, NEW c, Free(cs) # {}
    PROVE  \E p \in Slots : cs[p] = None /\ Put(cs, c) = [cs EXCEPT ![p] = c]
<1> DEFINE least == CHOOSE i \in Free(cs) : \A j \in Free(cs) : i <= j
<1>1. Free(cs) \subseteq Nat
  BY SignInAssumption DEF Free, Slots
<1>2. \E i \in Free(cs) : \A j \in Free(cs) : i <= j
  BY <1>1, LeastOne
<1>3. least \in Free(cs)
  BY <1>2
<1>4. Put(cs, c) = [cs EXCEPT ![least] = c]
  BY DEF Put
<1> HIDE DEF least
<1>5. QED
  BY <1>3, <1>4 DEF Free

\* A new request says nothing of a session yet.
LEMMA RequestFields ==
    ASSUME NEW k \in Kinds, NEW ck, NEW u \in Users \cup {None}, NEW by \in {"user", "check", "timer"},
           NEW ow, NEW gv \in 0 .. MaxSessions, ck \in Known(gv)
    PROVE  LET c == Request(k, ck, u, by)
           IN  /\ CallFits(c, ow, gv) /\ c # None
               /\ c.kind = k /\ c.sid = ck /\ c.by = by /\ c.at = "sent"
               /\ c.heard = IF k \in {"poll", "add", "probe"} THEN "dashboard" ELSE "page"
<1> DEFINE c == Request(k, ck, u, by)
<1>1. /\ c.kind = k /\ c.sid = ck /\ c.by = by /\ c.who = u /\ c.new = None /\ c.at = "sent"
      /\ c.heard = IF k \in {"poll", "add", "probe"} THEN "dashboard" ELSE "page"
  BY DEF Request
<1>2. ck \in Sids \cup {None}
  BY SignInAssumption DEF Known, Sids
<1>3. c \in Call
  BY <1>2 DEF Request, Call
<1>4. c # None
  BY <1>3, SignInAssumption
<1> HIDE DEF c
<1>5. CallFits(c, ow, gv)
  BY <1>1, <1>3 DEF CallFits, Known
<1>6. QED
  BY <1>1, <1>4, <1>5 DEF c

\* Sessions are handed out in order, and one that is gone stays gone.
Ages(ow, gv, ow2, gv2) == gv <= gv2 /\ \A s \in 1 .. gv : ow2[s] \in {ow[s], None}

LEMMA CallAges ==
    ASSUME NEW c, NEW ow, NEW ow2, NEW gv \in Nat, NEW gv2 \in Nat, Ages(ow, gv, ow2, gv2), CallFits(c, ow, gv)
    PROVE  CallFits(c, ow2, gv2)
<1>1. Known(gv) \subseteq Known(gv2)
  BY DEF Known, Ages
<1>2. \A s \in Known(gv) : s # None => ow2[s] \in {ow[s], None}
  BY DEF Known, Ages
<1>3. \A s \in Known(gv) : ~LiveIn(s, ow) => ~LiveIn(s, ow2)
  BY <1>2 DEF LiveIn
<1>4. QED
  BY <1>1, <1>2, <1>3 DEF CallFits

LEMMA PutFits ==
    ASSUME NEW cs, NEW ow, NEW gv, CallsFit(cs, ow, gv), NEW p \in Slots, NEW c,
           c = None \/ CallFits(c, ow, gv)
    PROVE  CallsFit([cs EXCEPT ![p] = c], ow, gv)
<1>1. c \in Call \cup {None}
  BY DEF CallFits
<1>2. QED
  BY <1>1 DEF CallsFit

-----------------------------------------------------------------------------
(* What the page shows beside the requests it waits for. *)

NoCheck(cs) == \A i \in Slots : Heard(cs[i]) => cs[i].kind # "check"

LEMMA NoCheckHere ==
    ASSUME NEW cs, NEW u, NEW ld, NEW us, NEW tm, NEW ck, NEW mx, ScreenFits(cs, u, ld, us, tm, ck, mx)
    PROVE  /\ (~ld \/ us # None \/ tm) => NoCheck(cs)
           /\ \A i \in Slots : Heard(cs[i]) /\ cs[i].kind # "check" => NoCheck(cs)
BY DEF ScreenFits, NoCheck

\* Nobody waits: any page fits.
LEMMA Silent ==
    ASSUME NEW cs, \A i \in Slots : ~Heard(cs[i]), NEW u, NEW ld, NEW us, NEW tm, NEW ck, NEW mx
    PROVE  ScreenFits(cs, u, ld, us, tm, ck, mx)
BY DEF ScreenFits

LEMMA DropFits ==
    ASSUME NEW cs \in [Slots -> Call \cup {None}], NEW i \in Slots,
           NEW u, NEW ld, NEW us, NEW tm, NEW ck, NEW mx, ScreenFits(cs, u, ld, us, tm, ck, mx)
    PROVE  ScreenFits([cs EXCEPT ![i] = None], u, ld, us, tm, ck, mx)
<1> DEFINE ds == [cs EXCEPT ![i] = None]
<1>1. \A j \in Slots : Heard(ds[j]) => ds[j] = cs[j]
  BY DEF Heard
<1> HIDE DEF ds
<1>2. ScreenFits(ds, u, ld, us, tm, ck, mx)
  BY <1>1 DEF ScreenFits
<1>3. QED
  BY <1>2 DEF ds

\* An answer changes neither who asked nor who waits.
LEMMA SettleFits ==
    ASSUME NEW cs \in [Slots -> Call \cup {None}], NEW i \in Slots, NEW c,
           cs[i] # None, c # None, c.at # "body",
           c.kind = cs[i].kind, c.heard = cs[i].heard, c.sid = cs[i].sid, c.by = cs[i].by,
           NEW u, NEW ld, NEW us, NEW tm, NEW ck, NEW mx, ScreenFits(cs, u, ld, us, tm, ck, mx)
    PROVE  ScreenFits([cs EXCEPT ![i] = c], u, ld, us, tm, ck, mx)
<1> DEFINE ds == [cs EXCEPT ![i] = c]
<1>1. \A j \in Slots : /\ Heard(ds[j]) <=> Heard(cs[j])
                       /\ ds[j].kind = cs[j].kind /\ ds[j].heard = cs[j].heard
                       /\ ds[j].sid = cs[j].sid /\ ds[j].by = cs[j].by
                       /\ ds[j].at = "body" => ds[j].new = cs[j].new /\ cs[j].at = "body"
  BY DEF Heard
<1> HIDE DEF ds
<1>2. ScreenFits(ds, u, ld, us, tm, ck, mx)
  BY <1>1 DEF ScreenFits
<1>3. QED
  BY <1>2 DEF ds

\* A new request fits where its kind may be asked.
LEMMA AskFits ==
    ASSUME NEW cs \in [Slots -> Call \cup {None}], NEW p \in Slots, cs[p] = None, NEW c, c # None, c.at = "sent",
           NEW u, NEW ld, NEW us, NEW tm, NEW ck, NEW mx, ScreenFits(cs, u, ld, us, tm, ck, mx),
           NoCheck(cs), c.kind # "check",
           c.kind = "login" => ~ld /\ us = None /\ \A j \in Slots : Heard(cs[j]) => cs[j].kind # "login",
           c.heard = "dashboard" => us # None /\ (mx = {} => c.sid = ck),
           c.kind = "logout" /\ c.by = "check" => ~u /\ \A j \in Slots : Heard(cs[j]) => cs[j].kind # "callback",
           c.kind = "callback" => \A j \in Slots : Heard(cs[j]) => ~(cs[j].kind = "logout" /\ cs[j].by = "check")
    PROVE  ScreenFits([cs EXCEPT ![p] = c], u, ld, us, tm, ck, mx)
<1> DEFINE ds == [cs EXCEPT ![p] = c]
<1>1. ds[p] = c /\ ~Heard(cs[p]) /\ \A j \in Slots : j # p => ds[j] = cs[j]
  BY DEF Heard
<1> HIDE DEF ds
<1>2. ScreenFits(ds, u, ld, us, tm, ck, mx)
  <2>1. SUFFICES ASSUME NEW i \in Slots, Heard(ds[i])
                 PROVE  /\ ds[i].kind # "check"
                        /\ ds[i].kind = "login" => /\ ~ld /\ us = None
                                   /\ \A j \in Slots : Heard(ds[j]) /\ ds[j].kind = "login" => j = i
                        /\ ds[i].kind = "login" /\ ds[i].at = "body" =>
                                ck \in {ds[i].new, None} \/ "callback" \in mx
                        /\ ds[i].heard = "dashboard" => us # None /\ (mx = {} => ds[i].sid = ck)
                        /\ ds[i].kind = "logout" /\ ds[i].by = "check" =>
                                ~u /\ \A j \in Slots : Heard(ds[j]) => ds[j].kind # "callback"
    BY DEF ScreenFits
  <2>2. CASE i = p
    BY <1>1, <2>1, <2>2
  <2>3. CASE i # p
    <3>1. ds[i] = cs[i] /\ Heard(cs[i])
      BY <1>1, <2>1, <2>3
    <3>2. ds[i].kind # "check"
      BY <3>1 DEF NoCheck
    <3>3. ASSUME ds[i].kind = "login"
          PROVE  ~ld /\ us = None /\ \A j \in Slots : Heard(ds[j]) /\ ds[j].kind = "login" => j = i
      BY <1>1, <3>1, <3>3 DEF ScreenFits
    <3>4. /\ ds[i].kind = "login" /\ ds[i].at = "body" => ck \in {ds[i].new, None} \/ "callback" \in mx
          /\ ds[i].heard = "dashboard" => us # None /\ (mx = {} => ds[i].sid = ck)
      BY <3>1 DEF ScreenFits
    <3>5. ASSUME ds[i].kind = "logout", ds[i].by = "check"
          PROVE  ~u /\ \A j \in Slots : Heard(ds[j]) => ds[j].kind # "callback"
      BY <1>1, <3>1, <3>5 DEF ScreenFits
    <3>6. QED
      BY <3>2, <3>3, <3>4, <3>5
  <2>4. QED
    BY <2>2, <2>3
<1>3. QED
  BY <1>2 DEF ds

-----------------------------------------------------------------------------
(* The server. *)

LEMMA AuthFacts ==
    ASSUME AuthInv
    PROVE  /\ calls \in [Slots -> Call \cup {None}] /\ given \in 0 .. MaxSessions /\ given \in Nat
           /\ owner \in [Sids -> Users \cup {None}] /\ cookie \in Known(given) /\ user \in Users \cup {None}
           /\ 1 .. given \subseteq Sids
           /\ \A i \in Slots : calls[i] # None => CallFits(calls[i], owner, given)
           /\ CallsFit(calls, owner, given) /\ ScreenFits(calls, url, loading, user, timer, cookie, mixed)
<1>1. /\ calls \in [Slots -> Call \cup {None}] /\ given \in 0 .. MaxSessions
      /\ owner \in [Sids -> Users \cup {None}] /\ cookie \in Known(given) /\ user \in Users \cup {None}
      /\ \A i \in Slots : calls[i] # None => CallFits(calls[i], owner, given)
      /\ CallsFit(calls, owner, given) /\ ScreenFits(calls, url, loading, user, timer, cookie, mixed)
  BY DEF AuthInv, CallsFit, Sessions
<1>2. given \in Nat /\ 1 .. given \subseteq Sids
  BY <1>1, SignInAssumption DEF Sids
<1>3. QED
  BY <1>1, <1>2

\* What the server does, with an answer or without one, leaves the page as true as it was.
LEMMA ServerMoves ==
    ASSUME AuthInv, UNCHANGED <<cookie, page, mixed>>, code' \in BOOLEAN,
           given' \in 0 .. MaxSessions, owner' \in [Sids -> Users \cup {None}],
           \A s \in Sids : s > given' => owner'[s] = None,
           Ages(owner, given, owner', given'),
           CallsFit(calls', owner', given'), ScreenFits(calls', url, loading, user, timer, cookie, mixed)
    PROVE  AuthInv'
<1>1. given' \in Nat /\ Known(given) \subseteq Known(given')
  BY AuthFacts, SignInAssumption DEF Known, Ages
<1>2. cookie # None => owner'[cookie] \in {owner[cookie], None}
  BY AuthFacts DEF Known, Ages
<1>3. Sessions'
  BY <1>1, AuthFacts DEF Sessions, page
<1>4. Flags'
  BY DEF AuthInv, Flags, page
<1>5. OverlayFits'
  BY <1>2 DEF AuthInv, OverlayFits, Live, page
<1>6. PageShowsOwner'
  BY <1>2 DEF AuthInv, PageShowsOwner, Live, page
<1>7. QED
  BY <1>3, <1>4, <1>5, <1>6 DEF AuthInv, page

\* The calls behind an answer c of slot i, when the sessions moved on.
LEMMA Settled ==
    ASSUME AuthInv, NEW i \in Slots, calls[i] # None, NEW c, c # None, c.at # "body",
           c.kind = calls[i].kind, c.heard = calls[i].heard, c.sid = calls[i].sid, c.by = calls[i].by,
           given' \in Nat, Ages(owner, given, owner', given'), CallFits(c, owner', given'),
           calls' = [calls EXCEPT ![i] = c]
    PROVE  CallsFit(calls', owner', given') /\ ScreenFits(calls', url, loading, user, timer, cookie, mixed)
<1>1. CallsFit(calls, owner', given')
  <2>1. \A j \in Slots : calls[j] # None => CallFits(calls[j], owner', given')
    BY AuthFacts, CallAges
  <2>2. QED
    BY <2>1, AuthFacts DEF CallsFit
<1>2. CallsFit(calls', owner', given')
  BY <1>1, PutFits
<1>3. ScreenFits(calls', url, loading, user, timer, cookie, mixed)
  BY AuthFacts, SettleFits
<1>4. QED
  BY <1>2, <1>3

LEMMA SameAges == ASSUME NEW ow, NEW gv \in Nat PROVE Ages(ow, gv, ow, gv)
BY DEF Ages

LEMMA SidsKnown ==
    ASSUME AuthInv, NEW i \in Slots, calls[i] # None
    PROVE  /\ calls[i] \in Call /\ calls[i].sid \in Known(given) /\ calls[i].new \in Known(given)
           /\ calls[i].who \in Users \cup {None}
           /\ calls[i].sid # None => calls[i].sid \in 1 .. given /\ calls[i].sid \in Sids
           /\ Live(calls[i].sid) <=> LiveIn(calls[i].sid, owner)
<1>1. CallFits(calls[i], owner, given)
  BY AuthFacts
<1>2. calls[i] \in Call /\ calls[i].sid \in Known(given) /\ calls[i].new \in Known(given)
  BY <1>1 DEF CallFits
<1>3. calls[i].who \in Users \cup {None}
  BY <1>2 DEF Call
<1>4. calls[i].sid # None => calls[i].sid \in 1 .. given /\ calls[i].sid \in Sids
  BY <1>2, AuthFacts DEF Known
<1>5. QED
  BY <1>2, <1>3, <1>4 DEF Live, LiveIn

\* An answer without a new session.
LEMMA AnswerOld ==
    ASSUME AuthInv, NEW i \in Slots, calls[i] # None, calls[i].at = "sent", NEW c,
           c \in Call, c.kind = calls[i].kind, c.heard = calls[i].heard, c.sid = calls[i].sid, c.by = calls[i].by,
           c.new = calls[i].new, c.at # "body",
           c.at = "lost" => ~LiveIn(c.sid, owner'),
           c.kind = "probe" /\ c.who = None => ~LiveIn(c.sid, owner'),
           c.kind = "check" /\ c.who # None => c.sid # None /\ owner'[c.sid] \in {c.who, None},
           Ages(owner, given, owner', given), given' = given,
           calls' = [calls EXCEPT ![i] = c]
    PROVE  CallsFit(calls', owner', given') /\ ScreenFits(calls', url, loading, user, timer, cookie, mixed)
<1>1. CallFits(calls[i], owner, given)
  BY AuthFacts
<1>2. c # None
  BY SignInAssumption
<1>3. c.new = None /\ c.sid \in Known(given) /\ c.new \in Known(given)
  BY <1>1 DEF CallFits
<1>4. CallFits(c, owner', given)
  BY <1>1, <1>3 DEF CallFits
<1>5. given' \in Nat
  BY AuthFacts
<1>6. QED
  BY <1>2, <1>4, <1>5, Settled

\* An answer with a new session of u.
LEMMA AnswerNew ==
    ASSUME AuthInv, NEW i \in Slots, calls[i] # None, calls[i].at = "sent", calls[i].kind \in {"login", "callback"},
           NEW u \in Users \cup {None}, NewSession(i, u), UNCHANGED <<cookie, page, mixed>>, code' \in BOOLEAN
    PROVE  AuthInv'
<1> DEFINE c == [calls[i] EXCEPT !.at = "ok", !.who = u, !.new = given + 1]
<1>1. /\ given < MaxSessions /\ given' = given + 1
      /\ owner' = [owner EXCEPT ![given + 1] = u] /\ calls' = [calls EXCEPT ![i] = c]
  BY DEF NewSession, Settle
<1>2. given' \in 0 .. MaxSessions /\ given' \in Nat /\ given + 1 \in Sids /\ given + 1 \in 1 .. given'
  BY <1>1, AuthFacts, SignInAssumption DEF Sids
<1>3. owner' \in [Sids -> Users \cup {None}] /\ owner'[given + 1] = u
  BY <1>1, <1>2, AuthFacts
<1>4. \A s \in Sids : s > given' => owner'[s] = None
  <2>1. SUFFICES ASSUME NEW s \in Sids, s > given + 1 PROVE owner'[s] = None
    BY <1>1
  <2>2. s \in Nat /\ s > given /\ s # given + 1
    BY <2>1, AuthFacts, SignInAssumption DEF Sids
  <2>3. QED
    BY <1>1, <2>2, AuthFacts DEF AuthInv, Sessions
<1>5. Ages(owner, given, owner', given')
  <2>1. \A s \in 1 .. given : s # given + 1 /\ s \in Sids
    BY AuthFacts
  <2>2. \A s \in 1 .. given : owner'[s] = owner[s]
    BY <1>1, <2>1, AuthFacts
  <2>3. QED
    BY <1>1, <2>2, AuthFacts DEF Ages
<1>6. CallFits(calls[i], owner, given) /\ calls[i] \in Call
  BY AuthFacts, SidsKnown
<1>7. /\ c \in Call /\ c.kind = calls[i].kind /\ c.heard = calls[i].heard /\ c.sid = calls[i].sid
      /\ c.by = calls[i].by /\ c.at = "ok" /\ c.who = u /\ c.new = given + 1
  BY <1>2, <1>6 DEF Call
<1> HIDE DEF c
<1>8. c # None /\ Known(given) \subseteq Known(given')
  BY <1>1, <1>7, SignInAssumption, AuthFacts DEF Known
<1>9. CallFits(c, owner', given')
  <2>1. c.sid \in Known(given') /\ c.new \in Known(given')
    BY <1>2, <1>6, <1>7, <1>8 DEF CallFits, Known
  <2>2. c.kind = "login" => owner'[c.new] \in {c.who, None}
    BY <1>3, <1>7
  <2>3. /\ c.heard = "dashboard" => c.kind \in {"poll", "add", "probe"}
        /\ c.heard = "left" => c.kind = "poll"
    BY <1>6, <1>7 DEF CallFits
  <2>4. c.kind \in {"login", "callback"}
    BY <1>7
  <2>5. QED
    BY <1>7, <2>1, <2>2, <2>3, <2>4 DEF CallFits
<1>10. CallsFit(calls', owner', given') /\ ScreenFits(calls', url, loading, user, timer, cookie, mixed)
  BY <1>1, <1>2, <1>5, <1>7, <1>8, <1>9, Settled
<1>11. QED
  BY <1>2, <1>3, <1>4, <1>5, <1>10, ServerMoves

LEMMA ServerKept ==
    ASSUME AuthInv, UNCHANGED <<owner, given>>
    PROVE  /\ given' \in 0 .. MaxSessions /\ owner' \in [Sids -> Users \cup {None}]
           /\ \A s \in Sids : s > given' => owner'[s] = None
           /\ Ages(owner, given, owner', given') /\ Ages(owner, given, owner', given)
BY AuthFacts, SameAges DEF AuthInv, Sessions

LEMMA SessionGoes ==
    ASSUME AuthInv, NEW s, owner' = [t \in Sids |-> IF t = s THEN None ELSE owner[t]], given' = given
    PROVE  /\ given' \in 0 .. MaxSessions /\ owner' \in [Sids -> Users \cup {None}]
           /\ \A t \in Sids : t > given' => owner'[t] = None
           /\ Ages(owner, given, owner', given') /\ Ages(owner, given, owner', given)
<1>1. owner' \in [Sids -> Users \cup {None}] /\ given' \in 0 .. MaxSessions
  BY AuthFacts
<1>2. \A t \in Sids : owner'[t] \in {owner[t], None}
  OBVIOUS
<1>3. \A t \in Sids : t > given' => owner'[t] = None
  BY <1>2 DEF AuthInv, Sessions
<1>4. Ages(owner, given, owner', given)
  BY <1>2, AuthFacts DEF Ages
<1>5. QED
  BY <1>1, <1>3, <1>4

LEMMA AuthAnswers == ASSUME AuthInv, NEW i \in Slots, Answer(i) PROVE AuthInv'
<1>1. calls[i] # None /\ calls[i].at = "sent" /\ UNCHANGED <<cookie, page, mixed>>
  BY DEF Answer
<1>2. code \in BOOLEAN
  BY DEF AuthInv, Flags
<1>3. calls[i] \in Call /\ calls[i].new = None
  BY <1>1, AuthFacts, SidsKnown DEF CallFits
<1>4. CASE AnswerCheck(i)
  <2> DEFINE w == IF Live(calls[i].sid) THEN owner[calls[i].sid] ELSE None
  <2> DEFINE c == [calls[i] EXCEPT !.at = "ok", !.who = w]
  <2>1. calls' = [calls EXCEPT ![i] = c] /\ UNCHANGED <<owner, given, code>> /\ calls[i].kind \in {"check", "probe"}
    BY <1>4 DEF AnswerCheck, Settle, server
  <2>2. w \in Users \cup {None}
    BY <1>1, SidsKnown, AuthFacts DEF Live
  <2>3. w = None => ~LiveIn(calls[i].sid, owner)
    BY DEF Live, LiveIn
  <2>4. w # None => calls[i].sid # None /\ owner[calls[i].sid] = w
    BY DEF Live
  <2> HIDE DEF w
  <2>5. /\ c \in Call /\ c.kind = calls[i].kind /\ c.heard = calls[i].heard /\ c.sid = calls[i].sid
        /\ c.by = calls[i].by /\ c.at = "ok" /\ c.who = w /\ c.new = calls[i].new
    BY <1>3, <2>2 DEF Call
  <2> HIDE DEF c
  <2>6. CallsFit(calls', owner', given') /\ ScreenFits(calls', url, loading, user, timer, cookie, mixed)
    BY <1>1, <2>1, <2>3, <2>4, <2>5, ServerKept, AnswerOld
  <2>7. QED
    BY <1>1, <1>2, <2>1, <2>6, ServerKept, ServerMoves
<1>5. CASE AnswerLogout(i)
  <2> DEFINE c == [calls[i] EXCEPT !.at = "ok"]
  <2>1. /\ calls' = [calls EXCEPT ![i] = c] /\ UNCHANGED <<given, code>> /\ calls[i].kind = "logout"
        /\ owner' = [s \in Sids |-> IF s = calls[i].sid THEN None ELSE owner[s]]
    BY <1>5 DEF AnswerLogout, Settle
  <2>2. /\ c \in Call /\ c.kind = "logout" /\ c.heard = calls[i].heard /\ c.sid = calls[i].sid
        /\ c.by = calls[i].by /\ c.at = "ok" /\ c.new = calls[i].new
    BY <1>3, <2>1 DEF Call
  <2> HIDE DEF c
  <2>3. CallsFit(calls', owner', given') /\ ScreenFits(calls', url, loading, user, timer, cookie, mixed)
    BY <1>1, <2>1, <2>2, SessionGoes, AnswerOld
  <2>4. QED
    BY <1>1, <1>2, <2>1, <2>3, SessionGoes, ServerMoves
<1>6. ASSUME NoSession(i), calls[i].kind \in {"login", "callback"}, code' \in BOOLEAN PROVE AuthInv'
  <2> DEFINE c == [calls[i] EXCEPT !.at = "ok"]
  <2>1. calls' = [calls EXCEPT ![i] = c] /\ UNCHANGED <<owner, given>>
    BY <1>6 DEF NoSession, Settle
  <2>2. /\ c \in Call /\ c.kind = calls[i].kind /\ c.heard = calls[i].heard /\ c.sid = calls[i].sid
        /\ c.by = calls[i].by /\ c.at = "ok" /\ c.new = calls[i].new
    BY <1>3 DEF Call
  <2> HIDE DEF c
  <2>3. CallsFit(calls', owner', given') /\ ScreenFits(calls', url, loading, user, timer, cookie, mixed)
    BY <1>1, <1>6, <2>1, <2>2, ServerKept, AnswerOld
  <2>4. QED
    BY <1>1, <1>6, <2>1, <2>3, ServerKept, ServerMoves
<1>7. CASE AnswerLogin(i)
  <2>1. calls[i].kind = "login" /\ code' \in BOOLEAN /\ (NewSession(i, calls[i].who) \/ NoSession(i))
    BY <1>2, <1>7 DEF AnswerLogin
  <2>2. calls[i].who \in Users \cup {None}
    BY <1>1, SidsKnown
  <2>3. QED
    BY <1>1, <1>6, <2>1, <2>2, AnswerNew
<1>8. CASE AnswerCallback(i)
  <2>1. calls[i].kind = "callback" /\ code' \in BOOLEAN /\ (NoSession(i) \/ \E u \in Users : NewSession(i, u))
    BY <1>2, <1>8 DEF AnswerCallback
  <2>2. QED
    BY <1>1, <1>6, <2>1, AnswerNew
<1>9. CASE AnswerData(i)
  <2>1. PICK a \in {"foreign", IF Live(calls[i].sid) THEN "ok" ELSE "lost"} :
            calls' = [calls EXCEPT ![i] = [calls[i] EXCEPT !.at = a]]
    BY <1>9 DEF AnswerData, Settle
  <2>2. UNCHANGED <<owner, given, code>> /\ calls[i].kind \in {"poll", "add"}
    BY <1>9 DEF AnswerData, server
  <2> DEFINE c == [calls[i] EXCEPT !.at = a]
  <2>3. a \in {"foreign", "ok", "lost"} /\ (a = "lost" => ~LiveIn(calls[i].sid, owner))
    BY <2>1 DEF Live, LiveIn
  <2>4. /\ c \in Call /\ c.kind = calls[i].kind /\ c.heard = calls[i].heard /\ c.sid = calls[i].sid
        /\ c.by = calls[i].by /\ c.at = a /\ c.at # "body" /\ c.new = calls[i].new
    BY <1>3, <2>3 DEF Call
  <2>5. calls' = [calls EXCEPT ![i] = c]
    BY <2>1
  <2> HIDE DEF c
  <2>6. CallsFit(calls', owner', given') /\ ScreenFits(calls', url, loading, user, timer, cookie, mixed)
    BY <1>1, <2>2, <2>3, <2>4, <2>5, ServerKept, AnswerOld
  <2>7. QED
    BY <1>1, <1>2, <2>2, <2>6, ServerKept, ServerMoves
<1>10. QED
  BY <1>4, <1>5, <1>7, <1>8, <1>9 DEF Answer

LEMMA AuthServer ==
    ASSUME AuthInv, (\E s \in Sids : SessionEnds(s)) \/ (\E i \in Slots : Unheard(i))
    PROVE  AuthInv'
<1>0. code \in BOOLEAN
  BY DEF AuthInv, Flags
<1>1. ASSUME NEW s \in Sids, SessionEnds(s) PROVE AuthInv'
  <2>1. /\ owner' = [owner EXCEPT ![s] = None] /\ UNCHANGED <<given, code, cookie, page, calls, mixed>>
    BY <1>1 DEF SessionEnds
  <2>2. owner' = [t \in Sids |-> IF t = s THEN None ELSE owner[t]]
    BY <2>1, AuthFacts
  <2>3. Ages(owner, given, owner', given') /\ given' \in Nat
    BY <2>1, <2>2, SessionGoes, AuthFacts
  <2>4. CallsFit(calls, owner', given')
    <3>1. \A j \in Slots : calls[j] # None => CallFits(calls[j], owner', given')
      BY <2>3, AuthFacts, CallAges
    <3>2. QED
      BY <3>1, AuthFacts DEF CallsFit
  <2>5. QED
    BY <1>0, <2>1, <2>2, <2>4, AuthFacts, SessionGoes, ServerMoves
<1>2. ASSUME NEW i \in Slots, Unheard(i) PROVE AuthInv'
  <2>1. calls' = [calls EXCEPT ![i] = None] /\ UNCHANGED <<owner, given, code, cookie, page, mixed>>
    BY <1>2 DEF Unheard, Drop, server
  <2>2. CallsFit(calls', owner', given') /\ ScreenFits(calls', url, loading, user, timer, cookie, mixed)
    BY <2>1, AuthFacts, PutFits, DropFits
  <2>3. QED
    BY <1>0, <2>1, <2>2, ServerKept, ServerMoves
<1>3. QED
  BY <1>1, <1>2

-----------------------------------------------------------------------------
(* An answer reaches the page. *)

\* A step of the page alone, from what it may disturb.
LEMMA PageMoves ==
    ASSUME AuthInv, UNCHANGED <<owner, given>>, Flags', cookie' \in Known(given), user' \in Users \cup {None},
           CallsFit(calls', owner, given), ScreenFits(calls', url', loading', user', timer', cookie', mixed'),
           OverlayFits', PageShowsOwner'
    PROVE  AuthInv'
BY DEF AuthInv, Sessions

\* The calls behind an answer that is heard and asks for nothing.
LEMMA Dropped ==
    ASSUME AuthInv, NEW i \in Slots
    PROVE  /\ CallsFit(Drop(i), owner, given) /\ Drop(i) \in [Slots -> Call \cup {None}]
           /\ ScreenFits(Drop(i), url, loading, user, timer, cookie, mixed)
           /\ Free(Drop(i)) # {}
           /\ \A j \in Slots : Heard(Drop(i)[j]) => j # i /\ Heard(calls[j]) /\ Drop(i)[j] = calls[j]
<1>1. CallsFit(Drop(i), owner, given) /\ ScreenFits(Drop(i), url, loading, user, timer, cookie, mixed)
  BY AuthFacts, PutFits, DropFits DEF Drop
<1>2. Drop(i)[i] = None /\ \A j \in Slots : j # i => Drop(i)[j] = calls[j]
  BY AuthFacts DEF Drop
<1>3. QED
  BY <1>1, <1>2 DEF Free, Heard, CallsFit

LEMMA AuthCheckDone ==
    ASSUME AuthInv, NEW i \in Slots, NEW lost \in BOOLEAN, Heard(calls[i]), lost \/ calls[i].at # "sent",
           CheckDone(i, lost), UNCHANGED server
    PROVE  AuthInv'
<1>1. /\ calls[i].kind = "check" /\ loading' = FALSE
      /\ UNCHANGED <<cookie, url, overlay, probed, timer, mixed, owner, given, code>>
  BY DEF CheckDone, server
<1>2. /\ user = None /\ ~url /\ calls[i].sid = cookie
      /\ \A j \in Slots : Heard(calls[j]) => j = i
  BY <1>1, AuthFacts DEF ScreenFits
<1>3. ~overlay
  BY <1>2 DEF AuthInv, OverlayFits
<1>4. \A j \in Slots : ~Heard(Drop(i)[j])
  BY <1>2, Dropped
<1>5. Flags'
  BY <1>1 DEF AuthInv, Flags
<1>6. OverlayFits'
  BY <1>1, <1>3 DEF OverlayFits
<1>7. CASE ~lost /\ calls[i].who \notin PortalOnly \cup {None}
  <2>1. user' = calls[i].who /\ calls' = Drop(i)
    BY <1>7 DEF CheckDone
  <2>2. calls[i] # None /\ CallFits(calls[i], owner, given)
    BY AuthFacts DEF Heard
  <2>3. cookie # None /\ owner[cookie] \in {calls[i].who, None}
    BY <1>1, <1>2, <1>7, <2>2 DEF CallFits
  <2>4. PageShowsOwner'
    BY <1>1, <2>1, <2>3 DEF PageShowsOwner, Live
  <2>5. user' \in Users \cup {None}
    BY <2>1, <2>2, SidsKnown
  <2>6. ScreenFits(calls', url', loading', user', timer', cookie', mixed')
    BY <1>4, <2>1, Silent
  <2>7. QED
    BY <1>1, <1>5, <1>6, <2>1, <2>4, <2>5, <2>6, AuthFacts, Dropped, PageMoves
<1>8. CASE ~(~lost /\ calls[i].who \notin PortalOnly \cup {None})
  <2> DEFINE c == Request("logout", cookie, None, "check")
  <2>1. calls' = Put(Drop(i), c) /\ user' = user
    BY <1>8 DEF CheckDone
  <2>2. /\ CallFits(c, owner, given) /\ c # None /\ c.kind = "logout" /\ c.heard = "page" /\ c.at = "sent"
    BY AuthFacts, RequestFields DEF Kinds
  <2> HIDE DEF c
  <2>3. PICK p \in Slots : Drop(i)[p] = None /\ calls' = [Drop(i) EXCEPT ![p] = c]
    BY <2>1, Dropped, PutFacts
  <2>4. CallsFit(calls', owner, given)
    BY <2>2, <2>3, Dropped, PutFits
  <2>5. ScreenFits(Drop(i), url, FALSE, user, timer, cookie, mixed) /\ NoCheck(Drop(i))
    BY <1>4, Silent DEF NoCheck
  <2>6. ScreenFits(calls', url, FALSE, user, timer, cookie, mixed)
    BY <1>2, <1>4, <2>2, <2>3, <2>5, Dropped, AskFits
  <2>7. PageShowsOwner'
    BY <1>2, <2>1 DEF PageShowsOwner
  <2>8. QED
    BY <1>1, <1>5, <1>6, <2>1, <2>4, <2>6, <2>7, AuthFacts, PageMoves
<1>9. QED
  BY <1>7, <1>8

LEMMA AuthLoginDone ==
    ASSUME AuthInv, NEW i \in Slots, NEW lost \in BOOLEAN, Heard(calls[i]), lost \/ Arrived(i),
           LoginDone(i, lost), UNCHANGED server
    PROVE  AuthInv'
<1>1. /\ calls[i].kind = "login" /\ calls' = Drop(i)
      /\ UNCHANGED <<cookie, url, loading, overlay, probed, timer, mixed, owner, given, code>>
  BY DEF LoginDone, server
<1>2. user = None /\ ~loading
  BY <1>1, AuthFacts DEF ScreenFits
<1>3. ~overlay
  BY <1>2 DEF AuthInv, OverlayFits
<1>4. Flags'
  BY <1>1 DEF AuthInv, Flags
<1>5. OverlayFits'
  BY <1>1, <1>3 DEF OverlayFits
<1>6. CASE ~lost /\ calls[i].new # None /\ calls[i].who \notin PortalOnly
  <2>1. user' = calls[i].who /\ calls[i].at = "body"
    BY <1>6 DEF LoginDone, Arrived
  <2>2. calls[i] # None /\ CallFits(calls[i], owner, given)
    BY AuthFacts DEF Heard
  <2>3. cookie \in {calls[i].new, None} \/ "callback" \in mixed
    BY <1>1, <2>1, AuthFacts DEF ScreenFits
  <2>4. owner[calls[i].new] \in {calls[i].who, None}
    BY <1>1, <1>6, <2>2 DEF CallFits
  <2>5. PageShowsOwner'
    BY <1>1, <2>1, <2>3, <2>4 DEF PageShowsOwner, Live
  <2>6. user' \in Users \cup {None}
    BY <2>1, <2>2, SidsKnown
  <2>7. NoCheck(calls)
    BY <1>2, AuthFacts, NoCheckHere DEF NoCheck, ScreenFits
  <2>8. \A j \in Slots : Heard(Drop(i)[j]) =>
            /\ Drop(i)[j].kind \notin {"check", "login"} /\ Drop(i)[j].heard # "dashboard"
    <3>1. \A j \in Slots : Heard(calls[j]) =>
            /\ calls[j].kind = "login" => j = i
            /\ calls[j].heard # "dashboard"
      BY <1>1, <1>2, AuthFacts DEF ScreenFits
    <3>2. QED
      BY <2>7, <3>1, Dropped DEF NoCheck
  <2>9. ScreenFits(Drop(i), url, loading, user', timer, cookie, mixed)
    BY <2>8, Dropped DEF ScreenFits
  <2>10. QED
    BY <1>1, <1>4, <1>5, <2>5, <2>6, <2>9, AuthFacts, Dropped, PageMoves
<1>7. CASE ~(~lost /\ calls[i].new # None /\ calls[i].who \notin PortalOnly)
  <2>1. user' = user
    BY <1>7 DEF LoginDone
  <2>2. PageShowsOwner'
    BY <1>2, <2>1 DEF PageShowsOwner
  <2>3. QED
    BY <1>1, <1>4, <1>5, <2>1, <2>2, AuthFacts, Dropped, PageMoves
<1>8. QED
  BY <1>6, <1>7

\* The headers of a new session: a login brings it to a page that shows nobody, a callback
\* to any page, which from here on says nothing of the owner or the loss of its session.
LEMMA AuthHeaders == ASSUME AuthInv, NEW i \in Slots, Headers(i) PROVE AuthInv'
<1> DEFINE c == [calls[i] EXCEPT !.at = "body"]
<1>1. /\ calls[i] # None /\ calls[i].heard = "page" /\ calls[i].at = "ok" /\ calls[i].new # None
      /\ cookie' = calls[i].new /\ calls' = [calls EXCEPT ![i] = c]
      /\ UNCHANGED <<owner, given, code, url, loading, user, overlay, probed, timer>>
  BY DEF Headers, Settle, server, page
<1>2. CallFits(calls[i], owner, given) /\ calls[i] \in Call /\ calls[i].kind \in {"login", "callback"}
  BY <1>1, AuthFacts DEF CallFits
<1>3. /\ c \in Call /\ c # None /\ c.kind = calls[i].kind /\ c.heard = "page" /\ c.sid = calls[i].sid
      /\ c.by = calls[i].by /\ c.at = "body" /\ c.who = calls[i].who /\ c.new = calls[i].new
  BY <1>1, <1>2, SignInAssumption DEF Call
<1> HIDE DEF c
<1>4. CallFits(c, owner, given)
  BY <1>1, <1>2, <1>3 DEF CallFits
<1>5. CallsFit(calls', owner, given)
  BY <1>1, <1>4, AuthFacts, PutFits
<1>6. NoCheck(calls)
  BY <1>1, <1>2, AuthFacts, NoCheckHere DEF Heard
<1>7. calls'[i] = c /\ Heard(calls[i]) /\ Heard(c) /\ \A j \in Slots : j # i => calls'[j] = calls[j]
  BY <1>1, <1>3, AuthFacts DEF Heard
<1>8. CASE calls[i].kind = "callback"
  <2>1. mixed' = mixed \cup {"callback"}
    BY <1>8 DEF Headers
  <2>2. ScreenFits(calls', url, loading, user, timer, cookie', mixed')
    <3>1. SUFFICES ASSUME NEW j \in Slots, Heard(calls'[j])
                   PROVE  /\ calls'[j].kind # "check"
                          /\ calls'[j].kind = "login" => /\ ~loading /\ user = None
                               /\ \A l \in Slots : Heard(calls'[l]) /\ calls'[l].kind = "login" => l = j
                          /\ calls'[j].heard = "dashboard" => user # None
                          /\ calls'[j].kind = "logout" /\ calls'[j].by = "check" =>
                                ~url /\ \A l \in Slots : Heard(calls'[l]) => calls'[l].kind # "callback"
      BY <2>1 DEF ScreenFits
    <3>2. CASE j = i
      BY <1>3, <1>7, <1>8, <3>2
    <3>3. CASE j # i
      <4>1. calls'[j] = calls[j] /\ Heard(calls[j]) /\ calls[j].kind # "check"
        BY <1>6, <1>7, <3>1, <3>3 DEF NoCheck
      <4>2. ASSUME calls[j].kind = "login"
            PROVE  /\ ~loading /\ user = None
                   /\ \A l \in Slots : Heard(calls'[l]) /\ calls'[l].kind = "login" => l = j
        BY <1>3, <1>7, <1>8, <4>1, <4>2, AuthFacts DEF ScreenFits
      <4>3. ~(calls[j].kind = "logout" /\ calls[j].by = "check")
        BY <1>7, <1>8, <4>1, AuthFacts DEF ScreenFits
      <4>4. calls[j].heard = "dashboard" => user # None
        BY <4>1, AuthFacts DEF ScreenFits
      <4>5. QED
        BY <4>1, <4>2, <4>3, <4>4
    <3>4. QED
      BY <3>2, <3>3
  <2>3. OverlayFits' /\ PageShowsOwner' /\ Flags'
    BY <1>1, <2>1 DEF AuthInv, OverlayFits, PageShowsOwner, Flags
  <2>4. QED
    BY <1>1, <1>2, <1>5, <2>2, <2>3, AuthFacts, PageMoves DEF CallFits
<1>9. CASE calls[i].kind = "login"
  <2>1. mixed' = mixed \ {"callback"}
    BY <1>9 DEF Headers
  <2>2. /\ user = None /\ ~loading
        /\ \A l \in Slots : Heard(calls[l]) /\ calls[l].kind = "login" => l = i
    BY <1>7, <1>9, AuthFacts DEF ScreenFits
  <2>3. ScreenFits(calls', url, loading, user, timer, cookie', mixed')
    <3>1. SUFFICES ASSUME NEW j \in Slots, Heard(calls'[j])
                   PROVE  /\ calls'[j].kind # "check"
                          /\ calls'[j].kind = "login" => j = i
                          /\ calls'[j].heard # "dashboard"
                          /\ calls'[j].kind = "logout" /\ calls'[j].by = "check" =>
                                ~url /\ \A l \in Slots : Heard(calls'[l]) => calls'[l].kind # "callback"
      BY <1>1, <1>3, <1>7, <2>2 DEF ScreenFits
    <3>2. CASE j = i
      BY <1>3, <1>7, <1>9, <3>2
    <3>3. CASE j # i
      <4>1. calls'[j] = calls[j] /\ Heard(calls[j]) /\ calls[j].kind # "check"
        BY <1>6, <1>7, <3>1, <3>3 DEF NoCheck
      <4>2. calls[j].kind # "login" /\ calls[j].heard # "dashboard"
        BY <2>2, <3>3, <4>1, AuthFacts DEF ScreenFits
      <4>3. ASSUME calls[j].kind = "logout", calls[j].by = "check"
            PROVE  ~url /\ \A l \in Slots : Heard(calls'[l]) => calls'[l].kind # "callback"
        BY <1>3, <1>7, <1>9, <4>1, <4>3, AuthFacts DEF ScreenFits
      <4>4. QED
        BY <4>1, <4>2, <4>3
    <3>4. QED
      BY <3>2, <3>3
  <2>4. OverlayFits' /\ PageShowsOwner'
    BY <1>1, <2>2 DEF AuthInv, OverlayFits, PageShowsOwner
  <2>5. Flags'
    BY <1>1, <2>1 DEF AuthInv, Flags
  <2>6. QED
    BY <1>1, <1>2, <1>5, <2>3, <2>4, <2>5, AuthFacts, PageMoves DEF CallFits
<1>10. QED
  BY <1>2, <1>8, <1>9

\* The dashboard is gone: the adding of a cluster is waited for, a poll may be joined.
LEMMA GoneFacts ==
    ASSUME NEW cs, NEW ow, NEW gv, CallsFit(cs, ow, gv)
    PROVE  /\ CallsFit(DashboardGone(cs), ow, gv)
           /\ \A j \in Slots : cs[j] = None => DashboardGone(cs)[j] = None
           /\ \A j \in Slots : Heard(DashboardGone(cs)[j]) =>
                /\ Heard(cs[j]) /\ DashboardGone(cs)[j].kind = cs[j].kind
                /\ DashboardGone(cs)[j].by = cs[j].by /\ DashboardGone(cs)[j].heard # "dashboard"
                /\ DashboardGone(cs)[j].at = cs[j].at /\ DashboardGone(cs)[j].new = cs[j].new
<1> DEFINE ds == DashboardGone(cs)
<1>1. ASSUME NEW j \in Slots
      PROVE  /\ ds[j] \in Call \cup {None}
             /\ ds[j] # None => CallFits(ds[j], ow, gv)
             /\ cs[j] = None => ds[j] = None
             /\ Heard(ds[j]) => /\ Heard(cs[j]) /\ ds[j].kind = cs[j].kind
                                /\ ds[j].by = cs[j].by /\ ds[j].heard # "dashboard"
                                /\ ds[j].at = cs[j].at /\ ds[j].new = cs[j].new
  <2>1. cs[j] \in Call \cup {None} /\ (cs[j] # None => CallFits(cs[j], ow, gv))
    BY DEF CallsFit
  <2>2. CASE cs[j] = None \/ cs[j].heard # "dashboard"
    <3>1. ds[j] = cs[j]
      BY <2>2 DEF DashboardGone
    <3>2. QED
      BY <2>1, <2>2, <3>1 DEF Heard
  <2>3. CASE cs[j] # None /\ cs[j].heard = "dashboard" /\ cs[j].kind \notin {"add", "poll"}
    <3>1. ds[j] = None
      BY <2>3 DEF DashboardGone
    <3>2. QED
      BY <3>1 DEF Heard
  <2>4. CASE cs[j] # None /\ cs[j].heard = "dashboard" /\ cs[j].kind = "add"
    <3>1. ds[j] = [cs[j] EXCEPT !.heard = "page"]
      BY <2>4 DEF DashboardGone
    <3>2. /\ ds[j] \in Call /\ ds[j].kind = "add" /\ ds[j].by = cs[j].by /\ ds[j].heard = "page"
          /\ ds[j].sid = cs[j].sid /\ ds[j].new = cs[j].new /\ ds[j].at = cs[j].at /\ ds[j].who = cs[j].who
      BY <2>1, <2>4, <3>1 DEF Call
    <3> HIDE DEF ds
    <3>3. CallFits(ds[j], ow, gv)
      BY <2>1, <2>4, <3>2 DEF CallFits
    <3>4. QED
      BY <2>4, <3>2, <3>3 DEF Heard
  <2>5. CASE cs[j] # None /\ cs[j].heard = "dashboard" /\ cs[j].kind = "poll"
    <3>1. ds[j] = [cs[j] EXCEPT !.heard = "left"]
      BY <2>5 DEF DashboardGone
    <3>2. /\ ds[j] \in Call /\ ds[j].kind = "poll" /\ ds[j].by = cs[j].by /\ ds[j].heard = "left"
          /\ ds[j].sid = cs[j].sid /\ ds[j].new = cs[j].new /\ ds[j].at = cs[j].at /\ ds[j].who = cs[j].who
      BY <2>1, <2>5, <3>1 DEF Call
    <3> HIDE DEF ds
    <3>3. CallFits(ds[j], ow, gv)
      BY <2>1, <2>5, <3>2 DEF CallFits
    <3>4. QED
      BY <2>5, <3>2, <3>3 DEF Heard
  <2>6. QED
    BY <2>2, <2>3, <2>4, <2>5
<1>2. ds \in [Slots -> Call \cup {None}]
  <2>1. ds = [j \in Slots |-> ds[j]]
    BY DEF DashboardGone
  <2> HIDE DEF ds
  <2>2. QED
    BY <1>1, <2>1
<1> HIDE DEF ds
<1>3. CallsFit(ds, ow, gv)
  BY <1>1, <1>2 DEF CallsFit
<1>4. QED
  BY <1>1, <1>3 DEF ds

LEMMA AuthLogoutDone ==
    ASSUME AuthInv, NEW i \in Slots, NEW lost \in BOOLEAN, Heard(calls[i]),
           LogoutDone(i, lost), UNCHANGED server
    PROVE  AuthInv'
<1> DEFINE ds == DashboardGone(Drop(i))
<1>1. /\ calls[i].kind = "logout" /\ user' = None /\ overlay' = FALSE /\ probed' = FALSE
      /\ cookie' \in {None, cookie} /\ calls' = LoginShown(ds) /\ mixed' = mixed \ {"joined"}
      /\ UNCHANGED <<url, loading, timer, owner, given, code>>
  BY DEF LogoutDone, server
<1>2. NoCheck(calls)
  BY <1>1, AuthFacts, NoCheckHere
<1>3. Flags'
  BY <1>1 DEF AuthInv, Flags
<1>4. OverlayFits' /\ PageShowsOwner'
  BY <1>1 DEF OverlayFits, PageShowsOwner
<1>5. cookie' \in Known(given) /\ user' \in Users \cup {None}
  BY <1>1, AuthFacts DEF Known
<1>6. /\ CallsFit(ds, owner, given)
      /\ \A j \in Slots : Heard(ds[j]) => Heard(Drop(i)[j]) /\ ds[j].kind = Drop(i)[j].kind /\ ds[j].by = Drop(i)[j].by
                                          /\ ds[j].heard # "dashboard"
                                          /\ ds[j].at = Drop(i)[j].at /\ ds[j].new = Drop(i)[j].new
  <2> DEFINE cs == Drop(i)
  <2>1. CallsFit(cs, owner, given)
    BY Dropped
  <2> HIDE DEF cs
  <2>2. /\ CallsFit(DashboardGone(cs), owner, given)
        /\ \A j \in Slots : Heard(DashboardGone(cs)[j]) =>
              /\ Heard(cs[j]) /\ DashboardGone(cs)[j].kind = cs[j].kind
              /\ DashboardGone(cs)[j].by = cs[j].by /\ DashboardGone(cs)[j].heard # "dashboard"
              /\ DashboardGone(cs)[j].at = cs[j].at /\ DashboardGone(cs)[j].new = cs[j].new
    BY <2>1, GoneFacts
  <2>3. QED
    BY <2>2 DEF cs
<1>7. ds[i] = None
  <2>1. Drop(i)[i] = None
    BY AuthFacts DEF Drop
  <2>2. \A j \in Slots : Drop(i)[j] = None => ds[j] = None
    BY Dropped, GoneFacts
  <2>3. QED
    BY <2>1, <2>2
<1> HIDE DEF ds
<1>8. \A j \in Slots : Heard(ds[j]) =>
          /\ Heard(calls[j]) /\ ds[j].kind = calls[j].kind /\ ds[j].by = calls[j].by /\ ds[j].heard # "dashboard"
          /\ ds[j].at = calls[j].at /\ ds[j].new = calls[j].new
  BY <1>6, Dropped
<1>9. NoCheck(ds)
  BY <1>2, <1>8 DEF NoCheck
<1>10. ScreenFits(ds, url, loading, None, timer, cookie', mixed')
  <2>1. cookie' \in {None, cookie} /\ ("callback" \in mixed => "callback" \in mixed')
    BY <1>1
  <2>2. QED
    BY <1>8, <1>9, <2>1, AuthFacts DEF ScreenFits, NoCheck
<1>11. CASE url /\ user # None
  <2> DEFINE c == Request("callback", cookie, None, "user")
  <2>1. calls' = Put(ds, c)
    BY <1>1, <1>11 DEF LoginShown
  <2>2. CallFits(c, owner, given) /\ c # None /\ c.kind = "callback" /\ c.heard = "page" /\ c.at = "sent"
    BY AuthFacts, RequestFields DEF Kinds
  <2> HIDE DEF c
  <2>3. Free(ds) # {}
    BY <1>7 DEF Free
  <2>4. PICK p \in Slots : ds[p] = None /\ calls' = [ds EXCEPT ![p] = c]
    BY <2>1, <2>3, PutFacts
  <2>5. CallsFit(calls', owner, given)
    BY <1>6, <2>2, <2>4, PutFits
  <2>6. \A j \in Slots : Heard(ds[j]) => ~(ds[j].kind = "logout" /\ ds[j].by = "check")
    BY <1>8, <1>11, AuthFacts DEF ScreenFits
  <2>7. ds \in [Slots -> Call \cup {None}]
    BY <1>6 DEF CallsFit
  <2>8. ScreenFits(calls', url, loading, None, timer, cookie', mixed')
    BY <1>9, <1>10, <2>2, <2>4, <2>6, <2>7, AskFits
  <2>9. QED
    BY <1>1, <1>3, <1>4, <1>5, <2>5, <2>8, PageMoves
<1>12. CASE ~(url /\ user # None)
  <2>1. calls' = ds
    BY <1>1, <1>12 DEF LoginShown
  <2>2. QED
    BY <1>1, <1>3, <1>4, <1>5, <1>6, <1>10, <2>1, PageMoves
<1>13. QED
  BY <1>11, <1>12

\* A page that is loaded waits for its first request alone.
LEMMA LoadFits ==
    ASSUME AuthInv, NEW u \in BOOLEAN, NEW ck \in Known(given), NEW cs, CallsFit(cs, owner, given),
           \A j \in Slots : ~Heard(cs[j]), Free(cs) # {}, Load(u, ck, cs),
           UNCHANGED <<owner, given>>, code' \in BOOLEAN
    PROVE  AuthInv'
<1> DEFINE k == IF u THEN "callback" ELSE "check"
<1> DEFINE c == Request(k, ck, None, "user")
<1>1. /\ url' = u /\ loading' = ~u /\ user' = None /\ overlay' = FALSE /\ probed' = FALSE /\ timer' = FALSE
      /\ cookie' = ck /\ calls' = Put(cs, c) /\ mixed' = {}
  BY DEF Load, First
<1>2. k \in Kinds /\ k \in {"callback", "check"} /\ (k = "check" => ~u)
  BY DEF Kinds
<1> HIDE DEF k
<1>3. CallFits(c, owner, given) /\ c # None /\ c.kind = k /\ c.sid = ck /\ c.heard = "page" /\ c.at = "sent"
  BY <1>2, AuthFacts, RequestFields
<1> HIDE DEF c
<1>4. PICK p \in Slots : cs[p] = None /\ calls' = [cs EXCEPT ![p] = c]
  BY <1>1, PutFacts
<1>5. CallsFit(calls', owner, given)
  BY <1>3, <1>4, PutFits
<1>6. cs \in [Slots -> Call \cup {None}]
  BY DEF CallsFit
<1>7. calls'[p] = c /\ \A j \in Slots : Heard(calls'[j]) => j = p
  BY <1>4, <1>6
<1>8. ScreenFits(calls', url', loading', user', timer', cookie', mixed')
  BY <1>1, <1>2, <1>3, <1>7 DEF ScreenFits
<1>9. Flags'
  BY <1>1 DEF Flags
<1>10. OverlayFits' /\ PageShowsOwner'
  BY <1>1 DEF OverlayFits, PageShowsOwner
<1>11. cookie' \in Known(given) /\ user' \in Users \cup {None}
  BY <1>1
<1>12. QED
  BY <1>5, <1>8, <1>9, <1>10, <1>11, PageMoves

\* What an earlier page asked for: nobody waits.
LEMMA OrphanFacts ==
    ASSUME AuthInv
    PROVE  CallsFit(Orphans, owner, given) /\ \A j \in Slots : ~Heard(Orphans[j])
<1>1. ASSUME NEW j \in Slots
      PROVE  /\ Orphans[j] \in Call \cup {None} /\ ~Heard(Orphans[j])
             /\ Orphans[j] # None => CallFits(Orphans[j], owner, given)
  <2>1. CASE ~(calls[j] # None /\ calls[j].at = "sent")
    <3>1. Orphans[j] = None
      BY <2>1 DEF Orphans
    <3>2. QED
      BY <3>1 DEF Heard
  <2>2. CASE calls[j] # None /\ calls[j].at = "sent"
    <3> DEFINE d == calls[j]
    <3> DEFINE o == Orphans[j]
    <3>1. o = [d EXCEPT !.heard = "gone"]
      BY <2>2 DEF Orphans
    <3>2. CallFits(d, owner, given) /\ d \in Call
      BY <2>2, AuthFacts, SidsKnown
    <3> HIDE DEF d, o
    <3>3. /\ o \in Call /\ o.heard = "gone" /\ o.kind = d.kind /\ o.at = d.at /\ o.sid = d.sid
          /\ o.new = d.new /\ o.who = d.who /\ o.by = d.by
      BY <3>1, <3>2 DEF Call
    <3>4. CallFits(o, owner, given) /\ ~Heard(o)
      BY <3>2, <3>3 DEF CallFits, Heard
    <3>5. QED
      BY <3>3, <3>4 DEF o
  <2>3. QED
    BY <2>1, <2>2
<1>2. Orphans = [j \in Slots |-> Orphans[j]]
  BY DEF Orphans
<1>3. Orphans \in [Slots -> Call \cup {None}]
  BY <1>1, <1>2
<1>4. QED
  BY <1>1, <1>3 DEF CallsFit

LEMMA AuthCallbackDone ==
    ASSUME AuthInv, NEW i \in Slots, NEW lost \in BOOLEAN, Heard(calls[i]),
           CallbackDone(i, lost), UNCHANGED server
    PROVE  AuthInv'
<1>1. calls[i].kind = "callback" /\ UNCHANGED <<owner, given, code>> /\ code' \in BOOLEAN
  BY DEF CallbackDone, server, AuthInv, Flags
<1>2. CASE ~lost /\ calls[i].new # None
  <2> DEFINE cs == [Orphans EXCEPT ![i] = None]
  <2>1. Load(FALSE, cookie, cs)
    BY <1>2 DEF CallbackDone
  <2>2. cookie \in Known(given)
    BY AuthFacts
  <2>3. CallsFit(cs, owner, given)
    BY OrphanFacts, PutFits
  <2>4. Orphans \in [Slots -> Call \cup {None}]
    BY OrphanFacts DEF CallsFit
  <2>5. cs[i] = None /\ \A j \in Slots : ~Heard(cs[j])
    BY <2>4, OrphanFacts DEF Heard
  <2> HIDE DEF cs
  <2>6. Free(cs) # {}
    BY <2>5 DEF Free
  <2>7. QED
    BY <1>1, <2>1, <2>2, <2>3, <2>5, <2>6, LoadFits
<1>3. CASE ~(~lost /\ calls[i].new # None)
  <2>1. /\ url' = (url /\ lost) /\ calls' = Drop(i)
        /\ UNCHANGED <<cookie, loading, user, overlay, probed, timer, mixed>>
    BY <1>3 DEF CallbackDone
  <2>2. Flags'
    BY <1>1, <2>1 DEF AuthInv, Flags
  <2>3. url' => url
    BY <2>1
  <2>4. ScreenFits(Drop(i), url', loading, user, timer, cookie, mixed)
    BY <2>3, Dropped DEF ScreenFits
  <2>5. OverlayFits' /\ PageShowsOwner'
    BY <1>1, <2>1 DEF AuthInv, OverlayFits, PageShowsOwner, Live
  <2>6. QED
    BY <1>1, <2>1, <2>2, <2>4, <2>5, AuthFacts, Dropped, PageMoves
<1>4. QED
  BY <1>2, <1>3

\* authFetch: an answer that shows the overlay is about the session of the page.
LEMMA AuthFetched ==
    ASSUME AuthInv, NEW i \in Slots, Heard(calls[i]), calls[i].kind \in {"poll", "add"}, AuthFetch(i),
           NEW tm, UNCHANGED <<owner, given, cookie, url, loading, user, mixed>>
    PROVE  /\ CallsFit(calls', owner, given) /\ ScreenFits(calls', url, loading, user, tm, cookie, mixed)
           /\ OverlayFits' /\ overlay' \in BOOLEAN /\ (probed \in BOOLEAN => probed' \in BOOLEAN)
<1>1. calls[i] # None /\ CallFits(calls[i], owner, given)
  BY AuthFacts DEF Heard
<1>2. NoCheck(calls)
  BY AuthFacts, NoCheckHere
<1>3. calls[i].heard = "dashboard" => user # None /\ (mixed = {} => calls[i].sid = cookie)
  BY AuthFacts DEF ScreenFits
<1>4. overlay' = (overlay \/ (calls[i].heard = "dashboard" /\ calls[i].at = "lost"))
  BY DEF AuthFetch, SessionLost
<1>5. OverlayFits'
  BY <1>1, <1>3, <1>4 DEF AuthInv, OverlayFits, CallFits, Live, LiveIn
<1>6. NoCheck(Drop(i))
  BY <1>2, Dropped DEF NoCheck
<1>7. ScreenFits(Drop(i), url, loading, user, tm, cookie, mixed)
  BY <1>6, Dropped DEF ScreenFits, NoCheck
<1>8. CASE calls' = Drop(i) /\ probed' = probed
  BY <1>4, <1>5, <1>7, <1>8, Dropped
<1>9. CASE /\ calls[i].heard = "dashboard" /\ probed' = TRUE
           /\ calls' = Put(Drop(i), Request("probe", cookie, None, "user"))
  <2> DEFINE c == Request("probe", cookie, None, "user")
  <2>0. "probe" \in Kinds /\ cookie \in Known(given) /\ given \in 0 .. MaxSessions
    BY AuthFacts DEF Kinds
  <2>1. /\ CallFits(c, owner, given) /\ c # None /\ c.kind = "probe" /\ c.heard = "dashboard" /\ c.sid = cookie
        /\ c.at = "sent"
    BY <2>0, RequestFields
  <2>2. calls' = Put(Drop(i), c)
    BY <1>9
  <2> HIDE DEF c
  <2>3. PICK p \in Slots : Drop(i)[p] = None /\ calls' = [Drop(i) EXCEPT ![p] = c]
    BY <2>2, Dropped, PutFacts
  <2>4. CallsFit(calls', owner, given)
    BY <2>1, <2>3, Dropped, PutFits
  <2>5. user # None
    BY <1>3, <1>9
  <2>6. ScreenFits(calls', url, loading, user, tm, cookie, mixed)
    BY <1>6, <1>7, <2>1, <2>3, <2>5, Dropped, AskFits
  <2>7. QED
    BY <1>4, <1>5, <1>9, <2>4, <2>6
<1>10. QED
  BY <1>8, <1>9 DEF AuthFetch

LEMMA AuthDataDone ==
    ASSUME AuthInv, NEW i \in Slots, NEW lost \in BOOLEAN, Heard(calls[i]), lost \/ calls[i].at # "sent",
           PollDone(i, lost) \/ AddDone(i, lost) \/ ProbeDone(i, lost), UNCHANGED server
    PROVE  AuthInv'
<1>0. UNCHANGED <<owner, given, code, cookie, url, loading, user, mixed>>
  BY DEF PollDone, AddDone, ProbeDone, server
<1>1. calls[i] # None /\ CallFits(calls[i], owner, given)
  BY AuthFacts DEF Heard
<1>2. PageShowsOwner'
  BY <1>0 DEF AuthInv, PageShowsOwner, Live
<1>3. code \in BOOLEAN /\ url \in BOOLEAN /\ loading \in BOOLEAN /\ overlay \in BOOLEAN /\ probed \in BOOLEAN
      /\ timer \in BOOLEAN /\ mixed \subseteq {"callback", "joined"}
  BY DEF AuthInv, Flags
<1>4. CASE (PollDone(i, lost) \/ AddDone(i, lost)) /\ lost
  <2>1. calls' = Drop(i) /\ UNCHANGED <<overlay, probed, timer>>
    BY <1>4 DEF PollDone, AddDone
  <2>2. OverlayFits'
    BY <1>0, <2>1 DEF AuthInv, OverlayFits, Live
  <2>3. Flags'
    BY <1>0, <1>3, <2>1 DEF Flags
  <2>4. QED
    BY <1>0, <1>2, <2>1, <2>2, <2>3, AuthFacts, Dropped, PageMoves
<1>5. CASE (PollDone(i, lost) \/ AddDone(i, lost)) /\ ~lost
  <2>1. /\ calls[i].kind \in {"poll", "add"} /\ AuthFetch(i)
        /\ timer' = timer \/ timer' = (timer \/ calls[i].at = "lost")
    BY <1>5 DEF PollDone, AddDone
  <2>2. timer' \in BOOLEAN
    BY <1>3, <2>1
  <2>3. /\ CallsFit(calls', owner, given) /\ ScreenFits(calls', url, loading, user, timer', cookie, mixed)
        /\ OverlayFits' /\ overlay' \in BOOLEAN /\ (probed \in BOOLEAN => probed' \in BOOLEAN)
    BY <1>0, <2>1, AuthFetched
  <2>4. Flags'
    BY <1>0, <1>3, <2>2, <2>3 DEF Flags
  <2>5. QED
    BY <1>0, <1>2, <2>3, <2>4, AuthFacts, PageMoves
<1>6. CASE ProbeDone(i, lost)
  <2>1. /\ calls[i].kind = "probe" /\ overlay' = (overlay \/ (~lost /\ calls[i].who = None))
        /\ calls' = Drop(i) /\ UNCHANGED <<probed, timer>>
    BY <1>6 DEF ProbeDone
  <2>2. calls[i].heard = "dashboard"
    <3>1. calls[i].heard \in {"dashboard", "page", "left", "gone"}
      BY <1>1 DEF CallFits, Call
    <3>2. QED
      BY <1>1, <2>1, <3>1 DEF CallFits, Heard
  <2>3. user # None /\ (mixed = {} => calls[i].sid = cookie)
    BY <2>2, AuthFacts DEF ScreenFits
  <2>4. OverlayFits'
    BY <1>0, <1>1, <2>1, <2>3 DEF AuthInv, OverlayFits, CallFits, Live, LiveIn
  <2>5. overlay' \in BOOLEAN
    BY <1>3, <2>1
  <2>6. Flags'
    BY <1>0, <1>3, <2>1, <2>5 DEF Flags
  <2>7. QED
    BY <1>0, <1>2, <2>1, <2>4, <2>6, AuthFacts, Dropped, PageMoves
<1>7. QED
  BY <1>4, <1>5, <1>6

LEMMA AuthDone == ASSUME AuthInv, NEW i \in Slots, NEW lost \in BOOLEAN, Done(i, lost) PROVE AuthInv'
<1>1. /\ Heard(calls[i]) /\ (lost \/ Arrived(i)) /\ (lost \/ calls[i].at # "sent")
      /\ UNCHANGED server
  BY DEF Done, Heard, Arrived
<1>2. QED
  BY <1>1, AuthCheckDone, AuthLoginDone, AuthLogoutDone, AuthCallbackDone, AuthDataDone DEF Done

-----------------------------------------------------------------------------
(* The user, and the timers. *)

\* A request beside the others, on a page with the timer tm.
LEMMA Asked ==
    ASSUME AuthInv, NoCheck(calls), NEW k \in Kinds \ {"check", "callback"}, NEW u \in Users \cup {None},
           NEW by \in {"user", "timer"}, Send(k, u, by), NEW tm,
           k = "login" => ~loading /\ user = None /\ ~UnderWay("login"),
           k \in {"poll", "add", "probe"} => user # None
    PROVE  CallsFit(calls', owner, given) /\ ScreenFits(calls', url, loading, user, tm, cookie, mixed)
<1> DEFINE c == Request(k, cookie, u, by)
<1>1. Free(calls) # {} /\ calls' = Put(calls, c)
  BY DEF Send
<1>2. /\ CallFits(c, owner, given) /\ c # None /\ c.kind = k /\ c.sid = cookie /\ c.by = by /\ c.at = "sent"
      /\ c.heard = IF k \in {"poll", "add", "probe"} THEN "dashboard" ELSE "page"
  BY AuthFacts, RequestFields
<1> HIDE DEF c
<1>3. PICK p \in Slots : calls[p] = None /\ calls' = [calls EXCEPT ![p] = c]
  BY <1>1, PutFacts
<1>4. CallsFit(calls', owner, given)
  BY <1>2, <1>3, AuthFacts, PutFits
<1>5. ScreenFits(calls, url, loading, user, tm, cookie, mixed)
  BY AuthFacts DEF ScreenFits, NoCheck
<1>6. k = "login" => \A j \in Slots : Heard(calls[j]) => calls[j].kind # "login"
  <2>1. SUFFICES ASSUME k = "login", NEW j \in Slots, Heard(calls[j]), calls[j].kind = "login" PROVE FALSE
    OBVIOUS
  <2>2. CallFits(calls[j], owner, given)
    BY <2>1, AuthFacts DEF Heard
  <2>3. calls[j].heard \in {"dashboard", "page"}
    BY <2>1, <2>2 DEF CallFits, Call, Heard
  <2>4. QED
    BY <2>1, <2>3 DEF UnderWay, Heard
<1>7. ScreenFits(calls', url, loading, user, tm, cookie, mixed)
  <2>1. c.kind # "check" /\ c.kind # "callback" /\ c.by # "check"
    BY <1>2
  <2>2. c.heard = "dashboard" => user # None /\ (mixed = {} => c.sid = cookie)
    BY <1>2
  <2>3. QED
    BY <1>2, <1>3, <1>5, <1>6, <2>1, <2>2, AuthFacts, AskFits
<1>8. QED
  BY <1>4, <1>7

\* A GET that the dashboard before has under way is joined, and what it says is of another session.
LEMMA AuthJoins ==
    ASSUME AuthInv, NEW i \in Slots, JoinsLeft(i), Dashboard, UNCHANGED <<server, cookie, page>>
    PROVE  AuthInv'
<1> DEFINE c == [calls[i] EXCEPT !.heard = "dashboard"]
<1>1. /\ calls[i] # None /\ calls[i].heard = "left" /\ calls' = [calls EXCEPT ![i] = c]
      /\ mixed' = mixed \cup {"joined"}
      /\ UNCHANGED <<owner, given, code, cookie, url, loading, user, overlay, probed, timer>>
  BY DEF JoinsLeft, Settle, server, page
<1>2. CallFits(calls[i], owner, given) /\ calls[i] \in Call /\ calls[i].kind = "poll"
  BY <1>1, AuthFacts DEF CallFits
<1>3. /\ c \in Call /\ c # None /\ c.kind = "poll" /\ c.heard = "dashboard" /\ c.sid = calls[i].sid
      /\ c.by = calls[i].by /\ c.at = calls[i].at /\ c.who = calls[i].who /\ c.new = calls[i].new
  BY <1>1, <1>2, SignInAssumption DEF Call
<1> HIDE DEF c
<1>4. CallFits(c, owner, given)
  BY <1>2, <1>3 DEF CallFits
<1>5. CallsFit(calls', owner, given)
  BY <1>1, <1>4, AuthFacts, PutFits
<1>6. user # None /\ NoCheck(calls)
  BY AuthFacts, NoCheckHere DEF Dashboard
<1>7. calls'[i] = c /\ \A j \in Slots : j # i => calls'[j] = calls[j]
  BY <1>1, AuthFacts
<1>8. \A j \in Slots : /\ Heard(calls'[j]) => Heard(calls[j])
                       /\ calls'[j].kind = calls[j].kind /\ calls'[j].by = calls[j].by
  BY <1>1, <1>2, <1>3, <1>7 DEF Heard
<1>9. ScreenFits(calls', url, loading, user, timer, cookie, mixed')
  <2>1. SUFFICES ASSUME NEW j \in Slots, Heard(calls'[j])
                 PROVE  /\ calls'[j].kind \notin {"check", "login"}
                        /\ calls'[j].kind = "logout" /\ calls'[j].by = "check" =>
                                ~url /\ \A l \in Slots : Heard(calls'[l]) => calls'[l].kind # "callback"
    BY <1>1, <1>6 DEF ScreenFits
  <2>2. calls'[j].kind \notin {"check", "login"}
    BY <1>6, <1>8, <2>1, AuthFacts DEF ScreenFits, NoCheck
  <2>3. ASSUME calls'[j].kind = "logout", calls'[j].by = "check"
        PROVE  ~url /\ \A l \in Slots : Heard(calls'[l]) => calls'[l].kind # "callback"
    BY <1>8, <2>1, <2>3, AuthFacts DEF ScreenFits
  <2>4. QED
    BY <2>2, <2>3
<1>10. OverlayFits' /\ PageShowsOwner'
  BY <1>1, <1>6 DEF AuthInv, OverlayFits, PageShowsOwner, Live
<1>11. Flags'
  BY <1>1 DEF AuthInv, Flags
<1>12. QED
  BY <1>1, <1>5, <1>9, <1>10, <1>11, AuthFacts, PageMoves

LEMMA AuthUser ==
    ASSUME AuthInv,
           \/ \E u \in Users : Submit(u)
           \/ LogOut \/ OverlayLogIn \/ AddCluster \/ TimerFires \/ ProbeAgain
           \/ Poll /\ Send("poll", None, "user") /\ UNCHANGED mixed
    PROVE  AuthInv'
<1>0. UNCHANGED <<owner, given, code, cookie, url, loading, user, mixed>>
  BY DEF Submit, LogOut, OverlayLogIn, Poll, AddCluster, TimerFires, ProbeAgain, server, page
<1>1. code \in BOOLEAN /\ url \in BOOLEAN /\ loading \in BOOLEAN /\ overlay \in BOOLEAN /\ probed \in BOOLEAN
      /\ timer \in BOOLEAN /\ mixed \subseteq {"callback", "joined"}
  BY DEF AuthInv, Flags
<1>2. PageShowsOwner'
  BY <1>0 DEF AuthInv, PageShowsOwner, Live
<1>3. overlay' \in {overlay, FALSE} /\ timer' \in {timer, FALSE} /\ probed' \in {probed, FALSE}
  BY DEF Submit, LogOut, OverlayLogIn, Poll, AddCluster, TimerFires, ProbeAgain, page
<1>4. Flags'
  BY <1>0, <1>1, <1>3 DEF Flags
<1>5. OverlayFits'
  BY <1>0, <1>3 DEF AuthInv, OverlayFits, Live
<1>6. NoCheck(calls) \/ ProbeAgain
  <2>1. ~ProbeAgain => ~loading \/ user # None \/ timer
    BY DEF Submit, LogOut, OverlayLogIn, Poll, AddCluster, TimerFires, LoginScreen, Dashboard, AuthInv, OverlayFits
  <2>2. QED
    BY <2>1, AuthFacts, NoCheckHere
<1> DEFINE Fits == /\ CallsFit(calls', owner, given)
                   /\ ScreenFits(calls', url, loading, user, timer', cookie, mixed)
<1>7. Fits
  <2>1. CASE ProbeAgain
    <3>1. UNCHANGED <<calls, timer>>
      BY <2>1 DEF ProbeAgain
    <3>2. QED
      BY <3>1, AuthFacts
  <2>2. CASE ~ProbeAgain
    <3>1. ASSUME NEW u \in Users, Submit(u) PROVE Fits
      BY <1>6, <2>2, <3>1, Asked DEF Submit, LoginScreen, Kinds
    <3>2. CASE LogOut \/ OverlayLogIn
      <4>1. Send("logout", None, "user")
        BY <3>2 DEF LogOut, OverlayLogIn
      <4>2. QED
        BY <1>6, <2>2, <4>1, Asked DEF Kinds
    <3>3. CASE Poll /\ Send("poll", None, "user")
      BY <1>6, <2>2, <3>3, Asked DEF Poll, Dashboard, Kinds
    <3>4. CASE AddCluster
      BY <1>6, <2>2, <3>4, Asked DEF AddCluster, Dashboard, Kinds
    <3>5. CASE TimerFires
      <4>1. Send("logout", None, "timer")
        BY <3>5 DEF TimerFires
      <4>2. QED
        BY <1>6, <2>2, <4>1, Asked DEF Kinds
    <3>6. QED
      BY <2>2, <3>1, <3>2, <3>3, <3>4, <3>5
  <2>3. QED
    BY <2>1, <2>2
<1> HIDE DEF Fits
<1>8. QED
  BY <1>0, <1>2, <1>4, <1>5, <1>7, AuthFacts, PageMoves DEF Fits

LEMMA AuthPolls == ASSUME AuthInv, Poll PROVE AuthInv'
<1>1. CASE Send("poll", None, "user") /\ UNCHANGED mixed
  BY <1>1, AuthUser
<1>2. CASE \E i \in Slots : JoinsLeft(i)
  BY <1>2, AuthJoins DEF Poll
<1>3. QED
  BY <1>1, <1>2 DEF Poll

LEMMA AuthOidc == ASSUME AuthInv, OidcLogin PROVE AuthInv'
<1>1. Free(Orphans) # {} /\ code' = TRUE /\ Load(TRUE, cookie, Orphans) /\ UNCHANGED <<owner, given>>
  BY DEF OidcLogin
<1>2. QED
  BY <1>1, AuthFacts, OrphanFacts, LoadFits

-----------------------------------------------------------------------------
(* Theorems. *)

LEMMA AuthStarts == ASSUME Init PROVE AuthInv
<1> DEFINE cs == [i \in Slots |-> None]
<1> DEFINE k == IF url THEN "callback" ELSE "check"
<1> DEFINE c == Request(k, cookie, None, "user")
<1>1. PICK u \in Users, g \in 0 .. 1 : given = g /\ owner = [s \in Sids |-> IF s <= g THEN u ELSE None]
  BY DEF Init
<1>2. given \in 0 .. MaxSessions /\ cookie \in Known(given)
  BY <1>1, SignInAssumption DEF Init, Known
<1>3. owner \in [Sids -> Users \cup {None}] /\ \A s \in Sids : s > given => owner[s] = None
  <2>1. \A s \in Sids : s > given => ~(s <= given)
    BY <1>2, SignInAssumption DEF Sids
  <2>2. QED
    BY <1>1, <2>1
<1>4. Sessions
  BY <1>2, <1>3 DEF Init, Sessions
<1>5. Flags
  BY DEF Init, Flags
<1>6. OverlayFits /\ PageShowsOwner
  BY DEF Init, OverlayFits, PageShowsOwner
<1>7. calls = Put(cs, c) /\ loading = ~url /\ user = None /\ timer = FALSE
  BY DEF Init, First
<1>8. cs \in [Slots -> Call \cup {None}] /\ 1 \in Slots /\ \A i \in Slots : cs[i] = None
  BY SignInAssumption DEF Slots
<1>9. k \in Kinds /\ k \in {"callback", "check"} /\ (k = "check" => ~url)
  BY DEF Kinds
<1> HIDE DEF cs, k
<1>10. /\ CallFits(c, owner, given) /\ c # None /\ c.kind = k /\ c.sid = cookie /\ c.heard = "page"
       /\ c.at = "sent"
  BY <1>2, <1>9, RequestFields
<1> HIDE DEF c
<1>11. Free(cs) # {} /\ CallsFit(cs, owner, given)
  BY <1>8 DEF Free, CallsFit
<1>12. PICK p \in Slots : calls = [cs EXCEPT ![p] = c]
  BY <1>7, <1>11, PutFacts
<1>13. CallsFit(calls, owner, given)
  BY <1>10, <1>11, <1>12, PutFits
<1>14. calls[p] = c /\ \A j \in Slots : Heard(calls[j]) => j = p
  BY <1>8, <1>12 DEF Heard
<1>15. ScreenFits(calls, url, loading, user, timer, cookie, mixed)
  BY <1>7, <1>9, <1>10, <1>14 DEF ScreenFits
<1>16. QED
  BY <1>4, <1>5, <1>6, <1>13, <1>15 DEF AuthInv

LEMMA AuthStep == ASSUME AuthInv, [Next]_vars PROVE AuthInv'
<1>1. CASE UNCHANGED vars
  BY <1>1 DEF vars, server, page, AuthInv, Flags, Sessions, OverlayFits, PageShowsOwner, Live
<1>2. CASE Next
  BY <1>2, AuthAnswers, AuthHeaders, AuthServer, AuthDone, AuthUser, AuthPolls, AuthOidc DEF Next
<1>3. QED
  BY <1>1, <1>2

\* What the page shows, what it waits for and what the server knows fit together, for every
\* order of answers, headers and bodies, lost answers, sign-offs and reloads: a request of the
\* dashboard runs under the cookie of the page unless it joined a GET of the dashboard before
\* or a callback has put another cookie in between.
THEOREM SignInCorrect == Spec => []AuthInv
BY AuthStarts, AuthStep, PTL DEF Spec

\* checkSession never signs off a page that is redeeming a single sign-on.
THEOREM SignOnIsUndisturbed == Spec => []CallbackUndisturbed
<1>1. AuthInv => CallbackUndisturbed
  BY DEF AuthInv, ScreenFits, CallbackUndisturbed, Heard
<1>2. QED
  BY <1>1, SignInCorrect, PTL

\* authFetch shows the overlay of a lost session only where the session of the page is gone,
\* however late the answer that said so, on a dashboard that joined no GET of the one before
\* and whose cookie no callback has replaced.
THEOREM OverlayIsTrue == Spec => []OverlayMeansLost
<1>1. AuthInv => OverlayMeansLost
  BY DEF AuthInv, OverlayFits, OverlayMeansLost
<1>2. QED
  BY <1>1, SignInCorrect, PTL

\* The user the page shows is the one whose session its requests carry, from the headers of
\* a login to its last dashboard, but for a callback under way beside it.
THEOREM PageIsOfTheOwner == Spec => []PageShowsOwner
<1>1. AuthInv => PageShowsOwner
  BY DEF AuthInv
<1>2. QED
  BY <1>1, SignInCorrect, PTL
=============================================================================
