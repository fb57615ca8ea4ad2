----------------------------- MODULE AuthSession -----------------------------
(***************************************************************************)
(* Signing in and out of the web interface: AuthProvider (web/src/         *)
(* contexts.js), the login screen with its single sign-on callback (web/   *)
(* src/auth.js) and what authFetch does with a 401 (web/src/dashboard.js). *)
(* The session lives in a cookie the browser keeps and in the server; what *)
(* the page shows is a third copy, and the requests that move the three    *)
(* are not ordered by anything. An answer that brings a session sets the   *)
(* cookie with its headers, before the page has read its body; and a GET   *)
(* of the dashboard outlives it, for the map of the GETs under way belongs *)
(* to the page: the next dashboard joins it.                               *)
(*                                                                         *)
(* Passwords, codes, lockouts and the second factor decide whether a login *)
(* is answered with a session; here the server says so. Theme, language,   *)
(* the words of the login screen and the HA banner are left out.           *)
(***************************************************************************)
EXTENDS Naturals

CONSTANTS
    Users,
    PortalOnly,     \* the users of the client portal, not of this page
    None,
    MaxSessions,    \* sessions the server hands out
    MaxCalls        \* requests under way at once

VARIABLES
    owner,      \* the user of each session the server knows
    given,      \* how many it handed out
    code,       \* the sign-on code of the address can still be redeemed
    cookie,     \* the session cookie of the browser
    url,        \* the address carries code and state
    loading, user, overlay,     \* overlay: sessionExpired of the dashboard
    probed,     \* sessionProbeRef: /auth/check was asked within 15 seconds
    timer,      \* the setTimeout of handleAddCluster
    calls,      \* the requests under way
    mixed       \* history, what of another session the page has: "callback", the cookie of
                \* a callback it did not ask for; "joined", a GET of the dashboard before

server == <<owner, given, code>>
page == <<url, loading, user, overlay, probed, timer>>
vars == <<server, cookie, page, calls, mixed>>

Sids == 1..MaxSessions
Slots == 1..MaxCalls
Kinds == {"check", "login", "logout", "callback", "poll", "add", "probe"}
Call == [kind : Kinds, sid : Sids \cup {None}, who : Users \cup {None}, new : Sids \cup {None},
         by : {"user", "check", "timer"},
         at : {"sent", "ok", "foreign", "lost", "body"},
         heard : {"dashboard", "page", "left", "gone"}]

\* None is nobody, no session and no request; the page starts with a session or with none.
ASSUME SignInAssumption ==
    /\ MaxSessions \in Nat \ {0} /\ MaxCalls \in Nat \ {0}
    /\ None \notin Users /\ None \notin Sids /\ None \notin Call

TypeOK ==
    /\ owner \in [Sids -> Users \cup {None}] /\ given \in 0..MaxSessions
    /\ cookie \in Sids \cup {None} /\ user \in Users \cup {None}
    /\ \A x \in {code, url, loading, overlay, probed, timer} : x \in BOOLEAN
    /\ calls \in [Slots -> Call \cup {None}] /\ mixed \subseteq {"callback", "joined"}

Live(sid) == sid # None /\ owner[sid] # None
UnderWay(k) == \E i \in Slots : calls[i] # None /\ calls[i].kind = k /\ calls[i].heard \in {"dashboard", "page"}
LoginScreen == ~loading /\ user = None
Dashboard == ~loading /\ user # None

\* A request with a cookie, and who waits for its answer; in the first free slot.
Request(k, ck, u, by) ==
    [kind |-> k, sid |-> ck, who |-> u, new |-> None, by |-> by, at |-> "sent",
     heard |-> IF k \in {"poll", "add", "probe"} THEN "dashboard" ELSE "page"]
Free(cs) == {i \in Slots : cs[i] = None}
Put(cs, c) == [cs EXCEPT ![CHOOSE i \in Free(cs) : \A j \in Free(cs) : i <= j] = c]
Send(k, u, by) == Free(calls) # {} /\ calls' = Put(calls, Request(k, cookie, u, by))

-----------------------------------------------------------------------------
(* The page is loaded. What the page before had under way reaches the        *)
(* server or not, and nobody hears the answer.                               *)

\* Fault: the check runs beside the callback.
FirstWithTheCheck(cs, u, ck) ==
    LET checked == Put(cs, Request("check", ck, None, "user"))
    IN  IF u THEN Put(checked, Request("callback", ck, None, "user")) ELSE checked
\* checkSession, or on the way back from the identity provider the callback
\* of the login screen alone.
First(cs, u, ck) == Put(cs, Request(IF u THEN "callback" ELSE "check", ck, None, "user"))

Orphans ==
    [i \in Slots |-> IF calls[i] # None /\ calls[i].at = "sent"
                     THEN [calls[i] EXCEPT !.heard = "gone"] ELSE None]
Load(u, ck, cs) ==
    /\ url' = u /\ loading' = ~u /\ user' = None
    /\ overlay' = FALSE /\ probed' = FALSE /\ timer' = FALSE
    /\ cookie' = ck
    /\ calls' = First(cs, u, ck) /\ mixed' = {}

\* A login screen that shows up looks at the address again.
LoginShown(cs) == IF url /\ user # None THEN Put(cs, Request("callback", cookie, None, "user")) ELSE cs

\* The dashboard goes: handleAddCluster goes on, its GETs stay in _inflightGets, a
\* probe has nobody to tell.
DashboardGone(cs) ==
    [i \in Slots |-> IF cs[i] = None \/ cs[i].heard # "dashboard" THEN cs[i]
                     ELSE CASE cs[i].kind = "add" -> [cs[i] EXCEPT !.heard = "page"]
                            [] cs[i].kind = "poll" -> [cs[i] EXCEPT !.heard = "left"]
                            [] OTHER -> None]

-----------------------------------------------------------------------------
(* The server. *)

Settle(i, c) == calls' = [calls EXCEPT ![i] = c]

AnswerCheck(i) ==
    /\ calls[i].kind \in {"check", "probe"}
    /\ Settle(i, [calls[i] EXCEPT !.at = "ok",
                    !.who = IF Live(calls[i].sid) THEN owner[calls[i].sid] ELSE None])
    /\ UNCHANGED server

AnswerLogout(i) ==
    /\ calls[i].kind = "logout"
    /\ owner' = [s \in Sids |-> IF s = calls[i].sid THEN None ELSE owner[s]]
    /\ Settle(i, [calls[i] EXCEPT !.at = "ok"])
    /\ UNCHANGED <<given, code>>

\* A session for u, or none: the login is refused or asks for a second factor.
NewSession(i, u) ==
    /\ given < MaxSessions
    /\ given' = given + 1
    /\ owner' = [owner EXCEPT ![given'] = u]
    /\ Settle(i, [calls[i] EXCEPT !.at = "ok", !.who = u, !.new = given'])
NoSession(i) ==
    Settle(i, [calls[i] EXCEPT !.at = "ok"]) /\ UNCHANGED <<owner, given>>

AnswerLogin(i) ==
    /\ calls[i].kind = "login"
    /\ NewSession(i, calls[i].who) \/ NoSession(i)
    /\ UNCHANGED code

\* A code is redeemed once, and may outlive a refusal.
AnswerCallback(i) ==
    /\ calls[i].kind = "callback"
    /\ \/ /\ code /\ code' = FALSE
          /\ \E u \in Users : NewSession(i, u)
       \/ /\ code' \in {FALSE, code}
          /\ NoSession(i)

\* Any other call: done, a 401 with a code of SESSION_LOST, or a 401 of a system
\* behind the server or of a proxy in front of it.
AnswerData(i) ==
    /\ calls[i].kind \in {"poll", "add"}
    /\ \E a \in {"foreign", IF Live(calls[i].sid) THEN "ok" ELSE "lost"} :
         Settle(i, [calls[i] EXCEPT !.at = a])
    /\ UNCHANGED server

Answer(i) ==
    /\ calls[i] # None /\ calls[i].at = "sent"
    /\ \/ AnswerCheck(i) \/ AnswerLogout(i) \/ AnswerLogin(i)
       \/ AnswerCallback(i) \/ AnswerData(i)
    /\ UNCHANGED <<cookie, page, mixed>>

\* Idle timeout, restart, revoked or disabled.
SessionEnds(s) ==
    /\ owner[s] # None
    /\ owner' = [owner EXCEPT ![s] = None]
    /\ UNCHANGED <<given, code, cookie, page, calls, mixed>>

-----------------------------------------------------------------------------
(* An answer reaches the page, or its request is lost ("sent": nobody says    *)
(* how far it came).                                                         *)

Drop(i) == [calls EXCEPT ![i] = None]

\* The headers of an answer that brings a session: the browser has the cookie, login
\* or the callback awaits the body.
Headers(i) ==
    /\ calls[i] # None /\ calls[i].heard = "page" /\ calls[i].at = "ok" /\ calls[i].new # None
    /\ cookie' = calls[i].new
    /\ mixed' = IF calls[i].kind = "callback" THEN mixed \cup {"callback"} ELSE mixed \ {"callback"}
    /\ Settle(i, [calls[i] EXCEPT !.at = "body"])
    /\ UNCHANGED <<server, page>>

\* All of the answer has come.
Arrived(i) == IF calls[i].new # None THEN calls[i].at = "body" ELSE calls[i].at # "sent"

\* checkSession: signed in, or an un-awaited logout().
CheckDone(i, lost) ==
    /\ calls[i].kind = "check"
    /\ loading' = FALSE
    /\ IF ~lost /\ calls[i].who \notin PortalOnly \cup {None}
       THEN user' = calls[i].who /\ calls' = Drop(i)
       ELSE calls' = Put(Drop(i), Request("logout", cookie, None, "check")) /\ UNCHANGED user
    /\ UNCHANGED <<cookie, url, overlay, probed, timer, mixed>>

\* login: a user of the portal stays outside, with the cookie.
LoginDone(i, lost) ==
    /\ calls[i].kind = "login"
    /\ IF ~lost /\ calls[i].new # None /\ calls[i].who \notin PortalOnly
       THEN user' = calls[i].who ELSE UNCHANGED user
    /\ calls' = Drop(i)
    /\ UNCHANGED <<cookie, url, loading, overlay, probed, timer, mixed>>

\* logout: the cookie goes with the answer, the user in any case.
LogoutDone(i, lost) ==
    /\ calls[i].kind = "logout"
    /\ cookie' = IF lost THEN cookie ELSE None
    /\ user' = None /\ overlay' = FALSE /\ probed' = FALSE
    /\ calls' = LoginShown(DashboardGone(Drop(i))) /\ mixed' = mixed \ {"joined"}
    /\ UNCHANGED <<url, loading, timer>>

\* Fault: the page is not reloaded.
CallbackDoneInPlace(i, lost) ==
    /\ calls[i].kind = "callback"
    /\ url' = (url /\ lost)
    /\ calls' = Drop(i) /\ mixed' = mixed \ {"callback"}
    /\ UNCHANGED <<cookie, loading, user, overlay, probed, timer>>
\* The callback has its body: on success the address is cleared and the page reloaded,
\* or left for the portal of redirect_after and entered anew; a refusal clears the
\* address, an error leaves it, and the cookie.
CallbackDone(i, lost) ==
    /\ calls[i].kind = "callback"
    /\ IF ~lost /\ calls[i].new # None
       THEN Load(FALSE, cookie, [Orphans EXCEPT ![i] = None])
       ELSE /\ url' = (url /\ lost)
            /\ calls' = Drop(i)
            /\ UNCHANGED <<cookie, loading, user, overlay, probed, timer, mixed>>

\* Fault: any 401 shows the overlay.
Every401IsOurs(at) == at \in {"lost", "foreign"}
SessionLost(at) == at = "lost"
\* authFetch: one of our own codes shows the overlay; another 401 asks
\* /auth/check, at most every 15 seconds.
AuthFetch(i) ==
    /\ overlay' = (overlay \/ (calls[i].heard = "dashboard" /\ SessionLost(calls[i].at)))
    /\ IF /\ calls[i].heard = "dashboard" /\ ~probed
          /\ calls[i].at # "ok" /\ ~SessionLost(calls[i].at)
       THEN probed' = TRUE /\ calls' = Put(Drop(i), Request("probe", cookie, None, "user"))
       ELSE calls' = Drop(i) /\ UNCHANGED probed

PollDone(i, lost) ==
    /\ calls[i].kind = "poll"
    /\ IF lost THEN calls' = Drop(i) /\ UNCHANGED <<overlay, probed>> ELSE AuthFetch(i)
    /\ UNCHANGED <<cookie, url, loading, user, timer, mixed>>

\* handleAddCluster goes on when the dashboard is gone: logout() in two seconds.
AddDone(i, lost) ==
    /\ calls[i].kind = "add"
    /\ IF lost THEN calls' = Drop(i) /\ UNCHANGED <<overlay, probed, timer>>
       ELSE AuthFetch(i) /\ timer' = (timer \/ calls[i].at = "lost")
    /\ UNCHANGED <<cookie, url, loading, user, mixed>>

\* Fault: the answer of the probe is not looked at.
ProbeDoneUnread(i, lost) ==
    /\ calls[i].kind = "probe"
    /\ calls' = Drop(i)
    /\ UNCHANGED <<cookie, page, mixed>>
ProbeDone(i, lost) ==
    /\ calls[i].kind = "probe"
    /\ overlay' = (overlay \/ (~lost /\ calls[i].who = None))
    /\ calls' = Drop(i)
    /\ UNCHANGED <<cookie, url, loading, user, probed, timer, mixed>>

Done(i, lost) ==
    /\ calls[i] # None /\ calls[i].heard # "gone" /\ (lost \/ Arrived(i))
    /\ \/ CheckDone(i, lost) \/ LoginDone(i, lost) \/ LogoutDone(i, lost)
       \/ CallbackDone(i, lost) \/ PollDone(i, lost) \/ AddDone(i, lost) \/ ProbeDone(i, lost)
    /\ UNCHANGED server

\* Nobody waits for what an earlier page asked.
Unheard(i) ==
    /\ calls[i] # None /\ calls[i].heard = "gone" /\ calls' = Drop(i)
    /\ UNCHANGED <<server, cookie, page, mixed>>

-----------------------------------------------------------------------------
(* The user, and the timers. *)

\* handleSubmit, and the last step of handleWebauthnLogin.
Submit(u) ==
    /\ LoginScreen /\ ~UnderWay("login")
    /\ Send("login", u, "user")
    /\ UNCHANGED <<server, cookie, page, mixed>>

\* handleOidcLogin, to the identity provider and back.
OidcLogin ==
    /\ LoginScreen /\ ~UnderWay("callback")
    /\ Free(Orphans) # {}
    /\ code' = TRUE
    /\ Load(TRUE, cookie, Orphans)
    /\ UNCHANGED <<owner, given>>

LogOut ==
    /\ Dashboard /\ ~overlay
    /\ Send("logout", None, "user")
    /\ UNCHANGED <<server, cookie, page, mixed>>

OverlayLogIn ==
    /\ overlay /\ overlay' = FALSE
    /\ Send("logout", None, "user")
    /\ UNCHANGED <<server, cookie, url, loading, user, probed, timer, mixed>>

\* authFetch: a GET the dashboard before has under way is joined, any other is sent.
JoinsLeft(i) ==
    /\ calls[i] # None /\ calls[i].heard = "left"
    /\ Settle(i, [calls[i] EXCEPT !.heard = "dashboard"])
    /\ mixed' = mixed \cup {"joined"}
Poll ==
    /\ Dashboard /\ ~UnderWay("poll")
    /\ \/ Send("poll", None, "user") /\ UNCHANGED mixed
       \/ \E i \in Slots : JoinsLeft(i)
    /\ UNCHANGED <<server, cookie, page>>

AddCluster ==
    /\ Dashboard /\ ~overlay /\ ~UnderWay("add")
    /\ Send("add", None, "user")
    /\ UNCHANGED <<server, cookie, page, mixed>>

TimerFires ==
    /\ timer /\ timer' = FALSE
    /\ Send("logout", None, "timer")
    /\ UNCHANGED <<server, cookie, url, loading, user, overlay, probed, mixed>>

ProbeAgain ==
    /\ probed /\ probed' = FALSE
    /\ UNCHANGED <<server, cookie, url, loading, user, overlay, timer, calls, mixed>>

-----------------------------------------------------------------------------
Init ==
    /\ \E u \in Users, given0 \in 0..1 :
         /\ given = given0
         /\ owner = [s \in Sids |-> IF s <= given0 THEN u ELSE None]
    /\ cookie = IF given = 1 THEN 1 ELSE None
    /\ url \in BOOLEAN /\ code = url
    /\ loading = ~url /\ user = None /\ overlay = FALSE /\ probed = FALSE /\ timer = FALSE
    /\ mixed = {}
    /\ calls = First([i \in Slots |-> None], url, cookie)

Next ==
    \/ \E i \in Slots : Answer(i) \/ Headers(i) \/ Unheard(i) \/ \E lost \in BOOLEAN : Done(i, lost)
    \/ \E s \in Sids : SessionEnds(s)
    \/ \E u \in Users : Submit(u)
    \/ OidcLogin \/ LogOut \/ OverlayLogIn \/ Poll \/ AddCluster \/ TimerFires \/ ProbeAgain

\* The dashboard polls, a request is answered or lost in the end, and of the
\* polls and probes one gets through now and then, there and back.
Of(k) == {i \in Slots : calls[i] # None /\ calls[i].kind = k}
Fairness ==
    /\ WF_vars(Poll) /\ WF_vars(ProbeAgain)
    /\ \A i \in Slots : WF_vars(Unheard(i) \/ \E lost \in BOOLEAN : Done(i, lost))
    /\ \A k \in {"poll", "probe"} :
         SF_vars(\E i \in Of(k) : Answer(i)) /\ SF_vars(\E i \in Of(k) : Done(i, FALSE))

Spec == Init /\ [][Next]_vars /\ Fairness

-----------------------------------------------------------------------------
(* Correctness. *)

\* While the single sign-on is being redeemed, the check of the session signs
\* nobody off: "Do NOT run the check-and-logout on the callback" (checkSession).
CallbackUndisturbed ==
    \A i, j \in Slots :
        ~(/\ calls[i] # None /\ calls[i].kind = "callback" /\ calls[i].heard = "page"
          /\ calls[j] # None /\ calls[j].kind = "logout" /\ calls[j].by = "check"
          /\ calls[j].heard = "page")

\* The overlay says that the session is gone, and never says so of one that the server
\* still knows, whatever a system behind it answers (authFetch): of a dashboard that
\* has joined no GET of the one before, under a cookie no callback has put in its place.
OverlayMeansLost == overlay /\ mixed = {} => ~Live(cookie)

\* authFetch: "only a 401 with one of PegaProx's own codes means the session is gone."
OwnCodeMeansLost == overlay /\ "callback" \notin mixed => ~Live(cookie)

\* The page shows the user of the session its requests run under, from the first to
\* the last of its dashboards, until a callback under way beside a login lands.
PageShowsOwner == user # None /\ Live(cookie) /\ "callback" \notin mixed => owner[cookie] = user

\* A dashboard whose session is gone says so or goes, even when a proxy hides the codes
\* of the server (authFetch), unless a callback brings it another one.
LostSessionSurfaces ==
    (Dashboard /\ ~Live(cookie)) ~> (overlay \/ ~Dashboard \/ Live(cookie))
=============================================================================
