--------------------------- MODULE DashboardProofs ---------------------------
(***************************************************************************)
(* The page of a cluster, for every number of clusters, hosts, guests and  *)
(* nodes and every number of requests and frames under way.                *)
(*                                                                         *)
(* Each part keeps an invariant of its own (TasksInv, GuestsInv, ViewInv,  *)
(* LiveInv); a step of one part leaves the variables of the others alone.  *)
(***************************************************************************)
EXTENDS MCDashboard, Integers, Sequences, TLAPS

-----------------------------------------------------------------------------
(* The views of the selected cluster. *)

\* The settings are open on a selected cluster, and hold its values once a status is there.
FormInv == haOpen => selected # None /\ (haStatus # None => haSettings = selected)

ViewInv == View!TypeOK /\ FormInv /\ View!ListOfTheSelected /\ View!SaveWritesOwnForm

LEMMA ViewStarts == ASSUME View!Init PROVE ViewInv
<1>1. saved \in [{"to", "form", "flag"} -> Clusters \cup {None}] /\ saved.to = saved.form
  BY DEF View!Init
<1>2. down \in [Clusters -> SUBSET Nodes] /\ nodeAlerts \in View!Alerts /\ closure \in View!Alerts
  BY DEF View!Init, View!NoAlert, View!Alerts
<1>3. View!TypeOK
  BY <1>1, <1>2 DEF View!Init, View!TypeOK
<1>4. QED
  BY <1>1, <1>3 DEF View!Init, ViewInv, FormInv, View!ListOfTheSelected, View!SaveWritesOwnForm

\* What is asked for is a request of a cluster.
LEMMA Requests ==
    ASSUME NEW c \in Clusters, NEW a \in View!Alerts
    PROVE  /\ [kind |-> "list", cluster |-> c] \in View!Request
           /\ [kind |-> "reload", cluster |-> c] \in View!Request
           /\ [kind |-> "body", cluster |-> c] \in View!Request
           /\ [kind |-> "ha", cluster |-> c, base |-> a] \in View!Request
           /\ [kind |-> "save", cluster |-> c, base |-> a] \in View!Request
BY DEF View!Request

LEMMA RequestParts ==
    ASSUME NEW r \in View!Request
    PROVE  /\ r.cluster \in Clusters
           /\ r.kind \in {"ha", "save"} => r.base \in View!Alerts
           /\ r.kind = "save" => [r EXCEPT !.kind = "ha"] \in View!Request
<1>1. CASE r \in [kind : {"list"}, cluster : Clusters]
  BY <1>1
<1>2. CASE r \in [kind : {"ha", "save"}, cluster : Clusters, base : View!Alerts]
  BY <1>2 DEF View!Request
<1>3. CASE r \in [kind : {"reload", "body"}, cluster : Clusters]
  BY <1>3
<1>4. QED
  BY <1>1, <1>2, <1>3 DEF View!Request

LEMMA AlertsStay ==
    /\ View!NoAlert \in View!Alerts
    /\ \A c \in Clusters, base \in View!Alerts : View!AlertsAfter(c, base) \in View!Alerts
BY DEF View!NoAlert, View!Alerts, View!AlertsAfter

LEMMA ViewSelects ==
    ASSUME ViewInv,
           View!SelectNothing \/ \E c \in Clusters : View!Select(c) \/ View!FrameComes(c)
    PROVE  ViewInv'
<1>1. /\ selected \in Clusters \cup {None} /\ nodeAlerts \in View!Alerts /\ closure \in View!Alerts
      /\ flight \subseteq View!Request
  BY DEF ViewInv, View!TypeOK
<1>2. ASSUME NEW c \in Clusters, View!Select(c) PROVE ViewInv'
  <2>1. flight' \subseteq View!Request
    BY <1>1, <1>2, Requests DEF View!Select, View!Ask
  <2>2. View!TypeOK'
    BY <1>1, <1>2, <2>1, AlertsStay DEF ViewInv, View!TypeOK, View!Select
  <2>3. QED
    BY <1>2, <2>2 DEF ViewInv, View!Select, FormInv, View!ListOfTheSelected, View!SaveWritesOwnForm
<1>3. CASE View!SelectNothing
  <2>1. View!TypeOK'
    BY <1>1, <1>3, AlertsStay DEF ViewInv, View!TypeOK, View!SelectNothing
  <2>2. QED
    BY <1>3, <2>1 DEF ViewInv, View!SelectNothing, FormInv, View!ListOfTheSelected,
                      View!SaveWritesOwnForm
<1>4. ASSUME NEW c \in Clusters, View!FrameComes(c) PROVE ViewInv'
  BY <1>4 DEF ViewInv, View!TypeOK, View!FrameComes, View!StillSelected, FormInv,
              View!ListOfTheSelected, View!SaveWritesOwnForm
<1>5. QED
  BY <1>2, <1>3, <1>4

LEMMA ViewAsks ==
    ASSUME ViewInv,
           View!PollLists \/ View!PollHa \/ View!OpenHa \/ View!CloseHa \/ View!Reload \/ View!Save
    PROVE  ViewInv'
<1>1. /\ selected \in Clusters \cup {None} /\ nodeAlerts \in View!Alerts /\ closure \in View!Alerts
      /\ flight \subseteq View!Request
  BY DEF ViewInv, View!TypeOK
<1>2. View!CloseHa \/ selected \in Clusters
  BY <1>1 DEF ViewInv, FormInv, View!PollLists, View!PollHa, View!OpenHa, View!Reload, View!Save
<1>3. flight' \subseteq View!Request
  <2>1. CASE View!CloseHa
    BY <1>1, <2>1 DEF View!CloseHa
  <2>2. ASSUME NEW q \in View!Request, View!Ask({q}) PROVE flight' \subseteq View!Request
    BY <1>1, <2>2 DEF View!Ask
  <2>3. CASE selected \in Clusters
    <3>1. CASE View!PollLists
      BY <2>2, <2>3, <3>1, <1>1, Requests DEF View!PollLists
    <3>2. CASE View!Reload
      BY <2>2, <2>3, <3>2, <1>1, Requests DEF View!Reload
    <3>3. CASE View!PollHa
      BY <2>2, <2>3, <3>3, <1>1, Requests DEF View!PollHa
    <3>4. CASE View!OpenHa
      BY <2>2, <2>3, <3>4, <1>1, Requests DEF View!OpenHa
    <3>5. CASE View!Save
      BY <2>2, <2>3, <3>5, <1>1, Requests DEF View!Save
    <3>6. QED
      BY <2>1, <3>1, <3>2, <3>3, <3>4, <3>5
  <2>4. QED
    BY <1>2, <2>1, <2>3
<1>4. UNCHANGED <<selected, list, cache, down, nodeAlerts, closure>>
  BY DEF View!PollLists, View!PollHa, View!OpenHa, View!CloseHa, View!Reload, View!Save
<1>5. CASE View!Save
  <2>1. saved' = [to |-> selected, form |-> haSettings, flag |-> haStatus] /\ haSettings = selected
        /\ UNCHANGED <<haOpen, haStatus, haSettings>>
    BY <1>5 DEF View!Save, ViewInv, FormInv
  <2>2. QED
    BY <1>1, <1>3, <1>4, <2>1 DEF ViewInv, View!TypeOK, FormInv, View!ListOfTheSelected,
                                  View!SaveWritesOwnForm
<1>6. CASE ~View!Save
  <2>1. UNCHANGED saved
    BY <1>6 DEF View!PollLists, View!PollHa, View!OpenHa, View!CloseHa, View!Reload
  <2>2. \/ UNCHANGED <<haOpen, haStatus, haSettings>>
        \/ haOpen' = FALSE /\ UNCHANGED <<haStatus, haSettings>>
        \/ haOpen' = TRUE /\ haStatus' = None /\ haSettings' = None /\ selected # None
    BY <1>6 DEF View!PollLists, View!PollHa, View!OpenHa, View!CloseHa, View!Reload
  <2>3. View!TypeOK'
    BY <1>3, <1>4, <2>1, <2>2 DEF ViewInv, View!TypeOK
  <2>4. FormInv'
    BY <1>4, <2>2 DEF ViewInv, FormInv
  <2>5. QED
    BY <1>4, <2>1, <2>3, <2>4 DEF ViewInv, View!ListOfTheSelected, View!SaveWritesOwnForm
<1>7. QED
  BY <1>5, <1>6

LEMMA ViewComes ==
    ASSUME ViewInv, NEW r \in flight,
           \/ View!ListComes(r) \/ View!HaComes(r) \/ View!ReloadComes(r) \/ View!ReloadBody(r)
           \/ View!SaveComes(r) \/ View!RequestFails(r)
    PROVE  ViewInv'
<1>1. flight \subseteq View!Request /\ r \in View!Request
  BY DEF ViewInv, View!TypeOK
<1>2. /\ r.cluster \in Clusters
      /\ r.kind \in {"ha", "save"} => r.base \in View!Alerts
      /\ r.kind = "save" => [r EXCEPT !.kind = "ha"] \in View!Request
      /\ [kind |-> "body", cluster |-> r.cluster] \in View!Request
  <2>1. [kind |-> "body", cluster |-> r.cluster] \in View!Request
    BY <1>1, RequestParts DEF View!Request
  <2>2. QED
    BY <1>1, <2>1, RequestParts
<1>3. flight' \subseteq View!Request
  BY <1>1, <1>2 DEF View!ListComes, View!HaComes, View!ReloadComes, View!ReloadBody, View!SaveComes,
                    View!RequestFails
<1>4. CASE View!ListComes(r)
  BY <1>2, <1>3, <1>4 DEF ViewInv, View!TypeOK, View!ListComes, View!StillSelected, FormInv,
                          View!ListOfTheSelected, View!SaveWritesOwnForm
<1>5. CASE View!HaComes(r)
  <2>1. UNCHANGED <<selected, list, cache, down, closure, haOpen, saved>>
    BY <1>5 DEF View!HaComes
  <2>2. nodeAlerts' \in View!Alerts
    <3>1. nodeAlerts \in View!Alerts
      BY DEF ViewInv, View!TypeOK
    <3>2. View!AlertsAfter(r.cluster, r.base) \in View!Alerts
      BY <1>2, <1>5, AlertsStay DEF View!HaComes
    <3>3. QED
      BY <1>5, <3>1, <3>2 DEF View!HaComes
  <2>3. \/ haStatus' = r.cluster /\ haSettings' = r.cluster /\ selected = r.cluster
        \/ UNCHANGED <<haStatus, haSettings>>
    BY <1>5 DEF View!HaComes, View!StillSelected
  <2>4. View!TypeOK'
    BY <1>2, <1>3, <2>1, <2>2, <2>3 DEF ViewInv, View!TypeOK
  <2>5. FormInv'
    BY <2>1, <2>3 DEF ViewInv, FormInv
  <2>6. QED
    BY <2>1, <2>4, <2>5 DEF ViewInv, View!ListOfTheSelected, View!SaveWritesOwnForm
<1>6. CASE View!ReloadComes(r) \/ View!RequestFails(r)
  BY <1>3, <1>6 DEF ViewInv, View!TypeOK, View!ReloadComes, View!RequestFails, FormInv,
                    View!ListOfTheSelected, View!SaveWritesOwnForm
<1>7. CASE View!ReloadBody(r)
  BY <1>2, <1>3, <1>7 DEF ViewInv, View!TypeOK, View!ReloadBody, FormInv, View!ListOfTheSelected,
                          View!SaveWritesOwnForm
<1>8. CASE View!SaveComes(r)
  BY <1>3, <1>8 DEF ViewInv, View!TypeOK, View!SaveComes, FormInv, View!ListOfTheSelected,
                    View!SaveWritesOwnForm
<1>9. QED
  BY <1>4, <1>5, <1>6, <1>7, <1>8

LEMMA ViewNodes ==
    ASSUME ViewInv,
           \E n \in Nodes : \/ View!Dismiss(n)
                           \/ \E c \in Clusters, told \in BOOLEAN : View!NodeMoves(c, n, told)
    PROVE  ViewInv'
<1>1. nodeAlerts \in View!Alerts /\ down \in [Clusters -> SUBSET Nodes]
  BY DEF ViewInv, View!TypeOK
<1>2. UNCHANGED <<selected, list, cache, closure, haOpen, haStatus, haSettings, saved, flight>>
  BY DEF View!NodeMoves, View!Dismiss
<1>3. down' \in [Clusters -> SUBSET Nodes]
  BY <1>1 DEF View!NodeMoves, View!Dismiss
<1>4. nodeAlerts' \in View!Alerts
  BY <1>1 DEF View!NodeMoves, View!Dismiss, View!Alerts
<1>5. QED
  BY <1>2, <1>3, <1>4 DEF ViewInv, View!TypeOK, FormInv, View!ListOfTheSelected,
                          View!SaveWritesOwnForm

LEMMA ViewStep == ASSUME ViewInv, View!Next PROVE ViewInv'
BY ViewSelects, ViewAsks, ViewComes, ViewNodes DEF View!Next

LEMMA ViewRests == ASSUME ViewInv, UNCHANGED view PROVE ViewInv'
BY DEF ViewInv, View!TypeOK, FormInv, View!ListOfTheSelected, View!SaveWritesOwnForm, view

-----------------------------------------------------------------------------
(* The guests. *)

Row == [status : Guests!Status, optimistic : BOOLEAN]
Action == [vm : Vms, action : DOMAIN Guests!Expected, old : Guests!Status]

LEMMA GuestsStart == ASSUME Guests!Init PROVE Guests!TypeOK
<1>1. rows \in [Vms -> [status : Guests!Status, optimistic : BOOLEAN]]
  BY DEF Guests!Init, Guests!List, Guests!Rows
<1>2. accepted \in BOOLEAN
  BY DEF Guests!Init
<1>3. vmFrames \in Seq(Guests!List) /\ reading \subseteq Guests!List /\ actual \in Guests!List
      /\ vmList \in Guests!List
  BY DEF Guests!Init
<1>4. pending = {} /\ crossed = {}
  BY DEF Guests!Init
<1>5. QED
  BY <1>1, <1>2, <1>3, <1>4 DEF Guests!TypeOK

LEMMA ExpectedStatus == \A a \in DOMAIN Guests!Expected : Guests!Expected[a] \in Guests!Status
BY DEF Guests!Expected, Guests!Status

LEMMA RowsOfList == \A l \in Guests!List : Guests!Rows(l) \in [Vms -> Row]
BY DEF Guests!List, Guests!Rows, Row

LEMMA GuestsTypes == ASSUME Guests!TypeOK, Guests!Next PROVE Guests!TypeOK'
<1> USE DEF Guests!TypeOK
<1>0. rows \in [Vms -> Row] /\ pending \subseteq Action /\ actual \in Guests!List
  BY DEF Row, Action
<1>1. ASSUME NEW v \in Vms, Guests!GuestMoves(v) PROVE Guests!TypeOK'
  <2>1. actual[v] \in Guests!Status
    BY <1>0 DEF Guests!List
  <2>2. (CHOOSE s \in Guests!Status : s # actual[v]) \in Guests!Status
    BY <2>1 DEF Guests!Status
  <2>3. actual' \in Guests!List
    BY <1>0, <1>1, <2>2 DEF Guests!GuestMoves, Guests!List
  <2>4. QED
    BY <1>1, <2>3 DEF Guests!GuestMoves
<1>2. ASSUME NEW v \in Vms, NEW a \in DOMAIN Guests!Expected, Guests!Click(v, a) PROVE Guests!TypeOK'
  <2>1. [vm |-> v, action |-> a, old |-> rows[v].status] \in Action
    BY <1>0 DEF Action, Row
  <2>2. [status |-> Guests!Expected[a], optimistic |-> TRUE] \in Row
    BY ExpectedStatus DEF Row
  <2>3. rows' \in [Vms -> Row] /\ pending' \subseteq Action
    BY <1>0, <1>2, <2>1, <2>2 DEF Guests!Click
  <2>4. QED
    BY <1>2, <2>3 DEF Guests!Click, Row, Action
<1>3. ASSUME NEW v \in Vms, NEW a \in DOMAIN Guests!Expected, Guests!ActionEvent(v, a)
      PROVE  Guests!TypeOK'
  <2>1. rows' = [rows EXCEPT ![v] = [rows[v] EXCEPT !.status = Guests!Expected[a]]]
    BY <1>3 DEF Guests!ActionEvent
  <2>2. [rows[v] EXCEPT !.status = Guests!Expected[a]] \in Row
    <3>1. rows[v] \in Row /\ Guests!Expected[a] \in Guests!Status
      BY <1>0, ExpectedStatus
    <3>2. QED
      BY <3>1 DEF Row
  <2>3. rows' \in [Vms -> Row]
    BY <1>0, <2>1, <2>2
  <2>4. QED
    BY <1>3, <2>3 DEF Guests!ActionEvent, Row
<1>4. ASSUME NEW p \in pending, Guests!Accept(p) PROVE Guests!TypeOK'
  BY <1>4 DEF Guests!Accept
<1>5. ASSUME NEW p \in pending, Guests!Refuse(p) PROVE Guests!TypeOK'
  <2>1. [status |-> p.old, optimistic |-> FALSE] \in Row
    BY <1>0 DEF Row, Action
  <2>2. rows' \in [Vms -> Row]
    BY <1>0, <1>5, <2>1 DEF Guests!Refuse, Guests!Unflip
  <2>3. QED
    BY <1>5, <2>2 DEF Guests!Refuse, Row
<1>6. CASE Guests!Broadcast
  BY <1>6 DEF Guests!Broadcast
<1>7. ASSUME NEW l \in Guests!List, Guests!TakeList(l)
      PROVE  /\ rows' \in [Vms -> Row] /\ vmList' \in Guests!List /\ accepted' \in BOOLEAN
             /\ crossed' \subseteq Vms
  BY <1>0, <1>7, RowsOfList DEF Guests!TakeList
<1>8. CASE Guests!FrameComes
  <2>1. Head(vmFrames) \in Guests!List /\ vmFrames' \in Seq(Guests!List)
    BY <1>8 DEF Guests!FrameComes
  <2>2. QED
    BY <1>7, <1>8, <2>1 DEF Guests!FrameComes, Row
<1>9. CASE Guests!Read
  BY <1>9 DEF Guests!Read
<1>10. ASSUME NEW l \in reading, Guests!ReadComes(l) PROVE Guests!TypeOK'
  BY <1>7, <1>10 DEF Guests!ReadComes, Row
<1>11. QED
  BY <1>1, <1>2, <1>3, <1>4, <1>5, <1>6, <1>8, <1>9, <1>10 DEF Guests!Next

\* A row of a guest whose clicks did not cross says what the server said last, or is marked
\* by the one action of the guest that is under way, which remembers what the server said.
RestoreInv ==
    ~accepted => \A v \in Vms \ crossed :
        \/ rows[v].status = vmList[v] /\ ~rows[v].optimistic
        \/ /\ rows[v].optimistic
           /\ \E p \in pending : /\ p.vm = v /\ p.old = vmList[v]
                               /\ \A q \in pending : q.vm = v => q = p

LEMMA RestoreStarts == ASSUME Guests!Init PROVE RestoreInv
BY DEF Guests!Init, RestoreInv, Guests!Rows, Guests!List

LEMMA RestoreStep ==
    ASSUME RestoreInv, Guests!TypeOK, Guests!Next
    PROVE  RestoreInv'
<1> DEFINE Clean(v) == rows[v].status = vmList[v] /\ ~rows[v].optimistic
           Marked(v, P) == \E p \in P : /\ p.vm = v /\ p.old = vmList[v]
                                       /\ \A q \in P : q.vm = v => q = p
<1>0. rows \in [Vms -> Row] /\ pending \subseteq Action /\ accepted \in BOOLEAN
  BY DEF Guests!TypeOK, Row, Action
<1>1. ASSUME NEW v \in Vms, Guests!GuestMoves(v) PROVE RestoreInv'
  BY <1>1 DEF Guests!GuestMoves, RestoreInv
<1>2. ASSUME NEW v \in Vms, NEW a \in DOMAIN Guests!Expected, Guests!Click(v, a) PROVE RestoreInv'
  <2> DEFINE n == [vm |-> v, action |-> a, old |-> rows[v].status]
  <2>1. /\ pending' = pending \cup {n} /\ UNCHANGED <<vmList, accepted>>
        /\ rows' = [rows EXCEPT ![v] = [status |-> Guests!Expected[a], optimistic |-> TRUE]]
        /\ crossed' = IF \E p \in pending : p.vm = v THEN crossed \cup {v} ELSE crossed
    BY <1>2 DEF Guests!Click
  <2>2. SUFFICES ASSUME ~accepted, NEW w \in Vms \ crossed'
                 PROVE  \/ rows'[w].status = vmList[w] /\ ~rows'[w].optimistic
                        \/ rows'[w].optimistic /\ Marked(w, pending')
    BY <2>1 DEF RestoreInv
  <2>3. w \notin crossed /\ (Clean(w) \/ (rows[w].optimistic /\ Marked(w, pending)))
    BY <2>1, <2>2 DEF RestoreInv
  <2>4. CASE w = v
    <3>1. \A p \in pending : p.vm # v
      BY <2>1, <2>2, <2>4
    <3>2. Clean(v)
      BY <2>3, <2>4, <3>1
    <3>3. n \in pending' /\ n.vm = v /\ n.old = vmList[v] /\ rows'[v].optimistic
      BY <1>0, <2>1, <3>2
    <3>4. \A q \in pending' : q.vm = v => q = n
      BY <2>1, <3>1
    <3>5. QED
      BY <2>4, <3>3, <3>4
  <2>5. CASE w # v
    <3>1. rows'[w] = rows[w] /\ n.vm # w
      BY <1>0, <2>1, <2>5
    <3>2. CASE Clean(w)
      BY <3>1, <3>2
    <3>3. CASE rows[w].optimistic /\ Marked(w, pending)
      <4>1. PICK p \in pending : /\ p.vm = w /\ p.old = vmList[w]
                                /\ \A q \in pending : q.vm = w => q = p
        BY <3>3
      <4>2. p \in pending' /\ \A q \in pending' : q.vm = w => q = p
        BY <2>1, <3>1, <4>1
      <4>3. QED
        BY <3>1, <3>3, <4>1, <4>2
    <3>4. QED
      BY <2>3, <3>2, <3>3
  <2>6. QED
    BY <2>4, <2>5
<1>3. ASSUME NEW v \in Vms, NEW a \in DOMAIN Guests!Expected, Guests!ActionEvent(v, a)
      PROVE  RestoreInv'
  BY <1>3 DEF Guests!ActionEvent, RestoreInv
<1>4. ASSUME NEW p \in pending, Guests!Accept(p) PROVE RestoreInv'
  BY <1>4 DEF Guests!Accept, RestoreInv
<1>5. ASSUME NEW p \in pending, Guests!Refuse(p) PROVE RestoreInv'
  <2>1. /\ pending' = pending \ {p} /\ UNCHANGED <<vmList, accepted, crossed>>
        /\ rows' = IF rows[p.vm].optimistic
                   THEN [rows EXCEPT ![p.vm] = [status |-> p.old, optimistic |-> FALSE]] ELSE rows
    BY <1>5 DEF Guests!Refuse, Guests!Unflip
  <2>2. p.vm \in Vms
    BY <1>0 DEF Action
  <2>3. SUFFICES ASSUME ~accepted, NEW w \in Vms \ crossed
                 PROVE  \/ rows'[w].status = vmList[w] /\ ~rows'[w].optimistic
                        \/ rows'[w].optimistic /\ Marked(w, pending')
    BY <2>1 DEF RestoreInv
  <2>4. Clean(w) \/ (rows[w].optimistic /\ Marked(w, pending))
    BY <2>3 DEF RestoreInv
  <2>5. CASE w = p.vm /\ rows[w].optimistic
    <3>1. p.old = vmList[w]
      BY <2>4, <2>5
    <3>2. rows'[w] = [status |-> p.old, optimistic |-> FALSE]
      BY <1>0, <2>1, <2>5
    <3>3. QED
      BY <3>1, <3>2
  <2>6. CASE w = p.vm /\ ~rows[w].optimistic
    BY <2>1, <2>4, <2>6
  <2>7. CASE w # p.vm
    <3>1. rows'[w] = rows[w]
      BY <1>0, <2>1, <2>7
    <3>2. CASE Clean(w)
      BY <3>1, <3>2
    <3>3. CASE rows[w].optimistic /\ Marked(w, pending)
      BY <2>1, <2>7, <3>1, <3>3
    <3>4. QED
      BY <2>4, <3>2, <3>3
  <2>8. QED
    BY <2>5, <2>6, <2>7
<1>6. CASE Guests!Broadcast
  BY <1>6 DEF Guests!Broadcast, RestoreInv
<1>7. ASSUME NEW l, Guests!TakeList(l), UNCHANGED pending PROVE RestoreInv'
  <2>1. CASE Guests!Skips(l)
    BY <1>7, <2>1 DEF Guests!TakeList, RestoreInv
  <2>2. CASE ~Guests!Skips(l)
    BY <1>7, <2>2 DEF Guests!TakeList, RestoreInv, Guests!Rows
  <2>3. QED
    BY <2>1, <2>2
<1>8. CASE Guests!FrameComes
  BY <1>7, <1>8 DEF Guests!FrameComes
<1>9. CASE Guests!Read
  BY <1>9 DEF Guests!Read, RestoreInv
<1>10. ASSUME NEW l \in reading, Guests!ReadComes(l) PROVE RestoreInv'
  BY <1>7, <1>10 DEF Guests!ReadComes
<1>11. QED
  BY <1>1, <1>2, <1>3, <1>4, <1>5, <1>6, <1>8, <1>9, <1>10 DEF Guests!Next

LEMMA GuestsRest ==
    ASSUME UNCHANGED guests
    PROVE  (Guests!TypeOK => Guests!TypeOK') /\ (RestoreInv => RestoreInv')
BY DEF guests, Guests!TypeOK, RestoreInv

-----------------------------------------------------------------------------
(* The live stream. *)

\* Every timer of onerror and every token it awaits stands for a failure.
LiveInv == Updates!TypeOK /\ backoff + errAsking <= faults

Stream == [Updates!Streams -> {"none", "connecting", "open", "wedged", "closed"}]
Flags == token \in BOOLEAN /\ refresh \in BOOLEAN /\ refAsking \in BOOLEAN /\ isClosing \in BOOLEAN
Numbers ==
    /\ eventSource \in 0 .. MaxStreams
    /\ asking \in 0 .. MaxAsking /\ delayed \in 0 .. MaxAsking
    /\ backoff \in 0 .. MaxFaults /\ errAsking \in 0 .. MaxFaults
    /\ attempts \in 0 .. MaxAttempts /\ faults \in 0 .. MaxFaults
    /\ backoff + errAsking <= faults

LEMMA LiveParts ==
    LiveInv <=> stream \in Stream /\ Flags /\ Numbers /\ lastMsg \in {"never", "fresh", "old"}
BY DEF LiveInv, Updates!TypeOK, Stream, Flags, Numbers

LEMMA LivePartsNext ==
    LiveInv' <=> stream' \in Stream /\ Flags' /\ Numbers' /\ lastMsg' \in {"never", "fresh", "old"}
BY DEF LiveInv, Updates!TypeOK, Stream, Flags, Numbers

LEMMA LiveBounds == MaxStreams \in Nat /\ MaxAsking \in Nat \ {0} /\ MaxFaults \in Nat /\ MaxAttempts \in Nat
BY PageAssumption

LEMMA LiveStarts == ASSUME Updates!Init PROVE LiveInv
<1>1. stream \in Stream
  BY DEF Updates!Init, Stream
<1>2. Flags /\ lastMsg \in {"never", "fresh", "old"}
  BY DEF Updates!Init, Flags
<1>3. Numbers
  BY LiveBounds DEF Updates!Init, Numbers
<1>4. QED
  BY <1>1, <1>2, <1>3, LiveParts

LEMMA SharedCloses == \A s \in Stream : Updates!CloseShared(s) \in Stream
BY DEF Stream, Updates!CloseShared

LEMMA LiveConnects == ASSUME LiveInv, Updates!TokenComes \/ Updates!TokenFails PROVE LiveInv'
<1>0. stream \in Stream /\ Flags /\ Numbers /\ lastMsg \in {"never", "fresh", "old"}
  BY LiveParts
<1>1. ASSUME NEW b \in BOOLEAN, Updates!ConnectGoesOn(b)
      PROVE  stream' \in Stream /\ eventSource' \in 0 .. MaxStreams
  <2>1. CASE ~b
    BY <1>0, <1>1, <2>1 DEF Updates!ConnectGoesOn, Numbers
  <2>2. CASE b
    <3>1. PICK i \in Updates!Streams :
            /\ stream' = [j \in Updates!Streams |->
                           IF j = i THEN "connecting" ELSE IF stream[j] = "closed" THEN "none" ELSE stream[j]]
            /\ eventSource' = i
      BY <1>1, <2>2 DEF Updates!ConnectGoesOn
    <3>2. stream' \in Stream
      BY <1>0, <3>1 DEF Stream
    <3>3. eventSource' \in 0 .. MaxStreams
      BY <3>1, LiveBounds DEF Updates!Streams
    <3>4. QED
      BY <3>2, <3>3
  <2>3. QED
    BY <2>1, <2>2
<1>2. stream' \in Stream /\ eventSource' \in 0 .. MaxStreams
  <2>1. CASE Updates!TokenComes
    BY <1>1, <2>1 DEF Updates!TokenComes
  <2>2. CASE Updates!TokenFails
    BY <1>0, <1>1, <2>2 DEF Updates!TokenFails, Flags
  <2>3. QED
    BY <2>1, <2>2
<1>3. Flags' /\ lastMsg' \in {"never", "fresh", "old"}
  <2>1. CASE Updates!TokenComes
    BY <1>0, <2>1 DEF Updates!TokenComes, Flags
  <2>2. CASE Updates!TokenFails
    BY <1>0, <2>2 DEF Updates!TokenFails, Flags
  <2>3. QED
    BY <2>1, <2>2
<1>4. Numbers'
  <2>1. /\ asking > 0 /\ asking' = asking - 1 /\ UNCHANGED <<backoff, errAsking, delayed, attempts>>
        /\ faults' = faults \/ (faults < MaxFaults /\ faults' = faults + 1)
    BY DEF Updates!TokenComes, Updates!TokenFails, Updates!Fault
  <2>2. QED
    BY <1>0, <1>2, <2>1, LiveBounds DEF Numbers
<1>5. QED
  BY <1>2, <1>3, <1>4, LivePartsNext

LEMMA LiveEvents ==
    ASSUME LiveInv, NEW i \in Updates!Streams,
           Updates!Opens(i) \/ Updates!Message(i) \/ Updates!Wedges(i) \/ Updates!Errors(i)
    PROVE  LiveInv'
<1>0. stream \in Stream /\ Flags /\ Numbers /\ lastMsg \in {"never", "fresh", "old"}
  BY LiveParts
<1>1. stream' \in Stream
  <2>1. CASE Updates!Errors(i)
    <3>1. PICK after \in {"closed", "connecting"} :
            stream' = Updates!CloseShared([stream EXCEPT ![i] = IF after = "closed" /\ i # eventSource
                                                                THEN "none" ELSE after])
      BY <2>1 DEF Updates!Errors
    <3>2. [stream EXCEPT ![i] = IF after = "closed" /\ i # eventSource THEN "none" ELSE after] \in Stream
      BY <1>0 DEF Stream
    <3>3. QED
      BY <3>1, <3>2, SharedCloses
  <2>2. CASE ~Updates!Errors(i)
    BY <1>0, <2>2 DEF Updates!Opens, Updates!Message, Updates!Wedges, Stream
  <2>3. QED
    BY <2>1, <2>2
<1>2. Flags' /\ lastMsg' \in {"never", "fresh", "old"}
  BY <1>0 DEF Updates!Opens, Updates!Message, Updates!Wedges, Updates!Errors, Flags
<1>3. Numbers'
  <2>1. CASE Updates!Errors(i)
    <3>1. attempts' \in 0 .. MaxAttempts
      BY <1>0, <2>1, LiveBounds DEF Updates!Errors, Updates!AttemptsAfter, Numbers
    <3>2. /\ backoff' \in {backoff, backoff + 1} /\ faults' = faults + 1 /\ faults < MaxFaults
          /\ UNCHANGED <<errAsking, eventSource, asking, delayed>>
      BY <2>1 DEF Updates!Errors, Updates!Fault
    <3>3. QED
      <4>1. CASE backoff' = backoff
        BY <1>0, <3>1, <3>2, <4>1, LiveBounds DEF Numbers
      <4>2. CASE backoff' = backoff + 1
        BY <1>0, <3>1, <3>2, <4>2, LiveBounds DEF Numbers
      <4>3. QED
        BY <3>2, <4>1, <4>2
  <2>2. CASE ~Updates!Errors(i)
    BY <1>0, <2>2, LiveBounds DEF Updates!Opens, Updates!Message, Updates!Wedges, Updates!Fault, Numbers
  <2>3. QED
    BY <2>1, <2>2
<1>4. QED
  BY <1>1, <1>2, <1>3, LivePartsNext

LEMMA LiveTimers ==
    ASSUME LiveInv,
           \/ Updates!BackoffFires \/ Updates!BackoffGoesOn \/ Updates!RefreshFires
           \/ Updates!RefreshGoesOn \/ Updates!DelayedFires
    PROVE  LiveInv'
<1>0. stream \in Stream /\ Flags /\ Numbers /\ lastMsg \in {"never", "fresh", "old"}
  BY LiveParts
<1>1. stream' \in Stream
  BY <1>0, SharedCloses DEF Updates!BackoffFires, Updates!BackoffGoesOn, Updates!RefreshFires,
                            Updates!RefreshGoesOn, Updates!DelayedFires
<1>2. Flags' /\ lastMsg' \in {"never", "fresh", "old"}
  BY <1>0, Zenon DEF Updates!BackoffFires, Updates!BackoffGoesOn, Updates!RefreshFires,
                     Updates!RefreshGoesOn, Updates!DelayedFires, Flags
<1>3. Numbers'
  <2>1. CASE Updates!BackoffFires \/ Updates!RefreshFires
    BY <1>0, <2>1, LiveBounds DEF Updates!BackoffFires, Updates!RefreshFires, Numbers
  <2>2. CASE Updates!BackoffGoesOn
    BY <1>0, <2>2, LiveBounds DEF Updates!BackoffGoesOn, Updates!ConnectSSE, Updates!Fault, Numbers
  <2>3. CASE Updates!RefreshGoesOn
    BY <1>0, <2>3, LiveBounds DEF Updates!RefreshGoesOn, Updates!Fault, Numbers
  <2>4. CASE Updates!DelayedFires
    BY <1>0, <2>4, LiveBounds DEF Updates!DelayedFires, Updates!ConnectSSE, Numbers
  <2>5. QED
    BY <2>1, <2>2, <2>3, <2>4
<1>4. QED
  BY <1>1, <1>2, <1>3, LivePartsNext

LEMMA LiveChecks ==
    ASSUME LiveInv, Updates!Silence \/ Updates!HealthCheck \/ Updates!Cleanup
    PROVE  LiveInv'
<1>0. stream \in Stream /\ Flags /\ Numbers /\ lastMsg \in {"never", "fresh", "old"}
  BY LiveParts
<1>1. stream' \in Stream
  BY <1>0, SharedCloses DEF Updates!Silence, Updates!HealthCheck, Updates!Cleanup
<1>2. Flags' /\ lastMsg' \in {"never", "fresh", "old"}
  BY <1>0, Zenon DEF Updates!Silence, Updates!HealthCheck, Updates!Cleanup, Flags
<1>3. Numbers'
  <2>1. CASE Updates!Silence
    BY <1>0, <2>1 DEF Updates!Silence, Numbers
  <2>2. CASE Updates!HealthCheck
    BY <1>0, <2>2, LiveBounds DEF Updates!HealthCheck, Updates!ConnectSSE, Numbers
  <2>3. CASE Updates!Cleanup
    <3>1. /\ backoff' \in {backoff, backoff - 1} /\ backoff' \in Nat
          /\ UNCHANGED <<eventSource, asking, errAsking, delayed, attempts, faults>>
      BY <2>3 DEF Updates!Cleanup
    <3>2. CASE backoff' = backoff
      BY <1>0, <3>1, <3>2 DEF Numbers
    <3>3. CASE backoff' = backoff - 1
      BY <1>0, <3>1, <3>3, LiveBounds DEF Numbers
    <3>4. QED
      BY <3>1, <3>2, <3>3
  <2>4. QED
    BY <2>1, <2>2, <2>3
<1>4. QED
  BY <1>1, <1>2, <1>3, LivePartsNext

LEMMA LiveStep == ASSUME LiveInv, Updates!Next PROVE LiveInv'
BY LiveConnects, LiveEvents, LiveTimers, LiveChecks DEF Updates!Next

LEMMA LiveRests == ASSUME LiveInv, UNCHANGED live PROVE LiveInv'
BY DEF LiveInv, Updates!TypeOK, live

-----------------------------------------------------------------------------
(* The task list. *)

TaskSources == TaskClusters \cup Hosts
IsOwn(k) == k.own /\ k.data = Tasks!Waiting

\* What holds of the calls cs of fetchTasks, where the requests were answered with sv, the
\* list shows sh and is st old, and the server has ver: no answer is newer than what the
\* server has; a source without a request has nobody who waits, and of those who wait for
\* one, one made it; a request is answered behind its start, and what it is answered with is
\* not behind a list that was already there when it started.
CallersInv(cs, sv, sh, st, ver) ==
    /\ \A k \in cs : k.data <= ver[k.src]
    /\ \A k \in cs : k.data = Tasks!Waiting => sv[k.src] # Tasks!Idle
    /\ \A k, m \in cs : IsOwn(k) /\ IsOwn(m) /\ k.src = m.src => k = m
    /\ \A k \in cs : IsOwn(k) /\ sv[k.src] \in Tasks!Versions
            => k.age > 0 /\ (k.age <= st => sh[k.src] <= sv[k.src])
    /\ \A k \in cs : k.own /\ k.data # Tasks!Waiting
            => k.age > 0 /\ (k.age <= st => sh[k.src] <= k.data)

\* Neither the list, nor a request, nor a frame is ahead of the server.
NotAhead ==
    /\ \A s \in TaskSources : tasksShown[s] <= version[s] /\ served[s] <= version[s]
    /\ \A i \in 1 .. Len(frames) : frames[i].data <= version[frames[i].src]

TasksInv ==
    /\ Tasks!TypeOK /\ Tasks!OnlyTheSelected /\ NotAhead
    /\ CallersInv(callers, served, tasksShown, stampAge, version)

LEMMA TaskBounds == MaxVersion \in Nat /\ MaxTaskFlight \in Nat /\ MaxFrames \in Nat
BY PageAssumption

LEMMA TaskNumbers ==
    /\ Tasks!Versions \subseteq Nat /\ 0 \in Tasks!Versions
    /\ Tasks!Waiting = -1 /\ Tasks!Idle = -2 /\ Tasks!Never = MaxTaskFlight + 1
    /\ Tasks!Sources = TaskSources
BY TaskBounds DEF Tasks!Versions, Tasks!Waiting, Tasks!Idle, Tasks!Never, Tasks!Sources, TaskSources

LEMMA CallerFields ==
    ASSUME NEW k \in Tasks!Caller
    PROVE  /\ k.src \in TaskSources /\ k.age \in Nat /\ k.age <= MaxTaskFlight
           /\ k.init \in BOOLEAN /\ k.fresh \in BOOLEAN /\ k.own \in BOOLEAN
           /\ k.data \in Tasks!Versions \cup {-1} /\ k.data \in Int
<1>1. /\ k.src \in TaskSources /\ k.age \in 0 .. MaxTaskFlight
      /\ k.data \in Tasks!Versions \cup {Tasks!Waiting}
  BY TaskNumbers DEF Tasks!Caller
<1>2. k.init \in BOOLEAN /\ k.fresh \in BOOLEAN /\ k.own \in BOOLEAN
  BY DEF Tasks!Caller
<1>3. k.age \in Nat /\ k.age <= MaxTaskFlight
  BY <1>1, TaskBounds
<1>4. k.data \in Tasks!Versions \cup {-1} /\ k.data \in Int
  <2>1. CASE k.data \in Tasks!Versions
    BY <2>1, TaskBounds DEF Tasks!Versions
  <2>2. CASE k.data = Tasks!Waiting
    BY <2>2 DEF Tasks!Waiting
  <2>3. QED
    BY <1>1, <2>1, <2>2
<1>5. QED
  BY <1>1, <1>2, <1>3, <1>4

LEMMA TasksStart == ASSUME Tasks!Init PROVE TasksInv
<1>1. /\ version \in [TaskSources -> Tasks!Versions] /\ tasksShown \in [TaskSources -> Tasks!Versions]
      /\ served \in [TaskSources -> Tasks!Versions \cup {Tasks!Waiting, Tasks!Idle}]
  BY TaskNumbers DEF Tasks!Init
<1>2. stampAge \in 0 .. Tasks!Never
  BY TaskNumbers, TaskBounds DEF Tasks!Init
<1>3. frames \in Seq([src : TaskSources, data : Tasks!Versions]) /\ Len(frames) <= MaxFrames
  BY TaskBounds DEF Tasks!Init
<1>4. initial \in BOOLEAN /\ callers = {}
  BY DEF Tasks!Init
<1>5. Tasks!TypeOK
  BY <1>1, <1>2, <1>3, <1>4, TaskNumbers DEF Tasks!Init, Tasks!TypeOK
<1>6. NotAhead
  BY TaskNumbers DEF Tasks!Init, NotAhead
<1>7. Tasks!OnlyTheSelected
  BY DEF Tasks!Init, Tasks!OnlyTheSelected
<1>8. CallersInv(callers, served, tasksShown, stampAge, version)
  BY <1>4 DEF CallersInv
<1>9. QED
  BY <1>5, <1>6, <1>7, <1>8 DEF TasksInv

\* An update of the list leaves every request behind it.
LEMMA UpdateKeeps ==
    ASSUME NEW cs \in SUBSET Tasks!Caller, NEW ds \in SUBSET cs, NEW sv, NEW sh, NEW sh2, NEW st, NEW ver,
           CallersInv(cs, sv, sh, st, ver)
    PROVE  CallersInv(ds, sv, sh2, 0, ver)
<1>1. \A k \in ds : k \in cs /\ k.age \in Nat
  BY CallerFields
<1>2. QED
  BY <1>1 DEF CallersInv

LEMMA FewerKeep ==
    ASSUME NEW cs, NEW ds \in SUBSET cs, NEW sv, NEW sh, NEW st, NEW ver,
           CallersInv(cs, sv, sh, st, ver)
    PROVE  CallersInv(ds, sv, sh, st, ver)
BY DEF CallersInv

\* A list that is empty is behind nothing.
LEMMA EmptyKeeps ==
    ASSUME NEW cs \in SUBSET Tasks!Caller, NEW sv, NEW sh, NEW st, NEW st2, NEW ver,
           CallersInv(cs, sv, sh, st, ver)
    PROVE  CallersInv(cs, sv, [s \in TaskSources |-> 0], st2, ver)
<1>1. \A k \in cs : k.src \in TaskSources /\ k.data \in Tasks!Versions \cup {-1}
  BY CallerFields
<1>2. \A k \in cs : [s \in TaskSources |-> 0][k.src] = 0
  BY <1>1
<1>3. \A v \in Tasks!Versions : 0 <= v
  BY TaskNumbers
<1>4. \A k \in cs : k.data # Tasks!Waiting => 0 <= k.data
  BY <1>1, <1>3, TaskNumbers
<1> DEFINE e == [s \in TaskSources |-> 0]
<1> HIDE DEF e
<1>5. \A k \in cs : e[k.src] = 0
  BY <1>2 DEF e
<1>6. CallersInv(cs, sv, e, st2, ver)
  BY <1>3, <1>4, <1>5 DEF CallersInv
<1>7. QED
  BY <1>6 DEF e

LEMMA SwitchKeeps ==
    ASSUME TasksInv
    PROVE  /\ Tasks!Switched \subseteq Tasks!Caller
           /\ CallersInv(Tasks!Switched, served, Tasks!EmptyList, Tasks!Never, version)
           /\ CallersInv(Tasks!Switched, served, Tasks!EmptyList, stampAge, version)
           /\ CallersInv(callers, served, Tasks!EmptyList, Tasks!Never, version)
<1>1. callers \subseteq Tasks!Caller /\ CallersInv(callers, served, tasksShown, stampAge, version)
  BY DEF TasksInv, Tasks!TypeOK
<1>2. Tasks!EmptyList = [s \in TaskSources |-> 0]
  BY TaskNumbers DEF Tasks!EmptyList
<1>3. \A m \in Tasks!Switched : \E k \in callers : m = [k EXCEPT !.fresh = FALSE]
  BY DEF Tasks!Switched
<1>4. \A m \in Tasks!Switched : \E k \in callers :
          /\ m = [k EXCEPT !.fresh = FALSE] /\ m \in Tasks!Caller
          /\ m.src = k.src /\ m.age = k.age /\ m.own = k.own /\ m.data = k.data
  <2>1. SUFFICES ASSUME NEW m \in Tasks!Switched, NEW k \in callers, m = [k EXCEPT !.fresh = FALSE]
                 PROVE  m \in Tasks!Caller /\ m.src = k.src /\ m.age = k.age /\ m.own = k.own /\ m.data = k.data
    BY <1>3
  <2>2. k \in Tasks!Caller
    BY <1>1
  <2>3. QED
    BY <2>1, <2>2 DEF Tasks!Caller
<1>5. CallersInv(Tasks!Switched, served, tasksShown, stampAge, version)
  <2>1. \A k, m \in Tasks!Switched : IsOwn(k) /\ IsOwn(m) /\ k.src = m.src => k = m
    <3>1. SUFFICES ASSUME NEW k \in Tasks!Switched, NEW m \in Tasks!Switched, IsOwn(k), IsOwn(m), k.src = m.src
                   PROVE  k = m
      OBVIOUS
    <3>2. PICK x \in callers : k = [x EXCEPT !.fresh = FALSE] /\ x.src = k.src /\ x.own = k.own /\ x.data = k.data
      BY <1>4
    <3>3. PICK y \in callers : m = [y EXCEPT !.fresh = FALSE] /\ y.src = m.src /\ y.own = m.own /\ y.data = m.data
      BY <1>4
    <3>4. x = y
      BY <1>1, <3>1, <3>2, <3>3 DEF CallersInv, IsOwn
    <3>5. QED
      BY <3>2, <3>3, <3>4
  <2>2. ASSUME NEW m \in Tasks!Switched
        PROVE  /\ m.data <= version[m.src]
               /\ m.data = Tasks!Waiting => served[m.src] # Tasks!Idle
               /\ IsOwn(m) /\ served[m.src] \in Tasks!Versions
                    => m.age > 0 /\ (m.age <= stampAge => tasksShown[m.src] <= served[m.src])
               /\ m.own /\ m.data # Tasks!Waiting
                    => m.age > 0 /\ (m.age <= stampAge => tasksShown[m.src] <= m.data)
    <3>1. PICK k \in callers : m.src = k.src /\ m.age = k.age /\ m.own = k.own /\ m.data = k.data
      BY <1>4
    <3>2. QED
      BY <1>1, <3>1 DEF CallersInv, IsOwn
  <2>3. QED
    BY <2>1, <2>2 DEF CallersInv
<1>6. QED
  BY <1>1, <1>2, <1>4, <1>5, EmptyKeeps

\* A new call makes the request of its source, or waits for the one under way.
LEMMA CallKeeps ==
    ASSUME TasksInv, NEW s \in TaskSources, NEW before \in SUBSET Tasks!Caller, NEW init \in BOOLEAN,
           NEW sh, NEW st,
           CallersInv(before, served, sh, st, version), Tasks!Call(s, before, init)
    PROVE  /\ callers' \subseteq Tasks!Caller
           /\ served' \in [TaskSources -> Tasks!Versions \cup {Tasks!Waiting, Tasks!Idle}]
           /\ \A x \in TaskSources : served'[x] <= version[x]
           /\ CallersInv(callers', served', sh, st, version)
<1> DEFINE n == [src |-> s, age |-> 0, init |-> init, fresh |-> TRUE,
                 own |-> served[s] = Tasks!Idle, data |-> Tasks!Waiting]
<1>1. /\ callers' = before \cup {n}
      /\ served' = IF served[s] = Tasks!Idle THEN [served EXCEPT ![s] = Tasks!Waiting] ELSE served
  BY DEF Tasks!Call
<1>2. /\ served \in [TaskSources -> Tasks!Versions \cup {Tasks!Waiting, Tasks!Idle}]
      /\ version \in [TaskSources -> Tasks!Versions]
      /\ \A x \in TaskSources : served[x] <= version[x]
  BY TaskNumbers DEF TasksInv, Tasks!TypeOK, NotAhead
<1>3. n \in Tasks!Caller
  <2>1. (served[s] = Tasks!Idle) \in BOOLEAN
    OBVIOUS
  <2>2. 0 \in 0 .. MaxTaskFlight
    BY TaskBounds
  <2>3. QED
    BY <2>1, <2>2, TaskNumbers DEF Tasks!Caller
<1>4. served' \in [TaskSources -> Tasks!Versions \cup {Tasks!Waiting, Tasks!Idle}]
  BY <1>1, <1>2
<1>5. \A x \in TaskSources : served'[x] <= version[x]
  <2>1. \A x \in TaskSources : version[x] \in Nat
    BY <1>2, TaskNumbers
  <2>2. QED
    BY <1>1, <1>2, <2>1, TaskNumbers
<1>6. CASE served[s] = Tasks!Idle
  <2>1. /\ served'[s] = Tasks!Waiting
        /\ \A x \in TaskSources : x # s => served'[x] = served[x]
    BY <1>1, <1>2, <1>6
  <2>2. \A k \in before : k.data = Tasks!Waiting => k.src # s
    BY <1>6 DEF CallersInv
  <2>3. \A k \in before : k.src \in TaskSources
    BY CallerFields
  <2>4. n.src = s /\ n.data = Tasks!Waiting /\ n.data <= version[n.src]
    <3>1. version[s] \in Nat
      BY <1>2, TaskNumbers
    <3>2. QED
      BY <3>1, TaskNumbers
  <2>5. Tasks!Waiting # Tasks!Idle /\ Tasks!Waiting \notin Tasks!Versions
    BY TaskNumbers
  <2> HIDE DEF n
  <2>6. CallersInv(callers', served', sh, st, version)
    <3>1. \A k \in callers' : k.data <= version[k.src]
      BY <1>1, <2>4 DEF CallersInv
    <3>2. \A k \in callers' : k.data = Tasks!Waiting => served'[k.src] # Tasks!Idle
      BY <1>1, <2>1, <2>2, <2>3, <2>4, <2>5 DEF CallersInv
    <3>3. \A k, m \in callers' : IsOwn(k) /\ IsOwn(m) /\ k.src = m.src => k = m
      BY <1>1, <2>2, <2>4 DEF CallersInv, IsOwn
    <3>4. \A k \in callers' : IsOwn(k) /\ served'[k.src] \in Tasks!Versions
            => k.age > 0 /\ (k.age <= st => sh[k.src] <= served'[k.src])
      <4>1. SUFFICES ASSUME NEW k \in callers', IsOwn(k), served'[k.src] \in Tasks!Versions
                     PROVE  k.age > 0 /\ (k.age <= st => sh[k.src] <= served'[k.src])
        OBVIOUS
      <4>2. k \in before /\ k.src # s
        BY <1>1, <2>1, <2>4, <2>5, <4>1
      <4>3. served'[k.src] = served[k.src]
        BY <2>1, <2>3, <4>2
      <4>4. QED
        BY <4>1, <4>2, <4>3 DEF CallersInv
    <3>5. \A k \in callers' : k.own /\ k.data # Tasks!Waiting
            => k.age > 0 /\ (k.age <= st => sh[k.src] <= k.data)
      BY <1>1, <2>4 DEF CallersInv
    <3>6. QED
      BY <3>1, <3>2, <3>3, <3>4, <3>5 DEF CallersInv
  <2>7. QED
    BY <1>1, <1>3, <1>4, <1>5, <2>6
<1>7. CASE served[s] # Tasks!Idle
  <2>1. served' = served /\ ~n.own /\ n.src = s /\ n.data = Tasks!Waiting
    BY <1>1, <1>7
  <2>2. n.data <= version[n.src]
    <3>1. version[s] \in Nat
      BY <1>2, TaskNumbers
    <3>2. QED
      BY <2>1, <3>1, TaskNumbers
  <2> HIDE DEF n
  <2>3. CallersInv(callers', served', sh, st, version)
    BY <1>1, <1>7, <2>1, <2>2 DEF CallersInv, IsOwn
  <2>4. QED
    BY <1>1, <1>3, <1>4, <1>5, <2>3
<1>8. QED
  BY <1>6, <1>7

LEMMA TaskFacts ==
    ASSUME TasksInv
    PROVE  /\ version \in [TaskSources -> Tasks!Versions] /\ tasksShown \in [TaskSources -> Tasks!Versions]
           /\ stampAge \in Nat /\ stampAge <= MaxTaskFlight + 1
           /\ callers \subseteq Tasks!Caller
           /\ served \in [TaskSources -> Tasks!Versions \cup {Tasks!Waiting, Tasks!Idle}]
           /\ frames \in Seq([src : TaskSources, data : Tasks!Versions]) /\ Len(frames) <= MaxFrames
           /\ initial \in BOOLEAN
           /\ \A s \in TaskSources : version[s] \in Nat /\ tasksShown[s] \in Nat /\ served[s] \in Int
<1>1. /\ version \in [TaskSources -> Tasks!Versions] /\ tasksShown \in [TaskSources -> Tasks!Versions]
      /\ callers \subseteq Tasks!Caller
      /\ served \in [TaskSources -> Tasks!Versions \cup {Tasks!Waiting, Tasks!Idle}]
      /\ frames \in Seq([src : TaskSources, data : Tasks!Versions]) /\ Len(frames) <= MaxFrames
      /\ initial \in BOOLEAN
  BY TaskNumbers DEF TasksInv, Tasks!TypeOK
<1>2. stampAge \in Nat /\ stampAge <= MaxTaskFlight + 1
  <2>1. stampAge \in 0 .. Tasks!Never
    BY DEF TasksInv, Tasks!TypeOK
  <2>2. QED
    BY <2>1, TaskBounds, TaskNumbers
<1>3. \A s \in TaskSources : version[s] \in Nat /\ tasksShown[s] \in Nat
  BY <1>1, TaskNumbers
<1>4. \A s \in TaskSources : served[s] \in Int
  <2>1. SUFFICES ASSUME NEW s \in TaskSources PROVE served[s] \in Int
    OBVIOUS
  <2>2. served[s] \in Tasks!Versions \cup {Tasks!Waiting, Tasks!Idle}
    BY <1>1
  <2>3. CASE served[s] \in Tasks!Versions
    BY <2>3, TaskBounds DEF Tasks!Versions
  <2>4. CASE served[s] \in {Tasks!Waiting, Tasks!Idle}
    BY <2>4 DEF Tasks!Waiting, Tasks!Idle
  <2>5. QED
    BY <2>2, <2>3, <2>4
<1>5. QED
  BY <1>1, <1>2, <1>3, <1>4

\* What Merge makes of the list.
LEMMA MergeFacts ==
    ASSUME TasksInv, NEW s \in TaskSources, NEW v \in Tasks!Versions, v <= version[s]
    PROVE  /\ Tasks!Merge(s, v) \in [TaskSources -> Tasks!Versions]
           /\ \A x \in TaskSources : Tasks!Merge(s, v)[x] <= version[x]
           /\ \A x \in TaskSources : x # s => Tasks!Merge(s, v)[x] = tasksShown[x]
           /\ v # 0 => Tasks!Merge(s, v)[s] = v
           /\ v = 0 => Tasks!Merge(s, v) = tasksShown
<1>1. tasksShown \in [TaskSources -> Tasks!Versions] /\ \A x \in TaskSources : tasksShown[x] <= version[x]
  BY TaskFacts DEF TasksInv, NotAhead
<1>2. QED
  BY <1>1 DEF Tasks!Merge

\* The step keeps what no call is about.
LEMMA RestOfTasks ==
    ASSUME TasksInv, UNCHANGED <<taskSelected, hyperv, version, tasksShown, stampAge, initial, frames>>,
           callers' \subseteq Tasks!Caller,
           served' \in [TaskSources -> Tasks!Versions \cup {Tasks!Waiting, Tasks!Idle}],
           \A x \in TaskSources : served'[x] <= version[x],
           CallersInv(callers', served', tasksShown, stampAge, version)
    PROVE  TasksInv'
<1>1. Tasks!TypeOK'
  BY TaskNumbers DEF TasksInv, Tasks!TypeOK
<1>2. NotAhead'
  BY DEF TasksInv, NotAhead
<1>3. QED
  BY <1>1, <1>2 DEF TasksInv, Tasks!OnlyTheSelected

LEMMA TasksApply ==
    ASSUME TasksInv, NEW k \in callers, Tasks!Apply(k)
    PROVE  TasksInv' /\ (~k.init /\ k.own => tasksShown'[k.src] >= tasksShown[k.src])
<1>1. /\ callers' = callers \ {k} /\ k.data # Tasks!Waiting
      /\ UNCHANGED <<taskSelected, hyperv, version, served, frames>>
  BY DEF Tasks!Apply
<1>2. k \in Tasks!Caller /\ k.src \in TaskSources /\ k.data \in Tasks!Versions /\ k.age \in Nat
  <2>1. k \in Tasks!Caller
    BY TaskFacts
  <2>2. k.src \in TaskSources /\ k.age \in Nat /\ k.data \in Tasks!Versions \cup {-1}
    BY <2>1, CallerFields
  <2>3. QED
    BY <1>1, <2>1, <2>2, TaskNumbers
<1>3. k.data <= version[k.src] /\ callers' \subseteq Tasks!Caller
  BY <1>1, TaskFacts DEF TasksInv, CallersInv
<1>4. CASE Tasks!StillMine(k) /\ ~Tasks!Stale(k)
  <2>1. tasksShown' = Tasks!Merge(k.src, k.data) /\ stampAge' = 0 /\ initial' = (initial /\ ~k.init)
    BY <1>4 DEF Tasks!Apply
  <2>2. initial' \in BOOLEAN
    BY <2>1
  <2>3. CallersInv(callers', served', tasksShown', stampAge', version')
    <3>1. callers \in SUBSET Tasks!Caller /\ callers' \in SUBSET callers
      BY <1>1, TaskFacts
    <3>2. CallersInv(callers, served, tasksShown, stampAge, version)
      BY DEF TasksInv
    <3>3. CallersInv(callers', served, tasksShown', 0, version)
      BY <3>1, <3>2, UpdateKeeps
    <3>4. QED
      BY <1>1, <2>1, <3>3
  <2>4. /\ tasksShown' \in [TaskSources -> Tasks!Versions]
        /\ \A x \in TaskSources : tasksShown'[x] <= version[x]
        /\ \A x \in TaskSources : x # k.src => tasksShown'[x] = tasksShown[x]
        /\ k.data # 0 => tasksShown'[k.src] = k.data
        /\ k.data = 0 => tasksShown' = tasksShown
    BY <1>2, <1>3, <2>1, MergeFacts
  <2>5. Tasks!OnlyTheSelected'
    <3>1. taskSelected = k.src
      BY <1>4 DEF Tasks!StillMine
    <3>2. QED
      BY <1>1, <2>4, <3>1, TaskNumbers DEF TasksInv, Tasks!OnlyTheSelected
  <2>6. NotAhead'
    BY <1>1, <2>4 DEF TasksInv, NotAhead
  <2>7. stampAge' \in 0 .. Tasks!Never
    BY <2>1, TaskBounds, TaskNumbers
  <2>8. Tasks!TypeOK'
    BY <1>1, <1>3, <2>2, <2>4, <2>7, TaskNumbers DEF TasksInv, Tasks!TypeOK
  <2>9. ASSUME ~k.init, k.own PROVE tasksShown'[k.src] >= tasksShown[k.src]
    <3>1. k.age <= stampAge
      BY <1>2, <1>4, <2>9, TaskFacts DEF Tasks!Stale
    <3>2. tasksShown[k.src] <= k.data
      BY <1>1, <2>9, <3>1 DEF TasksInv, CallersInv
    <3>3. tasksShown[k.src] \in Nat /\ k.data \in Nat
      BY <1>2, TaskFacts, TaskNumbers
    <3>4. QED
      BY <2>4, <3>2, <3>3
  <2>10. QED
    BY <2>3, <2>5, <2>6, <2>8, <2>9 DEF TasksInv
<1>5. CASE ~(Tasks!StillMine(k) /\ ~Tasks!Stale(k))
  <2>1. UNCHANGED <<tasksShown, stampAge, initial>>
    BY <1>5 DEF Tasks!Apply
  <2>2. CallersInv(callers', served', tasksShown, stampAge, version)
    BY <1>1, FewerKeep DEF TasksInv
  <2>3. TasksInv'
    BY <1>1, <1>3, <2>1, <2>2, TaskFacts, RestOfTasks DEF TasksInv, NotAhead
  <2>4. tasksShown'[k.src] >= tasksShown[k.src]
    BY <1>2, <2>1, TaskFacts
  <2>5. QED
    BY <2>3, <2>4
<1>6. QED
  BY <1>4, <1>5

LEMMA TasksServe == ASSUME TasksInv, NEW s \in TaskSources, Tasks!Serve(s) PROVE TasksInv'
<1>1. /\ served[s] = Tasks!Waiting /\ served' = [served EXCEPT ![s] = version[s]]
      /\ UNCHANGED <<taskSelected, hyperv, version, tasksShown, stampAge, initial, callers, frames>>
  BY DEF Tasks!Serve
<1>2. PICK o \in callers : o.src = s /\ IsOwn(o) /\ o.age > 0
  BY DEF Tasks!Serve, IsOwn
<1>3. served' \in [TaskSources -> Tasks!Versions \cup {Tasks!Waiting, Tasks!Idle}]
  BY <1>1, TaskFacts
<1>4. served'[s] = version[s] /\ \A x \in TaskSources : x # s => served'[x] = served[x]
  BY <1>1, TaskFacts
<1>5. \A x \in TaskSources : served'[x] <= version[x]
  <2>1. version[s] <= version[s] /\ \A x \in TaskSources : served[x] <= version[x]
    BY TaskFacts DEF TasksInv, NotAhead
  <2>2. QED
    BY <1>4, <2>1
<1>6. CallersInv(callers, served', tasksShown, stampAge, version)
  <2>1. ASSUME NEW k \in callers
        PROVE  /\ k.data = Tasks!Waiting => served'[k.src] # Tasks!Idle
               /\ IsOwn(k) /\ served'[k.src] \in Tasks!Versions
                    => k.age > 0 /\ (k.age <= stampAge => tasksShown[k.src] <= served'[k.src])
    <3>1. k.src \in TaskSources
      BY TaskFacts, CallerFields
    <3>2. CASE k.src # s
      BY <1>4, <3>1, <3>2 DEF TasksInv, CallersInv
    <3>3. CASE k.src = s
      <4>1. served'[k.src] # Tasks!Idle
        BY <1>4, <3>3, TaskFacts, TaskNumbers
      <4>2. tasksShown[k.src] <= served'[k.src]
        BY <1>4, <3>3 DEF TasksInv, NotAhead
      <4>3. IsOwn(k) => k = o
        BY <1>2, <3>3 DEF TasksInv, CallersInv
      <4>4. QED
        BY <1>2, <4>1, <4>2, <4>3
    <3>4. QED
      BY <3>2, <3>3
  <2>2. QED
    BY <2>1 DEF TasksInv, CallersInv
<1>7. QED
  BY <1>1, <1>3, <1>5, <1>6, TaskFacts, RestOfTasks

LEMMA TasksAnswer == ASSUME TasksInv, NEW s \in TaskSources, Tasks!Answer(s) PROVE TasksInv'
<1>1. /\ served[s] \in Tasks!Versions /\ served' = [served EXCEPT ![s] = Tasks!Idle]
      /\ callers' = {IF k.src = s /\ k.data = Tasks!Waiting THEN [k EXCEPT !.data = served[s]] ELSE k : k \in callers}
      /\ UNCHANGED <<taskSelected, hyperv, version, tasksShown, stampAge, initial, frames>>
  BY DEF Tasks!Answer
<1>2. served' \in [TaskSources -> Tasks!Versions \cup {Tasks!Waiting, Tasks!Idle}]
  BY <1>1, TaskFacts
<1>3. \A x \in TaskSources : x # s => served'[x] = served[x]
  BY <1>1, TaskFacts
<1>4. served'[s] = Tasks!Idle
  BY <1>1, TaskFacts
<1>5. \A x \in TaskSources : served'[x] <= version[x]
  <2>1. Tasks!Idle <= version[s]
    BY TaskFacts, TaskNumbers
  <2>2. QED
    BY <1>3, <1>4, <2>1 DEF TasksInv, NotAhead
<1>6. \A m \in callers' : \E k \in callers :
        /\ m \in Tasks!Caller /\ m.src = k.src /\ m.age = k.age /\ m.own = k.own
        /\ \/ m = k /\ ~(k.src = s /\ k.data = Tasks!Waiting)
           \/ k.src = s /\ k.data = Tasks!Waiting /\ m.data = served[s]
  <2>1. SUFFICES ASSUME NEW k \in callers,
                        NEW m, m = IF k.src = s /\ k.data = Tasks!Waiting THEN [k EXCEPT !.data = served[s]] ELSE k
                 PROVE  /\ m \in Tasks!Caller /\ m.src = k.src /\ m.age = k.age /\ m.own = k.own
                        /\ \/ m = k /\ ~(k.src = s /\ k.data = Tasks!Waiting)
                           \/ k.src = s /\ k.data = Tasks!Waiting /\ m.data = served[s]
    BY <1>1
  <2>2. k \in Tasks!Caller
    BY TaskFacts
  <2>3. CASE k.src = s /\ k.data = Tasks!Waiting
    <3>1. m = [k EXCEPT !.data = served[s]]
      BY <2>1, <2>3
    <3>2. QED
      BY <1>1, <2>2, <2>3, <3>1 DEF Tasks!Caller
  <2>4. CASE ~(k.src = s /\ k.data = Tasks!Waiting)
    BY <2>1, <2>2, <2>4
  <2>5. QED
    BY <2>3, <2>4
<1>7. served[s] # Tasks!Waiting /\ served[s] <= version[s]
  BY <1>1, TaskNumbers DEF TasksInv, NotAhead
<1>8. CallersInv(callers', served', tasksShown, stampAge, version)
  <2>1. ASSUME NEW m \in callers'
        PROVE  /\ m.data <= version[m.src]
               /\ m.data = Tasks!Waiting => m \in callers /\ m.src # s /\ served'[m.src] = served[m.src]
               /\ m.data = Tasks!Waiting => served'[m.src] # Tasks!Idle
               /\ IsOwn(m) /\ served'[m.src] \in Tasks!Versions
                    => m.age > 0 /\ (m.age <= stampAge => tasksShown[m.src] <= served'[m.src])
               /\ m.own /\ m.data # Tasks!Waiting
                    => m.age > 0 /\ (m.age <= stampAge => tasksShown[m.src] <= m.data)
    <3>1. PICK k \in callers :
            /\ m \in Tasks!Caller /\ m.src = k.src /\ m.age = k.age /\ m.own = k.own
            /\ \/ m = k /\ ~(k.src = s /\ k.data = Tasks!Waiting)
               \/ k.src = s /\ k.data = Tasks!Waiting /\ m.data = served[s]
      BY <1>6
    <3>2. m.src \in TaskSources
      BY <3>1, CallerFields
    <3>3. CASE m = k /\ ~(k.src = s /\ k.data = Tasks!Waiting)
      BY <1>3, <3>2, <3>3 DEF TasksInv, CallersInv, IsOwn
    <3>4. CASE k.src = s /\ k.data = Tasks!Waiting /\ m.data = served[s]
      <4>1. m.data # Tasks!Waiting /\ m.data <= version[m.src]
        BY <1>7, <3>1, <3>4
      <4>2. m.own => IsOwn(k) /\ served[k.src] \in Tasks!Versions
        BY <1>1, <3>1, <3>4 DEF IsOwn
      <4>3. m.own => m.age > 0 /\ (m.age <= stampAge => tasksShown[m.src] <= m.data)
        BY <3>1, <3>4, <4>2 DEF TasksInv, CallersInv
      <4>4. QED
        BY <4>1, <4>3 DEF IsOwn
    <3>5. QED
      BY <3>1, <3>3, <3>4
  <2>2. \A k, m \in callers' : IsOwn(k) /\ IsOwn(m) /\ k.src = m.src => k = m
    BY <2>1 DEF TasksInv, CallersInv, IsOwn
  <2>3. QED
    BY <2>1, <2>2 DEF CallersInv
<1>9. callers' \subseteq Tasks!Caller
  BY <1>6
<1>10. QED
  BY <1>1, <1>2, <1>5, <1>8, <1>9, RestOfTasks

LEMMA TasksFail == ASSUME TasksInv, NEW s \in TaskSources, Tasks!Fail(s) PROVE TasksInv'
<1>1. /\ served' = [served EXCEPT ![s] = Tasks!Idle]
      /\ callers' = {k \in callers : k.src # s \/ k.data # Tasks!Waiting}
      /\ UNCHANGED <<taskSelected, hyperv, version, tasksShown, stampAge, initial, frames>>
  BY DEF Tasks!Fail
<1>2. served' \in [TaskSources -> Tasks!Versions \cup {Tasks!Waiting, Tasks!Idle}]
  BY <1>1, TaskFacts
<1>3. served'[s] = Tasks!Idle /\ \A x \in TaskSources : x # s => served'[x] = served[x]
  BY <1>1, TaskFacts
<1>4. \A x \in TaskSources : served'[x] <= version[x]
  <2>1. Tasks!Idle <= version[s]
    BY TaskFacts, TaskNumbers
  <2>2. QED
    BY <1>3, <2>1 DEF TasksInv, NotAhead
<1>5. \A k \in callers' : k \in callers /\ (k.data = Tasks!Waiting => served'[k.src] = served[k.src])
  BY <1>1, <1>3, TaskFacts, CallerFields
<1>6. CallersInv(callers', served', tasksShown, stampAge, version)
  BY <1>5 DEF TasksInv, CallersInv, IsOwn
<1>7. callers' \subseteq Tasks!Caller
  BY <1>5, TaskFacts
<1>8. QED
  BY <1>1, <1>2, <1>4, <1>6, <1>7, RestOfTasks

LEMMA TasksServer ==
    ASSUME TasksInv, NEW s \in TaskSources, Tasks!TaskMoves(s) \/ Tasks!Broadcast(s)
    PROVE  TasksInv'
<1>1. CASE Tasks!TaskMoves(s)
  <2>1. /\ version[s] < MaxVersion /\ version' = [version EXCEPT ![s] = @ + 1]
        /\ UNCHANGED <<taskSelected, hyperv, tasksShown, stampAge, initial, callers, served, frames>>
    BY <1>1 DEF Tasks!TaskMoves
  <2>2. version[s] + 1 \in Tasks!Versions
    BY <2>1, TaskFacts, TaskBounds DEF Tasks!Versions
  <2>3. version' \in [TaskSources -> Tasks!Versions]
    BY <2>1, <2>2, TaskFacts
  <2>4. \A x \in TaskSources, n \in Int : n <= version[x] => n <= version'[x]
    BY <2>1, TaskFacts
  <2>5. \A k \in callers : k.src \in TaskSources /\ k.data \in Int
    BY TaskFacts, CallerFields
  <2>6. \A i \in 1 .. Len(frames) : frames[i].src \in TaskSources /\ frames[i].data \in Int
    <3>1. SUFFICES ASSUME NEW i \in 1 .. Len(frames) PROVE frames[i].src \in TaskSources /\ frames[i].data \in Int
      OBVIOUS
    <3> DEFINE F == [src : TaskSources, data : Tasks!Versions]
    <3>2. frames \in Seq(F)
      BY TaskFacts
    <3>3. frames[i] \in F
      <4> HIDE DEF F
      <4> QED  BY <3>2
    <3>4. frames[i].src \in TaskSources /\ frames[i].data \in Tasks!Versions
      BY <3>3
    <3>5. frames[i].data \in Nat
      BY <3>4, TaskNumbers
    <3>6. QED
      BY <3>4, <3>5
  <2>7. NotAhead'
    <3>1. \A x \in TaskSources : tasksShown[x] \in Int /\ served[x] \in Int
      BY TaskFacts
    <3>2. \A x \in TaskSources : tasksShown[x] <= version'[x] /\ served[x] <= version'[x]
      BY <2>4, <3>1 DEF TasksInv, NotAhead
    <3>3. \A i \in 1 .. Len(frames) : frames[i].data <= version'[frames[i].src]
      BY <2>4, <2>6 DEF TasksInv, NotAhead
    <3>4. QED
      BY <2>1, <3>2, <3>3 DEF NotAhead
  <2>8. CallersInv(callers', served', tasksShown', stampAge', version')
    BY <2>1, <2>4, <2>5 DEF TasksInv, CallersInv
  <2>9. Tasks!TypeOK'
    BY <2>1, <2>3, TaskNumbers DEF TasksInv, Tasks!TypeOK
  <2>10. QED
    BY <2>1, <2>7, <2>8, <2>9 DEF TasksInv, Tasks!OnlyTheSelected
<1>2. CASE Tasks!Broadcast(s)
  <2> DEFINE f == [src |-> s, data |-> version[s]]
  <2>1. /\ Len(frames) < MaxFrames /\ frames' = Append(frames, f)
        /\ UNCHANGED <<taskSelected, hyperv, version, tasksShown, stampAge, initial, callers, served>>
    BY <1>2 DEF Tasks!Broadcast
  <2>2. f \in [src : TaskSources, data : Tasks!Versions] /\ f.data <= version[f.src]
    BY TaskFacts
  <2> HIDE DEF f
  <2>3. frames' \in Seq([src : TaskSources, data : Tasks!Versions]) /\ Len(frames') = Len(frames) + 1
    BY <2>1, <2>2, TaskFacts
  <2>4. Len(frames') <= MaxFrames
    BY <2>1, <2>3, TaskFacts, TaskBounds
  <2>5. ASSUME NEW i \in 1 .. Len(frames') PROVE frames'[i].data <= version[frames'[i].src]
    <3>1. CASE i \in 1 .. Len(frames)
      <4>1. frames'[i] = frames[i]
        BY <2>1, <2>2, <3>1, TaskFacts
      <4>2. frames[i].data <= version[frames[i].src]
        BY <3>1 DEF TasksInv, NotAhead
      <4>3. QED
        BY <4>1, <4>2
    <3>2. CASE i = Len(frames) + 1
      BY <2>1, <2>2, <3>2, TaskFacts
    <3>3. QED
      BY <2>3, <3>1, <3>2, TaskFacts
  <2>6. NotAhead'
    BY <2>1, <2>5 DEF TasksInv, NotAhead
  <2>7. Tasks!TypeOK'
    BY <2>1, <2>3, <2>4, TaskNumbers DEF TasksInv, Tasks!TypeOK
  <2>8. QED
    BY <2>1, <2>6, <2>7 DEF TasksInv, Tasks!OnlyTheSelected
<1>3. QED
  BY <1>1, <1>2

LEMMA InFrontIsSource == ASSUME TasksInv, Tasks!InFront # None PROVE Tasks!InFront \in TaskSources
BY DEF TasksInv, Tasks!TypeOK, Tasks!InFront, TaskSources

LEMMA TasksAsk == ASSUME TasksInv, Tasks!Poll \/ Tasks!Refresh PROVE TasksInv'
<1>1. /\ Tasks!InFront \in TaskSources /\ Tasks!Call(Tasks!InFront, callers, initial)
      /\ UNCHANGED <<taskSelected, hyperv, version, tasksShown, stampAge, initial, frames>>
  BY InFrontIsSource DEF Tasks!Poll, Tasks!Refresh
<1>2. callers \in SUBSET Tasks!Caller /\ initial \in BOOLEAN
      /\ CallersInv(callers, served, tasksShown, stampAge, version)
  BY TaskFacts DEF TasksInv
<1>3. /\ callers' \subseteq Tasks!Caller
      /\ served' \in [TaskSources -> Tasks!Versions \cup {Tasks!Waiting, Tasks!Idle}]
      /\ \A x \in TaskSources : served'[x] <= version[x]
      /\ CallersInv(callers', served', tasksShown, stampAge, version)
  BY <1>1, <1>2, CallKeeps
<1>4. QED
  BY <1>1, <1>3, RestOfTasks

\* Another cluster or host: the list is empty.
LEMMA EmptyListFits ==
    ASSUME TasksInv, UNCHANGED <<version, frames>>, tasksShown' = Tasks!EmptyList,
           stampAge' \in 0 .. Tasks!Never, initial' \in BOOLEAN,
           taskSelected' \in TaskClusters \cup {None}, hyperv' \in Hosts \cup {None},
           callers' \subseteq Tasks!Caller,
           served' \in [TaskSources -> Tasks!Versions \cup {Tasks!Waiting, Tasks!Idle}],
           \A x \in TaskSources : served'[x] <= version[x],
           CallersInv(callers', served', Tasks!EmptyList, stampAge', version)
    PROVE  TasksInv'
<1>1. tasksShown' \in [TaskSources -> Tasks!Versions] /\ \A x \in TaskSources : tasksShown'[x] = 0
  BY TaskNumbers DEF Tasks!EmptyList
<1>2. NotAhead'
  BY <1>1, TaskFacts DEF TasksInv, NotAhead
<1>3. Tasks!TypeOK'
  BY <1>1, TaskNumbers DEF TasksInv, Tasks!TypeOK
<1>4. Tasks!OnlyTheSelected'
  BY <1>1, TaskNumbers DEF Tasks!OnlyTheSelected
<1>5. QED
  BY <1>2, <1>3, <1>4 DEF TasksInv

LEMMA TasksSelect ==
    ASSUME TasksInv,
           \/ \E c \in TaskClusters : Tasks!SelectCluster(c)
           \/ \E h \in Hosts : Tasks!SelectHost(h)
           \/ Tasks!SelectNothing
    PROVE  TasksInv'
<1>0. Tasks!Never \in 0 .. Tasks!Never /\ stampAge \in 0 .. Tasks!Never
  BY TaskBounds, TaskFacts, TaskNumbers
<1>1. taskSelected \in TaskClusters \cup {None} /\ hyperv \in Hosts \cup {None} /\ initial \in BOOLEAN
  BY DEF TasksInv, Tasks!TypeOK
<1>2. ASSUME NEW s \in TaskSources, NEW before, before \in {callers, Tasks!Switched}, Tasks!Call(s, before, TRUE)
      PROVE  /\ callers' \subseteq Tasks!Caller
             /\ served' \in [TaskSources -> Tasks!Versions \cup {Tasks!Waiting, Tasks!Idle}]
             /\ \A x \in TaskSources : served'[x] <= version[x]
             /\ CallersInv(callers', served', Tasks!EmptyList, Tasks!Never, version)
  <2>1. before \in SUBSET Tasks!Caller /\ CallersInv(before, served, Tasks!EmptyList, Tasks!Never, version)
    BY <1>2, SwitchKeeps, TaskFacts
  <2>2. QED
    BY <1>2, <2>1, CallKeeps
<1>3. ASSUME NEW c \in TaskClusters, Tasks!SelectCluster(c) PROVE TasksInv'
  <2>1. /\ taskSelected' = c /\ hyperv' \in {None, hyperv} /\ tasksShown' = Tasks!EmptyList
        /\ stampAge' = Tasks!Never /\ initial' = TRUE /\ UNCHANGED <<version, frames>>
        /\ Tasks!Call(c, Tasks!Switched, TRUE)
    BY <1>3 DEF Tasks!SelectCluster
  <2>2. /\ callers' \subseteq Tasks!Caller
        /\ served' \in [TaskSources -> Tasks!Versions \cup {Tasks!Waiting, Tasks!Idle}]
        /\ \A x \in TaskSources : served'[x] <= version[x]
        /\ CallersInv(callers', served', Tasks!EmptyList, Tasks!Never, version)
    BY <1>2, <2>1 DEF TaskSources
  <2>3. initial' \in BOOLEAN /\ stampAge' \in 0 .. Tasks!Never
    BY <1>0, <2>1
  <2>4. QED
    BY <1>1, <2>1, <2>2, <2>3, EmptyListFits
<1>4. ASSUME NEW h \in Hosts, Tasks!SelectHost(h) PROVE TasksInv'
  <2>1. /\ taskSelected' = None /\ hyperv' = h /\ tasksShown' = Tasks!EmptyList
        /\ stampAge' = Tasks!Never /\ initial' = TRUE /\ UNCHANGED <<version, frames>>
        /\ Tasks!Call(h, IF taskSelected # None THEN Tasks!Switched ELSE callers, TRUE)
    BY <1>4 DEF Tasks!SelectHost
  <2>2. /\ callers' \subseteq Tasks!Caller
        /\ served' \in [TaskSources -> Tasks!Versions \cup {Tasks!Waiting, Tasks!Idle}]
        /\ \A x \in TaskSources : served'[x] <= version[x]
        /\ CallersInv(callers', served', Tasks!EmptyList, Tasks!Never, version)
    BY <1>2, <2>1 DEF TaskSources
  <2>3. initial' \in BOOLEAN /\ stampAge' \in 0 .. Tasks!Never
    BY <1>0, <2>1
  <2>4. QED
    BY <1>1, <2>1, <2>2, <2>3, EmptyListFits
<1>5. CASE Tasks!SelectNothing
  <2>1. /\ taskSelected' = None /\ hyperv' = None /\ UNCHANGED <<version, stampAge, initial, served, frames>>
        /\ IF taskSelected # None THEN tasksShown' = Tasks!EmptyList /\ callers' = Tasks!Switched
           ELSE UNCHANGED <<tasksShown, callers>>
    BY <1>5 DEF Tasks!SelectNothing
  <2>2. CASE taskSelected # None
    <3>1. /\ callers' \subseteq Tasks!Caller
          /\ CallersInv(callers', served', Tasks!EmptyList, stampAge', version)
      BY <2>1, <2>2, SwitchKeeps
    <3>2. /\ served' \in [TaskSources -> Tasks!Versions \cup {Tasks!Waiting, Tasks!Idle}]
          /\ \A x \in TaskSources : served'[x] <= version[x]
      BY <2>1, TaskFacts DEF TasksInv, NotAhead
    <3>3. initial' \in BOOLEAN /\ stampAge' \in 0 .. Tasks!Never
      BY <1>0, <1>1, <2>1
    <3>4. QED
      BY <2>1, <2>2, <3>1, <3>2, <3>3, EmptyListFits
  <2>3. CASE taskSelected = None
    BY <2>1, <2>3 DEF TasksInv, Tasks!TypeOK, Tasks!OnlyTheSelected, NotAhead
  <2>4. QED
    BY <2>2, <2>3
<1>6. QED
  BY <1>3, <1>4, <1>5

\* A list that changes is new: whoever asked before is behind it.
LEMMA ListChanges ==
    ASSUME TasksInv, UNCHANGED <<taskSelected, hyperv, version, initial, callers, served>>, stampAge' = 0,
           tasksShown' \in [TaskSources -> Tasks!Versions],
           \A x \in TaskSources : tasksShown'[x] <= version[x],
           taskSelected # None => \A x \in TaskSources \ {taskSelected} : tasksShown'[x] = 0,
           frames' \in Seq([src : TaskSources, data : Tasks!Versions]), Len(frames') <= MaxFrames,
           \A i \in 1 .. Len(frames') : frames'[i].data <= version[frames'[i].src]
    PROVE  TasksInv'
<1>1. CallersInv(callers, served, tasksShown', 0, version)
  BY TaskFacts, UpdateKeeps DEF TasksInv
<1>2. 0 \in 0 .. Tasks!Never
  BY TaskNumbers, TaskBounds
<1>3. Tasks!TypeOK'
  BY <1>2, TaskNumbers DEF TasksInv, Tasks!TypeOK
<1>4. NotAhead'
  BY DEF TasksInv, NotAhead
<1>5. Tasks!OnlyTheSelected'
  BY TaskNumbers DEF Tasks!OnlyTheSelected
<1>6. QED
  BY <1>1, <1>3, <1>4, <1>5 DEF TasksInv

LEMMA TasksClear == ASSUME TasksInv, Tasks!ClearCompleted PROVE TasksInv'
<1>1. /\ tasksShown' = [s \in TaskSources |-> IF tasksShown[s] = MaxVersion THEN 0 ELSE tasksShown[s]]
      /\ stampAge' = 0
      /\ UNCHANGED <<taskSelected, hyperv, version, initial, callers, served, frames>>
  BY TaskNumbers DEF Tasks!ClearCompleted
<1>2. tasksShown' \in [TaskSources -> Tasks!Versions]
  BY <1>1, TaskFacts, TaskNumbers
<1>3. \A x \in TaskSources : tasksShown'[x] <= version[x]
  BY <1>1, TaskFacts DEF TasksInv, NotAhead
<1>4. taskSelected # None => \A x \in TaskSources \ {taskSelected} : tasksShown'[x] = 0
  BY <1>1, TaskNumbers DEF TasksInv, Tasks!OnlyTheSelected
<1>5. \A i \in 1 .. Len(frames) : frames[i].data <= version[frames[i].src]
  BY DEF TasksInv, NotAhead
<1>6. QED
  BY <1>1, <1>2, <1>3, <1>4, <1>5, TaskFacts, ListChanges

LEMMA TasksStream == ASSUME TasksInv, Tasks!FrameComes \/ Tasks!StreamBreaks PROVE TasksInv'
<1>0. frames \in Seq([src : TaskSources, data : Tasks!Versions]) /\ Len(frames) <= MaxFrames
  BY TaskFacts
<1>1. frames # <<>> /\ UNCHANGED <<taskSelected, hyperv, version, initial, callers, served>>
  BY DEF Tasks!FrameComes, Tasks!StreamBreaks
<1>2. /\ frames' \in Seq([src : TaskSources, data : Tasks!Versions]) /\ Len(frames') <= MaxFrames
      /\ \A i \in 1 .. Len(frames') : frames'[i].data <= version[frames'[i].src]
  <2>1. CASE frames' = <<>>
    BY <2>1, TaskBounds
  <2>2. CASE frames' = Tail(frames)
    <3>1. frames' \in Seq([src : TaskSources, data : Tasks!Versions]) /\ Len(frames') = Len(frames) - 1
      BY <1>0, <1>1, <2>2
    <3>2. Len(frames') <= MaxFrames
      BY <1>0, <3>1, TaskBounds
    <3>3. ASSUME NEW i \in 1 .. Len(frames') PROVE frames'[i].data <= version[frames'[i].src]
      <4>1. frames'[i] = frames[i + 1] /\ i + 1 \in 1 .. Len(frames)
        BY <1>0, <1>1, <2>2, <3>1
      <4>2. QED
        BY <4>1 DEF TasksInv, NotAhead
    <3>4. QED
      BY <3>1, <3>2, <3>3
  <2>3. QED
    BY <2>1, <2>2 DEF Tasks!FrameComes, Tasks!StreamBreaks
<1>3. CASE UNCHANGED <<tasksShown, stampAge>>
  <2>1. Tasks!TypeOK'
    BY <1>1, <1>2, <1>3, TaskNumbers DEF TasksInv, Tasks!TypeOK
  <2>2. NotAhead'
    BY <1>1, <1>2, <1>3 DEF TasksInv, NotAhead
  <2>3. QED
    BY <1>1, <1>3, <2>1, <2>2 DEF TasksInv, Tasks!OnlyTheSelected
<1>4. ASSUME NEW f, f = Head(frames), tasksShown' = Tasks!Merge(f.src, f.data), stampAge' = 0,
             taskSelected \in {None, f.src}
      PROVE  TasksInv'
  <2>1. f \in [src : TaskSources, data : Tasks!Versions]
    <3> DEFINE F == [src : TaskSources, data : Tasks!Versions]
    <3>1. frames \in Seq(F)
      BY <1>0
    <3> HIDE DEF F
    <3>2. f \in F
      BY <1>1, <1>4, <3>1
    <3>3. QED
      BY <3>2 DEF F
  <2>2. f = frames[1] /\ 1 \in 1 .. Len(frames)
    BY <1>0, <1>1, <1>4
  <2>3. f.src \in TaskSources /\ f.data \in Tasks!Versions
    BY <2>1
  <2>4. f.data <= version[f.src]
    BY <2>2 DEF TasksInv, NotAhead
  <2>5. /\ tasksShown' \in [TaskSources -> Tasks!Versions]
        /\ \A x \in TaskSources : tasksShown'[x] <= version[x]
        /\ \A x \in TaskSources : x # f.src => tasksShown'[x] = tasksShown[x]
    BY <1>4, <2>3, <2>4, MergeFacts
  <2>6. taskSelected # None => \A x \in TaskSources \ {taskSelected} : tasksShown'[x] = 0
    BY <1>4, <2>5, TaskNumbers DEF TasksInv, Tasks!OnlyTheSelected
  <2>7. QED
    BY <1>1, <1>2, <1>4, <2>5, <2>6, ListChanges
<1>5. QED
  BY <1>3, <1>4 DEF Tasks!FrameComes, Tasks!StreamBreaks

LEMMA TasksTick == ASSUME TasksInv, Tasks!Tick PROVE TasksInv'
<1>1. /\ callers' = {[k EXCEPT !.age = @ + 1] : k \in callers}
      /\ stampAge' = IF stampAge < Tasks!Never THEN stampAge + 1 ELSE Tasks!Never
      /\ UNCHANGED <<taskSelected, hyperv, version, tasksShown, initial, served, frames>>
      /\ \A k \in callers : k.age < MaxTaskFlight
  BY DEF Tasks!Tick
<1>2. stampAge' \in 0 .. Tasks!Never
  BY <1>1, TaskFacts, TaskBounds, TaskNumbers
<1>3. \A m \in callers' : \E k \in callers :
        /\ m = [k EXCEPT !.age = @ + 1] /\ m \in Tasks!Caller
        /\ m.src = k.src /\ m.age = k.age + 1 /\ m.own = k.own /\ m.data = k.data
  <2>1. SUFFICES ASSUME NEW k \in callers, NEW m, m = [k EXCEPT !.age = @ + 1]
                 PROVE  /\ m \in Tasks!Caller
                        /\ m.src = k.src /\ m.age = k.age + 1 /\ m.own = k.own /\ m.data = k.data
    BY <1>1
  <2>2. k \in Tasks!Caller /\ k.age + 1 \in 0 .. MaxTaskFlight
    BY <1>1, TaskFacts, CallerFields, TaskBounds
  <2>3. QED
    BY <2>1, <2>2 DEF Tasks!Caller
<1>4. ASSUME NEW k \in callers PROVE k.age + 1 > 0 /\ (k.age + 1 <= stampAge' => k.age <= stampAge)
  BY <1>1, TaskFacts, CallerFields, TaskBounds, TaskNumbers
<1>5. CallersInv(callers', served, tasksShown, stampAge', version)
  <2>1. \A k, m \in callers' : IsOwn(k) /\ IsOwn(m) /\ k.src = m.src => k = m
    <3>1. SUFFICES ASSUME NEW k \in callers', NEW m \in callers', IsOwn(k), IsOwn(m), k.src = m.src
                   PROVE  k = m
      OBVIOUS
    <3>2. PICK x \in callers : k = [x EXCEPT !.age = @ + 1] /\ x.src = k.src /\ x.own = k.own /\ x.data = k.data
      BY <1>3
    <3>3. PICK y \in callers : m = [y EXCEPT !.age = @ + 1] /\ y.src = m.src /\ y.own = m.own /\ y.data = m.data
      BY <1>3
    <3>4. x = y
      BY <3>1, <3>2, <3>3 DEF TasksInv, CallersInv, IsOwn
    <3>5. QED
      BY <3>2, <3>3, <3>4
  <2>2. ASSUME NEW m \in callers'
        PROVE  /\ m.data <= version[m.src]
               /\ m.data = Tasks!Waiting => served[m.src] # Tasks!Idle
               /\ IsOwn(m) /\ served[m.src] \in Tasks!Versions
                    => m.age > 0 /\ (m.age <= stampAge' => tasksShown[m.src] <= served[m.src])
               /\ m.own /\ m.data # Tasks!Waiting
                    => m.age > 0 /\ (m.age <= stampAge' => tasksShown[m.src] <= m.data)
    <3>1. PICK k \in callers : m.src = k.src /\ m.age = k.age + 1 /\ m.own = k.own /\ m.data = k.data
      BY <1>3
    <3>2. m.age > 0 /\ (m.age <= stampAge' => k.age <= stampAge)
      BY <1>4, <3>1
    <3>3. QED
      BY <3>1, <3>2 DEF TasksInv, CallersInv, IsOwn
  <2>3. QED
    BY <2>1, <2>2 DEF CallersInv
<1>6. callers' \subseteq Tasks!Caller
  BY <1>3
<1>7. Tasks!TypeOK'
  BY <1>1, <1>2, <1>6, TaskNumbers DEF TasksInv, Tasks!TypeOK
<1>8. QED
  BY <1>1, <1>5, <1>7 DEF TasksInv, NotAhead, Tasks!OnlyTheSelected

LEMMA TasksStep == ASSUME TasksInv, Tasks!Next PROVE TasksInv'
<1>1. CASE \E k \in callers : Tasks!Apply(k)
  BY <1>1, TasksApply
<1>2. CASE \E s \in TaskSources : Tasks!Serve(s) \/ Tasks!Answer(s) \/ Tasks!Fail(s) \/ Tasks!TaskMoves(s) \/ Tasks!Broadcast(s)
  BY <1>2, TasksServe, TasksAnswer, TasksFail, TasksServer
<1>3. QED
  BY <1>1, <1>2, TasksAsk, TasksSelect, TasksClear, TasksStream, TasksTick, TaskNumbers DEF Tasks!Next

LEMMA TasksRest == ASSUME TasksInv, UNCHANGED tasks PROVE TasksInv'
BY DEF TasksInv, Tasks!TypeOK, Tasks!OnlyTheSelected, NotAhead, tasks

-----------------------------------------------------------------------------
(* The page. *)

PageInv == TasksInv /\ Guests!TypeOK /\ RestoreInv /\ ViewInv /\ LiveInv

LEMMA PageStarts == ASSUME Init PROVE PageInv
BY TasksStart, GuestsStart, RestoreStarts, ViewStarts, LiveStarts DEF Init, PageInv

\* One part moves, the others rest.
LEMMA PageStep == ASSUME PageInv, [Next]_vars PROVE PageInv'
<1>1. CASE UNCHANGED vars
  BY <1>1, TasksRest, GuestsRest, ViewRests, LiveRests DEF PageInv, vars
<1>2. CASE Tasks!Next /\ UNCHANGED <<guests, view, live>>
  BY <1>2, TasksStep, GuestsRest, ViewRests, LiveRests DEF PageInv
<1>3. CASE Guests!Next /\ UNCHANGED <<tasks, view, live>>
  BY <1>3, TasksRest, GuestsTypes, RestoreStep, ViewRests, LiveRests DEF PageInv
<1>4. CASE View!Next /\ UNCHANGED <<tasks, guests, live>>
  BY <1>4, TasksRest, GuestsRest, ViewStep, LiveRests DEF PageInv
<1>5. CASE Updates!Next /\ UNCHANGED <<tasks, guests, view>>
  BY <1>5, TasksRest, GuestsRest, ViewRests, LiveStep DEF PageInv
<1>6. QED
  BY <1>1, <1>2, <1>3, <1>4, <1>5 DEF Next

LEMMA PageAlways == Spec => []PageInv
BY PageStarts, PageStep, PTL DEF Spec

\* Every variable of the task list, the guests, the views and the live stream holds a
\* value of its type, for every bound.
THEOREM PageTypes == Spec => []TypeOK
<1>1. PageInv => TypeOK
  BY DEF PageInv, TasksInv, ViewInv, LiveInv, TypeOK
<1>2. QED
  BY <1>1, PageAlways, PTL

\* fetchTasks and the frames never put a task of another cluster into the list of the
\* selected one, however many calls were under way when the selection changed.
THEOREM ListHoldsOnlyTheSelected == Spec => []OnlyTheSelected
<1>1. PageInv => OnlyTheSelected
  BY DEF PageInv, TasksInv, OnlyTheSelected
<1>2. QED
  BY <1>1, PageAlways, PTL

\* An answer of a request that fetchTasks itself made, and that started behind the last
\* update of the list, does not take the list back behind that update.
THEOREM LaterPollsGoForward == Spec => LaterPollNeverGoesBack
<1>1. ASSUME PageInv
      PROVE  \A k \in callers : Tasks!Apply(k) /\ ~k.init /\ k.own => tasksShown'[k.src] >= tasksShown[k.src]
  BY <1>1, TasksApply DEF PageInv
<1>2. QED
  BY <1>1, PageAlways, PTL DEF LaterPollNeverGoesBack, Tasks!LaterPollNeverGoesBack

\* What the HA settings send of their form is never another cluster's, whatever answers come
\* behind the switch of the cluster (handleSaveHASettings, fetchHAStatus).  The flag that
\* the status decides may be.
THEOREM FormIsOwn == Spec => []SaveWritesOwnForm
<1>1. PageInv => SaveWritesOwnForm
  BY DEF PageInv, ViewInv, SaveWritesOwnForm
<1>2. QED
  BY <1>1, PageAlways, PTL

\* The list of the guests is never that of a cluster that is selected no more.
THEOREM ListIsOfTheSelected == Spec => []View!ListOfTheSelected
<1>1. PageInv => View!ListOfTheSelected
  BY DEF PageInv, ViewInv
<1>2. QED
  BY <1>1, PageAlways, PTL

\* handleVmAction takes the actions of a guest that fail back to what the server said last,
\* for every number of guests and actions, unless the guest was clicked again while another
\* action of its was under way.
THEOREM FailuresAreRestored == Spec => []FailedActionRestored
<1>1. PageInv => FailedActionRestored
  BY DEF PageInv, RestoreInv, FailedActionRestored, Guests!FailedActionRestored
<1>2. QED
  BY <1>1, PageAlways, PTL

\* A step behind the cleanup opens no stream, unless it takes a token asked for before.
LEMMA LiveBehindTheCleanup ==
    ASSUME LiveInv, Updates!Next, isClosing
    PROVE  isClosing' /\ asking' <= asking /\ (Updates!Live' \ Updates!Live # {} => asking' < asking)
<1>0. asking \in Nat /\ stream \in Stream
  BY LiveParts, LiveBounds DEF Numbers
<1>1. CASE Updates!TokenComes \/ Updates!TokenFails
  <2>1. asking' = asking - 1 /\ UNCHANGED isClosing
    BY <1>1, Zenon DEF Updates!TokenComes, Updates!TokenFails
  <2>2. QED
    BY <1>0, <2>1
<1>2. CASE Updates!BackoffGoesOn \/ Updates!DelayedFires
  <2>1. asking' = asking /\ UNCHANGED <<stream, isClosing>>
    BY <1>2, Zenon DEF Updates!BackoffGoesOn, Updates!DelayedFires, Updates!ConnectSSE
  <2>2. QED
    BY <1>0, <2>1 DEF Updates!Live
<1>3. CASE Updates!RefreshGoesOn
  <2>1. stream' = stream \/ stream' = Updates!CloseShared(stream)
    BY <1>3 DEF Updates!RefreshGoesOn
  <2>2. Updates!Live' \subseteq Updates!Live
    BY <1>0, <2>1 DEF Updates!Live, Updates!CloseShared, Stream
  <2>3. UNCHANGED <<asking, isClosing>>
    BY <1>3 DEF Updates!RefreshGoesOn
  <2>4. QED
    BY <1>0, <2>2, <2>3
<1>4. ASSUME NEW i \in Updates!Streams,
             Updates!Opens(i) \/ Updates!Message(i) \/ Updates!Wedges(i) \/ Updates!Errors(i)
      PROVE  UNCHANGED <<asking, isClosing>> /\ Updates!Live' \subseteq Updates!Live
  <2>1. UNCHANGED <<asking, isClosing>>
    BY <1>4 DEF Updates!Opens, Updates!Message, Updates!Wedges, Updates!Errors
  <2>2. CASE ~Updates!Errors(i)
    BY <1>0, <1>4, <2>2 DEF Updates!Opens, Updates!Message, Updates!Wedges, Updates!Live, Stream
  <2>3. CASE Updates!Errors(i)
    <3>1. PICK after \in {"closed", "connecting"} :
            stream' = Updates!CloseShared([stream EXCEPT ![i] = IF after = "closed" /\ i # eventSource
                                                                THEN "none" ELSE after])
      BY <2>3 DEF Updates!Errors
    <3>2. \A j \in Updates!Streams \ {i} : stream'[j] = stream[j] \/ stream'[j] = "closed"
      BY <1>0, <3>1 DEF Updates!CloseShared, Stream
    <3>3. i \in Updates!Live
      BY <2>3 DEF Updates!Errors
    <3>4. QED
      BY <2>1, <3>2, <3>3 DEF Updates!Live
  <2>4. QED
    BY <2>1, <2>2, <2>3
<1>5. CASE Updates!BackoffFires \/ Updates!RefreshFires \/ Updates!Silence
  <2>1. UNCHANGED <<stream, asking, isClosing>>
    BY <1>5 DEF Updates!BackoffFires, Updates!RefreshFires, Updates!Silence
  <2>2. QED
    BY <1>0, <2>1 DEF Updates!Live
<1>6. ~Updates!HealthCheck /\ ~Updates!Cleanup
  BY DEF Updates!HealthCheck, Updates!Cleanup
<1>7. QED
  <2>1. CASE \E i \in Updates!Streams :
               Updates!Opens(i) \/ Updates!Message(i) \/ Updates!Wedges(i) \/ Updates!Errors(i)
    <3>1. UNCHANGED <<asking, isClosing>> /\ Updates!Live' \subseteq Updates!Live
      BY <1>4, <2>1
    <3>2. QED
      BY <1>0, <3>1
  <2>2. QED
    BY <1>1, <1>2, <1>3, <1>5, <1>6, <2>1 DEF Updates!Next

\* Behind the cleanup of the page no timer, message or failed stream asks for another
\* connection, and what still opens uses up a token that connectSSE asked for before: the
\* streams that outlive the page are never more than the calls it left waiting.
THEOREM CleanupBounds == Spec => Updates!CleanupBoundsStreams
<1>1. ASSUME PageInv, [Next]_vars
      PROVE  [isClosing => /\ isClosing' /\ asking' <= asking
                           /\ Updates!Live' \ Updates!Live # {} => asking' < asking]_(Updates!vars)
  <2>1. CASE UNCHANGED live
    BY <2>1 DEF live, Updates!vars
  <2>2. CASE Updates!Next
    BY <1>1, <2>2, LiveBehindTheCleanup DEF PageInv
  <2>3. QED
    BY <1>1, <2>1, <2>2 DEF Next, vars
<1>2. QED
  BY <1>1, PageAlways, PTL DEF Spec, Updates!CleanupBoundsStreams
=============================================================================
