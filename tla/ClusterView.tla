----------------------------- MODULE ClusterView -----------------------------
(***************************************************************************)
(* What the dashboard keeps of the selected cluster (web/src/dashboard.js) *)
(* while clusters are switched: the lists (metrics, resources, pools,      *)
(* datastores, networks; they all go the same way), the HA settings with   *)
(* their form, and the alerts of offline nodes.                            *)
(*                                                                         *)
(* Every answer names the cluster it was asked for and is written only if  *)
(* that one is still selected.  fetchHAStatus also starts from the         *)
(* nodeAlerts of the render it was made in; the interval of a selected     *)
(* cluster keeps the function of the render of the switch.                 *)
(*                                                                         *)
(* A list, a status and a form are the cluster they are of.                *)
(***************************************************************************)
EXTENDS Naturals, FiniteSets

CONSTANTS
    Clusters,
    None,
    Nodes,      \* names of nodes
    NodesOf,    \* the nodes of each cluster
    MaxFlight   \* bound: requests at one time

VARIABLES
    selected,   \* selectedCluster and its ref
    list,       \* whose list is shown
    cache,      \* sidebarClusterData: the clusters it holds
    down,       \* the offline nodes of each cluster
    nodeAlerts, \* by the name of the node: the cluster_id of its alert
    closure,    \* nodeAlerts as the interval of the selected cluster has it
    haOpen,     \* showHaSettings
    haStatus,   \* whose status it is
    haSettings, \* whose values the form holds (None: the defaults)
    saved,      \* the last save: the cluster it went to, and whose form and whose flag it wrote
    flight      \* requests under way

vars == <<selected, list, cache, down, nodeAlerts, closure, haOpen, haStatus, haSettings, saved, flight>>

Alerts == [Nodes -> Clusters \cup {None}]
NoAlert == [n \in Nodes |-> None]

Request == [kind : {"list"}, cluster : Clusters]
           \cup [kind : {"ha", "save"}, cluster : Clusters, base : Alerts]
           \cup [kind : {"reload", "body"}, cluster : Clusters]

Init ==
    /\ selected = None /\ list = None /\ cache = {}
    /\ down = [c \in Clusters |-> {}]
    /\ nodeAlerts = NoAlert /\ closure = NoAlert
    /\ haOpen = FALSE /\ haStatus = None /\ haSettings = None
    /\ saved = [to |-> None, form |-> None, flag |-> None]
    /\ flight = {}

----------------------------------------------------------------------------
(* Selecting                                                               *)

Ask(reqs) == Cardinality(flight \cup reqs) <= MaxFlight /\ flight' = flight \cup reqs

\* The effects of a switch: the lists come from the sidebar, the rest is emptied, the
\* settings close, and the first requests start.
Select(c) ==
    /\ selected # c
    /\ selected' = c
    /\ list' = IF c \in cache THEN c ELSE None
    /\ nodeAlerts' = NoAlert /\ closure' = nodeAlerts
    /\ haOpen' = FALSE
    /\ Ask({[kind |-> "list", cluster |-> c], [kind |-> "ha", cluster |-> c, base |-> nodeAlerts]})
    /\ UNCHANGED <<cache, down, haStatus, haSettings, saved>>

SelectNothing ==
    /\ selected # None
    /\ selected' = None /\ list' = None
    /\ nodeAlerts' = NoAlert /\ closure' = NoAlert
    /\ haOpen' = FALSE
    /\ UNCHANGED <<cache, down, haStatus, haSettings, saved, flight>>

----------------------------------------------------------------------------
(* The lists                                                               *)

StillSelected(c) == selected = c

PollLists ==
    /\ selected # None
    /\ Ask({[kind |-> "list", cluster |-> selected]})
    /\ UNCHANGED <<selected, list, cache, down, nodeAlerts, closure, haOpen, haStatus, haSettings, saved>>

\* The sidebar keeps the answer whatever is selected.
ListComes(r) ==
    /\ r.kind = "list"
    /\ flight' = flight \ {r}
    /\ cache' = cache \cup {r.cluster}
    /\ list' = IF StillSelected(r.cluster) THEN r.cluster ELSE list
    /\ UNCHANGED <<selected, down, nodeAlerts, closure, haOpen, haStatus, haSettings, saved>>

\* `metrics' and `resources' frames.
FrameComes(c) ==
    /\ StillSelected(c)
    /\ list' = c
    /\ UNCHANGED <<selected, cache, down, nodeAlerts, closure, haOpen, haStatus, haSettings, saved, flight>>

----------------------------------------------------------------------------
(* The HA status, its form and the alerts                                  *)

\* The interval of 30 s.
PollHa ==
    /\ selected # None
    /\ Ask({[kind |-> "ha", cluster |-> selected, base |-> closure]})
    /\ UNCHANGED <<selected, list, cache, down, nodeAlerts, closure, haOpen, haStatus, haSettings, saved>>

\* Fault: the settings open on the status that is there.
OpenHaKeepsStatus ==
    /\ selected # None /\ ~haOpen
    /\ haOpen' = TRUE
    /\ Ask({[kind |-> "ha", cluster |-> selected, base |-> nodeAlerts]})
    /\ UNCHANGED <<selected, list, cache, down, nodeAlerts, closure, haStatus, haSettings, saved>>

\* The button opens the settings on nothing and asks for the status.
OpenHa ==
    /\ selected # None /\ ~haOpen
    /\ haOpen' = TRUE /\ haStatus' = None /\ haSettings' = None
    /\ Ask({[kind |-> "ha", cluster |-> selected, base |-> nodeAlerts]})
    /\ UNCHANGED <<selected, list, cache, down, nodeAlerts, closure, saved>>

CloseHa ==
    /\ haOpen
    /\ haOpen' = FALSE
    /\ UNCHANGED <<selected, list, cache, down, nodeAlerts, closure, haStatus, haSettings, saved, flight>>

\* Fault: a node that is offline is only taken out, never put in.
AlertsRemoveOnly(c, base) == [n \in Nodes |-> IF n \in NodesOf[c] \ down[c] THEN None ELSE base[n]]

\* newAlerts: an offline node gets one unless its name has one, an online node loses it.
AlertsAfter(c, base) ==
    [n \in Nodes |-> IF n \notin NodesOf[c] THEN base[n]
                     ELSE IF n \notin down[c] THEN None
                     ELSE IF base[n] = None THEN c ELSE base[n]]

HaComes(r) ==
    /\ r.kind = "ha"
    /\ flight' = flight \ {r}
    /\ IF StillSelected(r.cluster)
       THEN /\ haStatus' = r.cluster /\ haSettings' = r.cluster
            /\ nodeAlerts' = AlertsAfter(r.cluster, r.base)
       ELSE UNCHANGED <<haStatus, haSettings, nodeAlerts>>
    /\ UNCHANGED <<selected, list, cache, down, closure, haOpen, saved>>

\* reloadHaStatus, from the node parts of the open settings.
Reload ==
    /\ haOpen /\ haStatus # None
    /\ Ask({[kind |-> "reload", cluster |-> selected]})
    /\ UNCHANGED <<selected, list, cache, down, nodeAlerts, closure, haOpen, haStatus, haSettings, saved>>

\* Its answer is looked at before its body is awaited, and not again behind it.
ReloadComes(r) ==
    /\ r.kind = "reload"
    /\ flight' = IF StillSelected(r.cluster)
                 THEN (flight \ {r}) \cup {[kind |-> "body", cluster |-> r.cluster]} ELSE flight \ {r}
    /\ UNCHANGED <<selected, list, cache, down, nodeAlerts, closure, haOpen, haStatus, haSettings, saved>>

ReloadBody(r) ==
    /\ r.kind = "body"
    /\ flight' = flight \ {r}
    /\ haStatus' = IF haStatus = None THEN None ELSE r.cluster
    /\ UNCHANGED <<selected, list, cache, down, nodeAlerts, closure, haOpen, haSettings, saved>>

\* handleSaveHASettings: off until the status is here.  The values are those of the form,
\* unsafe_two_node_recovery is what the status says.
Save ==
    /\ haOpen /\ haStatus # None
    /\ Ask({[kind |-> "save", cluster |-> selected, base |-> nodeAlerts]})
    /\ saved' = [to |-> selected, form |-> haSettings, flag |-> haStatus]
    /\ UNCHANGED <<selected, list, cache, down, nodeAlerts, closure, haOpen, haStatus, haSettings>>

\* The answer closes the settings and reads the status again, with the cluster and the
\* alerts of the render of the click.
SaveComes(r) ==
    /\ r.kind = "save"
    /\ haOpen' = FALSE
    /\ flight' = (flight \ {r}) \cup {[r EXCEPT !.kind = "ha"]}
    /\ UNCHANGED <<selected, list, cache, down, nodeAlerts, closure, haStatus, haSettings, saved>>

RequestFails(r) ==
    /\ flight' = flight \ {r}
    /\ UNCHANGED <<selected, list, cache, down, nodeAlerts, closure, haOpen, haStatus, haSettings, saved>>

----------------------------------------------------------------------------
(* Nodes                                                                   *)

\* A node goes or comes back; with the stream up (told), node_status says so.
NodeMoves(c, n, told) ==
    /\ n \in NodesOf[c]
    /\ down' = [down EXCEPT ![c] = IF n \in @ THEN @ \ {n} ELSE @ \cup {n}]
    /\ nodeAlerts' = IF told /\ selected = c
                     THEN [nodeAlerts EXCEPT ![n] = IF n \in down[c] THEN None ELSE c]
                     ELSE nodeAlerts
    /\ UNCHANGED <<selected, list, cache, closure, haOpen, haStatus, haSettings, saved, flight>>

\* The banner of an alert is dismissed.
Dismiss(n) ==
    /\ nodeAlerts[n] # None
    /\ nodeAlerts' = [nodeAlerts EXCEPT ![n] = None]
    /\ UNCHANGED <<selected, list, cache, down, closure, haOpen, haStatus, haSettings, saved, flight>>

----------------------------------------------------------------------------
Next ==
    \/ \E c \in Clusters : Select(c) \/ FrameComes(c)
                           \/ \E n \in Nodes, told \in BOOLEAN : NodeMoves(c, n, told)
    \/ SelectNothing \/ PollLists \/ PollHa \/ OpenHa \/ CloseHa \/ Reload \/ Save
    \/ \E r \in flight : ListComes(r) \/ HaComes(r) \/ ReloadComes(r) \/ ReloadBody(r)
                         \/ SaveComes(r) \/ RequestFails(r)
    \/ \E n \in Nodes : Dismiss(n)

\* The interval fires, and of its requests not all fail.
Fairness ==
    /\ SF_vars(PollHa)
    /\ WF_vars(\E r \in flight : ListComes(r) \/ ReloadComes(r) \/ ReloadBody(r) \/ SaveComes(r))
    /\ SF_vars(\E r \in flight : r.cluster = selected /\ HaComes(r))
    /\ WF_vars(\E r \in flight : HaComes(r))

Spec == Init /\ [][Next]_vars /\ Fairness

----------------------------------------------------------------------------
(* Properties                                                              *)

\* Every variable holds a value of its type.
TypeOK ==
    /\ selected \in Clusters \cup {None} /\ list \in Clusters \cup {None}
    /\ cache \subseteq Clusters /\ down \in [Clusters -> SUBSET Nodes]
    /\ nodeAlerts \in Alerts /\ closure \in Alerts
    /\ haOpen \in BOOLEAN /\ haStatus \in Clusters \cup {None} /\ haSettings \in Clusters \cup {None}
    /\ saved \in [{"to", "form", "flag"} -> Clusters \cup {None}]
    /\ flight \subseteq Request

\* The lists in front are never another cluster's, whatever was under way at the switch.
ListOfTheSelected == list \in {None, selected}

\* The form of the cluster before is not written to this one: the values Save takes from
\* the form are those of the cluster it sends them to.
SaveWritesOwnForm == saved.to = saved.form

\* Nor is the flag it takes from the status.
SaveWritesOwnFlag == saved.to = saved.flag

\* An offline node of the selected cluster comes to have an alert of that cluster, with
\* no stream and over lost answers; except where the interval was made in a render with an
\* alert of another cluster for the same name.
OfflineNodeAlerted ==
    \A c \in Clusters : \A n \in NodesOf[c] :
        (selected = c /\ n \in down[c])
            ~> (selected # c \/ n \notin down[c] \/ nodeAlerts[n] = c \/ closure[n] \notin {None, c})

\* The same without the exception.
OwnNodeAlerted ==
    \A c \in Clusters : \A n \in NodesOf[c] :
        (selected = c /\ n \in down[c])
            ~> (selected # c \/ n \notin down[c] \/ nodeAlerts[n] = c)

\* The alerts are those of the selected cluster.
AlertsOfTheSelected == \A n \in Nodes : nodeAlerts[n] \in {None, selected}

\* The open settings show the status of the selected cluster.
StatusOfTheSelected == haOpen => haStatus \in {None, selected}
=============================================================================
