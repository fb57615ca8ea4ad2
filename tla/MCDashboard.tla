----------------------------- MODULE MCDashboard -----------------------------
(* The page of a cluster for TLC: the task list, the guests, the views that  *)
(* follow the selected cluster, and the live stream. They keep separate      *)
(* state; one of them moves in a behaviour and the others rest as the page   *)
(* opened them.                                                              *)
EXTENDS Naturals, TLC

CONSTANTS Parts, None, c1, c2, h1, n1,
          TaskClusters, Hosts, MaxVersion, MaxTaskFlight, MaxCallers, MaxFrames, Quiet,
          Vms, MaxPending, MaxVmFrames,
          Clusters, Nodes, NodesOf, MaxFlight,
          MaxStreams, MaxAsking, MaxFaults, MaxAttempts

\* The stream starts with a request for a token.
ASSUME PageAssumption ==
    /\ {MaxVersion, MaxTaskFlight, MaxCallers, MaxFrames, Quiet, MaxPending, MaxVmFrames, MaxFlight,
        MaxStreams, MaxAsking, MaxFaults, MaxAttempts} \subseteq Nat
    /\ MaxAsking # 0

VARIABLES part,
          taskSelected, hyperv, version, tasksShown, stampAge, initial, callers, served, frames,
          actual, rows, vmList, pending, accepted, crossed, vmFrames, reading,
          selected, list, cache, down, nodeAlerts, closure, haOpen, haStatus, haSettings,
          saved, flight,
          stream, eventSource, token, asking, backoff, errAsking, refresh, refAsking,
          delayed, attempts, lastMsg, isClosing, faults

Tasks == INSTANCE TaskList WITH selected <- taskSelected, shown <- tasksShown,
             Clusters <- TaskClusters, MaxFlight <- MaxTaskFlight
Guests == INSTANCE VmList WITH shown <- rows, frames <- vmFrames, MaxFrames <- MaxVmFrames
View == INSTANCE ClusterView
Updates == INSTANCE LiveUpdates

tasks == <<taskSelected, hyperv, version, tasksShown, stampAge, initial, callers, served, frames>>
guests == <<actual, rows, vmList, pending, accepted, crossed, vmFrames, reading>>
view == <<selected, list, cache, down, nodeAlerts, closure, haOpen, haStatus, haSettings,
          saved, flight>>
live == <<stream, eventSource, token, asking, backoff, errAsking, refresh, refAsking,
          delayed, attempts, lastMsg, isClosing, faults>>
vars == <<part, tasks, guests, view, live>>

Init ==
    /\ part \in Parts
    /\ Tasks!Init /\ Guests!Init /\ View!Init /\ Updates!Init
    /\ part # "guests" => \A v \in Vms : actual[v] = "running"

Next ==
    /\ UNCHANGED part
    /\ \/ part = "tasks" /\ Tasks!Next /\ UNCHANGED <<guests, view, live>>
       \/ part = "guests" /\ Guests!Next /\ UNCHANGED <<tasks, view, live>>
       \/ part = "view" /\ View!Next /\ UNCHANGED <<tasks, guests, live>>
       \/ part = "live" /\ Updates!Next /\ UNCHANGED <<tasks, guests, view>>

Spec == Init /\ [][Next]_vars

\* The page without its stream (nothing of a part that rests is due, so its fairness
\* asks nothing of the other), and the stream alone.
PollSpec == Spec /\ Tasks!Fairness /\ View!Fairness
StreamSpec == Spec /\ Updates!Fairness

\* Two clusters with a node of one name (for the alerts), or without nodes.
SharedName == [c \in {c1, c2} |-> {n1}]
NoNodes == [c \in {c1, c2} |-> {}]

\* Nothing tells the clusters apart, nor the guests (for the safety runs).
Alike == Permutations({c1, c2}) \cup Permutations(Vms)

\* Every variable of the four parts holds a value of its type.
TypeOK == Tasks!TypeOK /\ Guests!TypeOK /\ View!TypeOK /\ Updates!TypeOK

\* The list of a selected cluster holds no task of another one, whatever fetchTasks had
\* under way when the selection changed.
OnlyTheSelected == Tasks!OnlyTheSelected

\* What fetchTasks asks for behind a tasks frame of the stream, with a request of its own,
\* does not take the list back behind that frame.
LaterPollNeverGoesBack == Tasks!LaterPollNeverGoesBack

\* The poll alone is enough: the task list of a cluster comes to what the server has, over
\* lost answers and without the stream.
ListCatchesUp == Tasks!ListCatchesUp

\* Where guest actions only failed, the row of a guest says again what the server said last:
\* handleVmAction takes the flipped status back, and no frame undoes that.  Not so where a
\* second action of the guest was clicked before the first was answered.
FailedActionRestored == Guests!FailedActionRestored

\* What the HA settings send of their form are the values of the cluster they are sent to.
SaveWritesOwnForm == View!SaveWritesOwnForm

\* An offline node of the selected cluster comes to have an alert of that cluster, with no
\* stream and over lost answers (the poll of the HA status); except where the render before
\* the switch had an alert of another cluster for the same name.
OfflineNodeAlerted == View!OfflineNodeAlerted

\* A page that ever had a message gets its live updates back, whatever failed: the stream,
\* a token request, or the connection without a word (the wedged check).
UpdatesComeBack == Updates!UpdatesComeBack

=============================================================================
