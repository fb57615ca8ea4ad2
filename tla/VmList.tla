-------------------------------- MODULE VmList --------------------------------
(***************************************************************************)
(* The guests of the selected cluster in the dashboard                     *)
(* (web/src/dashboard.js, tables.js): the status a click shows before the  *)
(* server has answered (handleVmAction), the `resources' frames and reads  *)
(* that replace the list, and the comparison that leaves a frame out.      *)
(*                                                                         *)
(* Two lists are kept: clusterResources, which is shown, and               *)
(* window.pegaproxVmList, with which the next frame is compared.  A click  *)
(* changes only the first.                                                 *)
(*                                                                         *)
(* Left out: the other columns of a row, and the switch of the cluster     *)
(* (ClusterView).                                                          *)
(***************************************************************************)
EXTENDS Naturals, Sequences, FiniteSets

CONSTANTS
    Vms,        \* the guests of the cluster
    MaxPending, \* bound: actions at one time
    MaxFrames   \* bound: frames under way

VARIABLES
    actual,   \* the status of each guest
    shown,    \* clusterResources: the status of each row, and its _optimistic mark
    vmList,   \* window.pegaproxVmList
    pending,  \* the actions of this page that are not answered
    accepted, \* an action was accepted since the list was last replaced
    crossed,  \* history: the guests clicked since then while another action of theirs was under way
    frames,   \* `resources' frames under way
    reading   \* answers of fetchClusterResources under way

vars == <<actual, shown, vmList, pending, accepted, crossed, frames, reading>>

Status == {"running", "stopped"}
List == [Vms -> Status]

\* expectedStatus
Expected == [start |-> "running", shutdown |-> "stopped", reboot |-> "running"]

Rows(list) == [v \in Vms |-> [status |-> list[v], optimistic |-> FALSE]]

Init ==
    /\ actual \in List
    /\ shown = Rows(actual) /\ vmList = actual
    /\ pending = {} /\ accepted = FALSE /\ crossed = {} /\ frames = <<>> /\ reading = {}

----------------------------------------------------------------------------
(* A power action of this page                                             *)

\* The button of an action is off while that action of that guest is under way.
Offered(v, a) ==
    /\ ~\E p \in pending : p.vm = v /\ p.action = a
    /\ shown[v].status = IF a = "start" THEN "stopped" ELSE "running"

Click(v, a) ==
    /\ Offered(v, a) /\ Cardinality(pending) < MaxPending
    /\ pending' = pending \cup {[vm |-> v, action |-> a, old |-> shown[v].status]}
    /\ shown' = [shown EXCEPT ![v] = [status |-> Expected[a], optimistic |-> TRUE]]
    /\ crossed' = IF \E p \in pending : p.vm = v THEN crossed \cup {v} ELSE crossed
    /\ UNCHANGED <<actual, vmList, accepted, frames, reading>>

\* Accepted: the flipped status stays, the stream will say what became of it.
Accept(p) ==
    /\ pending' = pending \ {p} /\ accepted' = TRUE
    /\ UNCHANGED <<actual, shown, vmList, crossed, frames, reading>>

\* Fault: the old status is put back over what came in between.
UnflipAlways(p) == [shown EXCEPT ![p.vm] = [status |-> p.old, optimistic |-> FALSE]]

\* unflip: the old status again, unless a list has replaced the row.
Unflip(p) ==
    IF shown[p.vm].optimistic
    THEN [shown EXCEPT ![p.vm] = [status |-> p.old, optimistic |-> FALSE]]
    ELSE shown

\* Refused, or no answer: the row goes back, and the list is read.
Refuse(p) ==
    /\ pending' = pending \ {p}
    /\ shown' = Unflip(p)
    /\ reading' = reading \cup {actual}
    /\ UNCHANGED <<actual, vmList, accepted, crossed, frames>>

----------------------------------------------------------------------------
(* What the server says                                                    *)

GuestMoves(v) ==
    /\ actual' = [actual EXCEPT ![v] = CHOOSE s \in Status : s # @]
    /\ UNCHANGED <<shown, vmList, pending, accepted, crossed, frames, reading>>

Broadcast ==
    /\ Len(frames) < MaxFrames
    /\ frames' = Append(frames, actual)
    /\ UNCHANGED <<actual, shown, vmList, pending, accepted, crossed, reading>>

\* areResourcesEqual with the list that was applied last: a frame that repeats it is left out.
Skips(list) == list = vmList

TakeList(list) ==
    IF Skips(list) THEN UNCHANGED <<shown, vmList, accepted, crossed>>
    ELSE shown' = Rows(list) /\ vmList' = list /\ accepted' = FALSE /\ crossed' = {}

FrameComes ==
    /\ frames # <<>>
    /\ TakeList(Head(frames))
    /\ frames' = Tail(frames)
    /\ UNCHANGED <<actual, pending, reading>>

\* The interval of 15 s; its answer is what the guests are when the server reads them.
Read ==
    /\ reading = {}
    /\ reading' = {actual}
    /\ UNCHANGED <<actual, shown, vmList, pending, accepted, crossed, frames>>

ReadComes(list) ==
    /\ TakeList(list)
    /\ reading' = reading \ {list}
    /\ UNCHANGED <<actual, pending, frames>>

\* An `action' event: someone's action was accepted, its status is shown at once.
ActionEvent(v, a) ==
    /\ accepted' = TRUE
    /\ shown' = [shown EXCEPT ![v].status = Expected[a]]
    /\ UNCHANGED <<actual, vmList, pending, crossed, frames, reading>>

----------------------------------------------------------------------------
Next ==
    \/ \E v \in Vms : GuestMoves(v) \/ \E a \in DOMAIN Expected : Click(v, a) \/ ActionEvent(v, a)
    \/ \E p \in pending : Accept(p) \/ Refuse(p)
    \/ Broadcast \/ FrameComes \/ Read \/ \E list \in reading : ReadComes(list)

Spec == Init /\ [][Next]_vars

----------------------------------------------------------------------------
(* Properties                                                              *)

\* Every variable holds a value of its type.
TypeOK ==
    /\ actual \in List /\ vmList \in List
    /\ shown \in [Vms -> [status : Status, optimistic : BOOLEAN]]
    /\ pending \subseteq [vm : Vms, action : DOMAIN Expected, old : Status]
    /\ accepted \in BOOLEAN /\ crossed \subseteq Vms /\ frames \in Seq(List) /\ reading \subseteq List

\* Where actions only failed, the row of a guest says again what the server said last once
\* none of its actions is under way: the flipped status is taken back, and neither a frame
\* nor the answer undoes the other.  It need not where a guest was clicked again meanwhile.
FailedActionRestored ==
    ~accepted => \A v \in Vms \ crossed :
        (~\E p \in pending : p.vm = v) => shown[v].status = vmList[v]

\* "a failed action puts the old status back itself", also with two actions of one guest.
EveryFailureRestored ==
    pending = {} /\ ~accepted => \A v \in Vms : shown[v].status = vmList[v]

\* A frame that is left out would have changed nothing on the screen.
SkippedFrameIsANoOp ==
    [][\A list \in reading : ReadComes(list) /\ Skips(list) /\ pending = {}
            => \A v \in Vms : shown[v].status = list[v]]_vars
=============================================================================
