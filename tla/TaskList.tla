------------------------------- MODULE TaskList -------------------------------
(***************************************************************************)
(* The task list of the dashboard (web/src/dashboard.js): fetchTasks, the  *)
(* polls and the refresh button that call it, the requests they share      *)
(* (_dedupeGet), the `tasks' frames of the live stream, and the effects    *)
(* that empty the list when another cluster or Hyper-V host is selected.   *)
(*                                                                         *)
(* The tasks of a source are one version number: each version is a later   *)
(* state of the same tasks, 0 is no task.  Times are ages, counted in      *)
(* ticks back from now, so that the clock needs no bound; taskFetchGen is  *)
(* the mark of the callers that are older than the last switch.            *)
(*                                                                         *)
(* Left out: the order and the cut of the list, cancelling a task, and     *)
(* addTask, which nothing calls.                                           *)
(***************************************************************************)
EXTENDS Integers, Sequences, FiniteSets

CONSTANTS
    Clusters, Hosts,  \* what can be selected: Proxmox clusters, Hyper-V hosts
    None,             \* no selection
    MaxVersion,       \* bound: versions of the tasks of one source
    MaxFlight,        \* bound: ticks from the call of fetchTasks to its end
    MaxCallers,       \* bound: calls of fetchTasks at one time
    MaxFrames,        \* bound: frames under way
    Quiet             \* a poll leaves out its round this soon after an update (3 s)

VARIABLES
    selected, hyperv,  \* selectedCluster and its ref, selectedHyperV
    version,           \* the tasks of each source, as the server has them
    shown,             \* the tasks of each source in the list
    stampAge,          \* now minus taskUpdateTimestamp
    initial,           \* initialTaskFetchPending
    callers,           \* the calls of fetchTasks under way
    served,            \* _inflightGets: what the request of a source was answered with
    frames             \* `tasks' frames of the stream, in order

vars == <<selected, hyperv, version, shown, stampAge, initial, callers, served, frames>>

Sources == Clusters \cup Hosts
Versions == 0 .. MaxVersion
Never == MaxFlight + 1      \* the age of taskUpdateTimestamp = 0, and of all that is as old
Waiting == -1               \* a request without an answer
Idle == -2                  \* no request

Caller == [src : Sources, age : 0 .. MaxFlight, init : BOOLEAN, fresh : BOOLEAN, own : BOOLEAN,
           data : Versions \cup {Waiting}]

Init ==
    /\ selected = None /\ hyperv = None
    /\ version = [s \in Sources |-> 0] /\ shown = [s \in Sources |-> 0]
    /\ stampAge = Never /\ initial = TRUE
    /\ callers = {} /\ served = [s \in Sources |-> Idle] /\ frames = <<>>

----------------------------------------------------------------------------
(* fetchTasks                                                              *)

\* authFetch of a plain GET: the caller has a request of its own, or shares the one
\* that is under way (own = FALSE).
Call(s, before, init) ==
    /\ Cardinality(before) < MaxCallers
    /\ callers' = before \cup {[src |-> s, age |-> 0, init |-> init, fresh |-> TRUE,
                                own |-> served[s] = Idle, data |-> Waiting]}
    /\ served' = IF served[s] = Idle THEN [served EXCEPT ![s] = Waiting] ELSE served

\* Fault: whatever was asked before the switch is still taken.
StillMineAlways(k) == TRUE

\* gen and the selected cluster have not moved on since the call.
StillMine(k) == k.fresh /\ selected = k.src

\* Fault: an answer is taken however old it is.
StaleNever(k) == FALSE

\* Fault: the start of the fetch is compared with the time of its answer.
StaleByNow(k) == ~k.init /\ k.age > 0

\* fetchStartTime < taskUpdateTimestamp; the first fetch of a selection skips it.
Stale(k) == ~k.init /\ k.age > stampAge

\* Fault: the rows that come are put behind those of the same task.
MergeAppends(s, v) == [shown EXCEPT ![s] = @ + v]

\* A merge never takes a task out: an empty list leaves the rows as they are.
Merge(s, v) == IF v = 0 THEN shown ELSE [shown EXCEPT ![s] = v]

\* Behind the await of the answer's body.
Apply(k) ==
    /\ k.data # Waiting
    /\ callers' = callers \ {k}
    /\ IF StillMine(k) /\ ~Stale(k)
       THEN /\ shown' = Merge(k.src, k.data) /\ stampAge' = 0
            /\ initial' = (initial /\ ~k.init)
       ELSE UNCHANGED <<shown, stampAge, initial>>
    /\ UNCHANGED <<selected, hyperv, version, served, frames>>

\* The request reaches the server, at least a tick behind its start.
Serve(s) ==
    /\ served[s] = Waiting
    /\ \E k \in callers : k.src = s /\ k.own /\ k.data = Waiting /\ k.age > 0
    /\ served' = [served EXCEPT ![s] = version[s]]
    /\ UNCHANGED <<selected, hyperv, version, shown, stampAge, initial, callers, frames>>

\* The answer arrives: every caller of the request has a copy of it.
Answer(s) ==
    /\ served[s] \in Versions
    /\ callers' = {IF k.src = s /\ k.data = Waiting THEN [k EXCEPT !.data = served[s]] ELSE k : k \in callers}
    /\ served' = [served EXCEPT ![s] = Idle]
    /\ UNCHANGED <<selected, hyperv, version, shown, stampAge, initial, frames>>

\* An error, or the answer is lost (a request that was lost before has the same effect).
Fail(s) ==
    /\ served[s] \in Versions
    /\ callers' = {k \in callers : k.src # s \/ k.data # Waiting}
    /\ served' = [served EXCEPT ![s] = Idle]
    /\ UNCHANGED <<selected, hyperv, version, shown, stampAge, initial, frames>>

----------------------------------------------------------------------------
(* Who calls it                                                            *)

\* The two intervals and the refresh button ask for what is in front.
InFront == IF selected # None THEN selected ELSE hyperv

\* The interval of 5 s, unless something has just been written.
Poll ==
    /\ InFront # None /\ stampAge >= Quiet
    /\ Call(InFront, callers, initial)
    /\ UNCHANGED <<selected, hyperv, version, shown, stampAge, initial, frames>>

Refresh ==
    /\ InFront # None
    /\ Call(InFront, callers, initial)
    /\ UNCHANGED <<selected, hyperv, version, shown, stampAge, initial, frames>>

Switched == {[k EXCEPT !.fresh = FALSE] : k \in callers}
EmptyList == [s \in Sources |-> 0]

\* The effects of another selected cluster: the generation moves on, the list is empty,
\* and the first fetch starts.
SelectCluster(c) ==
    /\ selected # c
    /\ selected' = c /\ hyperv' \in {None, hyperv}
    /\ shown' = EmptyList /\ stampAge' = Never /\ initial' = TRUE
    /\ Call(c, Switched, TRUE)
    /\ UNCHANGED <<version, frames>>

\* The effect of a Hyper-V host, and that of a cluster that is selected no more.
SelectHost(h) ==
    /\ selected # None \/ hyperv # h
    /\ selected' = None /\ hyperv' = h
    /\ shown' = EmptyList /\ stampAge' = Never /\ initial' = TRUE
    /\ Call(h, IF selected # None THEN Switched ELSE callers, TRUE)
    /\ UNCHANGED <<version, frames>>

SelectNothing ==
    /\ InFront # None
    /\ selected' = None /\ hyperv' = None
    /\ IF selected # None THEN shown' = EmptyList /\ callers' = Switched ELSE UNCHANGED <<shown, callers>>
    /\ UNCHANGED <<version, stampAge, initial, served, frames>>

\* clearCompletedTasks: the last version of a source has no running task left.
ClearCompleted ==
    /\ \E s \in Sources : shown[s] = MaxVersion
    /\ shown' = [s \in Sources |-> IF shown[s] = MaxVersion THEN 0 ELSE shown[s]]
    /\ stampAge' = 0
    /\ UNCHANGED <<selected, hyperv, version, initial, callers, served, frames>>

----------------------------------------------------------------------------
(* The server, the stream and the clock                                    *)

TaskMoves(s) ==
    /\ version[s] < MaxVersion
    /\ version' = [version EXCEPT ![s] = @ + 1]
    /\ UNCHANGED <<selected, hyperv, shown, stampAge, initial, callers, served, frames>>

Broadcast(s) ==
    /\ Len(frames) < MaxFrames
    /\ frames' = Append(frames, [src |-> s, data |-> version[s]])
    /\ UNCHANGED <<selected, hyperv, version, shown, stampAge, initial, callers, served>>

\* A frame of the selected cluster is written whatever it says; without a selected
\* cluster every frame is, and one that changes nothing is no update.
FrameComes ==
    /\ frames # <<>>
    /\ LET f == Head(frames)
       IN  \/ /\ selected = f.src
              /\ shown' = Merge(f.src, f.data) /\ stampAge' = 0
           \/ /\ selected = None
              /\ shown' = Merge(f.src, f.data)
              /\ stampAge' = IF shown' = shown THEN stampAge ELSE 0
           \/ /\ selected \notin {None, f.src}
              /\ UNCHANGED <<shown, stampAge>>
    /\ frames' = Tail(frames)
    /\ UNCHANGED <<selected, hyperv, version, initial, callers, served>>

StreamBreaks ==
    /\ frames # <<>>
    /\ frames' = <<>>
    /\ UNCHANGED <<selected, hyperv, version, shown, stampAge, initial, callers, served>>

Tick ==
    /\ \A k \in callers : k.age < MaxFlight
    /\ callers' = {[k EXCEPT !.age = @ + 1] : k \in callers}
    /\ stampAge' = IF stampAge < Never THEN stampAge + 1 ELSE Never
    /\ UNCHANGED <<selected, hyperv, version, shown, initial, served, frames>>

----------------------------------------------------------------------------
Next ==
    \/ \E k \in callers : Apply(k)
    \/ \E s \in Sources : Serve(s) \/ Answer(s) \/ Fail(s) \/ TaskMoves(s) \/ Broadcast(s)
    \/ Poll \/ Refresh \/ ClearCompleted
    \/ \E c \in Clusters : SelectCluster(c)
    \/ \E h \in Hosts : SelectHost(h)
    \/ SelectNothing \/ FrameComes \/ StreamBreaks \/ Tick

\* Intervals fire, time passes, and of the requests of a source not all fail.  Nothing
\* makes the server broadcast, the tasks move or the user do anything.
Fairness ==
    /\ WF_vars(Poll) /\ WF_vars(Tick) /\ WF_vars(FrameComes)
    /\ \A s \in Sources : WF_vars(Serve(s)) /\ SF_vars(Answer(s))
    /\ WF_vars(\E k \in callers : Apply(k))

Spec == Init /\ [][Next]_vars /\ Fairness

----------------------------------------------------------------------------
(* Properties                                                              *)

\* Every variable holds a value of its type.
TypeOK ==
    /\ selected \in Clusters \cup {None} /\ hyperv \in Hosts \cup {None}
    /\ version \in [Sources -> Versions] /\ shown \in [Sources -> Versions]
    /\ stampAge \in 0 .. Never /\ initial \in BOOLEAN
    /\ callers \subseteq Caller
    /\ served \in [Sources -> Versions \cup {Waiting, Idle}]
    /\ frames \in Seq([src : Sources, data : Versions]) /\ Len(frames) <= MaxFrames

\* The list of a selected cluster holds no task of another one, whatever was asked for
\* or was under way when the selection changed.
OnlyTheSelected == selected # None => \A s \in Sources \ {selected} : shown[s] = 0

\* What is asked for behind an update, with a request of its own, does not take the list
\* back behind that update.
LaterPollNeverGoesBack ==
    [][\A k \in callers : Apply(k) /\ ~k.init /\ k.own => shown'[k.src] >= shown[k.src]]_vars

\* Polling alone is enough: the list of a cluster comes to what the server has.
ListCatchesUp ==
    \A c \in Clusters : selected = c ~> (selected # c \/ shown[c] = version[c])

\* No poll takes the list back behind what it already showed.
PollNeverGoesBack ==
    [][\A k \in callers : Apply(k) /\ ~k.init => shown'[k.src] >= shown[k.src]]_vars

\* The read and the poll of a Hyper-V host bring its tasks into the list when the stream is quiet.
HostListCatchesUp ==
    \A h \in Hosts : (hyperv = h /\ selected = None)
        ~> (hyperv # h \/ selected # None \/ shown[h] = version[h])
=============================================================================
