---------------------------- MODULE BulkMigrate ----------------------------
(***************************************************************************)
(* Bulk migrations that run on the server (pegaprox/core/bulk_migrate.py), *)
(* from the request that plans one (_start_bulk_run in pegaprox/api/vms.py)*)
(* to the worker that starts and follows the migrations of its guests.     *)
(* Runs of one cluster share the registry and its lock; a request plans on *)
(* what the registry said before its preflight and registers after it.     *)
(*                                                                         *)
(* Waits (the poll, a status nobody can read, the CRM picking up a request)*)
(* are steps that may or may not come yet: nothing here measures them.     *)
(* Proxmox, the HA lease and the permissions of whoever started a run are  *)
(* the environment: each answers what it likes.                            *)
(***************************************************************************)
EXTENDS Naturals, FiniteSets

CONSTANTS
    Runs,               \* requests for a bulk migration
    Guests,             \* the guests they name
    HaGuests,           \* the ones under Proxmox HA
    Parallel,           \* run.parallel; 1 is the mode 'sequential'
    RunningPerCluster

ASSUME RunsAssumption ==
    /\ IsFiniteSet(Runs) /\ IsFiniteSet(Guests)
    /\ HaGuests \subseteq Guests
    /\ Parallel \in Nat \ {0} /\ RunningPerCluster \in Nat \ {0}

VARIABLES
    stage,      \* where the request or the worker of a run is
    state,      \* run.state, "none" until the run is registered
    all,        \* run.mode is 'all': its migrations are started and not followed
    cancelled,  \* run.cancelled_by is set
    row,        \* the state of each guest of a run
    flying,     \* the guests the worker follows
    todo,       \* the ones it has yet to look at in this round
    landing,    \* the ones whose HA request was taken (_ok_at)
    others,     \* further running runs of the cluster, with guests of their own
    task,       \* the migration in Proxmox
    active,     \* ha.is_active()
    managed     \* the cluster has a manager

vars == <<stage, state, all, cancelled, row, flying, todo, landing, others, task, active, managed>>
environment == <<others, task, active, managed>>

Over == {"done", "started", "failed", "skipped", "cancelled", "unknown"}
RowStates == {"none", "wait", "migrating"} \cup Over
Working == {"look", "claim", "begin", "sleep", "follow"}

TypeOK ==
    /\ stage \in [Runs -> {"idle", "planned", "refused", "finish", "over"} \cup Working]
    /\ state \in [Runs -> {"none", "running", "done", "cancelled", "stopped"}]
    /\ all \in [Runs -> BOOLEAN] /\ cancelled \in [Runs -> BOOLEAN]
    /\ row \in [Runs -> [Guests -> RowStates]]
    /\ flying \in [Runs -> SUBSET Guests]
    /\ todo \in [Runs -> SUBSET Guests]
    /\ landing \in [Runs -> SUBSET Guests]
    /\ task \in [Runs -> [Guests -> {"none", "running", "ok", "failed"}]]
    /\ others \in Nat /\ active \in BOOLEAN /\ managed \in BOOLEAN

In(r, s) == {g \in Guests : row[r][g] = s}

(* width: how many migrations of a run may be in flight. *)
Width(r) == IF all[r] THEN Cardinality({g \in Guests : row[r][g] # "none"}) ELSE Parallel

(* busy_vmids: what the running runs still have to move. *)
BusyVmids ==
    {g \in Guests : \E r \in Runs : state[r] = "running" /\ row[r][g] \in {"wait", "migrating"}}

Goto(r, s) == stage' = [stage EXCEPT ![r] = s]
Mark(r, g, s) == row' = [row EXCEPT ![r][g] = s]

-----------------------------------------------------------------------------
(* The request. *)

(* _start_bulk_run up to the preflight: a guest another run moves is skipped,*)
(* and so is one the preflight blocks or that is there already. With nothing *)
(* left to migrate the call is refused.                                      *)
Plan(r) ==
    /\ stage[r] = "idle"
    /\ \E m \in BOOLEAN : all' = [all EXCEPT ![r] = m]
    /\ \E named \in (SUBSET Guests) \ {{}}, blocked \in SUBSET Guests :
         LET waits == named \ (blocked \cup BusyVmids)
         IN  /\ row' = [row EXCEPT ![r] = [g \in Guests |->
                            IF g \notin named THEN "none"
                            ELSE IF g \in waits THEN "wait" ELSE "skipped"]]
             /\ Goto(r, IF waits = {} THEN "refused" ELSE "planned")
    /\ UNCHANGED <<state, cancelled, flying, todo, landing, environment>>

(* register, or TooMany; then launch.  The audit entry and the start of the  *)
(* thread lie in between: until its first step nothing tells them from a     *)
(* worker that has not looked yet.  A thread that cannot start is left out.  *)
Running == Cardinality({x \in Runs : state[x] = "running"}) + others
TooManyButOne == Running > RunningPerCluster
TooMany == Running >= RunningPerCluster
Register(r) ==
    /\ stage[r] = "planned"
    /\ IF TooMany
       THEN Goto(r, "refused") /\ UNCHANGED state
       ELSE Goto(r, "look") /\ state' = [state EXCEPT ![r] = "running"]
    /\ UNCHANGED <<all, cancelled, row, flying, todo, landing, environment>>

(* cancel *)
Cancel(r) ==
    /\ state[r] = "running" /\ ~cancelled[r]
    /\ cancelled' = [cancelled EXCEPT ![r] = TRUE]
    /\ UNCHANGED <<all, stage, state, row, flying, todo, landing, environment>>

-----------------------------------------------------------------------------
(* The worker. *)

(* _end_waiting and, when the run stops, _let_go. *)
EndRowAsRun(s, stops) ==
    IF s = "wait" THEN "stopped" ELSE IF s = "migrating" /\ stops THEN "unknown" ELSE s
EndRowAsCancelled(s, stops) ==
    IF s = "wait" \/ (s = "migrating" /\ stops) THEN "cancelled" ELSE s
EndRow(s, stops) ==
    IF s = "wait" THEN "cancelled"
    ELSE IF s = "migrating" /\ stops THEN "unknown" ELSE s
EndRows(r, stops) ==
    row' = [row EXCEPT ![r] = [g \in Guests |-> EndRow(row[r][g], stops)]]

Stop(r) ==
    /\ state' = [state EXCEPT ![r] = "stopped"]
    /\ EndRows(r, TRUE)
    /\ Goto(r, "finish")

(* Nothing in flight and nothing waiting ends the loop. *)
RestWithNothingAloft(r, rows, aloft) ==
    Goto(r, IF aloft = {} THEN "finish" ELSE "sleep")
Rest(r, rows, aloft) ==
    Goto(r, IF aloft = {} /\ \A g \in Guests : rows[g] # "wait" THEN "finish" ELSE "sleep")

LookForgetsTheWaiting(r) ==
    /\ stage[r] = "look"
    /\ \/ /\ ~active \/ ~managed
          /\ Stop(r)
       \/ /\ active /\ managed /\ cancelled[r]
          /\ Rest(r, row[r], flying[r])
          /\ UNCHANGED <<state, row>>
       \/ /\ active /\ managed /\ ~cancelled[r]
          /\ Goto(r, "claim")
          /\ UNCHANGED <<state, row>>
    /\ UNCHANGED <<all, cancelled, flying, todo, landing, environment>>
(* The top of the loop: the instance no longer acts or the cluster is gone,  *)
(* the run was cancelled, or it goes on.                                     *)
Look(r) ==
    /\ stage[r] = "look"
    /\ \/ /\ ~active \/ ~managed
          /\ Stop(r)
       \/ /\ active /\ managed /\ cancelled[r]
          /\ EndRows(r, FALSE)
          /\ Goto(r, IF flying[r] = {} THEN "finish" ELSE "sleep")
          /\ UNCHANGED state
       \/ /\ active /\ managed /\ ~cancelled[r]
          /\ Goto(r, "claim")
          /\ UNCHANGED <<state, row>>
    /\ UNCHANGED <<all, cancelled, flying, todo, landing, environment>>

(* _claim, under the lock cancel() takes. *)
MayClaimOneMore(r) == Cardinality(flying[r]) <= Width(r) /\ ~cancelled[r] /\ In(r, "wait") # {}
MayClaimUnasked(r) == Cardinality(flying[r]) < Width(r) /\ In(r, "wait") # {}
MayClaim(r) == Cardinality(flying[r]) < Width(r) /\ ~cancelled[r] /\ In(r, "wait") # {}
Claim(r) ==
    /\ stage[r] = "claim"
    /\ IF MayClaim(r)
       THEN /\ \E g \in In(r, "wait") : Mark(r, g, "migrating")
            /\ Goto(r, "begin")
       ELSE /\ Rest(r, row[r], flying[r])
            /\ UNCHANGED row
    /\ UNCHANGED <<all, state, cancelled, flying, todo, landing, environment>>

(* After a guest was begun the loop claims the next one, unless this         *)
(* instance stopped acting meanwhile.                                        *)
GoOn(r, rows, aloft) ==
    IF active THEN Goto(r, "claim") ELSE Rest(r, rows, aloft)

(* _begin of the claimed guest. It ends here when the guest is gone or on    *)
(* the target, the starter may not move it any more, Proxmox refused or its  *)
(* answer was lost, nobody follows the run or there is no task to follow.    *)
Begun(r, g, s) == Mark(r, g, s) /\ UNCHANGED flying /\ GoOn(r, row'[r], flying[r])
Begin(r) ==
    /\ stage[r] = "begin"
    /\ \E g \in In(r, "migrating") \ flying[r] :
         \/ /\ \E s \in {"failed", "done", "skipped"} : Begun(r, g, s)
            /\ UNCHANGED task
         \/ /\ task' = [task EXCEPT ![r][g] = "running"]
            /\ \/ Begun(r, g, "failed")
               \/ all[r] /\ Begun(r, g, "started")
               \/ ~all[r] /\ Begun(r, g, "unknown")
               \/ /\ ~all[r]
                  /\ flying' = [flying EXCEPT ![r] = @ \cup {g}]
                  /\ GoOn(r, row[r], flying'[r])
                  /\ UNCHANGED row
    /\ UNCHANGED <<all, state, cancelled, todo, landing, active, managed, others>>

(* The poll is over: look at what is in flight. *)
Wake(r) ==
    /\ stage[r] = "sleep"
    /\ IF flying[r] = {} \/ ~managed
       THEN Goto(r, "look") /\ UNCHANGED todo
       ELSE Goto(r, "follow") /\ todo' = [todo EXCEPT ![r] = flying[r]]
    /\ UNCHANGED <<all, state, cancelled, row, flying, landing, environment>>

(* One guest of the round was looked at: still on its way, or over as s. *)
Seen(r, g) == todo' = [todo EXCEPT ![r] = @ \ {g}]
Ended(r, g, s) ==
    /\ Mark(r, g, s)
    /\ flying' = [flying EXCEPT ![r] = @ \ {g}]
    /\ landing' = [landing EXCEPT ![r] = @ \ {g}]

(* _follow of a guest that moves by itself or whose HA request is not taken: *)
(* its task still runs or cannot be read yet, is over, or could not be read  *)
(* for too long.                                                             *)
FollowTask(r, g) ==
    /\ g \notin landing[r]
    /\ \/ UNCHANGED <<row, flying, landing>>
       \/ \E s \in {"done", "unknown"} : Ended(r, g, s)
       \/ task[r][g] = "ok" /\ g \notin HaGuests /\ Ended(r, g, "done")
       \/ task[r][g] = "failed" /\ g \notin HaGuests /\ Ended(r, g, "failed")

(* A guest under Proxmox HA whose task is over: where it is now decides, in  *)
(* this look or in a later one.                                              *)
FollowHa(r, g) ==
    /\ g \in HaGuests
    /\ g \in landing[r] \/ task[r][g] \in {"ok", "failed"}
    /\ \/ \E s \in {"done", "failed"} : Ended(r, g, s)
       \/ /\ landing' = [landing EXCEPT ![r] = @ \cup {g}]
          /\ UNCHANGED <<row, flying>>

Follow(r, g) ==
    /\ stage[r] = "follow" /\ g \in todo[r]
    /\ Seen(r, g)
    /\ FollowTask(r, g) \/ FollowHa(r, g)
    /\ UNCHANGED <<all, stage, state, cancelled, environment>>

RoundOver(r) ==
    /\ stage[r] = "follow" /\ todo[r] = {}
    /\ Goto(r, "look")
    /\ UNCHANGED <<all, state, cancelled, row, flying, todo, landing, environment>>

(* An exception anywhere in the loop. *)
BreaksOff(r) ==
    /\ stage[r] \in Working
    /\ Stop(r)
    /\ UNCHANGED <<all, cancelled, flying, todo, landing, environment>>

(* _finish *)
Finish(r) ==
    /\ stage[r] = "finish"
    /\ state' = [state EXCEPT ![r] = IF @ # "running" THEN @
                                     ELSE IF cancelled[r] THEN "cancelled" ELSE "done"]
    /\ Goto(r, "over")
    /\ UNCHANGED <<all, cancelled, row, flying, todo, landing, environment>>

-----------------------------------------------------------------------------
(* The environment. *)

TaskEnds(r, g) ==
    /\ task[r][g] = "running"
    /\ \E s \in {"ok", "failed"} : task' = [task EXCEPT ![r][g] = s]
    /\ UNCHANGED <<all, stage, state, cancelled, row, flying, todo, landing, active, managed, others>>

StopsActing ==
    /\ active /\ active' = FALSE
    /\ UNCHANGED <<all, stage, state, cancelled, row, flying, todo, landing, task, managed, others>>

\* Another run of the cluster is registered, or one of them ends.
OtherRegisters ==
    /\ ~TooMany /\ others' = others + 1
    /\ UNCHANGED <<stage, state, all, cancelled, row, flying, todo, landing, task, active, managed>>

OtherEnds ==
    /\ others > 0 /\ others' = others - 1
    /\ UNCHANGED <<stage, state, all, cancelled, row, flying, todo, landing, task, active, managed>>

ClusterRemoved ==
    /\ managed /\ managed' = FALSE
    /\ UNCHANGED <<all, stage, state, cancelled, row, flying, todo, landing, task, active, others>>

Init ==
    /\ stage = [r \in Runs |-> "idle"] /\ state = [r \in Runs |-> "none"]
    /\ cancelled = [r \in Runs |-> FALSE]
    /\ row = [r \in Runs |-> [g \in Guests |-> "none"]]
    /\ flying = [r \in Runs |-> {}] /\ todo = [r \in Runs |-> {}]
    /\ landing = [r \in Runs |-> {}]
    /\ task = [r \in Runs |-> [g \in Guests |-> "none"]]
    /\ all = [r \in Runs |-> FALSE] /\ others = 0
    /\ active = TRUE /\ managed = TRUE

Work(r) ==
    \/ Look(r) \/ Claim(r) \/ Begin(r) \/ Wake(r) \/ RoundOver(r) \/ Finish(r)
    \/ \E g \in Guests : Follow(r, g)

Next ==
    \/ \E r \in Runs : Plan(r) \/ Register(r) \/ Cancel(r) \/ Work(r) \/ BreaksOff(r)
    \/ \E r \in Runs, g \in Guests : TaskEnds(r, g)
    \/ OtherRegisters \/ OtherEnds
    \/ StopsActing \/ ClusterRemoved

Spec == Init /\ [][Next]_vars

(* A worker thread keeps running, a migration in Proxmox ends, and a guest   *)
(* whose task is over is not followed for ever: BLIND_SECONDS and            *)
(* LAND_SECONDS end that.                                                    *)
FollowedOut(r, g) ==
    Follow(r, g) /\ task[r][g] \in {"ok", "failed"} /\ g \notin flying'[r]
Fairness ==
    \A r \in Runs :
        /\ WF_vars(Work(r))
        /\ \A g \in Guests : WF_vars(TaskEnds(r, g)) /\ SF_vars(FollowedOut(r, g))

FairSpec == Spec /\ Fairness

-----------------------------------------------------------------------------
(* Correctness. *)

(* A run keeps at most its width of migrations in flight, the one it is just *)
(* starting included (work, _claim, _begin).                                 *)
WidthKept ==
    \A r \in Runs : Cardinality(In(r, "migrating")) <= Width(r)

(* A run that is over left no guest waiting or in flight, whichever way it   *)
(* ended: done, cancelled, stopped or broken off (_end_waiting, _let_go).    *)
NothingLeftOpen ==
    \A r \in Runs : stage[r] = "over" => In(r, "wait") \cup In(r, "migrating") = {}

(* A guest the run reports as not started was never asked to move: "Not      *)
(* started" is the note of every cancelled one (_end_waiting).               *)
NotStartedNeverAsked ==
    \A r \in Runs, g \in Guests :
        row[r][g] \in {"wait", "cancelled", "skipped"} => task[r][g] = "none"

(* However many requests planned at once, the cluster never has more runs    *)
(* going than it may: the registry counts under its lock (register).         *)
RegistryBounded ==
    Running <= RunningPerCluster

(* Once a cancel has answered, no guest is claimed any more (_claim).        *)
NoClaimAfterCancel ==
    [][\A r \in Runs, g \in Guests :
          cancelled[r] /\ row[r][g] = "wait" => row'[r][g] # "migrating"]_vars

(* Every run that started ends, whatever is cancelled, lost or removed       *)
(* meanwhile (work).                                                         *)
RunEnds == \A r \in Runs : stage[r] \in Working ~> stage[r] = "over"

(* A guest is in flight for one bulk migration at a time: what another one   *)
(* moves already is skipped (busy_vmids, _start_bulk_run).                   *)
OneRunMovesAGuest ==
    \A q, r \in Runs, g \in Guests :
        row[q][g] = "migrating" /\ row[r][g] = "migrating" => q = r

=============================================================================
