-------------------------- MODULE BulkMigrateProofs --------------------------
(***************************************************************************)
(* What the runs of BulkMigrate check on three guests, proved for every    *)
(* set of runs and guests, every width and every limit of the registry.    *)
(*                                                                         *)
(* A step moves one run or none (OthersUntouched), so the invariant is     *)
(* stated and proved for one run at a time.                                *)
(***************************************************************************)
EXTENDS BulkMigrate, FiniteSetTheorems, TLAPS

-----------------------------------------------------------------------------
(* The inductive invariant. *)

\* Up to its registration a run has started nothing.
PlannedInv(r) ==
    stage[r] \in {"idle", "planned", "refused"} =>
        flying[r] = {} /\ In(r, "migrating") = {} /\ \A g \in Guests : task[r][g] = "none"

\* While it works, what is in flight is what its rows say, up to the one guest that
\* was claimed and that Proxmox has not been asked about.
AloftInv(r) ==
    /\ stage[r] \in Working \ {"begin"} => In(r, "migrating") = flying[r]
    /\ stage[r] = "begin" =>
         \E g \in Guests \ flying[r] : In(r, "migrating") = flying[r] \cup {g} /\ task[r][g] = "none"

\* A run that is followed has room for what it follows, and for the claimed guest.
RoomInv(r) ==
    stage[r] \in Working /\ ~all[r] =>
        IF stage[r] = "begin" THEN Cardinality(flying[r]) < Parallel
        ELSE Cardinality(flying[r]) <= Parallel

\* A run whose loop is over has closed all its rows.
ClosedInv(r) ==
    stage[r] \in {"finish", "over"} => In(r, "wait") = {} /\ In(r, "migrating") = {}

\* A guest that is not started was not asked to move.
AskedInv(r) ==
    \A g \in Guests : row[r][g] \in {"wait", "cancelled", "skipped"} => task[r][g] = "none"

RunInv(r) == PlannedInv(r) /\ AloftInv(r) /\ RoomInv(r) /\ ClosedInv(r) /\ AskedInv(r)

BulkInv == TypeOK /\ \A r \in Runs : RunInv(r)

\* A step of one run, or of the tasks of its guests.
StepOf(r) ==
    \/ Plan(r) \/ Register(r) \/ Cancel(r) \/ Work(r) \/ BreaksOff(r)
    \/ \E g \in Guests : TaskEnds(r, g)

\* A step of the environment that belongs to no run.
StepOfNone == OtherRegisters \/ OtherEnds \/ StopsActing \/ ClusterRemoved

-----------------------------------------------------------------------------
(* Types. *)

LEMMA GotoType ==
    ASSUME TypeOK, NEW r \in Runs,
           NEW s \in {"idle", "planned", "refused", "finish", "over"} \cup Working,
           Goto(r, s)
    PROVE  stage' \in [Runs -> {"idle", "planned", "refused", "finish", "over"} \cup Working]
BY DEF TypeOK, Goto

LEMMA MarkType ==
    ASSUME TypeOK, NEW r \in Runs, NEW g \in Guests, NEW s \in RowStates, Mark(r, g, s)
    PROVE  row' \in [Runs -> [Guests -> RowStates]]
BY DEF TypeOK, Mark

LEMMA RestType ==
    ASSUME TypeOK, NEW r \in Runs, NEW rows, NEW aloft, Rest(r, rows, aloft)
    PROVE  stage' \in [Runs -> {"idle", "planned", "refused", "finish", "over"} \cup Working]
BY DEF TypeOK, Rest, Goto, Working

LEMMA StopType ==
    ASSUME TypeOK, NEW r \in Runs, Stop(r)
    PROVE  /\ stage' \in [Runs -> {"idle", "planned", "refused", "finish", "over"} \cup Working]
           /\ state' \in [Runs -> {"none", "running", "done", "cancelled", "stopped"}]
           /\ row' \in [Runs -> [Guests -> RowStates]]
<1>1. \A g \in Guests : EndRow(row[r][g], TRUE) \in RowStates
  BY DEF TypeOK, EndRow, RowStates, Over
<1>2. QED
  BY <1>1 DEF TypeOK, Stop, EndRows, Goto

LEMMA PlanType == ASSUME TypeOK, NEW r \in Runs, Plan(r) PROVE TypeOK'
<1>1. PICK m \in BOOLEAN : all' = [all EXCEPT ![r] = m]
  BY DEF Plan
<1>2. PICK named \in (SUBSET Guests) \ {{}}, blocked \in SUBSET Guests :
        LET waits == named \ (blocked \cup BusyVmids)
        IN  /\ row' = [row EXCEPT ![r] = [g \in Guests |->
                            IF g \notin named THEN "none"
                            ELSE IF g \in waits THEN "wait" ELSE "skipped"]]
            /\ Goto(r, IF waits = {} THEN "refused" ELSE "planned")
  BY DEF Plan
<1>3. row' \in [Runs -> [Guests -> RowStates]]
  BY <1>2 DEF TypeOK, RowStates, Over
<1>4. stage' \in [Runs -> {"idle", "planned", "refused", "finish", "over"} \cup Working]
  BY <1>2 DEF TypeOK, Goto
<1>5. QED
  BY <1>1, <1>3, <1>4 DEF TypeOK, Plan, environment

LEMMA RegisterType == ASSUME TypeOK, NEW r \in Runs, Register(r) PROVE TypeOK'
BY DEF TypeOK, Register, Goto, Working, environment

LEMMA CancelType == ASSUME TypeOK, NEW r \in Runs, Cancel(r) PROVE TypeOK'
BY DEF TypeOK, Cancel, environment

LEMMA LookType == ASSUME TypeOK, NEW r \in Runs, Look(r) PROVE TypeOK'
<1>1. CASE Stop(r)
  BY <1>1, StopType DEF TypeOK, Look, environment
<1>2. CASE EndRows(r, FALSE) /\ Goto(r, IF flying[r] = {} THEN "finish" ELSE "sleep") /\ UNCHANGED state
  <2>1. \A g \in Guests : EndRow(row[r][g], FALSE) \in RowStates
    BY DEF TypeOK, EndRow, RowStates, Over
  <2>2. QED
    BY <1>2, <2>1 DEF TypeOK, Look, EndRows, Goto, Working, environment
<1>3. CASE Goto(r, "claim") /\ UNCHANGED <<state, row>>
  BY <1>3 DEF TypeOK, Look, Goto, Working, environment
<1>4. QED
  BY <1>1, <1>2, <1>3 DEF Look

LEMMA ClaimType == ASSUME TypeOK, NEW r \in Runs, Claim(r) PROVE TypeOK'
<1>1. CASE MayClaim(r)
  <2>1. PICK g \in In(r, "wait") : Mark(r, g, "migrating")
    BY <1>1 DEF Claim
  <2>2. row' \in [Runs -> [Guests -> RowStates]]
    BY <2>1, MarkType DEF In, RowStates
  <2>3. stage' \in [Runs -> {"idle", "planned", "refused", "finish", "over"} \cup Working]
    BY <1>1, GotoType DEF Claim, Working
  <2>4. QED
    BY <2>2, <2>3 DEF TypeOK, Claim, environment
<1>2. CASE ~MayClaim(r)
  BY <1>2, RestType DEF TypeOK, Claim, environment
<1>3. QED
  BY <1>1, <1>2

LEMMA GoOnType ==
    ASSUME TypeOK, NEW r \in Runs, NEW rows, NEW aloft, GoOn(r, rows, aloft)
    PROVE  stage' \in [Runs -> {"idle", "planned", "refused", "finish", "over"} \cup Working]
BY RestType DEF TypeOK, GoOn, Goto, Working

LEMMA BeginType == ASSUME TypeOK, NEW r \in Runs, Begin(r) PROVE TypeOK'
<1>1. PICK g \in In(r, "migrating") \ flying[r] :
         \/ /\ \E s \in {"failed", "done", "skipped"} : Begun(r, g, s)
            /\ UNCHANGED task
         \/ /\ task' = [task EXCEPT ![r][g] = "running"]
            /\ \/ Begun(r, g, "failed")
               \/ all[r] /\ Begun(r, g, "started")
               \/ ~all[r] /\ Begun(r, g, "unknown")
               \/ /\ ~all[r]
                  /\ flying' = [flying EXCEPT ![r] = @ \cup {g}]
                  /\ GoOn(r, row[r], flying'[r])
                  /\ UNCHANGED row
  BY DEF Begin
<1>2. g \in Guests
  BY DEF In
<1>3. task' \in [Runs -> [Guests -> {"none", "running", "ok", "failed"}]]
  <2>1. CASE UNCHANGED task
    BY <2>1 DEF TypeOK
  <2>2. CASE task' = [task EXCEPT ![r][g] = "running"]
    BY <1>2, <2>2 DEF TypeOK
  <2>3. QED
    BY <1>1, <2>1, <2>2
<1>4. CASE \E s \in RowStates : Begun(r, g, s)
  <2>1. PICK s \in RowStates : Begun(r, g, s)
    BY <1>4
  <2>2. row' \in [Runs -> [Guests -> RowStates]]
    BY <1>2, <2>1, MarkType DEF Begun
  <2>3. stage' \in [Runs -> {"idle", "planned", "refused", "finish", "over"} \cup Working]
    BY <2>1, GoOnType DEF Begun
  <2>4. QED
    BY <1>3, <2>1, <2>2, <2>3 DEF TypeOK, Begin, Begun
<1>5. CASE flying' = [flying EXCEPT ![r] = @ \cup {g}] /\ GoOn(r, row[r], flying'[r]) /\ UNCHANGED row
  <2>1. stage' \in [Runs -> {"idle", "planned", "refused", "finish", "over"} \cup Working]
    BY <1>5, GoOnType
  <2>2. flying' \in [Runs -> SUBSET Guests]
    BY <1>2, <1>5 DEF TypeOK
  <2>3. QED
    BY <1>3, <1>5, <2>1, <2>2 DEF TypeOK, Begin
<1>6. QED
  BY <1>1, <1>4, <1>5 DEF RowStates, Over

LEMMA WakeType == ASSUME TypeOK, NEW r \in Runs, Wake(r) PROVE TypeOK'
BY DEF TypeOK, Wake, Goto, Working, environment

LEMMA FollowType ==
    ASSUME TypeOK, NEW r \in Runs, NEW g \in Guests, Follow(r, g) PROVE TypeOK'
<1>1. todo' \in [Runs -> SUBSET Guests]
  BY DEF TypeOK, Follow, Seen
<1>2. CASE \E s \in {"done", "unknown", "failed"} : Ended(r, g, s)
  BY <1>1, <1>2 DEF TypeOK, Follow, Ended, Mark, RowStates, Over, environment
<1>3. CASE UNCHANGED <<row, flying>> /\ landing' \in {landing, [landing EXCEPT ![r] = @ \cup {g}]}
  <2>1. landing' \in [Runs -> SUBSET Guests]
    BY <1>3 DEF TypeOK
  <2>2. QED
    BY <1>1, <1>3, <2>1 DEF TypeOK, Follow, environment
<1>4. QED
  BY <1>2, <1>3 DEF Follow, FollowTask, FollowHa

LEMMA RoundOverType == ASSUME TypeOK, NEW r \in Runs, RoundOver(r) PROVE TypeOK'
BY DEF TypeOK, RoundOver, Goto, Working, environment

LEMMA BreaksOffType == ASSUME TypeOK, NEW r \in Runs, BreaksOff(r) PROVE TypeOK'
BY StopType DEF TypeOK, BreaksOff, environment

LEMMA FinishType == ASSUME TypeOK, NEW r \in Runs, Finish(r) PROVE TypeOK'
BY DEF TypeOK, Finish, Goto, environment

LEMMA TaskEndsType ==
    ASSUME TypeOK, NEW r \in Runs, NEW g \in Guests, TaskEnds(r, g) PROVE TypeOK'
BY DEF TypeOK, TaskEnds

LEMMA StepOfNoneType == ASSUME TypeOK, StepOfNone PROVE TypeOK'
<1>1. CASE OtherRegisters \/ OtherEnds
  BY <1>1 DEF TypeOK, OtherRegisters, OtherEnds
<1>2. CASE StopsActing
  BY <1>2 DEF TypeOK, StopsActing
<1>3. CASE ClusterRemoved
  BY <1>3 DEF TypeOK, ClusterRemoved
<1>4. QED
  BY <1>1, <1>2, <1>3 DEF StepOfNone

\* Every step belongs to one run or to none.
LEMMA StepsSplit == Next => StepOfNone \/ \E r \in Runs : StepOf(r)
BY DEF Next, StepOf, StepOfNone

LEMMA StepType == ASSUME TypeOK, NEW r \in Runs, StepOf(r) PROVE TypeOK'
BY PlanType, RegisterType, CancelType, LookType, ClaimType, BeginType, WakeType, FollowType,
   RoundOverType, BreaksOffType, FinishType, TaskEndsType DEF StepOf, Work

\* Every variable of the runs, their rows and the registry keeps its type.
THEOREM BulkTypes == Spec => []TypeOK
<1>1. Init => TypeOK
  BY DEF Init, TypeOK, RowStates
<1>2. TypeOK /\ [Next]_vars => TypeOK'
  <2> SUFFICES ASSUME TypeOK, [Next]_vars PROVE TypeOK'
    OBVIOUS
  <2>1. CASE Next
    BY <2>1, StepsSplit, StepType, StepOfNoneType
  <2>2. CASE UNCHANGED vars
    BY <2>2 DEF TypeOK, vars
  <2>3. QED
    BY <2>1, <2>2
<1>3. QED
  BY <1>1, <1>2, PTL DEF Spec

-----------------------------------------------------------------------------
(* The invariant of one run. *)

\* The part of the state a run's invariant speaks of.
Same(q) ==
    /\ stage'[q] = stage[q] /\ all'[q] = all[q] /\ row'[q] = row[q]
    /\ flying'[q] = flying[q] /\ task'[q] = task[q]

LEMMA SameKeeps == ASSUME NEW q \in Runs, RunInv(q), Same(q) PROVE RunInv(q)'
BY DEF Same, RunInv, PlannedInv, AloftInv, RoomInv, ClosedInv, AskedInv, In, Working

\* A step of one run leaves every other run alone: they share only the registry.
LEMMA OthersUntouched ==
    ASSUME TypeOK, NEW r \in Runs, StepOf(r), NEW q \in Runs, q # r
    PROVE  Same(q)
<1>1. CASE Plan(r)
  BY <1>1 DEF TypeOK, Plan, Goto, Same, environment
<1>2. CASE Register(r) \/ Cancel(r) \/ Wake(r) \/ RoundOver(r) \/ Finish(r)
  BY <1>2 DEF TypeOK, Register, Cancel, Wake, RoundOver, Finish, Goto, Same, environment
<1>3. CASE Look(r) \/ BreaksOff(r)
  BY <1>3 DEF TypeOK, Look, BreaksOff, Stop, EndRows, Goto, Same, environment
<1>4. CASE Claim(r)
  BY <1>4 DEF TypeOK, Claim, Rest, Mark, Goto, Same, environment
<1>5. CASE Begin(r)
  BY <1>5 DEF TypeOK, Begin, Begun, GoOn, Rest, Mark, Goto, Same
<1>6. CASE \E g \in Guests : Follow(r, g)
  BY <1>6 DEF TypeOK, Follow, FollowTask, FollowHa, Ended, Mark, Same, environment
<1>7. CASE \E g \in Guests : TaskEnds(r, g)
  BY <1>7 DEF TypeOK, TaskEnds, Same
<1>8. QED
  BY <1>1, <1>2, <1>3, <1>4, <1>5, <1>6, <1>7 DEF StepOf, Work

\* What is in flight is a finite set of guests.
LEMMA FlyingFinite ==
    ASSUME TypeOK, NEW r \in Runs
    PROVE  IsFiniteSet(flying[r]) /\ Cardinality(flying[r]) \in Nat
<1>1. flying[r] \in SUBSET Guests
  BY DEF TypeOK
<1>2. QED
  BY <1>1, RunsAssumption, FS_Subset, FS_CardinalityType

LEMMA PlanKeeps == ASSUME TypeOK, NEW r \in Runs, RunInv(r), Plan(r) PROVE RunInv(r)'
<1>1. PICK named \in (SUBSET Guests) \ {{}}, blocked \in SUBSET Guests :
        LET waits == named \ (blocked \cup BusyVmids)
        IN  /\ row' = [row EXCEPT ![r] = [g \in Guests |->
                            IF g \notin named THEN "none"
                            ELSE IF g \in waits THEN "wait" ELSE "skipped"]]
            /\ Goto(r, IF waits = {} THEN "refused" ELSE "planned")
  BY DEF Plan
<1>2. stage'[r] \in {"refused", "planned"} /\ flying'[r] = {} /\ task'[r] = task[r]
  BY <1>1 DEF TypeOK, Plan, Goto, RunInv, PlannedInv, environment
<1>3. \A g \in Guests : row'[r][g] # "migrating" /\ task[r][g] = "none"
  BY <1>1 DEF TypeOK, Plan, RunInv, PlannedInv
<1>4. QED
  BY <1>2, <1>3 DEF RunInv, PlannedInv, AloftInv, RoomInv, ClosedInv, AskedInv, In, Working

LEMMA RegisterKeeps == ASSUME TypeOK, NEW r \in Runs, RunInv(r), Register(r) PROVE RunInv(r)'
<1>1. stage[r] = "planned" /\ stage'[r] \in {"refused", "look"} /\ row'[r] = row[r]
      /\ flying'[r] = flying[r] /\ task'[r] = task[r] /\ all'[r] = all[r]
  BY DEF TypeOK, Register, Goto, environment
<1>2. Cardinality(flying[r]) = 0
  BY <1>1, FS_EmptySet DEF RunInv, PlannedInv
<1>3. QED
  BY <1>1, <1>2, RunsAssumption
  DEF RunInv, PlannedInv, AloftInv, RoomInv, ClosedInv, AskedInv, In, Working

LEMMA CancelKeeps == ASSUME TypeOK, NEW r \in Runs, RunInv(r), Cancel(r) PROVE RunInv(r)'
BY SameKeeps DEF Cancel, Same, environment

\* _end_waiting and _let_go close every row, and ask nothing of Proxmox.
LEMMA StopKeeps ==
    ASSUME TypeOK, NEW r \in Runs, RunInv(r), Stop(r), UNCHANGED <<all, flying, task>>
    PROVE  RunInv(r)'
<1>1. stage'[r] = "finish" /\ \A g \in Guests : row'[r][g] = EndRow(row[r][g], TRUE)
  BY DEF TypeOK, Stop, EndRows, Goto
<1>2. \A g \in Guests : row'[r][g] \notin {"wait", "migrating"}
  BY <1>1 DEF EndRow
<1>3. ClosedInv(r)'
  BY <1>2 DEF ClosedInv, In
<1>4. AskedInv(r)'
  <2>1. ASSUME NEW g \in Guests, row'[r][g] \in {"cancelled", "skipped"} PROVE task[r][g] = "none"
    <3>1. row[r][g] \in {"wait", "cancelled", "skipped"} \/ row[r][g] = "migrating"
      BY <1>1, <2>1 DEF EndRow
    <3>2. row[r][g] # "migrating"
      BY <1>1, <2>1 DEF EndRow
    <3>3. QED
      BY <3>1, <3>2 DEF RunInv, AskedInv
  <2>2. QED
    BY <1>2, <2>1 DEF AskedInv
<1>5. PlannedInv(r)' /\ AloftInv(r)' /\ RoomInv(r)'
  BY <1>1 DEF PlannedInv, AloftInv, RoomInv, Working
<1>6. QED
  BY <1>3, <1>4, <1>5 DEF RunInv

LEMMA LookKeeps == ASSUME TypeOK, NEW r \in Runs, RunInv(r), Look(r) PROVE RunInv(r)'
<1>1. stage[r] = "look" /\ UNCHANGED <<all, flying, task>>
  BY DEF Look, environment
<1>2. CASE Stop(r)
  BY <1>1, <1>2, StopKeeps
<1>3. CASE EndRows(r, FALSE) /\ Goto(r, IF flying[r] = {} THEN "finish" ELSE "sleep")
  <2>1. \A g \in Guests : row'[r][g] = EndRow(row[r][g], FALSE)
    BY <1>3 DEF TypeOK, EndRows
  <2>2. stage'[r] = IF flying[r] = {} THEN "finish" ELSE "sleep"
    BY <1>3 DEF TypeOK, Goto
  <2>3. In(r, "migrating")' = In(r, "migrating") /\ In(r, "wait")' = {}
    BY <2>1 DEF In, EndRow
  <2>4. AskedInv(r)'
    BY <1>1, <2>1 DEF EndRow, RunInv, AskedInv
  <2>5. QED
    BY <1>1, <2>2, <2>3, <2>4 DEF RunInv, PlannedInv, AloftInv, RoomInv, ClosedInv, Working
<1>4. CASE Goto(r, "claim") /\ UNCHANGED <<state, row>>
  <2>1. stage'[r] = "claim"
    BY <1>4 DEF TypeOK, Goto
  <2>2. QED
    BY <1>1, <1>4, <2>1 DEF RunInv, PlannedInv, AloftInv, RoomInv, ClosedInv, AskedInv, In, Working
<1>5. QED
  BY <1>2, <1>3, <1>4 DEF Look

\* The loop ends only when no row of the run is open.
LEMMA RestKeeps ==
    ASSUME TypeOK, NEW r \in Runs, NEW aloft, aloft = flying'[r],
           In(r, "migrating")' = flying'[r], AskedInv(r)', row'[r] \in [Guests -> RowStates],
           ~all'[r] => Cardinality(flying'[r]) <= Parallel,
           Rest(r, row'[r], aloft) \/ Goto(r, "claim")
    PROVE  RunInv(r)'
<1>1. CASE Goto(r, "claim")
  <2>1. stage'[r] = "claim"
    BY <1>1 DEF TypeOK, Goto
  <2>2. QED
    BY <2>1 DEF RunInv, PlannedInv, AloftInv, RoomInv, ClosedInv, Working
<1>2. CASE Rest(r, row'[r], aloft)
  <2>1. stage'[r] \in {"finish", "sleep"}
        /\ (stage'[r] = "finish" => flying'[r] = {} /\ \A g \in Guests : row'[r][g] # "wait")
    BY <1>2 DEF TypeOK, Rest, Goto
  <2>2. QED
    BY <2>1 DEF RunInv, PlannedInv, AloftInv, RoomInv, ClosedInv, In, Working
<1>3. QED
  BY <1>1, <1>2

LEMMA ClaimKeeps == ASSUME TypeOK, NEW r \in Runs, RunInv(r), Claim(r) PROVE RunInv(r)'
<1>1. stage[r] = "claim" /\ UNCHANGED <<all, flying, task>>
  BY DEF Claim, environment
<1>2. In(r, "migrating") = flying[r]
  BY <1>1 DEF RunInv, AloftInv, Working
<1>3. CASE MayClaim(r)
  <2>1. PICK g \in In(r, "wait") : Mark(r, g, "migrating")
    BY <1>3 DEF Claim
  <2>2. g \in Guests \ flying[r] /\ task[r][g] = "none"
    BY <1>2 DEF In, RunInv, AskedInv
  <2>3. \A h \in Guests : row'[r][h] = IF h = g THEN "migrating" ELSE row[r][h]
    BY <2>1, <2>2 DEF TypeOK, Mark
  <2>4. In(r, "migrating")' = flying[r] \cup {g}
    BY <1>2, <2>2, <2>3 DEF In
  <2>5. stage'[r] = "begin"
    BY <1>3 DEF TypeOK, Claim, Goto
  <2>6. ~all[r] => Cardinality(flying[r]) < Parallel
    BY <1>3 DEF MayClaim, Width
  <2>7. AloftInv(r)'
    BY <1>1, <2>2, <2>4, <2>5 DEF AloftInv, Working
  <2>8. AskedInv(r)'
    BY <1>1, <2>3 DEF RunInv, AskedInv
  <2>9. QED
    BY <1>1, <2>5, <2>6, <2>7, <2>8 DEF RunInv, PlannedInv, RoomInv, ClosedInv
<1>4. CASE ~MayClaim(r)
  <2>1. row' = row /\ Rest(r, row'[r], flying'[r])
    BY <1>1, <1>4 DEF Claim
  <2>2. In(r, "migrating")' = flying'[r] /\ AskedInv(r)'
    BY <1>1, <1>2, <2>1 DEF In, RunInv, AskedInv
  <2>3. ~all'[r] => Cardinality(flying'[r]) <= Parallel
    BY <1>1 DEF RunInv, RoomInv, Working
  <2>4. row'[r] \in [Guests -> RowStates]
    BY <2>1 DEF TypeOK
  <2>5. QED
    BY <2>1, <2>2, <2>3, <2>4, RestKeeps
<1>5. QED
  BY <1>3, <1>4

\* Begun: the claimed guest is over before it flew.
LEMMA BegunKeeps ==
    ASSUME TypeOK, NEW r \in Runs, RunInv(r), stage[r] = "begin",
           NEW g \in In(r, "migrating") \ flying[r], NEW s \in Over \ {"cancelled"}, Begun(r, g, s),
           UNCHANGED <<all, flying>>, \A h \in Guests \ {g} : task'[r][h] = task[r][h],
           s = "skipped" => UNCHANGED task
    PROVE  RunInv(r)'
<1>1. PICK h \in Guests \ flying[r] : In(r, "migrating") = flying[r] \cup {h} /\ task[r][h] = "none"
  BY DEF RunInv, AloftInv
<1>2. g = h /\ g \in Guests
  BY <1>1 DEF In
<1>3. \A k \in Guests : row'[r][k] = IF k = g THEN s ELSE row[r][k]
  BY <1>2 DEF TypeOK, Begun, Mark
<1>4. In(r, "migrating")' = flying'[r]
  BY <1>1, <1>2, <1>3 DEF In, Over
<1>5. AskedInv(r)'
  BY <1>1, <1>2, <1>3 DEF RunInv, AskedInv, Over
<1>6. ~all'[r] => Cardinality(flying'[r]) <= Parallel
  BY FlyingFinite, RunsAssumption DEF RunInv, RoomInv, Working
<1>7. row'[r] \in [Guests -> RowStates]
  BY <1>2, MarkType DEF Begun, RowStates
<1>8. Rest(r, row'[r], flying'[r]) \/ Goto(r, "claim")
  BY DEF Begun, GoOn
<1>9. QED
  BY <1>4, <1>5, <1>6, <1>7, <1>8, RestKeeps

LEMMA BeginKeeps == ASSUME TypeOK, NEW r \in Runs, RunInv(r), Begin(r) PROVE RunInv(r)'
<1>1. PICK g \in In(r, "migrating") \ flying[r] :
         \/ /\ \E s \in {"failed", "done", "skipped"} : Begun(r, g, s)
            /\ UNCHANGED task
         \/ /\ task' = [task EXCEPT ![r][g] = "running"]
            /\ \/ Begun(r, g, "failed")
               \/ all[r] /\ Begun(r, g, "started")
               \/ ~all[r] /\ Begun(r, g, "unknown")
               \/ /\ ~all[r]
                  /\ flying' = [flying EXCEPT ![r] = @ \cup {g}]
                  /\ GoOn(r, row[r], flying'[r])
                  /\ UNCHANGED row
  BY DEF Begin
<1>2. stage[r] = "begin" /\ UNCHANGED all /\ g \in Guests
  BY DEF Begin, In
<1>3. CASE (\E s \in {"failed", "done", "skipped"} : Begun(r, g, s)) /\ UNCHANGED task
  <2>1. PICK s \in {"failed", "done", "skipped"} : Begun(r, g, s)
    BY <1>3
  <2>2. UNCHANGED flying /\ s \in Over \ {"cancelled"}
    BY <2>1 DEF Begun, Over
  <2>3. QED
    BY <1>2, <1>3, <2>1, <2>2, BegunKeeps
<1>4. ASSUME NEW s \in {"failed", "started", "unknown"}, Begun(r, g, s),
             task' = [task EXCEPT ![r][g] = "running"]
      PROVE  RunInv(r)'
  <2>1. UNCHANGED flying /\ s \in Over \ {"cancelled"}
    BY <1>4 DEF Begun, Over
  <2>2. \A h \in Guests \ {g} : task'[r][h] = task[r][h]
    BY <1>2, <1>4 DEF TypeOK
  <2>3. QED
    BY <1>2, <1>4, <2>1, <2>2, BegunKeeps
<1>5. CASE /\ ~all[r] /\ flying' = [flying EXCEPT ![r] = @ \cup {g}]
           /\ GoOn(r, row[r], flying'[r])
           /\ UNCHANGED row /\ task' = [task EXCEPT ![r][g] = "running"]
  <2>1. PICK h \in Guests \ flying[r] : In(r, "migrating") = flying[r] \cup {h}
    BY <1>2 DEF RunInv, AloftInv
  <2>2. flying'[r] = flying[r] \cup {g} /\ g = h
    BY <1>5, <2>1 DEF TypeOK
  <2>3. In(r, "migrating")' = flying'[r]
    BY <1>5, <2>1, <2>2 DEF In
  <2>4. AskedInv(r)'
    BY <1>1, <1>2, <1>5 DEF TypeOK, RunInv, AskedInv, In
  <2>5. Cardinality(flying'[r]) <= Parallel
    <3>1. Cardinality(flying[r]) < Parallel
      BY <1>2, <1>5 DEF RunInv, RoomInv, Working
    <3>2. Cardinality(flying'[r]) = Cardinality(flying[r]) + 1
      BY <2>2, FlyingFinite, FS_AddElement
    <3>3. QED
      BY <3>1, <3>2, FlyingFinite, RunsAssumption
  <2>6. row'[r] \in [Guests -> RowStates]
    BY <1>5 DEF TypeOK
  <2>7. Rest(r, row'[r], flying'[r]) \/ Goto(r, "claim")
    BY <1>5 DEF GoOn
  <2>8. QED
    BY <2>3, <2>4, <2>5, <2>6, <2>7, RestKeeps
<1>6. QED
  BY <1>1, <1>3, <1>4, <1>5

LEMMA WakeKeeps ==
    ASSUME TypeOK, NEW r \in Runs, RunInv(r), Wake(r) \/ RoundOver(r) PROVE RunInv(r)'
<1>1. stage[r] \in {"sleep", "follow"} /\ stage'[r] \in {"look", "follow"}
  BY DEF TypeOK, Wake, RoundOver, Goto
<1>2. UNCHANGED <<all, row, flying, task>>
  BY DEF Wake, RoundOver, environment
<1>3. QED
  BY <1>1, <1>2 DEF RunInv, PlannedInv, AloftInv, RoomInv, ClosedInv, AskedInv, In, Working

LEMMA Shrinks ==
    ASSUME NEW S, IsFiniteSet(S), NEW x
    PROVE  Cardinality(S \ {x}) <= Cardinality(S) /\ Cardinality(S \ {x}) \in Nat
<1>1. S \ {x} \in SUBSET S
  OBVIOUS
<1>2. Cardinality(S \ {x}) <= Cardinality(S) /\ IsFiniteSet(S \ {x})
  BY <1>1, FS_Subset
<1>3. QED
  BY <1>2, FS_CardinalityType

LEMMA Grows ==
    ASSUME NEW S, IsFiniteSet(S), NEW x
    PROVE  Cardinality(S \cup {x}) <= Cardinality(S) + 1 /\ IsFiniteSet(S \cup {x})
<1>1. Cardinality(S) \in Nat
  BY FS_CardinalityType
<1>2. /\ IsFiniteSet(S \cup {x})
      /\ Cardinality(S \cup {x}) = IF x \in S THEN Cardinality(S) ELSE Cardinality(S) + 1
  BY FS_AddElement
<1>3. QED
  BY <1>1, <1>2

\* A guest that is followed to its end leaves the rows and what is in flight together.
LEMMA FollowKeeps ==
    ASSUME TypeOK, NEW r \in Runs, NEW g \in Guests, RunInv(r), Follow(r, g) PROVE RunInv(r)'
<1>1. stage[r] = "follow" /\ UNCHANGED <<all, stage, task>>
  BY DEF Follow, environment
<1>2. CASE \E s \in {"done", "unknown", "failed"} : Ended(r, g, s)
  <2>1. PICK s \in {"done", "unknown", "failed"} : Ended(r, g, s)
    BY <1>2
  <2>2. /\ flying'[r] = flying[r] \ {g}
        /\ \A h \in Guests : row'[r][h] = IF h = g THEN s ELSE row[r][h]
    BY <2>1 DEF TypeOK, Ended, Mark
  <2>3. In(r, "migrating")' = flying'[r]
    BY <1>1, <2>2 DEF RunInv, AloftInv, In, Working
  <2>4. IsFiniteSet(flying[r]) /\ Cardinality(flying[r]) \in Nat
    BY FlyingFinite
  <2>5. Cardinality(flying'[r]) <= Cardinality(flying[r]) /\ Cardinality(flying'[r]) \in Nat
    BY <2>2, <2>4, Shrinks
  <2>6. ~all'[r] => Cardinality(flying'[r]) <= Parallel
    BY <1>1, <2>4, <2>5, RunsAssumption DEF RunInv, RoomInv, Working
  <2>7. AskedInv(r)'
    BY <1>1, <2>2 DEF RunInv, AskedInv
  <2>8. QED
    BY <1>1, <2>3, <2>6, <2>7 DEF RunInv, PlannedInv, AloftInv, RoomInv, ClosedInv, Working
<1>3. CASE UNCHANGED <<row, flying>>
  BY <1>1, <1>3, SameKeeps DEF Same
<1>4. QED
  BY <1>2, <1>3 DEF Follow, FollowTask, FollowHa

LEMMA BreaksOffKeeps == ASSUME TypeOK, NEW r \in Runs, RunInv(r), BreaksOff(r) PROVE RunInv(r)'
BY StopKeeps DEF BreaksOff, environment

LEMMA FinishKeeps == ASSUME TypeOK, NEW r \in Runs, RunInv(r), Finish(r) PROVE RunInv(r)'
<1>1. stage[r] = "finish" /\ stage'[r] = "over" /\ UNCHANGED <<all, row, flying, task>>
  BY DEF TypeOK, Finish, Goto, environment
<1>2. QED
  BY <1>1 DEF RunInv, PlannedInv, AloftInv, RoomInv, ClosedInv, AskedInv, In, Working

\* Only a migration that was started ends.
LEMMA TaskEndsKeeps ==
    ASSUME TypeOK, NEW r \in Runs, NEW g \in Guests, RunInv(r), TaskEnds(r, g) PROVE RunInv(r)'
<1>1. task[r][g] = "running" /\ UNCHANGED <<all, stage, row, flying>>
  BY DEF TaskEnds
<1>2. \A h \in Guests \ {g} : task'[r][h] = task[r][h]
  BY DEF TypeOK, TaskEnds
<1>3. \A h \in Guests : task[r][h] = "none" => task'[r][h] = "none"
  BY <1>1, <1>2
<1>4. QED
  BY <1>1, <1>3 DEF RunInv, PlannedInv, AloftInv, RoomInv, ClosedInv, AskedInv, In, Working

LEMMA StepKeeps == ASSUME TypeOK, NEW r \in Runs, RunInv(r), StepOf(r) PROVE RunInv(r)'
BY PlanKeeps, RegisterKeeps, CancelKeeps, LookKeeps, ClaimKeeps, BeginKeeps, WakeKeeps, FollowKeeps,
   BreaksOffKeeps, FinishKeeps, TaskEndsKeeps DEF StepOf, Work

\* The invariant of the runs of a cluster, in whichever order their requests, workers,
\* cancels and failures come.
THEOREM BulkCorrect == Spec => []BulkInv
<1>1. Init => BulkInv
  BY DEF Init, BulkInv, TypeOK, RowStates, RunInv, PlannedInv, AloftInv, RoomInv, ClosedInv,
         AskedInv, In, Working
<1>2. BulkInv /\ [Next]_vars => BulkInv'
  <2> SUFFICES ASSUME BulkInv, [Next]_vars PROVE BulkInv'
    OBVIOUS
  <2> USE DEF BulkInv
  <2>1. CASE \E r \in Runs : StepOf(r)
    <3>1. PICK r \in Runs : StepOf(r)
      BY <2>1
    <3>2. ASSUME NEW q \in Runs PROVE RunInv(q)'
      <4>1. CASE q = r
        BY <3>1, <4>1, StepKeeps
      <4>2. CASE q # r
        BY <3>1, <4>2, OthersUntouched, SameKeeps
      <4>3. QED
        BY <4>1, <4>2
    <3>3. QED
      BY <3>1, <3>2, StepType
  <2>2. CASE StepOfNone \/ UNCHANGED vars
    <3>1. \A q \in Runs : Same(q)
      BY <2>2 DEF Same, StepOfNone, OtherRegisters, OtherEnds, StopsActing, ClusterRemoved, vars
    <3>2. TypeOK'
      <4>1. CASE StepOfNone
        BY <4>1, StepOfNoneType
      <4>2. CASE UNCHANGED vars
        BY <4>2 DEF TypeOK, vars
      <4>3. QED
        BY <2>2, <4>1, <4>2
    <3>3. QED
      BY <3>1, <3>2, SameKeeps
  <2>3. QED
    BY <2>1, <2>2, StepsSplit
<1>3. QED
  BY <1>1, <1>2, PTL DEF Spec

-----------------------------------------------------------------------------
(* What it gives. *)

LEMMA WidthFollows == BulkInv => WidthKept
<1> SUFFICES ASSUME BulkInv, NEW r \in Runs
             PROVE  Cardinality(In(r, "migrating")) <= Width(r)
  BY DEF WidthKept
<1> USE DEF BulkInv
<1>1. IsFiniteSet(Guests) /\ Parallel \in Nat \ {0}
  BY RunsAssumption
<1>2. CASE all[r]
  <2> DEFINE named == {g \in Guests : row[r][g] # "none"}
  <2>1. IsFiniteSet(named)
    BY <1>1, FS_Subset
  <2>2. In(r, "migrating") \in SUBSET named
    BY DEF In
  <2>3. Cardinality(In(r, "migrating")) <= Cardinality(named)
    BY <2>1, <2>2, FS_Subset
  <2>4. QED
    BY <1>2, <2>3 DEF Width
<1>3. CASE ~all[r]
  <2>1. Width(r) = Parallel
    BY <1>3 DEF Width
  <2>2. CASE stage[r] = "begin"
    <3>1. PICK g \in Guests \ flying[r] : In(r, "migrating") = flying[r] \cup {g}
      BY <2>2 DEF RunInv, AloftInv
    <3>2. Cardinality(In(r, "migrating")) = Cardinality(flying[r]) + 1
      BY <3>1, FlyingFinite, FS_AddElement
    <3>3. Cardinality(flying[r]) < Parallel
      BY <1>3, <2>2 DEF RunInv, RoomInv, Working
    <3>4. QED
      BY <1>1, <2>1, <3>2, <3>3, FlyingFinite
  <2>3. CASE stage[r] \in Working \ {"begin"}
    BY <1>3, <2>1, <2>3 DEF RunInv, AloftInv, RoomInv
  <2>4. CASE stage[r] \notin Working
    <3>1. In(r, "migrating") = {}
      BY <2>4 DEF TypeOK, RunInv, PlannedInv, ClosedInv
    <3>2. QED
      BY <1>1, <2>1, <3>1, FS_EmptySet
  <2>5. QED
    BY <2>2, <2>3, <2>4
<1>4. QED
  BY <1>2, <1>3 DEF TypeOK

\* A run never has more migrations in flight than its width, the one that is just being
\* started included (_claim, _begin).
THEOREM WidthIsKept == Spec => []WidthKept
BY BulkCorrect, WidthFollows, PTL

\* A run that is over has closed every one of its rows, however it ended (_end_waiting,
\* _let_go, _finish).
THEOREM RunsLeaveNothingOpen == Spec => []NothingLeftOpen
<1>1. BulkInv => NothingLeftOpen
  BY DEF BulkInv, RunInv, ClosedInv, NothingLeftOpen
<1>2. QED
  BY <1>1, BulkCorrect, PTL

\* A guest that is reported as not started was never asked to move (_end_waiting).
THEOREM NotStartedMeansNotAsked == Spec => []NotStartedNeverAsked
<1>1. BulkInv => NotStartedNeverAsked
  BY DEF BulkInv, RunInv, AskedInv, NotStartedNeverAsked
<1>2. QED
  BY <1>1, BulkCorrect, PTL

-----------------------------------------------------------------------------
(* The registry and the cancel. *)

RunningRuns == {x \in Runs : state[x] = "running"}

LEMMA RunningFinite == IsFiniteSet(RunningRuns) /\ Cardinality(RunningRuns) \in Nat
BY RunsAssumption, FS_Subset, FS_CardinalityType DEF RunningRuns

\* Only register adds a running run, and only below the limit.
LEMMA RegistryStep ==
    ASSUME TypeOK, RegistryBounded, [Next]_vars
    PROVE  RegistryBounded'
<1> DEFINE running == RunningRuns
<1>0. /\ Running = Cardinality(running) + others
      /\ Running' = Cardinality(running') + others'
      /\ others \in Nat /\ RunningPerCluster \in Nat
  BY RunsAssumption DEF Running, RunningRuns, TypeOK
<1>1. IsFiniteSet(running) /\ Cardinality(running) \in Nat
  BY RunningFinite
<1>2. ASSUME running' \in SUBSET running, others' = others PROVE RegistryBounded'
  <2>1. Cardinality(running') <= Cardinality(running) /\ IsFiniteSet(running')
    BY <1>1, <1>2, FS_Subset
  <2>2. Cardinality(running') \in Nat
    BY <2>1, FS_CardinalityType
  <2>3. QED
    BY <1>0, <1>1, <1>2, <2>1, <2>2 DEF RegistryBounded
<1>3. CASE \E r \in Runs : Register(r)
  <2>1. PICK r \in Runs : Register(r)
    BY <1>3
  <2>2. CASE TooMany
    <3>1. running' = running /\ others' = others
      BY <2>1, <2>2 DEF Register, RunningRuns, environment
    <3>2. QED
      BY <3>1, <1>2
  <2>3. CASE ~TooMany
    <3>1. running' = running \cup {r} /\ others' = others
      BY <2>1, <2>3 DEF TypeOK, Register, RunningRuns, environment
    <3>2. Cardinality(running') <= Cardinality(running) + 1 /\ IsFiniteSet(running')
      <4>1. Cardinality(running \cup {r}) <= Cardinality(running) + 1 /\ IsFiniteSet(running \cup {r})
        BY <1>1, Grows
      <4>2. QED
        BY <3>1, <4>1
    <3>3. Running < RunningPerCluster
      BY <1>0, <1>1, <2>3 DEF TooMany
    <3>4. Cardinality(running') \in Nat
      BY <3>2, FS_CardinalityType
    <3>5. Running' = Cardinality(running') + others /\ others \in Nat
          /\ Running = Cardinality(running) + others /\ Cardinality(running) \in Nat
          /\ RunningPerCluster' = RunningPerCluster /\ RunningPerCluster \in Nat
      BY <1>0, <1>1, <3>1
    <3> HIDE DEF running
    <3>6. Running' <= RunningPerCluster
      BY <3>2, <3>3, <3>4, <3>5
    <3>7. QED
      BY <3>5, <3>6 DEF RegistryBounded
  <2>4. QED
    BY <2>2, <2>3
<1>4. CASE OtherRegisters \/ OtherEnds
  <2>1. running' = running
    BY <1>4 DEF OtherRegisters, OtherEnds, RunningRuns
  <2>2. QED
    BY <1>0, <1>1, <1>4, <2>1 DEF OtherRegisters, OtherEnds, TooMany, RegistryBounded
<1>5. CASE UNCHANGED <<state, others>>
  <2>1. running' = running
    BY <1>5 DEF RunningRuns
  <2>2. QED
    BY <1>2, <1>5, <2>1
<1>6. ASSUME NEW r \in Runs, Look(r) \/ BreaksOff(r) \/ Finish(r) PROVE RegistryBounded'
  <2>1. /\ others' = others
        /\ \A q \in Runs : state'[q] = "running" => state[q] = "running"
    BY <1>6 DEF TypeOK, Look, BreaksOff, Finish, Stop, environment
  <2>2. running' \in SUBSET running
    BY <2>1 DEF RunningRuns
  <2>3. QED
    BY <1>2, <2>1, <2>2
<1>7. ASSUME NEW r \in Runs,
             Plan(r) \/ Cancel(r) \/ Claim(r) \/ Begin(r) \/ Wake(r) \/ RoundOver(r)
             \/ \E g \in Guests : Follow(r, g) \/ TaskEnds(r, g)
      PROVE  UNCHANGED <<state, others>>
  BY <1>7 DEF Plan, Cancel, Claim, Begin, Wake, RoundOver, Follow, TaskEnds, environment
<1>8. CASE StopsActing \/ ClusterRemoved \/ UNCHANGED vars
  BY <1>5, <1>8 DEF StopsActing, ClusterRemoved, vars
<1>9. QED
  BY <1>3, <1>4, <1>5, <1>6, <1>7, <1>8 DEF Next, Work

\* However many requests plan at once, a cluster never has more runs going than it may:
\* register counts under its lock.
THEOREM RegistryIsBounded == Spec => []RegistryBounded
<1>1. Init => RegistryBounded
  <2> SUFFICES ASSUME Init PROVE RegistryBounded
    OBVIOUS
  <2>1. RunningRuns = {} /\ others = 0
    BY DEF Init, RunningRuns
  <2>2. QED
    BY <2>1, FS_EmptySet, RunsAssumption DEF RegistryBounded, Running, RunningRuns
<1>2. QED
  BY <1>1, RegistryStep, BulkTypes, PTL DEF Spec

\* Once a cancel has answered no waiting guest of the run is claimed: _claim looks under
\* the lock that cancel takes.
THEOREM CancelStopsClaims == Spec => NoClaimAfterCancel
<1> DEFINE Kept == \A r \in Runs, g \in Guests :
                       cancelled[r] /\ row[r][g] = "wait" => row'[r][g] # "migrating"
<1>1. TypeOK /\ [Next]_vars => [Kept]_vars
  <2> SUFFICES ASSUME TypeOK, Next PROVE Kept
    OBVIOUS
  <2> SUFFICES ASSUME NEW q \in Runs, NEW g \in Guests, cancelled[q], row[q][g] = "wait"
               PROVE  row'[q][g] # "migrating"
    OBVIOUS
  <2>1. CASE StepOfNone
    BY <2>1 DEF StepOfNone, OtherRegisters, OtherEnds, StopsActing, ClusterRemoved
  <2>2. ASSUME NEW r \in Runs, StepOf(r), r # q PROVE row'[q][g] # "migrating"
    BY <2>2, OthersUntouched DEF Same
  <2>3. CASE StepOf(q)
    <3>1. CASE Plan(q)
      <4>1. PICK named \in SUBSET Guests, waits \in SUBSET Guests :
                row' = [row EXCEPT ![q] = [h \in Guests |->
                            IF h \notin named THEN "none"
                            ELSE IF h \in waits THEN "wait" ELSE "skipped"]]
        BY <3>1 DEF Plan
      <4>2. row'[q][g] \in {"none", "wait", "skipped"}
        BY <4>1 DEF TypeOK
      <4>3. QED
        BY <4>2
    <3>2. CASE Look(q) \/ BreaksOff(q)
      BY <3>2 DEF TypeOK, Look, BreaksOff, Stop, EndRows, EndRow
    <3>3. CASE Claim(q)
      BY <3>3 DEF Claim, MayClaim
    <3>4. CASE Begin(q)
      <4>1. row' = row \/ \E h \in In(q, "migrating"), s \in {"failed", "done", "skipped", "started", "unknown"} :
                              Mark(q, h, s)
        BY <3>4 DEF Begin, Begun
      <4>2. ASSUME NEW h \in In(q, "migrating"), NEW s, Mark(q, h, s) PROVE row'[q][g] = row[q][g]
        <5>1. h # g
          BY DEF In
        <5>2. QED
          BY <4>2, <5>1 DEF TypeOK, Mark
      <4>3. QED
        BY <4>1, <4>2
    <3>5. CASE \E h \in Guests : Follow(q, h)
      <4>1. PICK h \in Guests : Follow(q, h)
        BY <3>5
      <4>2. row' = row \/ \E s \in {"done", "unknown", "failed"} : Mark(q, h, s)
        BY <4>1 DEF Follow, FollowTask, FollowHa, Ended
      <4>3. ASSUME NEW s \in {"done", "unknown", "failed"}, Mark(q, h, s)
            PROVE  row'[q][g] = IF g = h THEN s ELSE row[q][g]
        BY <4>3 DEF TypeOK, Mark
      <4>4. QED
        BY <4>2, <4>3
    <3>6. CASE UNCHANGED row
      BY <3>6
    <3>7. QED
      BY <2>3, <3>1, <3>2, <3>3, <3>4, <3>5, <3>6
      DEF StepOf, Work, Register, Cancel, Wake, RoundOver, Finish, TaskEnds
  <2>4. QED
    BY <2>1, <2>2, <2>3, StepsSplit
<1>2. QED
  BY <1>1, BulkTypes, PTL DEF Spec, NoClaimAfterCancel
=============================================================================
