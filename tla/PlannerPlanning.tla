---- MODULE PlannerPlanning ----
(* The planning layer of src/lib/planner with its callers: decomposition methods, plans,    *)
(* schedules, constraints and indexes.                                                      *)
(*                                                                                          *)
(* The constraint manager and the index manager are given the caller's own tasks and share  *)
(* nothing with the plans: a client works with one of the three in a behaviour, and no      *)
(* interleaving is lost by that.  A client that schedules plans changes them between its    *)
(* calls too, but only by adding and removing tasks; one that works with plans calls the    *)
(* rest of the manager.                                                                     *)
EXTENDS PlannerSchedules, PlannerConstraints

-----------------------------------------------------------------------------
(* PlannerIndexManager of src/lib/planner/planner-index.ts: derived indexes over the tasks   *)
(* and the statuses of plans.                                                                *)
(*                                                                                           *)
(* Tasks are the caller's PlannerTask objects and change in place between two calls: what    *)
(* the index holds is the object, so that what it reads on an update is what the task is     *)
(* now, not what it was when it was indexed.                                                 *)
CONSTANTS
    IndexTasks, IndexGoals, IndexPlans,
    States,       \* task states the instance tells apart
    Statuses      \* plan statuses the instance tells apart

VARIABLES
    object,       \* task -> the PlannerTask: [state, goal, after]
    index         \* [tasks, byGoal, after, dependents, byState, status, byStatus]

indexVars == <<object, index>>

EmptyIndex ==
    [tasks |-> {}, byGoal |-> [g \in IndexGoals |-> {}],
     after |-> [t \in IndexTasks |-> {}],
     dependents |-> [t \in IndexTasks |-> {}], byState |-> [s \in States |-> {}],
     status |-> [p \in IndexPlans |-> None], byStatus |-> [s \in Statuses |-> {}]]

\* indexTaskDerivedState: the buckets of the task as it is now.
Indexed(ix, t) ==
    [ix EXCEPT
       !.tasks      = @ \cup {t},
       !.byGoal     = [g \in IndexGoals |-> IF g = object[t].goal THEN @[g] \cup {t} ELSE @[g]],
       !.after      = [@ EXCEPT ![t] = object[t].after],
       !.dependents = [d \in IndexTasks |-> IF d \in object[t].after THEN @[d] \cup {t} ELSE @[d]],
       !.byState    = [@ EXCEPT ![object[t].state] = @ \cup {t}]]

\* unindexTaskDerivedState: the dependencies it was indexed with, but the state and the goal
\* it has now; and the bucket of those that depend on it goes with it.
UnindexedAsIs(ix, t) ==
    [ix EXCEPT
       !.tasks      = @ \ {t},
       !.byGoal     = [g \in IndexGoals |-> IF g = object[t].goal THEN @[g] \ {t} ELSE @[g]],
       !.after      = [@ EXCEPT ![t] = {}],
       !.dependents = [d \in IndexTasks |-> IF d \in object[t].after THEN @[d] \ {t} ELSE @[d]],
       !.byState    = [@ EXCEPT ![object[t].state] = @ \ {t}]]
Unindexed(ix, t) ==
    [ix EXCEPT
       !.tasks      = @ \ {t},
       !.byGoal     = [g \in IndexGoals |-> IF g = object[t].goal THEN @[g] \ {t} ELSE @[g]],
       !.after      = [@ EXCEPT ![t] = {}],
       !.dependents = [d \in IndexTasks |-> IF d = t THEN {}
                                            ELSE IF d \in ix.after[t] THEN @[d] \ {t} ELSE @[d]],
       !.byState    = [@ EXCEPT ![object[t].state] = @ \ {t}]]

Reindexing(ix) == index' = ix /\ UNCHANGED object

IndexTask(t) ==
    /\ Call
    /\ t \notin index.tasks
    /\ Reindexing(Indexed(index, t))

UpdateTask(t) ==
    /\ Call
    /\ t \in index.tasks
    /\ Reindexing(Indexed(Unindexed(index, t), t))

UnindexTask(t) ==
    /\ Call
    /\ t \in index.tasks
    /\ Reindexing(Unindexed(index, t))

\* removeGoal drops the goal's bucket, whatever tasks still name the goal.
UnindexGoal(g) ==
    /\ Call
    /\ index.byGoal[g] # {}
    /\ Reindexing([index EXCEPT !.byGoal[g] = {}])

RegisterPlanStatus(p, s) ==
    /\ Call
    /\ Reindexing([index EXCEPT
          !.status[p] = s,
          !.byStatus  = [r \in Statuses |-> IF r = s THEN @[r] \cup {p}
                                            ELSE IF r = index.status[p] THEN @[r] \ {p} ELSE @[r]]])

RemovePlanStatus(p) ==
    /\ Call
    /\ index.status[p] # None
    /\ Reindexing([index EXCEPT !.status[p] = None, !.byStatus[index.status[p]] = @ \ {p}])

\* rebuild with the tasks and the plan statuses the index holds.
Rebuilt ==
    LET empty == [EmptyIndex EXCEPT !.status = index.status, !.byStatus = index.byStatus]
    IN  FoldLeft(Indexed, empty, SetToSeq(index.tasks))

Rebuild ==
    /\ Call
    /\ Reindexing(Rebuilt)

\* The owner of a task changes it in place: its state, its goal or what it waits for.
Mutate(t, task) ==
    /\ Call
    /\ object[t] # task
    /\ object' = [object EXCEPT ![t] = task]
    /\ UNCHANGED index

\* PlannerIndexDiagnostics of an index: the buckets of goals, dependencies, dependents, states and
\* plans.
GoalsAgree(ix) == \A g \in IndexGoals : \A t \in ix.byGoal[g] : t \in ix.tasks /\ object[t].goal = g
DependenciesAgree(ix) == \A t \in ix.tasks : ix.after[t] = object[t].after
DependentsAgree(ix) == \A t \in ix.tasks : \A d \in ix.after[t] : t \in ix.dependents[d]
StatesAgree(ix) == \A s \in States : \A t \in ix.byState[s] : t \in ix.tasks /\ object[t].state = s
PlansAgree(ix) == \A p \in IndexPlans : \A s \in Statuses : p \in ix.byStatus[s] <=> ix.status[p] = s

\* No task is listed as waiting for one it was not indexed as waiting for.
NoPhantomDependents(ix) == \A t, d \in IndexTasks : t \in ix.dependents[d] => d \in ix.after[t]

IndexInit ==
    /\ object = [t \in IndexTasks |-> [state |-> "pending", goal |-> None, after |-> {}]]
    /\ index = EmptyIndex

-----------------------------------------------------------------------------
(* The clients. *)

CONSTANTS
    NewTasks,      \* [after, cancelled, duration, weight] of the tasks callers add; after holds
                   \* places in the plan, 0 being a task that does not exist
    NewGoals,      \* goals callers add
    Environments,  \* environments an alternative is made in
    ShiftTargets,  \* starts callers shift a task to
    PlanCalls      \* bound: calls made by a client that works with plans

ASSUME ShiftAssumption == ShiftTargets \subseteq 0 .. Horizon

VARIABLE client   \* what this client works with

Clients == {"plans", "schedules", "constraints", "indexes"}

planVars == <<registered, managerVars, scheduleVars>>

vars == <<calls, planVars, constraintVars, indexVars, client>>

Init ==
    /\ calls = 0 /\ registered = <<>>
    /\ ManagerInit /\ ScheduleInit /\ ConstraintInit /\ IndexInit
    /\ client \in Clients

TasksOfPlan(p) == IF plans[p] = None THEN {} ELSE ToSet(Ids(plans[p].tasks))

\* The task a caller builds for plan p from one of NewTasks, under a fresh id.
TaskFor(p, new) ==
    [new EXCEPT !.after = {IF i = 0 THEN 0 ELSE plans[p].tasks[i].id :
                              i \in new.after \cap (0 .. Len(plans[p].tasks))}]
        @@ [id |-> tasksMade + 1]

\* Bound: methods are registered before the first plan is made, and a client that schedules
\* plans does not choose their order.
RegistryStep ==
    /\ \E id \in DOMAIN Methods :
          \/ /\ made = 0 /\ Register(id)
             /\ client = "schedules" => \A m \in DOMAIN Methods \ ToSet(registered) : Methods[m].priority <= Methods[id].priority
          \/ Unregister(id)
    /\ UNCHANGED <<managerVars, scheduleVars>>

ManagerStep ==
    /\ \/ \E context \in Contexts : Create(context)
       \/ \E p \in Known :
             \/ \E goal \in NewGoals : AddGoal(p, goal)
             \/ \E new \in NewTasks : \E task \in {TaskFor(p, new)} : AddTask(p, task)
             \/ \E t \in TasksOfPlan(p) : RemoveTask(p, t)
             \/ \E violated \in BOOLEAN : AddConstraint(p, violated)
             \/ \E from, to \in TasksOfPlan(p) : AddDependency(p, from, to)
             \/ Reschedule(p)
             \/ \E level \in OptimizationLevels : Reoptimize(p, level)
             \/ Revalidate(p)
             \/ \E status \in {"completed", "cancelled"} : Mark(p, status)
             \/ RemovePlan(p)
             \/ \E environment \in Environments : BranchCreate(p, environment)
       \/ BranchLink
       \/ Snapshot
       \/ \E i \in DOMAIN snapshots : RestoreSnapshot(i) \/ Import(i)
       \/ BeginTransaction \/ CommitTransaction \/ RollbackTransaction
    /\ calls' <= PlanCalls
    /\ UNCHANGED <<registered, scheduleVars>>

TaskStep ==
    /\ \/ \E context \in Contexts : made = 0 /\ Create(context)
       \/ \E p \in Known :
             \/ \E new \in NewTasks : \E task \in {TaskFor(p, new)} : AddTask(p, task)
             \/ \E t \in TasksOfPlan(p) : RemoveTask(p, t)
    /\ UNCHANGED <<registered, scheduleVars>>

ScheduleStep ==
    /\ \/ \E id \in ScheduleIds :
             \/ \E p \in Known, max \in Slots :
                   \/ \E policy \in SchedulePolicies : GenerateSchedule(id, p, policy, max)
                   \/ OptimizeSchedule(id, p, max, <<"earliest-start", "critical-path-first">>)
             \/ \E policy \in SchedulePolicies, max \in Slots : RebuildSchedule(id, policy, max)
             \/ \E t \in Entries(id) :
                   \/ \E at \in ShiftTargets : RescheduleTask(id, t, at)
                   \/ SetEntryStatus(id, t, "running")
             \/ RecomputeCriticalPath(id)
             \/ \E frozen \in BOOLEAN : Freeze(id, frozen)
             \/ RemoveSchedule(id)
       \/ SnapshotSchedules
       \/ \E i \in DOMAIN scheduleSnapshots : RestoreSchedules(i)
    /\ UNCHANGED <<registered, managerVars>>

ConstraintStep ==
    \/ \E c \in DOMAIN Constraints :
          \/ RegisterConstraint(c)
          \/ RemoveConstraint(c)
          \/ \E t \in Tasks : AddTaskScope(c, t) \/ RemoveTaskScope(c, t) \/ Propagate(c, t)
    \/ \E t \in Tasks : SetTaskState(t, "completed") \/ SetTaskState(t, "pending")
    \/ \E r \in Resources :
          \/ \E amount \in 1 .. 2, reserved \in BOOLEAN : TakeStock(r, amount, reserved)
          \/ SetStockState(r, "unavailable") \/ SetStockState(r, "exhausted")
    \/ SnapshotConstraints
    \/ \E i \in DOMAIN constraintSnapshots : RestoreConstraints(i)

IndexStep ==
    \/ \E t \in IndexTasks :
          \/ IndexTask(t) \/ UpdateTask(t) \/ UnindexTask(t)
          \/ \E s \in States, g \in IndexGoals \cup {None}, after \in SUBSET (IndexTasks \ {t}) :
                Mutate(t, [state |-> s, goal |-> g, after |-> after])
    \/ \E g \in IndexGoals : UnindexGoal(g)
    \/ \E p \in IndexPlans :
          \/ RemovePlanStatus(p)
          \/ \E s \in Statuses : RegisterPlanStatus(p, s)
    \/ Rebuild

Next ==
    \/ /\ client = "plans" /\ (RegistryStep \/ ManagerStep)
       /\ UNCHANGED <<constraintVars, indexVars, client>>
    \/ /\ client = "schedules" /\ (RegistryStep \/ TaskStep \/ ScheduleStep)
       /\ UNCHANGED <<constraintVars, indexVars, client>>
    \/ /\ client = "constraints" /\ ConstraintStep
       /\ UNCHANGED <<planVars, indexVars, client>>
    \/ /\ client = "indexes" /\ IndexStep
       /\ UNCHANGED <<planVars, constraintVars, client>>

Spec == Init /\ [][Next]_vars

----------------------------------------------------------------------------
\* Plans and schedules.

Total(tasks) == FoldLeft(LAMBDA sum, t : sum + t.duration, 0, tasks)

Overlapping(sch) ==
    {<<t, u>> \in (DOMAIN sch.start) \X (DOMAIN sch.start) :
        /\ t # u /\ sch.slot[t] = sch.slot[u]
        /\ sch.start[t] < sch.finish[u] /\ sch.start[u] < sch.finish[t]}

Feasible(sch, tasks, shortest) ==
    /\ OrderViolations(sch, tasks) = {} /\ Overlapping(sch) = {}
    /\ ~ConcurrencyExceeded(sch)
    /\ shortest <= sch.makespan /\ sch.makespan <= Total(tasks)
    /\ sch.max = 1 => sch.makespan = Total(tasks)

AllFeasible(p, tasks, g) ==
    \A policy \in SchedulePolicies, max \in Slots :
        \A sch \in {Build(p, tasks, g, policy, max)} :
            Feasible(sch, tasks, Schedule(tasks, g).makespan)

\* Whatever a plan has become by mutation, every policy and every number of slots gives a
\* schedule that waits for dependencies, never puts two tasks in one slot or more tasks than
\* slots at once, ends no earlier than the critical path allows and wastes no time: it ends no
\* later than the tasks one after the other, and exactly then when there is one slot.
SchedulesAreFeasible ==
    [][\A p \in Known' : plans'[p] # plans[p] =>
         \A tasks \in {plans'[p].tasks} : \A built \in {GraphOf(tasks)} :
             ~built.threw => AllFeasible(p, tasks, built.graph)]_plans

\* A rollback has somewhere to go back to for each task: a checkpoint waits for it, directly or not,
\* or it is one.
Covered(tasks, points) ==
    \A before \in {Before(DerivedDependencies(tasks))} :
        \A t \in ToSet(Ids(tasks)) : t \in points \/ \E u \in points : <<t, u>> \in before

\* Nothing a caller can do to a plan leaves tasks that wait for each other, a recorded dependency
\* between two of its tasks that the later one does not have, or a task without a checkpoint.
PlansHoldTogether ==
    \A p \in Known :
        LET tasks == plans[p].tasks IN
        /\ ~CyclicEdges(DerivedDependencies(tasks))
        /\ {d \in plans[p].dependencies : {d[1], d[2]} \subseteq ToSet(Ids(tasks))}
               \subseteq DerivedDependencies(tasks)
        /\ Covered(tasks, ToSet(Checkpoints(plans[p])))

----------------------------------------------------------------------------
\* Constraints and indexes.

\* A conflict the detector reports is an issue for the evaluation too, unless what is exhausted has
\* been allocated to somebody, or is exhausted by its state alone.
ConflictsAreIssues ==
    ConstraintConflicts # {} =>
        \/ ~AllSatisfied
        \/ \E r \in Resources : Exhausted(r) /\ (stock[r].allocated > 0 \/ Room(r) > 0)

\* A violation blocks exactly the unfinished tasks that wait, directly or through others, for
\* the violating one, and leaves every finished task as it is; and the two ways to look for violations
\* agree, whatever scopes, stocks, states and snapshots have become.
ViolationsAreExact ==
    /\ []ConflictsAreIssues
    /\ [][\A c \in DOMAIN Constraints, t \in Tasks : Propagate(c, t) =>
             \A u \in Tasks :
                 state'[u] = IF /\ <<t, u>> \in Before({<<d, w>> \in Tasks \X Tasks : d \in After[w]})
                                /\ state[u] \notin Terminal
                             THEN "blocked" ELSE state[u]]_vars

\* Whatever is changed under the index and in whatever order it is told: a plan is listed under
\* its registered status alone, a dependent is listed only where it was indexed as one, and a
\* rebuild, from whatever the index has become, passes every diagnosis and misses no task.
IndexIsSound ==
    /\ PlansAgree(index) /\ NoPhantomDependents(index)
    /\ \A ix \in {Rebuilt} :
          /\ GoalsAgree(ix) /\ DependenciesAgree(ix) /\ DependentsAgree(ix) /\ StatesAgree(ix)
          /\ PlansAgree(ix) /\ NoPhantomDependents(ix)
          /\ \A t \in index.tasks : t \in ix.byState[object[t].state]
====
