---- MODULE PlannerManager ----
(* PlannerManager of src/lib/planner/planner.ts: plans made from goals, changed by the      *)
(* mutation calls, branched into alternatives, snapshotted and rolled back.                 *)
(*                                                                                          *)
(* A plan's tasks are records [id, after, cancelled, duration, weight]; a task's id is      *)
(* fresh when the planner makes it, and the caller's when addTask brings it.  Constraints   *)
(* are abstracted to whether a hard one is violated, which is what validation reads.        *)
(* A call that throws is not a step.                                                        *)
EXTENDS PlannerHTN

CONSTANTS
    PlanIds,            \* ids generateId hands out, in order
    Contexts,           \* what createPlan is given: [goals, environment, constraints, violated]
    MaxTasksPerPlan,
    MaxGoalsPerPlan,
    MaxConstraintsPerPlan,
    MaxAlternatives,
    SnapshotCapacity,
    StrictValidation

ASSUME PlannerAssumption == PlanIds \subseteq Nat /\ SnapshotCapacity \in Nat \ {0}

VARIABLES
    plans,       \* plan id -> plan, None when there is none
    made,        \* plan ids handed out so far
    tasksMade,   \* task ids handed out so far
    snapshots,   \* PlannerSnapshotManager.history with its contents, oldest first
    opened,      \* PlannerTransactionManager.stack: open transactions
    branching    \* a branch() between its createPlan and its writes: [plan, original, made]

managerVars == <<plans, made, tasksMade, snapshots, opened, branching>>

Known == {p \in PlanIds : plans[p] # None}

\* deriveTasks: goals with tasks of their own are skipped, the others are decomposed, and a
\* goal is linked to the tasks that name it.  Sub goals are added unlinked.
Renamed(goal, first, made1) ==
    [tasks |-> [i \in DOMAIN made1.tasks |->
                  [id |-> first + i, after |-> {first + d : d \in made1.tasks[i].after},
                   cancelled |-> FALSE, duration |-> made1.tasks[i].duration,
                   weight |-> made1.tasks[i].weight]],
     goals |-> [i \in DOMAIN made1.goals |->
                  [type |-> made1.goals[i].type, title |-> made1.goals[i].title,
                   weight |-> made1.goals[i].weight, linked |-> FALSE]],
     goal  |-> [goal EXCEPT !.linked = \E t \in ToSet(made1.tasks) : t.goal = 0]]

Derive(goal, environment, first) ==
    IF goal.linked THEN [tasks |-> <<>>, goals |-> <<>>, goal |-> goal]
    ELSE Renamed(goal, first, Decompose(goal, environment))

DeriveTasks(context) ==
    LET joined(acc, d) == [tasks |-> acc.tasks \o d.tasks, top |-> Append(acc.top, d.goal),
                           extra |-> acc.extra \o d.goals]
    IN  FoldLeft(LAMBDA acc, goal :
                 joined(acc, Derive(goal, context.environment, tasksMade + Len(acc.tasks))),
             [tasks |-> <<>>, top |-> <<>>, extra |-> <<>>], context.goals)

Ids(tasks) == [i \in DOMAIN tasks |-> tasks[i].id]

AfterOf(tasks) ==
    [t \in ToSet(Ids(tasks)) |-> (CHOOSE r \in ToSet(tasks) : r.id = t).after]

GraphOf(tasks) == BuildGraph(Ids(tasks), AfterOf(tasks))

DerivedDependencies(tasks) == UNION {{<<d, t.id>> : d \in t.after} : t \in ToSet(tasks)}

\* A node of the graph that is no task lasts no time.
DurationOf(tasks, g) ==
    [t \in Nodes(g) |-> IF t \in ToSet(Ids(tasks))
                        THEN (CHOOSE r \in ToSet(tasks) : r.id = t).duration ELSE 0]

\* PlannerScheduler.schedule of planner.ts: the windows; applyPolicy only sorts them.
Schedule(tasks, g) == CriticalPath(g, DurationOf(tasks, g))

Heavier(a, b) == a[2].weight > b[2].weight \/ (a[2].weight = b[2].weight /\ a[1] < b[1])

Prioritized(tasks) ==
    LET sorted == SortSeq([i \in DOMAIN tasks |-> <<i, tasks[i]>>], Heavier)
    IN  [i \in DOMAIN sorted |-> sorted[i][2]]

DropRedundant(tasks) == SelectSeq(tasks, LAMBDA t : ~t.cancelled)

\* Tasks that wait for nothing first.
MergeParallelizable(tasks) ==
    SelectSeq(tasks, LAMBDA t : t.after = {}) \o SelectSeq(tasks, LAMBDA t : t.after # {})

OptimizationLevels == {"none", "basic", "standard", "aggressive"}

Optimize(tasks, level) ==
    CASE level = "none"       -> tasks
      [] level = "basic"      -> DropRedundant(tasks)
      [] level = "standard"   -> Prioritized(DropRedundant(tasks))
      [] level = "aggressive" -> Prioritized(MergeParallelizable(DropRedundant(tasks)))

Dangling(tasks) == UNION {t.after : t \in ToSet(tasks)} \ ToSet(Ids(tasks))

\* PlannerValidator.validate: no High or Severe issue.
Valid(tasks, violated) == Dangling(tasks) = {} /\ ~violated

Reachable(p) == p \in Known /\ branching = None

\* What createPlan refuses: too much of something, a cycle, an invalid plan when it is strict.
Refused(context, derived) ==
    \/ Len(derived.tasks) > MaxTasksPerPlan
    \/ Len(derived.top \o derived.extra) > MaxGoalsPerPlan
    \/ GraphOf(derived.tasks).threw
    \/ StrictValidation /\ ~Valid(Optimize(derived.tasks, "standard"), context.violated)

\* createPlan: derive, schedule, optimize, validate.
NewPlan(context, derived, tasks, valid) ==
    [goals |-> derived.top \o derived.extra, tasks |-> tasks,
     dependencies |-> DerivedDependencies(derived.tasks),
     schedule |-> Schedule(derived.tasks, GraphOf(derived.tasks).graph),
     constraints |-> context.constraints, violated |-> context.violated, valid |-> valid,
     status |-> IF valid THEN "ready" ELSE "draft",
     alternatives |-> <<>>, parent |-> None, version |-> 1]

Finished(context, derived, tasks) == NewPlan(context, derived, tasks, Valid(tasks, context.violated))

\* The plan createPlan records under the next id.
Making(plan, derived) ==
    /\ plans' = [plans EXCEPT ![made + 1] = plan]
    /\ made' = made + 1
    /\ tasksMade' = tasksMade + Len(derived.tasks)
    /\ UNCHANGED <<snapshots, opened>>

Create(context) ==
    /\ Call
    /\ made + 1 \in PlanIds /\ branching = None
    /\ \E derived \in {DeriveTasks(context)} :
          /\ ~Refused(context, derived)
          /\ Making(Finished(context, derived, Optimize(derived.tasks, "standard")), derived)
    /\ UNCHANGED branching

\* The plans' other variables when a call replaces plan p.
Replace(p, plan) ==
    /\ plans' = [plans EXCEPT ![p] = plan]
    /\ UNCHANGED <<made, snapshots, opened, branching>>

Newer(plan) == [plan EXCEPT !.version = @ + 1]

AddGoal(p, goal) ==
    /\ Call
    /\ p \in Known
    /\ Replace(p, [Newer(plans[p]) EXCEPT !.goals = Append(@, goal)])
    /\ UNCHANGED tasksMade

\* addTask records the task and not its dependencies.
AddTask(p, task) ==
    /\ Call
    /\ p \in Known /\ task.id \notin ToSet(Ids(plans[p].tasks))
    /\ Len(plans[p].tasks) < MaxTasksPerPlan
    /\ ~GraphOf(Append(plans[p].tasks, task)).threw
    /\ Replace(p, [Newer(plans[p]) EXCEPT !.tasks = Append(@, task)])
    /\ tasksMade' = Max({tasksMade, task.id})

RemoveTask(p, t) ==
    /\ Call
    /\ p \in Known /\ t \in ToSet(Ids(plans[p].tasks))
    /\ LET left == SelectSeq(plans[p].tasks, LAMBDA r : r.id # t)
       IN  Replace(p, [Newer(plans[p]) EXCEPT
                         !.tasks = [i \in DOMAIN left |-> [left[i] EXCEPT !.after = @ \ {t}]],
                         !.dependencies = {d \in @ : d[1] # t /\ d[2] # t}])
    /\ UNCHANGED tasksMade

\* A constraint the plan's tasks and goals satisfy, or a hard one they violate.
AddConstraint(p, violated) ==
    /\ Call
    /\ p \in Known /\ plans[p].constraints < MaxConstraintsPerPlan
    /\ Replace(p, [Newer(plans[p]) EXCEPT !.constraints = @ + 1, !.violated = @ \/ violated])
    /\ UNCHANGED tasksMade

Depending(tasks, from, to) ==
    [i \in DOMAIN tasks |-> IF tasks[i].id = to THEN [tasks[i] EXCEPT !.after = @ \cup {from}]
                            ELSE tasks[i]]

AddDependency(p, from, to) ==
    /\ Call
    /\ p \in Known /\ {from, to} \subseteq ToSet(Ids(plans[p].tasks)) /\ from # to
    /\ ~GraphOf(Depending(plans[p].tasks, from, to)).threw
    /\ Replace(p, [Newer(plans[p]) EXCEPT !.tasks = Depending(@, from, to),
                                          !.dependencies = @ \cup {<<from, to>>}])
    /\ UNCHANGED tasksMade

Reschedule(p) ==
    /\ Call
    /\ p \in Known /\ ~GraphOf(plans[p].tasks).threw
    /\ Replace(p, [plans[p] EXCEPT !.schedule = Schedule(plans[p].tasks, GraphOf(plans[p].tasks).graph)])
    /\ UNCHANGED tasksMade

\* reoptimize leaves the schedule, the dependencies and the validation as they were.
Reoptimize(p, level) ==
    /\ Call
    /\ p \in Known
    /\ Replace(p, [plans[p] EXCEPT !.tasks = Optimize(@, level)])
    /\ UNCHANGED tasksMade

Revalidate(p) ==
    /\ Call
    /\ p \in Known
    /\ LET valid == Valid(plans[p].tasks, plans[p].violated)
       IN  /\ StrictValidation => valid
           /\ Replace(p, [plans[p] EXCEPT !.valid = valid])
    /\ UNCHANGED tasksMade

\* markCompleted, markFailed, markRolledBack, cancel: whatever the status was.
Mark(p, status) ==
    /\ Call
    /\ p \in Known
    /\ Replace(p, [plans[p] EXCEPT !.status = status])
    /\ UNCHANGED tasksMade

RemovePlan(p) ==
    /\ Call
    /\ p \in Known
    /\ Replace(p, None)
    /\ UNCHANGED tasksMade

\* branch() reads the plan, then creates the alternative from its goals; observers of the
\* alternative's events run before the two are linked, and may call the manager.
BranchCreate(p, environment) ==
    /\ Call
    /\ Reachable(p) /\ Len(plans[p].alternatives) < MaxAlternatives /\ made + 1 \in PlanIds
    /\ \E context \in {[goals |-> plans[p].goals, environment |-> environment,
                        constraints |-> plans[p].constraints, violated |-> plans[p].violated]} :
       \E derived \in {DeriveTasks(context)} :
       \E plan \in {Finished(context, derived, Optimize(derived.tasks, "standard"))} :
          /\ ~Refused(context, derived)
          /\ Making(plan, derived)
          /\ branching' = [plan |-> p, original |-> plans[p], made |-> made + 1, alternative |-> plan]

BranchLink ==
    /\ branching # None
    /\ plans' = [plans EXCEPT
                   ![branching.made] = [branching.alternative EXCEPT !.parent = branching.plan],
                   ![branching.plan] = [branching.original EXCEPT
                                          !.alternatives = Append(@, branching.made)]]
    /\ branching' = None
    /\ UNCHANGED <<made, tasksMade, snapshots, opened, calls>>

\* PlannerSnapshotManager.create drops the oldest when the capacity is exceeded.
Kept(snapshot) ==
    LET all == Append(snapshots, snapshot)
    IN  SubSeq(all, Max({1, Len(all) - SnapshotCapacity + 1}), Len(all))

Snapshot ==
    /\ Call
    /\ snapshots' = Kept(plans)
    /\ UNCHANGED <<plans, made, tasksMade, opened, branching>>

RestoreSnapshot(i) ==
    /\ Call
    /\ i \in DOMAIN snapshots /\ plans' = snapshots[i]
    /\ UNCHANGED <<made, tasksMade, snapshots, opened, branching>>

\* import() of an export: every plan it holds is written over, the others stay.
Import(i) ==
    /\ Call
    /\ i \in DOMAIN snapshots
    /\ plans' = [p \in PlanIds |-> IF snapshots[i][p] = None THEN plans[p] ELSE snapshots[i][p]]
    /\ UNCHANGED <<made, tasksMade, snapshots, opened, branching>>

\* A transaction remembers nothing of the plans; opened keeps them for the properties.
BeginTransaction ==
    /\ Call
    /\ opened' = Append(opened, plans)
    /\ UNCHANGED <<plans, made, tasksMade, snapshots, branching>>

CommitTransaction ==
    /\ Call
    /\ opened # <<>>
    /\ snapshots' = Kept(plans) /\ opened' = Front(opened)
    /\ UNCHANGED <<plans, made, tasksMade, branching>>

\* The latest snapshot, whoever took it and whenever; nothing is restored without one.
RollbackTransaction ==
    /\ Call
    /\ opened # <<>> /\ opened' = Front(opened)
    /\ plans' = IF snapshots = <<>> THEN plans ELSE Last(snapshots)
    /\ UNCHANGED <<made, tasksMade, snapshots, branching>>

\* PlannerRollbackManager: checkpoints are the critical tasks and those nothing waits for, in
\* the order of the plan's tasks.
Checkpoints(plan) ==
    SelectSeq(Ids(plan.tasks), LAMBDA t : t \in ToSet(plan.schedule.criticalPath)
                                          \/ \A d \in plan.dependencies : d[1] # t)

ManagerInit ==
    /\ plans = [p \in PlanIds |-> None]
    /\ made = 0 /\ tasksMade = 0
    /\ snapshots = <<>> /\ opened = <<>> /\ branching = None
====
