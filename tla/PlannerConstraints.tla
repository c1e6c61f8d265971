---- MODULE PlannerConstraints ----
(* src/lib/planner/planner-constraint.ts and the constraint engine of planner.ts: the       *)
(* registry of constraints, their evaluation against tasks and live resources, and the      *)
(* propagation of a violation to the tasks that depend on the violating one.                *)
(*                                                                                          *)
(* Tasks are the caller's PlannerTask objects: propagation changes their state in place.    *)
EXTENDS PlannerGraph

CONSTANTS
    Tasks, Goals, Resources,
    Constraints,   \* constraint id -> [type, hard, tasks, goals]: what callers register
    After,         \* task -> the tasks it waits for
    Needs,         \* task -> resource -> amount it requires; 0 for none
    Overdue,       \* the goals past their deadline
    ConstraintCapacity   \* ConstraintSnapshotManager.capacity

ASSUME ConstraintAssumption ==
    /\ After \in [Tasks -> SUBSET Tasks]
    /\ ConstraintCapacity \in Nat \ {0}

VARIABLES
    constraints,   \* ids registered, each with its scope of tasks: id -> scope; the domain grows
    state,         \* task -> state of the PlannerTask
    stock,         \* resource -> [state, capacity, allocated, reserved]
    constraintSnapshots

constraintVars == <<constraints, state, stock, constraintSnapshots>>

Terminal == {"completed", "failed", "skipped", "cancelled"}

\* An empty scope is every task, or every goal.
AppliesToTask(c, t) == constraints[c] = {} \/ t \in constraints[c]

AppliesToGoal(c, goal) == Constraints[c].goals = {} \/ goal \in Constraints[c].goals

RegisterConstraint(c) ==
    /\ Call
    /\ c \notin DOMAIN constraints
    /\ constraints' = [d \in DOMAIN constraints \cup {c} |->
                          IF d = c THEN Constraints[c].tasks ELSE constraints[d]]
    /\ UNCHANGED <<state, stock, constraintSnapshots>>

RemoveConstraint(c) ==
    /\ Call
    /\ c \in DOMAIN constraints
    /\ constraints' = [d \in DOMAIN constraints \ {c} |-> constraints[d]]
    /\ UNCHANGED <<state, stock, constraintSnapshots>>

\* addTaskScope and removeTaskScope: removing the last task makes the constraint global.
AddTaskScope(c, t) ==
    /\ Call
    /\ c \in DOMAIN constraints
    /\ constraints' = [constraints EXCEPT ![c] = @ \cup {t}]
    /\ UNCHANGED <<state, stock, constraintSnapshots>>

RemoveTaskScope(c, t) ==
    /\ Call
    /\ c \in DOMAIN constraints
    /\ constraints' = [constraints EXCEPT ![c] = @ \ {t}]
    /\ UNCHANGED <<state, stock, constraintSnapshots>>

Room(r) == Max({0, stock[r].capacity - stock[r].allocated - stock[r].reserved})

\* A live resource: what an exhausted one has allocated counts as room.
ResourceAllows(t, r) ==
    /\ stock[r].state # "unavailable"
    /\ Room(r) >= Needs[t][r] \/ stock[r].allocated > 0

\* isTaskConstraintSatisfied, with a resource manager: only resource and dependency
\* constraints are evaluated, every other type is advisory.
TaskSatisfies(c, t) ==
    CASE Constraints[c].type = "resource" ->
             \A r \in Resources : Needs[t][r] > 0 => ResourceAllows(t, r)
      [] Constraints[c].type = "dependency" -> t \notin After[t]
      [] OTHER -> TRUE

GoalSatisfies(c, goal) == Constraints[c].type = "temporal" => goal \notin Overdue

TaskIssues(t) ==
    {c \in DOMAIN constraints : AppliesToTask(c, t) /\ ~TaskSatisfies(c, t)}

GoalIssues(goal) ==
    {c \in DOMAIN constraints : AppliesToGoal(c, goal) /\ ~GoalSatisfies(c, goal)}

\* evaluateAll: no hard issue.
AllSatisfied ==
    /\ \A t \in Tasks : \A c \in TaskIssues(t) : ~Constraints[c].hard
    /\ \A goal \in Goals : \A c \in GoalIssues(goal) : ~Constraints[c].hard

DependentsOf(t) == {u \in Tasks : t \in After[u]}

\* Changed: a finished task stops the propagation.
PropagateOpen(s) ==
    LET t == Head(s.queue)
    IN  IF s.queue = <<>> THEN s
        ELSE IF t \in s.visited \/ state[t] \in Terminal THEN [s EXCEPT !.queue = Tail(@)]
        ELSE [queue   |-> Tail(s.queue) \o SetToSeq(DependentsOf(t)),
              visited |-> s.visited \cup {t},
              blocked |-> s.blocked \cup {t}]

\* propagate: breadth first over the dependents, each looked at once.
PropagateStep(s) ==
    LET t == Head(s.queue)
    IN  IF s.queue = <<>> THEN s
        ELSE IF t \in s.visited THEN [s EXCEPT !.queue = Tail(@)]
        ELSE [queue   |-> Tail(s.queue) \o SetToSeq(DependentsOf(t)),
              visited |-> s.visited \cup {t},
              blocked |-> IF state[t] \in Terminal THEN s.blocked ELSE s.blocked \cup {t}]

Propagation(t) ==
    LET rounds == Cardinality(Tasks) * (Cardinality(Tasks) + 1)
        round[k \in 0 .. rounds] ==
            IF k = 0 THEN [queue |-> SetToSeq(DependentsOf(t)), visited |-> {}, blocked |-> {}]
            ELSE PropagateStep(round[k - 1])
    IN  round[rounds].blocked

Propagate(c, t) ==
    /\ Call
    /\ c \in DOMAIN constraints
    /\ state' = [u \in Tasks |-> IF u \in Propagation(t) THEN "blocked" ELSE state[u]]
    /\ UNCHANGED <<constraints, stock, constraintSnapshots>>

\* The owner of the tasks, and of the resources.
SetTaskState(t, new) ==
    /\ Call
    /\ state' = [state EXCEPT ![t] = new]
    /\ UNCHANGED <<constraints, stock, constraintSnapshots>>

TakeStock(r, amount, reserved) ==
    /\ Call
    /\ amount <= Room(r)
    /\ stock' = [stock EXCEPT ![r].allocated = IF reserved THEN @ ELSE @ + amount,
                              ![r].reserved  = IF reserved THEN @ + amount ELSE @]
    /\ UNCHANGED <<constraints, state, constraintSnapshots>>

SetStockState(r, new) ==
    /\ Call
    /\ stock' = [stock EXCEPT ![r].state = new]
    /\ UNCHANGED <<constraints, state, constraintSnapshots>>

SnapshotConstraints ==
    /\ Call
    /\ LET all == Append(constraintSnapshots, constraints)
       IN  constraintSnapshots' = SubSeq(all, Max({1, Len(all) - ConstraintCapacity + 1}), Len(all))
    /\ UNCHANGED <<constraints, state, stock>>

RestoreConstraints(i) ==
    /\ Call
    /\ i \in DOMAIN constraintSnapshots /\ constraints' = constraintSnapshots[i]
    /\ UNCHANGED <<state, stock, constraintSnapshots>>

\* detectConflicts: scopes that name no known task or goal, hard resource constraints on
\* exhausted resources, hard temporal constraints on overdue goals.
Exhausted(r) == stock[r].state = "exhausted" \/ Room(r) = 0

Unsatisfiable(c) ==
    /\ Constraints[c].type = "resource" /\ Constraints[c].hard
    /\ \E t \in constraints[c] \cap Tasks : \E r \in Resources : Needs[t][r] > 0 /\ Exhausted(r)

OverdueTemporal(c) ==
    Constraints[c].type = "temporal" /\ Constraints[c].hard /\ Constraints[c].goals \cap Overdue # {}

ConstraintConflicts == {c \in DOMAIN constraints : Unsatisfiable(c) \/ OverdueTemporal(c)}

ConstraintInit ==
    /\ constraints = <<>>
    /\ state = [t \in Tasks |-> "pending"]
    /\ stock = [r \in Resources |-> [state |-> "available", capacity |-> 2, allocated |-> 0, reserved |-> 0]]
    /\ constraintSnapshots = <<>>
====
