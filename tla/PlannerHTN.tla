---- MODULE PlannerHTN ----
(* src/lib/planner/planner-htn.ts: the registry of decomposition methods and the recursive  *)
(* expansion of a goal into tasks (HTNPlanner.expandGoal), the GoalDecomposer a             *)
(* PlannerManager is given.  A PlannerManager without a decomposer behaves as one whose     *)
(* registry is empty: one placeholder task for each goal.                                   *)
EXTENDS PlannerGraph

CONSTANTS
    Methods,      \* method id -> [type, priority, needs, avoids, ordered, subtasks]
    MaxDepth      \* HTNPlanner.maxDepth

ASSUME MaxDepthAssumption == MaxDepth \in Nat \ {0}

VARIABLE registered   \* registry.methods: the ids, in the order they were registered

TemplateIds(m) == {s.id : s \in ToSet(m.subtasks)}

\* What register() lets in: it does not ask whether a template depends on a later one, or on
\* itself.
Acceptable(m) ==
    /\ m.subtasks # <<>>
    /\ Cardinality(TemplateIds(m)) = Len(m.subtasks)
    /\ \A s \in ToSet(m.subtasks) : s.compound => s.type # None
    /\ \A s \in ToSet(m.subtasks) : s.after \subseteq TemplateIds(m)

Register(id) ==
    /\ id \notin ToSet(registered) /\ Acceptable(Methods[id])
    /\ registered' = Append(registered, id)
    /\ UNCHANGED calls

Unregister(id) ==
    /\ Call
    /\ id \in ToSet(registered)
    /\ registered' = SelectSeq(registered, LAMBDA r : r # id)

\* The preconditions read the environment the context brings: the facts that must be there
\* and those that must not.
Applicable(m, environment) == m.needs \subseteq environment /\ m.avoids \cap environment = {}

\* selectMethod: the applicable method of the highest priority, the first registered of those.
Candidates(type, environment) ==
    SelectSeq(registered, LAMBDA id : Methods[id].type = type /\ Applicable(Methods[id], environment))

Selected(type, environment) ==
    LET ids == Candidates(type, environment)
        top == Max({Methods[id].priority : id \in ToSet(ids)})
    IN  IF ids = <<>> THEN None
        ELSE SelectSeq(ids, LAMBDA id : Methods[id].priority = top)[1]

Signature(goal) == <<goal.type, goal.title>>

\* An expansion so far: tasks are numbered by their place, the tasks' goals by theirs (the
\* root is 0), and tree lists which tasks each template of each applied method became.
NoExpansion == [tasks |-> <<>>, goals |-> <<>>, tree |-> {}]

InstantiateTask(goal, template) ==
    [goal |-> goal.number, after |-> {}, duration |-> template.duration,
     weight |-> IF template.weight = None THEN goal.weight ELSE template.weight]

Placeholder(goal) == [goal |-> goal.number, after |-> {}, duration |-> 0, weight |-> goal.weight]

InstantiateSubGoal(goal, template, number) ==
    [number |-> number, type |-> template.type, title |-> template.title,
     weight |-> IF template.weight = None THEN goal.weight ELSE template.weight]

\* computeRootsAndLeaves, within one expanded subtree.
RootsOf(tasks, ids) ==
    LET roots == {i \in ids : tasks[i].after \cap ids = {}} IN IF roots = {} THEN ids ELSE roots

LeavesOf(tasks, ids) ==
    LET leaves == {i \in ids : \A j \in ids : i \notin tasks[j].after}
    IN  IF leaves = {} THEN ids ELSE leaves

\* What a template waits for: what it declares or, in an ordered method and when it declares
\* nothing, the template before it.
WaitsFor(m, i) ==
    IF m.ordered /\ i > 1 /\ m.subtasks[i].after = {} THEN {m.subtasks[i - 1].id}
    ELSE m.subtasks[i].after

\* The entry points of a template wait for the exit points of what it depends on, of those
\* that are expanded already.
Ordered(tasks, entry, exit) ==
    [i \in DOMAIN tasks |-> IF i \in entry THEN [tasks[i] EXCEPT !.after = @ \cup (exit \ {i})]
                            ELSE tasks[i]]

\* The tasks of template i, made as ids, are ordered once its exit points are known.
WaitingFor(s, m, i, ids, exits) ==
    [done  |-> [s EXCEPT !.tasks = Ordered(@, RootsOf(@, ids), UNION {exits[t] : t \in WaitsFor(m, i)})],
     exits |-> exits]

AfterTemplate(m, i, s, made, ids) ==
    WaitingFor(made, m, i, ids, [s.exits EXCEPT ![m.subtasks[i].id] = LeavesOf(made.tasks, ids)])
        @@ [ids |-> [s.ids EXCEPT ![m.subtasks[i].id] = ids]]

RECURSIVE ExpandGoal(_, _, _, _, _)

\* One template of the method: its task or its subtree, then its dependencies.
ExpandTemplate(goal, environment, depth, path, m, s, i) ==
    LET template == m.subtasks[i]
        sub      == InstantiateSubGoal(goal, template, Len(s.done.goals) + 1)
        made     == IF template.compound
                    THEN ExpandGoal(sub, environment, depth + 1, path,
                                    [s.done EXCEPT !.goals = Append(@, sub)])
                    ELSE [s.done EXCEPT !.tasks = Append(@, InstantiateTask(goal, template))]
    IN  AfterTemplate(m, i, s, made, (Len(s.done.tasks) + 1) .. Len(made.tasks))

\* The subtasks of the selected method, in turn.
ExpandMethod(goal, environment, depth, path, done, id, m) ==
    LET none == [t \in TemplateIds(m) |-> {}]
        grown(ended) == [ended.done EXCEPT !.tree = @ \cup {[method |-> id, ids |-> ended.ids]}]
    IN  grown(FoldLeft(LAMBDA s, i : ExpandTemplate(goal, environment, depth,
                                         path \cup {Signature(goal)}, m, s, i),
                       [done |-> done, exits |-> none, ids |-> none],
                       [i \in DOMAIN m.subtasks |-> i]))

\* expandGoal: a placeholder at the depth limit, for a goal that is being expanded already and
\* for a goal no method applies to.
ExpandGoal(goal, environment, depth, path, done) ==
    LET id == Selected(goal.type, environment)
    IN  IF depth >= MaxDepth \/ Signature(goal) \in path \/ id = None
        THEN [done EXCEPT !.tasks = Append(@, Placeholder(goal))]
        ELSE ExpandMethod(goal, environment, depth, path, done, id, Methods[id])

Decompose(goal, environment) ==
    ExpandGoal([number |-> 0, type |-> goal.type, title |-> goal.title, weight |-> goal.weight],
               environment, 0, {}, NoExpansion)

====
