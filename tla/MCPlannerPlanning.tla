------------------------- MODULE MCPlannerPlanning -------------------------
(* Instances of PlannerPlanning for TLC: methods whose templates nest, and tasks whose  *)
(* dependencies make a diamond with arms of different lengths.                          *)
EXTENDS PlannerPlanning, TLC

CONSTANTS t1, t2, t3, r1, g1, p1

Template(id, after, duration) ==
    [id |-> id, compound |-> FALSE, type |-> None, title |-> id, after |-> after,
     duration |-> duration, weight |-> None]

SubGoal(id, type, after) == [Template(id, after, 0) EXCEPT !.compound = TRUE, !.type = type]

Method(type, priority, ordered, subtasks) ==
    [type |-> type, priority |-> priority, needs |-> {}, avoids |-> {}, ordered |-> ordered,
     subtasks |-> subtasks]

\* "build" nests "check", whose two methods differ by the environment.
PlanMethods ==
    [build |-> Method("build", 1, TRUE,
                  <<Template("s1", {}, 1), SubGoal("s2", "check", {}), Template("s3", {"s1", "s2"}, 1)>>),
     quick |-> [Method("check", 2, FALSE, <<Template("q1", {}, 2), Template("q2", {}, 1)>>)
                    EXCEPT !.needs = {"warm"}],
     slow  |-> Method("check", 1, FALSE,
                  <<Template("w1", {}, 1), SubGoal("w2", "check", {"w1"}), Template("w3", {"w1"}, 3)>>)]

Goal(type, title, weight) == [type |-> type, title |-> title, weight |-> weight, linked |-> FALSE]

PlanContexts ==
    {[goals |-> <<Goal("build", "b", 1)>>, environment |-> {"warm"}, constraints |-> 0,
      violated |-> FALSE],
     [goals |-> <<Goal("check", "c", 2)>>, environment |-> {}, constraints |-> 1,
      violated |-> TRUE]}

PlanTasks ==
    {[after |-> {1, 3}, cancelled |-> FALSE, duration |-> 2, weight |-> 3],
     [after |-> {0}, cancelled |-> TRUE, duration |-> 1, weight |-> 1]}

PlanGoals == {Goal("check", "extra", 1)}

PlanConstraints ==
    [room |-> [type |-> "resource", hard |-> TRUE, tasks |-> {}, goals |-> {}],
     order |-> [type |-> "dependency", hard |-> FALSE, tasks |-> {t1}, goals |-> {}],
     due |-> [type |-> "temporal", hard |-> TRUE, tasks |-> {}, goals |-> {g1}]]

ChainAfter == t1 :> {} @@ t2 :> {t1} @@ t3 :> {t2, t3}

OneNeeds == t1 :> (r1 :> 1) @@ t2 :> (r1 :> 2) @@ t3 :> (r1 :> 0)

NoEnvironment == {{}}
=============================================================================
