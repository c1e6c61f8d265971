------------------------- MODULE MCPlannerExecutor -------------------------
(* Instances of PlannerExecutor for TLC: some plans that differ in what matters *)
(* to the dispatch loop.                                                                *)
EXTENDS PlannerExecutor, TLC

CONSTANTS a, b, c, gpu

Need(amount) == <<[resource |-> gpu, amount |-> amount]>>

\* Two independent tasks, one slot short of resources.
Base ==
    [tasks |-> <<a, b>>, after |-> [t \in {a, b} |-> {}], attempts |-> 2, slots |-> 2,
     partial |-> TRUE, recovery |-> "escalate", timed |-> TRUE,
     needs |-> (a :> Need(1) @@ b :> <<>>), refused |-> {}, capacity |-> 1, calls |-> 1, runs |-> 2,
     checkpoints |-> <<b, a>>, rollback |-> TRUE, undoable |-> TRUE]

\* A task that waits for another, and a third that is independent.
Chain ==
    [Base EXCEPT !.tasks = <<b, a, c>>, !.after = (a :> {} @@ b :> {a} @@ c :> {}),
                 !.needs = [t \in {a, b, c} |-> <<>>], !.attempts = 1, !.slots = 1,
                 !.calls = 0, !.checkpoints = <<c, a>>]

NoPlan ==
    [Base EXCEPT !.tasks = <<>>, !.after = <<>>, !.needs = <<>>, !.calls = 4, !.capacity = 2,
                 !.checkpoints = <<>>]

ExecutionPlans ==
    {[Base EXCEPT !.tasks = <<a>>, !.after = (a :> {}), !.needs = (a :> Need(1)),
                   !.checkpoints = <<a>>],
     [Base EXCEPT !.calls = 0],
     [Base EXCEPT !.slots = 1, !.recovery = "retry", !.undoable = FALSE, !.calls = 0],
     [Base EXCEPT !.partial = FALSE, !.attempts = 1, !.calls = 0],
     [Base EXCEPT !.needs = [t \in {a, b} |-> Need(1)], !.calls = 0, !.attempts = 1],
     [Base EXCEPT !.refused = {b}, !.calls = 0, !.attempts = 1],
     Chain,
     [Chain EXCEPT !.after = [t \in {a, b, c} |-> {}], !.slots = 2,
                    !.rollback = FALSE, !.runs = 1],
     [Chain EXCEPT !.recovery = "skip"],
     [Chain EXCEPT !.recovery = "abort"],
     NoPlan}
=============================================================================
