-------------------------- MODULE PlannerExecutor --------------------------
(***************************************************************************)
(* The execution of one plan (executor.ts): the dispatch loop of           *)
(* ExecutionDispatcher.run(), the tasks it moves through their states, the *)
(* queue of ready tasks, retries, recovery, rollback, and the calls of the *)
(* callers of ExecutorManager.  JavaScript runs the loop to its next await *)
(* without interruption: while pc is "top" or "dispatch" nothing else      *)
(* happens.  The resources are those of PlannerResource, whose manager has *)
(* other users.                                                            *)
(***************************************************************************)
EXTENDS PlannerResource

CONSTANTS
    Plans,            \* the plans that may be executed, each with bounds: the number of
                      \* run() calls, and of calls of others to the resource manager
    MaxManual         \* bound: calls of retryTask()

\* What a plan needs of resources, and the bounds it brings.
ASSUME PlansAssumption ==
    \A p \in Plans :
        /\ p.tasks \in Seq(TaskIds)
        /\ \A t \in ToSet(p.tasks) :
                IsFiniteSet(p.after[t]) /\ p.needs[t] \in Seq([resource: ResourceIds, amount: Nat])
        /\ p.slots \in Nat /\ p.capacity \in Nat /\ p.calls \in Nat

VARIABLES
    plan,
    task,             \* executionTasksById
    remaining,        \* the queue's remainingDependencies
    ready,            \* the queue's ready tasks
    pc,               \* where run() is
    batch,            \* dequeued tasks that are still to be dispatched
    inFlight,         \* the keys of inFlight, in order of insertion
    outcome,          \* what the promise of a task in flight was settled with
    winner,           \* the task Promise.race() resolved to
    retries,          \* pendingRetries
    unresolved,       \* unresolvedFailures
    phase, cancelled, paused,
    live,             \* tasks whose dispatchOne() has not returned
    undo,             \* the rollback under way
    runs, manual,     \* calls of run() that are left; retryTask() calls by task
    threw, restored,  \* history: a run rejected; the context came from a snapshot
    stuck             \* history: reservations not released for a task that left inFlight

contextVars == <<plan, task, remaining, ready, phase, cancelled, paused>>
loopVars == <<pc, batch, inFlight, outcome, winner, retries, unresolved, live, undo>>
pastVars == <<runs, manual, threw, restored, stuck>>
executorVars == <<contextVars, loopVars, pastVars>>
vars == <<executorVars, resourceVars>>

---------------------------------------------------------------------------
(* Tasks *)

ExecutionState ==
    {"pending", "waiting", "ready", "dispatched", "running", "paused", "retrying", "completed",
     "failed", "skipped", "cancelled", "timedOut", "rolledBack"}

LegalMoves ==
    [pending |-> {"waiting", "ready", "cancelled"},
     waiting |-> {"ready", "skipped", "cancelled"},
     ready |-> {"dispatched", "skipped", "cancelled"},
     dispatched |-> {"running", "timedOut", "cancelled"},
     running |-> {"completed", "failed", "timedOut", "paused", "cancelled"},
     paused |-> {"running", "cancelled"},
     retrying |-> {"ready", "dispatched", "cancelled"},
     failed |-> {"retrying", "skipped", "rolledBack", "cancelled"},
     timedOut |-> {"retrying", "skipped", "rolledBack", "cancelled"},
     completed |-> {"rolledBack"},
     skipped |-> {}, cancelled |-> {}, rolledBack |-> {}]

Terminal == {"completed", "failed", "skipped", "cancelled", "timedOut", "rolledBack"}
Active == {"dispatched", "running", "paused"}
Lost == {"failed", "timedOut"}

\* setState() throws unless the task is in that state already or may move to it.
Legal(t, state) == state = task[t].state \/ state \in LegalMoves[task[t].state]

TasksOf(p) == ToSet(p.tasks)
Tasks == TasksOf(plan)

\* What a list has of S, in its order.
Keeping(list, S) ==
    LET kept[n \in 0 .. Len(list)] ==
            IF n = 0 THEN <<>>
            ELSE IF list[n] \in S THEN Append(kept[n - 1], list[n]) ELSE kept[n - 1]
    IN  kept
Only(list, S) == Keeping(list, S)[Len(list)]

Dependents(p, t) == Only(p.tasks, {d \in TasksOf(p) : t \in p.after[d]})

Moved(t, state) == [task EXCEPT ![t].state = state]

CanRetry(t) == task[t].state \in Lost /\ task[t].attempt < plan.attempts

\* recordDispatch() and recordStart().
StartedUncounted(tasks, t) == [tasks EXCEPT ![t].state = "running"]
Started(tasks, t) == [tasks EXCEPT ![t].state = "running", ![t].attempt = @ + 1]

Complete == \A t \in Tasks : task[t].state \in Terminal

---------------------------------------------------------------------------
(* The queue of ready tasks: counters of what a task still waits for *)

PushReady(list, t) == IF t \in ToSet(list) THEN list ELSE Append(list, t)

Seeded(p) ==
    [remaining |-> [t \in TasksOf(p) |-> Cardinality(p.after[t])],
     ready |-> Only(p.tasks, {t \in TasksOf(p) : p.after[t] = {}})]

\* Tasks that become ready one after the other.
Pushing(list, tasks) ==
    LET pushed[n \in 0 .. Len(tasks)] ==
            IF n = 0 THEN list ELSE PushReady(pushed[n - 1], tasks[n])
    IN  pushed
PushAll(list, tasks) == Pushing(list, tasks)[Len(tasks)]

\* markResolved(): a dependent that waits for nothing else becomes ready.
Counted(queue, d) ==
    LET left == queue.remaining[d] - 1
    IN  [remaining |-> [queue.remaining EXCEPT ![d] = Floor0(left)],
         ready |-> IF left <= 0 THEN PushReady(queue.ready, d) ELSE queue.ready]

Resolving(p, queue, t) ==
    LET counted[n \in 0 .. Len(Dependents(p, t))] ==
            IF n = 0 THEN queue ELSE Counted(counted[n - 1], Dependents(p, t)[n])
    IN  counted
Resolved(p, queue, t) == Resolving(p, queue, t)[Len(Dependents(p, t))]

Queue == [remaining |-> remaining, ready |-> ready]

\* Dependents of t that are skipped with it: those not ended and not active, and theirs.
SkippedWith(t) ==
    LET open == {d \in Tasks : task[d].state \notin Terminal \cup Active}
        reach[n \in 0..Cardinality(Tasks)] ==
            IF n = 0 THEN {t}
            ELSE reach[n - 1] \cup {d \in open : plan.after[d] \cap reach[n - 1] # {}}
    IN  reach[Cardinality(Tasks)] \ {t}

---------------------------------------------------------------------------
(* The dispatch loop *)

Silent == [t \in Tasks |-> None]

\* The promise of run() rejects: its local state is gone, what it called runs on.
Throw ==
    /\ pc' = "threw" /\ threw' = TRUE
    /\ batch' = <<>> /\ inFlight' = <<>> /\ retries' = <<>>
    /\ outcome' = Silent /\ winner' = None /\ unresolved' = {}

Run ==
    /\ pc \in {"idle", "done", "threw"} /\ runs > 0
    /\ runs' = runs - 1
    /\ pc' = "top"
    /\ phase' = "running"
    /\ unresolved' = {}
    /\ UNCHANGED <<plan, task, remaining, ready, cancelled, paused, batch, inFlight, outcome,
                   winner, retries, live, undo, manual, threw, restored, stuck,
                   resourceVars>>

\* The loop is left: run() goes on once what is in flight has settled.
Leave ==
    /\ pc = "top"
    /\ Complete \/ cancelled
    /\ pc' = "settling"
    /\ UNCHANGED <<contextVars, batch, inFlight, outcome, winner, retries, unresolved, live, undo,
                   pastVars, resourceVars>>

Sleep ==
    /\ pc = "top"
    /\ ~Complete /\ ~cancelled /\ paused
    /\ pc' = "asleep"
    /\ UNCHANGED <<contextVars, batch, inFlight, outcome, winner, retries, unresolved, live, undo,
                   pastVars, resourceVars>>

Wake ==
    /\ pc = "asleep"
    /\ pc' = "top"
    /\ UNCHANGED <<contextVars, batch, inFlight, outcome, winner, retries, unresolved, live, undo,
                   pastVars, resourceVars>>

FreeSlots == Floor0(plan.slots - Len(inFlight))

\* Retries whose delay has passed become ready, the last of the list first; the free
\* slots are then filled from the queue.
Dequeue(due) ==
    LET slots == FreeSlots
        queue == PushAll(ready, Reverse(Only(retries, due)))
        taken == IF slots > Len(queue) THEN Len(queue) ELSE slots
    IN  /\ pc = "top"
        /\ ~Complete /\ ~cancelled /\ ~paused
        /\ task' = [t \in Tasks |-> IF t \in due THEN [task[t] EXCEPT !.state = "ready"] ELSE task[t]]
        /\ retries' = Only(retries, Tasks \ due)
        /\ batch' = SubSeq(queue, 1, taken)
        /\ ready' = SubSeq(queue, taken + 1, Len(queue))
        /\ pc' = "dispatch"
        /\ UNCHANGED <<plan, remaining, phase, cancelled, paused, inFlight, outcome, winner,
                       unresolved, live, undo, pastVars, resourceVars>>

\* The constraint manager finds a severe or high issue: recordFailure() is called for a
\* task that is not running, which is not a legal move.
Refuse ==
    /\ pc = "dispatch" /\ batch # <<>>
    /\ Head(batch) \in plan.refused
    /\ Throw
    /\ UNCHANGED <<contextVars, live, undo, runs, manual, restored, stuck, resourceVars>>

\* The reservations of a task are made before its state is checked; a batch that fails
\* calls recordFailure() too.  The handler is called in the same step.
Dispatch ==
    LET t == Head(batch)
        books == Batch(plan.needs[t], t)
        held == task[t].held \o
                    [k \in 1..(Len(books.book) - Len(reservations)) |-> Len(reservations) + k]
        reserved == IF books.ok THEN [task EXCEPT ![t].held = held] ELSE task
    IN  /\ pc = "dispatch" /\ batch # <<>>
        /\ t \notin plan.refused
        /\ resources' = books.rs /\ reservations' = books.book
        /\ IF books.ok /\ Legal(t, "dispatched")
           THEN /\ task' = Started(reserved, t)
                /\ batch' = Tail(batch)
                /\ inFlight' = PushReady(inFlight, t)
                /\ outcome' = [outcome EXCEPT ![t] = None]
                /\ live' = live \cup {t}
                /\ UNCHANGED <<pc, winner, retries, unresolved, threw>>
           ELSE task' = reserved /\ Throw /\ UNCHANGED live
        /\ UNCHANGED <<plan, remaining, ready, phase, cancelled, paused, undo, runs, manual,
                       restored, stuck, pools, allocations, clock, saved, calls, historyVars>>

IdleLoop == ready = <<>> /\ retries = <<>>

\* Of the promises that have settled Promise.race() takes the first in the map's order.
Wait ==
    LET settled == Only(inFlight, {t \in Tasks : outcome[t] # None})
    IN  /\ pc = "dispatch" /\ batch = <<>>
        /\ pc' = IF inFlight # <<>> THEN "racing"
                 ELSE IF IdleLoop THEN "settling" ELSE "asleep"
        /\ winner' = IF settled = <<>> THEN None ELSE Head(settled)
        /\ UNCHANGED <<contextVars, batch, inFlight, outcome, retries, unresolved, live, undo,
                       pastVars, resourceVars>>

\* dispatchOne() ends: the handler answered, threw, or was overtaken by its timeout.
Settle(t, result) ==
    /\ t \in live /\ pc \notin {"top", "dispatch"}
    /\ result = "timedOut" => plan.timed
    /\ live' = live \ {t}
    /\ task' = IF Legal(t, result) THEN Moved(t, result) ELSE task
    /\ outcome' = IF t \in ToSet(inFlight) THEN [outcome EXCEPT ![t] = result] ELSE outcome
    /\ winner' = IF pc = "racing" /\ winner = None /\ t \in ToSet(inFlight) THEN t ELSE winner
    /\ UNCHANGED <<plan, remaining, ready, phase, cancelled, paused, pc, batch, inFlight, retries,
                   unresolved, undo, pastVars, resourceVars>>

\* releaseResources(): errors are swallowed.  (GivenBackLate: only after a failure.)
GivenBackLate(t) ==
    IF outcome[t] = "completed" THEN Books(resources, reservations)
    ELSE AllReleased(Books(resources, reservations), task[t].held)

GivenBack(t) == AllReleased(Books(resources, reservations), task[t].held)

Refused(t, book) ==
    {i \in ToSet(task[t].held) : book[i].status = "active" /\ ~Releasable(resources, reservations, i)}

Return(t) ==
    LET books == GivenBack(t)
    IN  /\ resources' = books.rs /\ reservations' = books.book
        /\ stuck' = stuck \cup Refused(t, books.book)
        /\ UNCHANGED <<pools, allocations, clock, saved, calls, historyVars>>

Drop(t) ==
    /\ inFlight' = Only(inFlight, Tasks \ {t})
    /\ outcome' = [outcome EXCEPT ![t] = None]
    /\ winner' = None

Succeed(t) ==
    /\ outcome[t] = "completed"
    /\ Drop(t) /\ pc' = "top"
    /\ remaining' = Resolved(plan, Queue, t).remaining
    /\ ready' = Resolved(plan, Queue, t).ready
    /\ UNCHANGED <<task, retries, unresolved, cancelled, batch, threw>>

\* scheduleRetry(), for shouldRetry() or as the recovery of a task with attempts left.
Retry(t) ==
    /\ outcome[t] # "completed"
    /\ CanRetry(t) \/ (plan.recovery = "retry" /\ task[t].attempt < plan.attempts)
    /\ IF Legal(t, "retrying")
       THEN /\ Drop(t) /\ pc' = "top"
            /\ task' = Moved(t, "retrying")
            /\ retries' = Append(retries, t)
            /\ UNCHANGED <<unresolved, batch, threw>>
       ELSE Throw /\ UNCHANGED task
    /\ UNCHANGED <<remaining, ready, cancelled>>

Skip(t) ==
    /\ outcome[t] # "completed" /\ ~CanRetry(t)
    /\ plan.recovery = "skip"
    /\ Drop(t) /\ pc' = "top"
    /\ task' = Moved(t, "skipped")
    /\ remaining' = Resolved(plan, Queue, t).remaining
    /\ ready' = Resolved(plan, Queue, t).ready
    /\ UNCHANGED <<retries, unresolved, cancelled, batch, threw>>

\* Escalate, Compensate and Abort.
GiveUp(t) ==
    /\ outcome[t] # "completed" /\ ~CanRetry(t)
    /\ plan.recovery # "skip"
    /\ plan.recovery = "retry" => task[t].attempt >= plan.attempts
    /\ Drop(t) /\ pc' = "top"
    /\ unresolved' = unresolved \cup {t}
    /\ task' = [d \in Tasks |-> IF d \in SkippedWith(t) THEN [task[d] EXCEPT !.state = "skipped"]
                                ELSE task[d]]
    /\ ready' = Only(ready, Tasks \ SkippedWith(t))
    /\ cancelled' = (cancelled \/ plan.recovery = "abort" \/ ~plan.partial)
    /\ UNCHANGED <<remaining, retries, batch, threw>>

Continue ==
    /\ pc = "racing" /\ winner # None
    /\ Return(winner)
    /\ \/ Succeed(winner)
       \/ Retry(winner)
       \/ Skip(winner)
       \/ GiveUp(winner)
    /\ UNCHANGED <<plan, phase, paused, live, undo, runs, manual, restored>>

---------------------------------------------------------------------------
(* The end of a run, and rollback *)

Final == IF cancelled THEN "cancelled" ELSE IF unresolved # {} THEN "failed" ELSE "completed"

\* The next checkpoint from k on whose task has completed, or 0.
NextUndo(tasks, k) ==
    LET left == {i \in k..Len(plan.checkpoints) : tasks[plan.checkpoints[i]].state = "completed"}
    IN  IF left = {} THEN 0 ELSE CHOOSE i \in left : \A j \in left : i <= j

\* A handler without a rollback hook is called for no task, and all are marked.
Marked(tasks) ==
    IF plan.undoable THEN tasks
    ELSE [t \in Tasks |-> IF tasks[t].state = "completed" /\ t \in ToSet(plan.checkpoints)
                          THEN [tasks[t] EXCEPT !.state = "rolledBack"] ELSE tasks[t]]

\* allSettled(); what a cancelled run left open is cancelled; a rollback may follow.
Finish ==
    LET closed == [t \in Tasks |-> IF cancelled /\ task[t].state \notin Terminal
                                   THEN [task[t] EXCEPT !.state = "cancelled"] ELSE task[t]]
        rolls == unresolved # {} /\ plan.rollback
        left == IF rolls /\ ~cancelled THEN Marked(closed) ELSE closed
        first == IF rolls /\ ~cancelled THEN NextUndo(left, 1) ELSE 0
    IN  /\ pc = "settling"
        /\ \A t \in ToSet(inFlight) : outcome[t] # None
        /\ inFlight' = <<>> /\ outcome' = Silent /\ retries' = <<>>
        /\ task' = left
        /\ IF first # 0
           THEN /\ pc' = "rolling" /\ phase' = "rollingBack"
                /\ undo' = [at |-> first, back |-> Final, auto |-> TRUE]
           ELSE pc' = "done" /\ phase' = Final /\ UNCHANGED undo
        /\ stuck' = stuck \cup UNION {ToSet(task[t].held) : t \in ToSet(inFlight)}
        /\ UNCHANGED <<plan, remaining, ready, cancelled, paused, batch, winner, unresolved, live,
                       runs, manual, threw, restored, resourceVars>>

\* rollback() of a caller, between runs; a cancelled context has nothing undone.
Rollback ==
    /\ pc = "done" /\ ~cancelled
    /\ task' = Marked(task)
    /\ IF NextUndo(task', 1) # 0
       THEN /\ pc' = "rolling" /\ phase' = "rollingBack"
            /\ undo' = [at |-> NextUndo(task', 1), back |-> phase, auto |-> FALSE]
       ELSE UNCHANGED <<pc, phase, undo>>
    /\ UNCHANGED <<plan, remaining, ready, cancelled, paused, batch, inFlight, outcome, winner,
                   retries, unresolved, live, pastVars, resourceVars>>

\* The handler has undone a task; a cancellation stops before the next.
Undone ==
    LET next == IF cancelled THEN 0 ELSE NextUndo(task', undo.at + 1)
    IN  /\ pc = "rolling"
        /\ task' = Moved(plan.checkpoints[undo.at], "rolledBack")
        /\ IF next = 0
           THEN /\ pc' = "done" /\ UNCHANGED undo
                /\ phase' = IF undo.auto THEN Final ELSE undo.back
           ELSE undo' = [undo EXCEPT !.at = next] /\ UNCHANGED <<pc, phase>>
        /\ UNCHANGED <<plan, remaining, ready, cancelled, paused, batch, inFlight, outcome, winner,
                       retries, unresolved, live, pastVars, resourceVars>>

UndoFails ==
    /\ pc = "rolling"
    /\ Throw
    /\ UNCHANGED <<contextVars, live, undo, runs, manual, restored, stuck, resourceVars>>

---------------------------------------------------------------------------
(* Callers *)

\* Callers run when no continuation of the loop is due.
Quiet ==
    /\ pc \notin {"top", "dispatch"}
    /\ pc = "racing" => winner = None
    /\ pc = "settling" => \E t \in ToSet(inFlight) : outcome[t] = None

\* A plan is registered with the executor: without one its resources are only managed.
Begun == pc # "none"

Pause ==
    /\ Quiet /\ Begun /\ ~paused
    /\ paused' = TRUE /\ phase' = "paused"
    /\ UNCHANGED <<plan, task, remaining, ready, cancelled, loopVars, pastVars, resourceVars>>

Resume ==
    /\ Quiet /\ Begun /\ paused
    /\ paused' = FALSE /\ phase' = "running"
    /\ UNCHANGED <<plan, task, remaining, ready, cancelled, loopVars, pastVars, resourceVars>>

Cancel ==
    /\ Quiet /\ Begun /\ ~cancelled
    /\ cancelled' = TRUE
    /\ UNCHANGED <<plan, task, remaining, ready, phase, paused, loopVars, pastVars, resourceVars>>

RetryTask(t) ==
    /\ Quiet /\ manual[t] < MaxManual
    /\ task[t].state \in Lost
    /\ task' = Moved(t, "ready")
    /\ ready' = PushReady(ready, t)
    /\ manual' = [manual EXCEPT ![t] = @ + 1]
    /\ UNCHANGED <<plan, remaining, phase, cancelled, paused, loopVars, runs, threw,
                   restored, stuck, resourceVars>>

\* restoreRecords(): in the order of the plan, a task that has ended resolves its
\* dependents and leaves the queue.
Reading(p, tasks) ==
    LET queues[n \in 0 .. Len(p.tasks)] ==
            IF n = 0 THEN Seeded(p)
            ELSE IF tasks[p.tasks[n]].state \in Terminal \ {"cancelled"}
            THEN [Resolved(p, queues[n - 1], p.tasks[n]) EXCEPT !.ready = Only(@, TasksOf(p) \ {p.tasks[n]})]
            ELSE queues[n - 1]
    IN  queues
Readied(p, tasks) == Reading(p, tasks)[Len(p.tasks)]

InitialResource(capacity) ==
    [capacity |-> capacity, allocated |-> 0, reserved |-> 0, state |-> "available", frozen |-> FALSE]

\* The process stops some time after a caller took a snapshot of this state; the next
\* begins the execution anew and restores it.  Its resource manager is a new one, of which
\* the old reservation ids name nothing.
Restart ==
    /\ Quiet /\ Begun /\ ~restored
    /\ restored' = TRUE
    /\ task' = [t \in Tasks |-> [task[t] EXCEPT !.held = <<>>]]
    /\ remaining' = Readied(plan, task).remaining
    /\ ready' = Readied(plan, task).ready
    /\ cancelled' = FALSE /\ paused' = FALSE
    /\ pc' = "idle" /\ batch' = <<>> /\ inFlight' = <<>> /\ outcome' = Silent /\ winner' = None
    /\ retries' = <<>> /\ unresolved' = {} /\ live' = {} /\ undo' = None
    /\ threw' = FALSE /\ stuck' = {}
    /\ resources' = [r \in ResourceIds |-> InitialResource(plan.capacity)]
    /\ pools' = [p \in PoolIds |-> None]
    /\ reservations' = <<>> /\ allocations' = <<>> /\ saved' = None
    /\ uncounted' = {} /\ shrunk' = {}
    /\ UNCHANGED <<plan, phase, runs, manual, clock, calls>>

\* Other users of the resource manager.  Reservation ids that a restored snapshot has
\* cleared from the ledger name nothing any more.
Others ==
    /\ Quiet /\ ResourceNext
    /\ IF Len(reservations') < Len(reservations)
       THEN task' = [t \in Tasks |-> [task[t] EXCEPT !.held = <<>>]] /\ stuck' = {}
       ELSE UNCHANGED <<task, stuck>>
    /\ UNCHANGED <<plan, remaining, ready, phase, cancelled, paused, loopVars, runs, manual, threw,
                   restored>>

ExecutorInit ==
    /\ plan \in Plans
    /\ task = [t \in Tasks |->
            [state |-> IF plan.after[t] = {} THEN "ready" ELSE "waiting", attempt |-> 0, held |-> <<>>]]
    /\ remaining = Seeded(plan).remaining /\ ready = Seeded(plan).ready
    /\ phase = "idle" /\ cancelled = FALSE /\ paused = FALSE
    /\ pc = IF plan.tasks = <<>> THEN "none" ELSE "idle"
    /\ batch = <<>> /\ inFlight = <<>> /\ outcome = Silent /\ winner = None
    /\ retries = <<>> /\ unresolved = {} /\ live = {} /\ undo = None
    /\ runs = plan.runs /\ manual = [t \in Tasks |-> 0]
    /\ threw = FALSE /\ restored = FALSE /\ stuck = {}
    /\ resources = [r \in ResourceIds |-> InitialResource(plan.capacity)]
    /\ pools = [p \in PoolIds |-> None]
    /\ reservations = <<>> /\ allocations = <<>>
    /\ clock = 0 /\ saved = None /\ calls = plan.calls
    /\ uncounted = {} /\ shrunk = {}

Loop ==
    \/ Leave \/ Sleep \/ Wake
    \/ \E due \in SUBSET ToSet(retries) : Dequeue(due)
    \/ Refuse \/ Dispatch \/ Wait \/ Continue \/ Finish

ExecutorNext ==
    \/ Run \/ Loop
    \/ \E t \in Tasks, result \in {"completed", "failed", "timedOut"} : Settle(t, result)
    \/ Rollback \/ Undone \/ UndoFails
    \/ Pause \/ Resume \/ Cancel \/ Restart
    \/ \E t \in Tasks : RetryTask(t)
    \/ Others

\* The loop and the timers of the engine go on; a retry's delay passes; nothing is
\* assumed of handlers.
ExecutorFairness ==
    /\ WF_vars(Loop)
    /\ SF_vars(Dequeue(ToSet(retries)))
    /\ \A t \in TaskIds : WF_vars(t \in Tasks /\ Settle(t, "timedOut"))

ExecutorSpec == ExecutorInit /\ [][ExecutorNext]_vars
FairSpec == ExecutorSpec /\ ExecutorFairness

---------------------------------------------------------------------------
(* Properties *)

ExecutorTypeOK ==
    /\ plan \in Plans
    /\ task \in [Tasks -> [state: ExecutionState, attempt: Nat, held: Seq(Nat)]]
    /\ remaining \in [Tasks -> Nat]
    /\ ready \in Seq(Tasks) /\ batch \in Seq(Tasks) /\ inFlight \in Seq(Tasks) /\ retries \in Seq(Tasks)
    /\ pc \in {"none", "idle", "top", "dispatch", "racing", "asleep", "settling", "rolling", "done", "threw"}
    /\ outcome \in [Tasks -> {"completed", "failed", "timedOut", None}]
    /\ winner \in Tasks \cup {None}
    /\ unresolved \subseteq Tasks /\ live \subseteq Tasks
    /\ phase \in {"idle", "running", "paused", "rollingBack", "completed", "failed", "cancelled"}
    /\ cancelled \in BOOLEAN /\ paused \in BOOLEAN

Looping == pc \in {"top", "dispatch", "racing", "asleep"}

\* While a run goes on, what a task has reserved is held only as long as it is in flight,
\* unless the manager refused to take it back or an earlier run ended before it could.
HeldInFlight ==
    Looping /\ ~threw =>
        \A t \in Tasks : \A i \in ToSet(task[t].held) \ stuck :
            reservations[i].status = "active" => t \in ToSet(inFlight)

\* A run whose tasks have a timeout ends, or reaches a rollback hook, whatever handlers do,
\* unless the execution stays paused.
RunEnds ==
    <>[](~paused) => (Looping /\ plan.timed ~> pc \in {"done", "threw", "rolling", "idle"})

\* run() drives a context until every task is terminal or it is cancelled: with no resource
\* or constraint to refuse a task and no rollback to fail, it does not reject.
DrivesToCompletion ==
    plan.refused = {} /\ (\A t \in Tasks : plan.needs[t] = <<>>) /\ undo = None /\ ~restored =>
        pc # "threw"

=============================================================================
