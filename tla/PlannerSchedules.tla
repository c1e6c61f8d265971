---- MODULE PlannerSchedules ----
(* PlannerScheduler of src/lib/planner/planner-scheduler.ts: schedules with a limited number *)
(* of slots, built from a plan's tasks and shifted afterwards one task at a time.            *)
(*                                                                                           *)
(* Times count from the reference start of the schedule.  The resource and the constraint    *)
(* manager a conflict search may be given are left out.                                      *)
EXTENDS PlannerManager

CONSTANTS
    ScheduleIds,
    Slots,            \* the values of maxConcurrency that callers give
    Horizon,          \* bound: the latest start a caller shifts a task to
    ScheduleCapacity  \* PlannerScheduleSnapshotManager.capacity

ASSUME SlotsAssumption == Slots \subseteq Nat \ {0} /\ Horizon \in Nat /\ ScheduleCapacity \in Nat \ {0}

VARIABLES
    schedules,          \* schedule id -> schedule, None when there is none
    scheduleSnapshots   \* PlannerScheduleSnapshotManager.history with its contents

scheduleVars == <<schedules, scheduleSnapshots>>

SchedulePolicies == {"earliest-start", "latest-start", "priority-first", "critical-path-first"}

WeightOf(tasks) ==
    [t \in ToSet(Ids(tasks)) |-> (CHOOSE r \in ToSet(tasks) : r.id = t).weight]

\* PlannerConcurrencyAllocator's rank of a ready task; the least is taken first.
Rank(t, policy, cpm, tasks) ==
    LET es == cpm.earliestStart[t] IN
    CASE policy = "latest-start"   -> <<cpm.latestStart[t], 0, t>>
      [] policy = "priority-first" ->
             <<IF t \in ToSet(Ids(tasks)) THEN -WeightOf(tasks)[t] ELSE 0, es, t>>
      [] policy = "critical-path-first" -> <<cpm.latestStart[t] - es, es, t>>
      [] policy = "earliest-start" -> <<es, 0, t>>

Precedes(a, b) ==
    \/ a[1] < b[1]
    \/ a[1] = b[1] /\ a[2] < b[2]
    \/ a[1] = b[1] /\ a[2] = b[2] /\ a[3] < b[3]

\* The ready task of the least rank.
NextReady(ready, policy, cpm, tasks) ==
    CHOOSE t \in ready : \A u \in ready \ {t} :
        Precedes(Rank(t, policy, cpm, tasks), Rank(u, policy, cpm, tasks))

\* The slot that is free first, the lowest of those.
NextSlot(free) ==
    CHOOSE s \in DOMAIN free : \A o \in DOMAIN free :
        free[s] < free[o] \/ (free[s] = free[o] /\ s <= o)

\* When a task is ready: its dependencies have finished where they were placed.
ReadyOnPaper(t, g, cpm, finish) == cpm.earliestStart[t]
ReadyTime(t, g, cpm, finish) ==
    Max({cpm.earliestStart[t]} \cup {finish[d] : d \in Dependencies(g, t)})

\* One round of the allocator: the next ready task goes to the next free slot.
PlacedAt(s, g, t, slot, start, lasting) ==
    LET freed == {d \in Dependents(g, t) : Dependencies(g, d) \subseteq s.done \cup {t}}
    IN  [done   |-> s.done \cup {t},
         ready  |-> (s.ready \ {t}) \cup freed,
         free   |-> [s.free EXCEPT ![slot] = start + lasting],
         start  |-> [s.start EXCEPT ![t] = start],
         finish |-> [s.finish EXCEPT ![t] = start + lasting],
         slot   |-> [s.slot EXCEPT ![t] = slot]]

PlacedIn(s, g, cpm, t, slot, lasting) ==
    PlacedAt(s, g, t, slot, Max({ReadyTime(t, g, cpm, s.finish), s.free[slot]}), lasting)

PlacedNext(s, g, cpm, t, duration) == PlacedIn(s, g, cpm, t, NextSlot(s.free), duration[t])

Placed(s, g, cpm, policy, tasks, duration) ==
    IF s.ready = {} THEN s
    ELSE PlacedNext(s, g, cpm, NextReady(s.ready, policy, cpm, tasks), duration)

Allocate(g, cpm, policy, max, tasks, duration) ==
    LET zero == [t \in Nodes(g) |-> 0]
        round[k \in 0 .. Len(g.nodes)] ==
            IF k = 0
            THEN [done |-> {}, ready |-> {t \in Nodes(g) : Dependencies(g, t) = {}},
                  free |-> [s \in 0 .. max - 1 |-> 0], start |-> zero, finish |-> zero, slot |-> zero]
            ELSE Placed(round[k - 1], g, cpm, policy, tasks, duration)
    IN  round[Len(g.nodes)]

Late(latestStart, start) == Max({0, latestStart - start})

Makespan(start, finish) ==
    IF DOMAIN start = {} THEN 0
    ELSE Max({finish[t] : t \in DOMAIN finish}) - Min({start[t] : t \in DOMAIN start})

\* buildScheduleInternal.
Entered(p, policy, max, cpm, a) ==
    [plan |-> p, policy |-> policy, max |-> max, start |-> a.start, finish |-> a.finish,
     slot |-> a.slot, latestStart |-> cpm.latestStart,
     slack |-> [t \in DOMAIN a.start |-> Late(cpm.latestStart[t], a.start[t])],
     status |-> [t \in DOMAIN a.start |-> "scheduled"],
     critical |-> ToSet(cpm.criticalPath), makespan |-> Makespan(a.start, a.finish),
     frozen |-> FALSE]

BuildWith(p, tasks, g, policy, max, cpm, duration) ==
    Entered(p, policy, max, cpm, Allocate(g, cpm, policy, max, tasks, duration))

Build(p, tasks, g, policy, max) ==
    BuildWith(p, tasks, g, policy, max, Schedule(tasks, g), DurationOf(tasks, g))

\* A plan's tasks and the graph its caller builds from them, which is acyclic.
Plannable(p) == p \in Known /\ ~GraphOf(plans[p].tasks).threw

BuildFor(p, policy, max) ==
    Build(p, plans[p].tasks, GraphOf(plans[p].tasks).graph, policy, max)

Built(id) == schedules[id] # None

Entries(id) == IF Built(id) THEN DOMAIN schedules[id].start ELSE {}

Scheduled(id, schedule) ==
    /\ schedules' = [schedules EXCEPT ![id] = schedule]
    /\ UNCHANGED scheduleSnapshots

GenerateSchedule(id, p, policy, max) ==
    /\ Call
    /\ ~Built(id) /\ Plannable(p)
    /\ Scheduled(id, BuildFor(p, policy, max))

\* optimizeSchedule: the least makespan, the first policy of those.
OptimizeSchedule(id, p, max, candidates) ==
    /\ Call
    /\ ~Built(id) /\ Plannable(p)
    /\ \E built \in {[i \in DOMAIN candidates |-> BuildFor(p, candidates[i], max)]} :
          Scheduled(id, SelectSeq(built, LAMBDA b : \A o \in ToSet(built) : b.makespan <= o.makespan)[1])

\* reschedule: a new schedule under the old id, frozen or not.
RebuildSchedule(id, policy, max) ==
    /\ Call
    /\ Built(id) /\ Plannable(schedules[id].plan)
    /\ Scheduled(id, BuildFor(schedules[id].plan, policy, max))

\* propagateShift: breadth first over the dependents; each is looked at once, and moved when
\* its dependencies, as they are by then, finish later than it starts.
ShiftStep(s, g, latestStart, duration) ==
    LET t        == Head(s.queue)
        deps     == Dependencies(g, t) \cap DOMAIN s.start
        required == Max({s.start[t]} \cup {s.finish[d] : d \in deps})
    IN  IF s.queue = <<>> THEN s
        ELSE IF t \in s.visited THEN [s EXCEPT !.queue = Tail(@)]
        ELSE IF t \notin DOMAIN s.start \/ required <= s.start[t]
        THEN [s EXCEPT !.queue = Tail(@), !.visited = @ \cup {t}]
        ELSE [queue   |-> Tail(s.queue) \o Neighbors(g, t),
              visited |-> s.visited \cup {t},
              start   |-> [s.start EXCEPT ![t] = required],
              finish  |-> [s.finish EXCEPT ![t] = required + duration[t]],
              slack   |-> [s.slack EXCEPT ![t] = Late(latestStart[t], required)]]

\* What a task lasts: what its plan says, or what the schedule gave it.
Lasting(sch, tasks) ==
    [t \in DOMAIN sch.start |->
        IF t \in ToSet(Ids(tasks)) THEN (CHOOSE r \in ToSet(tasks) : r.id = t).duration
        ELSE sch.finish[t] - sch.start[t]]

ShiftedBy(sch, t, at, g, duration) ==
    LET rounds == Len(g.nodes) + Len(g.edges)
        round[k \in 0 .. rounds] ==
            IF k = 0
            THEN [queue   |-> Neighbors(g, t), visited |-> {t},
                  start   |-> [sch.start EXCEPT ![t] = at],
                  finish  |-> [sch.finish EXCEPT ![t] = at + duration[t]],
                  slack   |-> [sch.slack EXCEPT ![t] = Late(sch.latestStart[t], at)]]
            ELSE ShiftStep(round[k - 1], g, sch.latestStart, duration)
    IN  round[rounds]

Shifted(sch, t, at, tasks, g) == ShiftedBy(sch, t, at, g, Lasting(sch, tasks))

\* rescheduleTask.  A frozen schedule refuses only at the end, when its makespan is to be
\* recomputed: the entries have moved by then.
RescheduleTask(id, t, at) ==
    /\ Call
    /\ Built(id) /\ t \in DOMAIN schedules[id].start /\ Plannable(schedules[id].plan)
    /\ LET sch   == schedules[id]
           tasks == plans[sch.plan].tasks
       IN  \E after \in {Shifted(sch, t, at, tasks, GraphOf(tasks).graph)} :
             Scheduled(id, [sch EXCEPT
                 !.start = after.start, !.finish = after.finish, !.slack = after.slack,
                 !.makespan = IF sch.frozen THEN @ ELSE Makespan(after.start, after.finish)])

SetEntryStatus(id, t, status) ==
    /\ Call
    /\ Built(id) /\ ~schedules[id].frozen /\ t \in DOMAIN schedules[id].status
    /\ Scheduled(id, [schedules[id] EXCEPT !.status[t] = status])

RecomputeCriticalPath(id) ==
    /\ Call
    /\ Built(id) /\ ~schedules[id].frozen
    /\ Scheduled(id, [schedules[id] EXCEPT
                         !.critical = {t \in DOMAIN schedules[id].slack : schedules[id].slack[t] = 0}])

Freeze(id, frozen) ==
    /\ Call
    /\ Built(id)
    /\ Scheduled(id, [schedules[id] EXCEPT !.frozen = frozen])

RemoveSchedule(id) ==
    /\ Call
    /\ Built(id)
    /\ Scheduled(id, None)

\* A serialized schedule says nothing of being frozen.
Thawed(sch) == IF sch = None THEN None ELSE [sch EXCEPT !.frozen = FALSE]

SnapshotSchedules ==
    /\ Call
    /\ LET all == Append(scheduleSnapshots, [id \in ScheduleIds |-> Thawed(schedules[id])])
       IN  scheduleSnapshots' = SubSeq(all, Max({1, Len(all) - ScheduleCapacity + 1}), Len(all))
    /\ UNCHANGED schedules

RestoreSchedules(i) ==
    /\ Call
    /\ i \in DOMAIN scheduleSnapshots /\ schedules' = scheduleSnapshots[i]
    /\ UNCHANGED scheduleSnapshots

\* PlannerScheduleConflictDetector: more tasks at once than the schedule has slots; a task
\* that starts before one of its dependencies, as the tasks have them now, has finished.
Running(sch, at) == {t \in DOMAIN sch.start : sch.start[t] <= at /\ at < sch.finish[t]}

ConcurrencyExceeded(sch) ==
    \E t \in DOMAIN sch.start : Cardinality(Running(sch, sch.start[t])) > sch.max

OrderViolations(sch, tasks) ==
    {<<d, t>> \in DerivedDependencies(tasks) :
        {d, t} \subseteq DOMAIN sch.start /\ sch.start[t] < sch.finish[d]}

ScheduleInit == schedules = [id \in ScheduleIds |-> None] /\ scheduleSnapshots = <<>>
====
