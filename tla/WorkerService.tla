---------------------------- MODULE WorkerService ----------------------------
(***************************************************************************)
(* A worker process from its boot to its exit: the script that starts and  *)
(* stops its parts (tty-worker.ts), the daemon that registers it and beats *)
(* (tty-worker-daemon.ts, tty-worker-registry.ts, tty-worker-heartbeat.ts) *)
(* and the poller and executor that take queued executions                 *)
(* (tty-worker-poller.ts, tty-supabase-pending-execution-queue.ts,         *)
(* tty-worker-claim.ts, tty-worker-executor.ts).                           *)
(*                                                                         *)
(* How an execution runs, how its lease ends and who recovers it is        *)
(* TTYExecution's; here a run begins with the claim and ends.  Time is     *)
(* what it does: a heartbeat that is not followed by another is no longer  *)
(* fresh.                                                                  *)
(***************************************************************************)
EXTENDS Integers, FiniteSets

CONSTANTS
    Processes,     \* worker processes; a supervisor may boot one again
    WorkerIds,     \* the stable identifiers they are configured with
    Jobs,          \* executions
    Gone,          \* the value of a key that is not set
    Always         \* a budget that is not used up

VARIABLES
    registration,  \* the metadata record of each worker id
    listed,        \* the set of registered worker ids
    heartbeat,     \* the stored heartbeat of each worker id
    worker,        \* each process
    job,           \* the job record of each execution
    pendingIndex,  \* the durable set of pending executions
    chances        \* what may still happen

workerVars == <<registration, listed, heartbeat, worker, job, pendingIndex, chances>>

NoPoll == [step |-> "none", queued |-> {}, stale |-> {}]

\* A process that does not run, configured with `id`.
Off(id) ==
    [id |-> id, main |-> "off", daemon |-> "stopped", step |-> "none", sequence |-> 0, owned |-> FALSE, retry |-> 0,
     closing |-> "no", active |-> FALSE, pending |-> {}, poll |-> NoPoll, run |-> Gone]

Set(p, w) == worker' = [worker EXCEPT ![p] = w]
IdOf(p) == worker[p].id
Spending(what) == chances[what] > 0 /\ chances' = [chances EXCEPT ![what] = @ - 1]
Signalled(p) == worker[p].closing # "no"
Runs(p) == worker[p].main # "off"

\* A process that is ready, registered and has been heard.
Ready(id) ==
    [Off(id) EXCEPT !.main = "over", !.daemon = "running", !.sequence = 1, !.owned = TRUE, !.active = TRUE]

Registered(p, id) == [status |-> "active", identity |-> id, by |-> p]

\* `ids` is the identifier of each process, `ready` those that run already.
WorkerInit(ids, ready, jobs, budget) ==
    /\ listed = {ids[p] : p \in ready}
    /\ registration = [w \in WorkerIds |->
           IF w \in listed THEN Registered(CHOOSE p \in ready : ids[p] = w, w) ELSE Gone]
    /\ heartbeat = [w \in WorkerIds |-> IF w \in listed THEN [sequence |-> 1, fresh |-> TRUE] ELSE Gone]
    /\ worker = [p \in Processes |-> IF p \in ready THEN Ready(ids[p]) ELSE Off(ids[p])]
    /\ job = [j \in Jobs |-> [state |-> IF j \in jobs THEN "queued" ELSE "absent", by |-> Gone, again |-> FALSE]]
    /\ pendingIndex = jobs
    /\ chances = budget

-----------------------------------------------------------------------------
(* The registry and the heartbeats, as the scripts of the store leave them. *)

Fresh(id) == heartbeat[id] # Gone /\ heartbeat[id].fresh

\* Changed: only an id that is not registered can be registered.
Registrable_absent(id) == registration[id] = Gone

\* A registration can be taken when there is none, or when nothing has been heard of its worker for
\* 30 seconds; one that an administrator switched off never.
Registrable(id) == registration[id] = Gone \/ (registration[id].status # "inactive" /\ ~Fresh(id))

RegisterAs(p) ==
    /\ registration' = [registration EXCEPT ![IdOf(p)] = Registered(p, IdOf(p))]
    /\ listed' = listed \cup {IdOf(p)}
    /\ heartbeat' = [heartbeat EXCEPT ![IdOf(p)] = Gone]

Unknown(id) == registration[id] = Gone \/ registration[id].status = "inactive"
Duplicate(id, sequence) == heartbeat[id] # Gone /\ heartbeat[id].sequence >= sequence
Accepts(id, sequence) == ~Unknown(id) /\ ~Duplicate(id, sequence)

Stored(id, sequence) ==
    /\ heartbeat' = [heartbeat EXCEPT ![id] = [sequence |-> sequence, fresh |-> TRUE]]
    /\ registration' = [registration EXCEPT ![id].status = IF @ = "offline" THEN "active" ELSE @]

\* Thirty seconds pass without a heartbeat: nobody beats for this id, or who does is held up.
Lapse(id) ==
    /\ Fresh(id)
    /\ \/ ~(\E p \in Processes : IdOf(p) = id /\ (worker[p].daemon = "running" \/ worker[p].step = "recovery")) /\ UNCHANGED chances
       \/ Spending("stall")
    /\ heartbeat' = [heartbeat EXCEPT ![id].fresh = FALSE]
    /\ UNCHANGED <<registration, listed, worker, job, pendingIndex>>

\* Operations on the registry that no worker calls.
Administer(id) ==
    /\ registration[id] # Gone
    /\ Spending("administer")
    /\ \/ registration' = [registration EXCEPT ![id].status = "inactive"]
       \/ registration' = [registration EXCEPT ![id].status = "active"]
       \/ registration[id].status # "inactive" /\ ~Fresh(id) /\ registration' = [registration EXCEPT ![id].status = "offline"]
    /\ UNCHANGED <<listed, heartbeat, worker, job, pendingIndex>>

-----------------------------------------------------------------------------
(* The daemon.                                                             *)

\* What starts once the daemon runs, unless the process has been told to stop.
After(p, w, next) == Set(p, [w EXCEPT !.main = IF Signalled(p) THEN "over" ELSE next])

Register(p) ==
    /\ worker[p].step = "register"
    /\ IF Registrable(IdOf(p))
       THEN /\ RegisterAs(p)
            /\ \/ Set(p, [worker[p] EXCEPT !.step = "authenticate", !.owned = TRUE]) /\ UNCHANGED chances
               \/ Set(p, [worker[p] EXCEPT !.step = "unwind"]) /\ Spending("lose")
       ELSE Set(p, [worker[p] EXCEPT !.step = "unwind"]) /\ UNCHANGED <<registration, listed, heartbeat, chances>>
    /\ UNCHANGED <<job, pendingIndex>>

\* The token names the worker; the registry says whether it may work.
Authenticate(p) ==
    /\ worker[p].step = "authenticate"
    /\ LET known == registration[IdOf(p)] # Gone /\ registration[IdOf(p)].status = "active"
       IN  Set(p, [worker[p] EXCEPT !.step = IF known THEN "beat" ELSE "unwind"])
    /\ UNCHANGED <<registration, listed, heartbeat, job, pendingIndex, chances>>

\* What the daemon does after a heartbeat: nothing more, or the next step of its start.
Beaten(w, ok) ==
    [w EXCEPT !.retry = 0, !.step = IF @ = "beat" THEN (IF ok THEN "recovery" ELSE "unwind") ELSE @]

NextSequence(p) == worker[p].sequence + 1
Resync(id) == heartbeat[id].sequence + 1

\* recordHeartbeat: a number the store has seen is answered with a number above the stored one,
\* once; an answer that is lost leaves the daemon's number behind the stored one.
Beat(p) ==
    /\ \/ worker[p].step = "beat"
       \/ worker[p].daemon = "running" /\ worker[p].step = "none"
    /\ Fresh(IdOf(p)) /\ worker[p].step = "none" => chances["beat"] > 0
    /\ \E sequence \in {IF worker[p].retry > 0 THEN worker[p].retry ELSE NextSequence(p)} :
          IF Accepts(IdOf(p), sequence)
          THEN /\ Stored(IdOf(p), sequence)
               /\ \/ /\ Set(p, Beaten([worker[p] EXCEPT !.sequence = sequence], TRUE))
                     /\ IF Fresh(IdOf(p)) /\ worker[p].step = "none" THEN Spending("beat") ELSE UNCHANGED chances
                  \/ Set(p, Beaten(worker[p], FALSE)) /\ Spending("lose")
          ELSE /\ ~Unknown(IdOf(p)) \/ worker[p].step = "beat"
               /\ IF ~Unknown(IdOf(p)) /\ worker[p].retry = 0
                  THEN Set(p, [worker[p] EXCEPT !.retry = Resync(IdOf(p))])
                  ELSE Set(p, Beaten(worker[p], FALSE))
               /\ UNCHANGED <<registration, heartbeat, chances>>
    /\ UNCHANGED <<listed, job, pendingIndex>>

\* The first recovery scan is over: the daemon runs, and answers signals itself from now on.
RecoveryStarts(p) ==
    /\ worker[p].step = "recovery"
    /\ After(p, [worker[p] EXCEPT !.daemon = "running", !.step = "none"], "consumers")
    /\ UNCHANGED <<registration, listed, heartbeat, job, pendingIndex, chances>>

\* The daemon has stopped, or has failed to start, which ends the script's start as well.
Ended(w) ==
    [w EXCEPT !.step = "none", !.owned = FALSE,
              !.daemon = IF @ = "starting" THEN "failed" ELSE "stopped",
              !.main = IF w.daemon = "starting" THEN "over" ELSE @]

\* releaseRegistration: only what it registered; the record is read, deleted, then unlisted.
Release(p) ==
    /\ worker[p].step = "unwind"
    /\ IF worker[p].owned /\ registration[IdOf(p)] # Gone /\ registration[IdOf(p)].identity = IdOf(p)
       THEN Set(p, [worker[p] EXCEPT !.step = "delete", !.owned = FALSE])
       ELSE Set(p, Ended(worker[p]))
    /\ UNCHANGED <<registration, listed, heartbeat, job, pendingIndex, chances>>

DeleteKeys(p) ==
    /\ worker[p].step = "delete"
    /\ registration' = [registration EXCEPT ![IdOf(p)] = Gone]
    /\ heartbeat' = [heartbeat EXCEPT ![IdOf(p)] = Gone]
    /\ Set(p, [worker[p] EXCEPT !.step = "unlist"])
    /\ UNCHANGED <<listed, job, pendingIndex, chances>>

Unlist(p) ==
    /\ worker[p].step = "unlist"
    /\ listed' = listed \ {IdOf(p)}
    /\ Set(p, Ended(worker[p]))
    /\ UNCHANGED <<registration, heartbeat, job, pendingIndex, chances>>

-----------------------------------------------------------------------------
(* The script.                                                             *)

Boot(p) ==
    /\ ~Runs(p)
    /\ IF chances["boot"] = Always THEN UNCHANGED chances ELSE Spending("boot")
    /\ chances["rivals"] > 0 \/ ~(\E q \in Processes : Runs(q) /\ IdOf(q) = IdOf(p))
    /\ Set(p, [worker[p] EXCEPT !.main = "manager"])
    /\ UNCHANGED <<registration, listed, heartbeat, job, pendingIndex>>

ManagerStarts(p) ==
    /\ worker[p].main = "manager"
    /\ IF Signalled(p) THEN Set(p, [worker[p] EXCEPT !.main = "over"])
                       ELSE Set(p, [worker[p] EXCEPT !.main = "daemon", !.daemon = "starting", !.step = "register"])
    /\ UNCHANGED <<registration, listed, heartbeat, job, pendingIndex, chances>>

\* The input and control consumers start, then the executor, whose start is its first poll.
ConsumersStart(p) ==
    /\ worker[p].main = "consumers"
    /\ IF Signalled(p)
       THEN Set(p, [worker[p] EXCEPT !.main = "over"])
       ELSE Set(p, [worker[p] EXCEPT !.main = "executor", !.active = TRUE, !.poll.step = "list"])
    /\ UNCHANGED <<registration, listed, heartbeat, job, pendingIndex, chances>>

\* SIGTERM: the script shuts down when its start is over; a daemon that runs stops at once.
Signal(p) ==
    /\ Runs(p) /\ ~Signalled(p)
    /\ Spending("signal")
    /\ IF worker[p].daemon = "running"
       THEN Set(p, [worker[p] EXCEPT !.closing = "wait", !.daemon = "stopping", !.step = "unwind", !.retry = 0])
       ELSE Set(p, [worker[p] EXCEPT !.closing = "wait"])
    /\ UNCHANGED <<registration, listed, heartbeat, job, pendingIndex>>

\* The script's start is over, so its shutdown goes on: the executor first. Its execution is
\* cancelled and waited for, and so is the poll.
ExecutorStops(p) ==
    /\ worker[p].main = "over"
    /\ \/ worker[p].closing = "wait" /\ Set(p, [worker[p] EXCEPT !.closing = "executor", !.active = FALSE])
       \/ /\ worker[p].closing = "executor" /\ worker[p].run = Gone /\ worker[p].poll.step = "none"
          /\ Set(p, [worker[p] EXCEPT !.closing = "daemon"])
    /\ UNCHANGED <<registration, listed, heartbeat, job, pendingIndex, chances>>

DaemonStops(p) ==
    /\ worker[p].closing = "daemon"
    /\ \/ worker[p].daemon = "stopped" /\ Set(p, [worker[p] EXCEPT !.closing = "manager"])
       \/ worker[p].daemon \in {"running", "failed"}
          /\ Set(p, [worker[p] EXCEPT !.daemon = "stopping", !.step = "unwind", !.retry = 0])
    /\ UNCHANGED <<registration, listed, heartbeat, job, pendingIndex, chances>>

ManagerStops(p) ==
    /\ worker[p].closing = "manager"
    /\ Set(p, Off(IdOf(p)))
    /\ UNCHANGED <<registration, listed, heartbeat, job, pendingIndex, chances>>

\* A start that failed leaves nothing that keeps the process; a crash leaves everything as it is.
Exit(p) ==
    /\ \/ worker[p].daemon = "failed" /\ ~Signalled(p) /\ UNCHANGED chances
       \/ Runs(p) /\ Spending("crash")
    /\ Set(p, Off(IdOf(p)))
    /\ UNCHANGED <<registration, listed, heartbeat, job, pendingIndex>>

-----------------------------------------------------------------------------
(* The poller, the claim service and the executor.                         *)

\* The durable index joins what the process remembers; each of them is looked up.
ListPending(p) ==
    /\ worker[p].poll.step = "list"
    /\ \E known \in {worker[p].pending \cup pendingIndex} :
       \E queued \in {{j \in known : job[j].state = "queued"}} :
          Set(p, [worker[p] EXCEPT !.pending = known,
                                   !.poll = [step |-> "prune", queued |-> queued, stale |-> known \ queued]])
    /\ UNCHANGED <<registration, listed, heartbeat, job, pendingIndex, chances>>

\* What was found not to be queued is forgotten, here and in the durable index.
PruneStale(p) ==
    /\ worker[p].poll.step = "prune"
    /\ pendingIndex' = pendingIndex \ worker[p].poll.stale
    /\ Set(p, [worker[p] EXCEPT !.pending = @ \ worker[p].poll.stale, !.poll = [@ EXCEPT !.step = "hand", !.stale = {}]])
    /\ UNCHANGED <<registration, listed, heartbeat, job, chances>>

Begin(p, j, w) == Set(p, [w EXCEPT !.run = [job |-> j, step |-> "claim"]])

\* handlePendingExecutionIds: one after the other; one that finds the executor busy is skipped.
HandOver(p) ==
    /\ worker[p].poll.step = "hand"
    /\ \E j \in worker[p].poll.queued :
          /\ worker[p].active
          /\ IF worker[p].run = Gone
             THEN Begin(p, j, [worker[p] EXCEPT !.poll = [@ EXCEPT !.queued = @ \ {j}, !.step = "wait"]])
             ELSE /\ worker[p].run.job # j
                  /\ Set(p, [worker[p] EXCEPT !.poll = [@ EXCEPT !.queued = @ \ {j}]])
    /\ UNCHANGED <<registration, listed, heartbeat, job, pendingIndex, chances>>

\* The poll is over; the first one ends the executor's start.
PollEnds(p) ==
    /\ worker[p].poll.step = "hand" /\ (worker[p].poll.queued = {} \/ ~worker[p].active)
    /\ Set(p, [worker[p] EXCEPT !.poll = NoPoll, !.main = IF @ = "executor" THEN "over" ELSE @])
    /\ UNCHANGED <<registration, listed, heartbeat, job, pendingIndex, chances>>

\* The next poll: the interval grows while there is nothing to do, and a poll that would find
\* nothing is not taken.
Poll(p) ==
    /\ worker[p].active /\ worker[p].main = "over" /\ worker[p].poll.step = "none"
    /\ worker[p].pending \cup pendingIndex # {}
    /\ Set(p, [worker[p] EXCEPT !.poll.step = "list"])
    /\ UNCHANGED <<registration, listed, heartbeat, job, pendingIndex, chances>>

\* A wake-up of the stream: the execution joins the memory and is tried at once.
Hint(p, j) ==
    /\ worker[p].active /\ worker[p].main = "over" /\ job[j].state # "absent"
    /\ Spending("hint")
    /\ IF worker[p].run = Gone THEN Begin(p, j, [worker[p] EXCEPT !.pending = @ \cup {j}])
                               ELSE Set(p, [worker[p] EXCEPT !.pending = @ \cup {j}])
    /\ UNCHANGED <<registration, listed, heartbeat, job, pendingIndex>>

RunOver(w) == [w EXCEPT !.run = Gone, !.poll = IF @.step = "wait" THEN [@ EXCEPT !.step = "hand"] ELSE @]

\* The claim script: a queued job, and the index entry with it.
ClaimJob(p) ==
    /\ worker[p].run # Gone /\ worker[p].run.step = "claim"
    /\ \E j \in {worker[p].run.job} :
          IF job[j].state = "queued"
          THEN /\ job' = [job EXCEPT ![j] = [@ EXCEPT !.state = "leased", !.by = p]]
               /\ pendingIndex' = pendingIndex \ {j}
               /\ Set(p, [worker[p] EXCEPT !.run.step = "run"])
          ELSE Set(p, RunOver(worker[p])) /\ UNCHANGED <<job, pendingIndex>>
    /\ UNCHANGED <<registration, listed, heartbeat, chances>>

Queue(j) ==
    /\ job' = [job EXCEPT ![j] = [state |-> "queued", by |-> Gone, again |-> TRUE]]
    /\ pendingIndex' = pendingIndex \cup {j}

\* The run ends: completed, or released, which queues the execution again.
RunEnds(p) ==
    /\ worker[p].run # Gone /\ worker[p].run.step = "run"
    /\ Set(p, RunOver(worker[p]))
    /\ \/ /\ job' = [job EXCEPT ![worker[p].run.job] = [@ EXCEPT !.state = "done", !.by = Gone]]
          /\ UNCHANGED <<pendingIndex, chances>>
       \/ Queue(worker[p].run.job) /\ Spending("release")
    /\ UNCHANGED <<registration, listed, heartbeat>>

Works(p, j) == IF worker[p].run = Gone THEN FALSE ELSE worker[p].run.job = j

\* The lease of an execution whose process is gone expires and is recovered.
RecoverJob(j) ==
    /\ job[j].state = "leased"
    /\ ~Works(job[j].by, j)
    /\ Queue(j)
    /\ UNCHANGED <<registration, listed, heartbeat, worker, chances>>

\* An execution is admitted: its record and its index entry are one script.
AdmitJob(j) ==
    /\ job[j].state = "absent"
    /\ Spending("admit")
    /\ job' = [job EXCEPT ![j].state = "queued"]
    /\ pendingIndex' = pendingIndex \cup {j}
    /\ UNCHANGED <<registration, listed, heartbeat, worker>>

-----------------------------------------------------------------------------
DaemonStep(p) ==
    Register(p) \/ Authenticate(p) \/ Beat(p) \/ RecoveryStarts(p) \/ Release(p) \/ DeleteKeys(p) \/ Unlist(p)
ScriptStep(p) ==
    ManagerStarts(p) \/ ConsumersStart(p) \/ ExecutorStops(p) \/ DaemonStops(p) \/ ManagerStops(p)
PollStep(p) == ListPending(p) \/ PruneStale(p) \/ HandOver(p) \/ PollEnds(p) \/ Poll(p)
RunStep(p) == ClaimJob(p) \/ RunEnds(p)

WorkerNext ==
    \/ \E p \in Processes : \/ DaemonStep(p) \/ ScriptStep(p) \/ PollStep(p) \/ RunStep(p)
                            \/ Boot(p) \/ Signal(p) \/ Exit(p)
                            \/ \E j \in Jobs : Hint(p, j)
    \/ \E j \in Jobs : RecoverJob(j) \/ AdmitJob(j)
    \/ \E id \in WorkerIds : Lapse(id) \/ Administer(id)

-----------------------------------------------------------------------------
(* Properties.                                                             *)

\* An execution that has been admitted is claimed in the end, whatever crashes, restarts and
\* missed wake-ups there are: the durable index is read again on every poll, and the id of a dead
\* process can be registered again.  Of one that was queued again this is not promised: the poll that
\* found it leased prunes it from the index it has joined since.
AdmittedIsServed == \A j \in Jobs : (job[j].state = "queued" /\ ~job[j].again) ~> job[j].state # "queued"

=============================================================================
