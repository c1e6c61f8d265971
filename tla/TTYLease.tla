------------------------------ MODULE TTYLease ------------------------------
(***************************************************************************)
(* The execution lease plane of the TTY runtime: the job records that      *)
(* admission writes, the six scripts of TTYExecutionLeaseManager that move *)
(* a job between queued, leased, abandoned and removed, and the session    *)
(* keys those scripts consult (lib/tty/tty-execution-lease.ts,             *)
(* tty-execution-admission.ts, tty-session-store.ts).                      *)
(*                                                                         *)
(* Every script runs atomically in the store, so each is one action.  Two  *)
(* abstractions keep the state finite without cutting behaviours off:      *)
(*   - times are kept as the time REMAINING until an expiry, so a lease    *)
(*     with remaining time r is expired for a caller whose clock is d      *)
(*     ahead of true time exactly when r <= d.  The scripts compare with   *)
(*     the clock of the calling host (this.now()), hence a caller reads    *)
(*     any offset d in -Skew..Skew.                                        *)
(*   - a lease token is a random UUID.  A token that no job and no worker  *)
(*     remembers can never be presented again, so a claim draws any token  *)
(*     that is not remembered by anyone.                                   *)
(***************************************************************************)
EXTENDS Integers, FiniteSets

CONSTANTS
    Workers,        \* trusted worker identities
    Executions,     \* execution ids admission may generate
    Sessions,       \* TTY sessions
    SessionOf,      \* the session an execution id is created for
    Tokens,         \* lease tokens
    MaxAttempts,    \* TTY_MAX_LEASE_ATTEMPTS
    LeaseMs,        \* TTY_LEASE_DURATION_MS, in ticks
    MaxLeaseMs,     \* TTY_MAX_LEASE_DURATION_MS, in ticks
    Skew,           \* largest distance of a host's clock from true time
    MaxQueueDepth,  \* limits.maxQueueDepth
    MaxConcurrent,  \* limits.maxConcurrentExecutionsPerSession
    CountBound,     \* bound: no run starts when active-executions has reached it
    NoLease, NoExecution,
    NoOwner         \* the owner of an execution nobody owns

ASSUME LeaseAssumption ==
    /\ IsFiniteSet(Executions)
    /\ SessionOf \in [Executions -> Sessions]
    /\ MaxAttempts \in Nat \ {0}
    /\ LeaseMs \in Nat \ {0}
    /\ MaxLeaseMs \in Nat
    /\ LeaseMs <= MaxLeaseMs
    /\ Skew \in Nat
    /\ MaxQueueDepth \in Nat
    /\ MaxConcurrent \in Nat
    /\ CountBound \in Nat
    /\ NoExecution \notin Executions

VARIABLES
    job,            \* tty:job:<execution>
    core,           \* sessions with a tty:session:<session>:core record,
    status,         \*   with a :status record
    terminal,       \*   with a :terminal record
    cleanup,        \* progress of cleanupAfterTerminal, per session
    touching,       \* sessions with a touchSession call past its terminal check
    queueDepth,     \* tty:session:<session>:queue-depth
    activeCount,    \* tty:session:<session>:active-executions
    sessionJobs,    \* tty:session:<session>:jobs
    pending,        \* the global pending-execution index
    workerLeases,   \* tty:worker:<worker>:active-leases
    leaseIndex,     \* tty:workers:active-lease-index
    activeRecord,   \* tty:session:<session>:active-execution
    creds,          \* (execution, token) pairs a worker process remembers
    running,        \*   those of them whose run has recorded its start
    ended,          \*   those of them whose run has recorded its finish
    issued,         \* history: execution ids admission has generated
    grants,         \* history: how often an execution was claimed from the queue
    finished,       \* history: executions a worker completed
    lost            \* history: runs that recorded a start and never will a finish

sessionVars == <<core, status, terminal, cleanup, touching>>
indexVars == <<sessionJobs, pending, workerLeases, leaseIndex>>
counterVars == <<queueDepth, activeCount>>
runVars == <<running, ended, lost>>
historyVars == <<issued, grants, finished>>
vars == <<job, sessionVars, counterVars, indexVars, activeRecord, creds, runVars, historyVars>>

-----------------------------------------------------------------------------
Offsets == -Skew .. Skew
Remaining == -Skew .. MaxLeaseMs + Skew

Lease == [worker : Workers, token : Tokens, expires : Remaining, horizon : Remaining]
IdleJob == [status : {"none", "queued", "abandoned"}, attempt : 0 .. MaxAttempts, lease : {NoLease}]
HeldJob == [status : {"leased"}, attempt : 1 .. MaxAttempts, lease : Lease]
Job == IdleJob \cup HeldJob

NoJob == [status |-> "none", attempt |-> 0, lease |-> NoLease]

\* Mutant: a requeued job forgets the attempts it has used.
QueuedJobFresh(attempt) == [status |-> "queued", attempt |-> 0, lease |-> NoLease]

QueuedJob(attempt) == [status |-> "queued", attempt |-> attempt, lease |-> NoLease]
AbandonedJob(attempt) == [status |-> "abandoned", attempt |-> attempt, lease |-> NoLease]
LeasedJob(attempt, lease) == [status |-> "leased", attempt |-> attempt, lease |-> lease]

\* cleanupAfterTerminal reads the jobs and leases of the session, then issues its
\* deletions all at once, in no order.  They are taken in two parts: a terminal
\* session's counters are read by nobody, so their deletion goes with the jobs'.
CleanupPart == {"read", "jobs", "index"}
NoCleanup == [todo |-> {"read"}, jobs |-> {}, leases |-> {}]
CleanupRecord ==
    [todo : SUBSET CleanupPart, jobs : SUBSET Executions, leases : SUBSET (Workers \X Executions)]
CleanupBegun(s) == "read" \notin cleanup[s].todo
Cleaned(s) == cleanup[s].todo = {}

Smaller(a, b) == IF a <= b THEN a ELSE b

\* EXISTS core, EXISTS status, not EXISTS terminal: the check of every script.
Live(s) == s \in core /\ s \in status /\ s \notin terminal

Queued(e) == job[e].status = "queued"
Leased(e) == job[e].status = "leased"

QueuedOf(s) == {e \in Executions : SessionOf[e] = s /\ Queued(e)}
AdmittedOf(s) == {e \in Executions : SessionOf[e] = s /\ (Queued(e) \/ Leased(e))}

\* The runs of s that have recorded their start and not yet their finish.
RunningOf(s) ==
    {r \in Workers \X Executions \X Tokens : SessionOf[r[2]] = s /\ <<r[2], r[3]>> \in running[r[1]]}

\* The job is leased to w under token t: the ownership test of renew, release
\* and complete.
Owns(w, e, t) == Leased(e) /\ job[e].lease.worker = w /\ job[e].lease.token = t

\* A caller whose clock is d ahead considers the lease of e expired.
Expired(e, d) == job[e].lease.expires <= d

Remembered(t) ==
    \/ \E w \in Workers, e \in Executions : <<e, t>> \in creds[w]
    \/ \E e \in Executions : Leased(e) /\ job[e].lease.token = t

FreshTokens == {t \in Tokens : ~Remembered(t)}

\* A new lease of w, taken when the clock of w is d ahead of true time.
NewLease(w, t, d) ==
    [worker |-> w, token |-> t, expires |-> d + LeaseMs, horizon |-> d + MaxLeaseMs]

\* The same lease with another expiry and horizon.
Retimed(lease, expires, horizon) == [lease EXCEPT !.expires = expires, !.horizon = horizon]

\* Mutant: a guard that never lets the counter reach zero.
DecrKeepsOne(counter, s) == [counter EXCEPT ![s] = IF @ > 1 THEN @ - 1 ELSE @]

\* DECR, then SET 0 when the result is negative.
Decr(counter, s) == [counter EXCEPT ![s] = IF @ > 0 THEN @ - 1 ELSE 0]
Incr(counter, s) == [counter EXCEPT ![s] = @ + 1]

\* Mutant: off by one at the concurrency limit.
RoomAtLimit(s) == queueDepth[s] < MaxQueueDepth /\ activeCount[s] <= MaxConcurrent

\* Room for one more job under both session limits.
HasRoom(s) == queueDepth[s] < MaxQueueDepth /\ activeCount[s] < MaxConcurrent

\* DEL of the job record.
Removed(e) == [job EXCEPT ![e] = NoJob]

\* Mutant: a new lease is added to the worker's own set only.
IndexOwnSetOnly(w, e) ==
    /\ workerLeases' = [workerLeases EXCEPT ![w] = @ \cup {e}]
    /\ UNCHANGED leaseIndex

\* The lease of e enters or leaves both lease indexes.
IndexLease(w, e) ==
    /\ workerLeases' = [workerLeases EXCEPT ![w] = @ \cup {e}]
    /\ leaseIndex' = leaseIndex \cup {<<w, e>>}

\* Mutant: a lost lease is removed from the worker's own set only.
UnindexOwnSetOnly(w, e) ==
    /\ workerLeases' = [workerLeases EXCEPT ![w] = @ \ {e}]
    /\ UNCHANGED leaseIndex

UnindexLease(w, e) ==
    /\ workerLeases' = [workerLeases EXCEPT ![w] = @ \ {e}]
    /\ leaseIndex' = leaseIndex \ {<<w, e>>}

\* A leased job goes back to the queue with the given number of used attempts.
Requeue(e, attempt) ==
    /\ job' = [job EXCEPT ![e] = QueuedJob(attempt)]
    /\ queueDepth' = Incr(queueDepth, SessionOf[e])
    /\ pending' = pending \cup {e}

Init ==
    /\ job = [e \in Executions |-> NoJob]
    /\ core = Sessions /\ status = Sessions /\ terminal = {}
    /\ cleanup = [s \in Sessions |-> NoCleanup]
    /\ touching = {}
    /\ queueDepth = [s \in Sessions |-> 0]
    /\ activeCount = [s \in Sessions |-> 0]
    /\ sessionJobs = [s \in Sessions |-> {}]
    /\ pending = {}
    /\ workerLeases = [w \in Workers |-> {}]
    /\ leaseIndex = {}
    /\ activeRecord = [s \in Sessions |-> NoExecution]
    /\ creds = [w \in Workers |-> {}]
    /\ running = [w \in Workers |-> {}]
    /\ ended = [w \in Workers |-> {}]
    /\ lost = [s \in Sessions |-> 0]
    /\ issued = {}
    /\ grants = [e \in Executions |-> 0]
    /\ finished = {}

-----------------------------------------------------------------------------
(* Admission and the six lease scripts. *)

\* RESERVE_JOB_SCRIPT: both counters are charged when the job is queued.
Admit(e) ==
    LET s == SessionOf[e] IN
    /\ e \notin issued
    /\ Live(s)
    /\ HasRoom(s)
    /\ job' = [job EXCEPT ![e] = QueuedJob(0)]
    /\ queueDepth' = Incr(queueDepth, s)
    /\ activeCount' = Incr(activeCount, s)
    /\ sessionJobs' = [sessionJobs EXCEPT ![s] = @ \cup {e}]
    /\ pending' = pending \cup {e}
    /\ issued' = issued \cup {e}
    /\ UNCHANGED <<sessionVars, workerLeases, leaseIndex, activeRecord, creds, runVars, grants, finished>>

\* CLAIM_SCRIPT, the session is alive and an attempt is left.
ClaimGrant(w, e, t, d) ==
    LET s == SessionOf[e] IN
    /\ Queued(e)
    /\ Live(s)
    /\ job[e].attempt < MaxAttempts
    /\ t \in FreshTokens
    /\ job' = [job EXCEPT ![e] = LeasedJob(@.attempt + 1, NewLease(w, t, d))]
    /\ queueDepth' = Decr(queueDepth, s)
    /\ IndexLease(w, e)
    /\ pending' = pending \ {e}
    /\ creds' = [creds EXCEPT ![w] = @ \cup {<<e, t>>}]
    /\ grants' = [grants EXCEPT ![e] = @ + 1]
    /\ UNCHANGED <<sessionVars, activeCount, sessionJobs, activeRecord, runVars, issued, finished>>

\* CLAIM_SCRIPT, the session is gone: the claim removes the job and repairs both
\* counters.  (With no attempt left the script changes nothing.)
ClaimDrop(e) ==
    LET s == SessionOf[e] IN
    /\ Queued(e)
    /\ ~Live(s)
    /\ job' = Removed(e)
    /\ queueDepth' = Decr(queueDepth, s)
    /\ activeCount' = Decr(activeCount, s)
    /\ sessionJobs' = [sessionJobs EXCEPT ![s] = @ \ {e}]
    /\ pending' = pending \ {e}
    /\ UNCHANGED <<sessionVars, workerLeases, leaseIndex, activeRecord, creds, runVars, historyVars>>

\* RENEW_SCRIPT: the expiry moves forward, never past the horizon of the claim.
Renew(w, e, t, d) ==
    /\ <<e, t>> \in creds[w] \ ended[w]
    /\ Owns(w, e, t)
    /\ ~Expired(e, d)
    /\ job[e].lease.horizon > d
    /\ Live(SessionOf[e])
    /\ job' = [job EXCEPT ![e] =
            LeasedJob(@.attempt,
                Retimed(@.lease, Smaller(d + LeaseMs, @.lease.horizon), @.lease.horizon))]
    /\ UNCHANGED <<sessionVars, counterVars, indexVars, activeRecord, creds, runVars, historyVars>>

\* RELEASE_SCRIPT with attempts left: the job is queued again, one attempt poorer.
ReleaseRequeue(w, e, t, d) ==
    /\ <<e, t>> \in creds[w]
    /\ Owns(w, e, t)
    /\ ~Expired(e, d)
    /\ Live(SessionOf[e])
    /\ job[e].attempt < MaxAttempts
    /\ Requeue(e, job[e].attempt + 1)
    /\ UnindexLease(w, e)
    /\ UNCHANGED <<sessionVars, activeCount, sessionJobs, activeRecord, creds, runVars, historyVars>>

\* RELEASE_SCRIPT at the retry ceiling: the job is abandoned.
ReleaseAbandon(w, e, t, d) ==
    LET s == SessionOf[e] IN
    /\ <<e, t>> \in creds[w]
    /\ Owns(w, e, t)
    /\ ~Expired(e, d)
    /\ Live(s)
    /\ job[e].attempt >= MaxAttempts
    /\ job' = [job EXCEPT ![e] = AbandonedJob(@.attempt)]
    /\ activeCount' = Decr(activeCount, s)
    /\ UnindexLease(w, e)
    /\ sessionJobs' = [sessionJobs EXCEPT ![s] = @ \ {e}]
    /\ pending' = pending \ {e}
    /\ UNCHANGED <<sessionVars, queueDepth, activeRecord, creds, runVars, historyVars>>

\* RECOVER_SCRIPT on an expired lease, attempts left: recovery spends none.
RecoverRequeue(e, d) ==
    /\ Leased(e)
    /\ Expired(e, d)
    /\ Live(SessionOf[e])
    /\ job[e].attempt < MaxAttempts
    /\ Requeue(e, job[e].attempt)
    /\ UnindexLease(job[e].lease.worker, e)
    /\ UNCHANGED <<sessionVars, activeCount, sessionJobs, activeRecord, creds, runVars, historyVars>>

\* RECOVER_SCRIPT at the retry ceiling.  The worker's own active-leases set and
\* the session's job set keep the abandoned execution.
RecoverAbandon(e, d) ==
    LET s == SessionOf[e]  w == job[e].lease.worker IN
    /\ Leased(e)
    /\ Expired(e, d)
    /\ Live(s)
    /\ job[e].attempt >= MaxAttempts
    /\ job' = [job EXCEPT ![e] = AbandonedJob(@.attempt)]
    /\ activeCount' = Decr(activeCount, s)
    /\ leaseIndex' = leaseIndex \ {<<w, e>>}
    /\ pending' = pending \ {e}
    /\ UNCHANGED <<sessionVars, queueDepth, sessionJobs, workerLeases, activeRecord, creds, runVars, historyVars>>

\* RECOVER_SCRIPT when the session is gone.
RecoverDrop(e, d) ==
    LET s == SessionOf[e]  w == job[e].lease.worker IN
    /\ Leased(e)
    /\ Expired(e, d)
    /\ ~Live(s)
    /\ job' = Removed(e)
    /\ activeCount' = Decr(activeCount, s)
    /\ UnindexLease(w, e)
    /\ pending' = pending \ {e}
    /\ UNCHANGED <<sessionVars, queueDepth, sessionJobs, activeRecord, creds, runVars, historyVars>>

\* ADOPT_PERSISTENT_SCRIPT: the process of an expired lease still runs in a
\* persistent shell, so its lease moves to the adopting worker without a new
\* attempt.
Adopt(w, e, t, d) ==
    LET old == job[e].lease.worker IN
    /\ Leased(e)
    /\ Expired(e, d)
    /\ activeRecord[SessionOf[e]] = e
    /\ Live(SessionOf[e])
    /\ t \in FreshTokens
    /\ job' = [job EXCEPT ![e] = LeasedJob(@.attempt, NewLease(w, t, d))]
    /\ workerLeases' = [[workerLeases EXCEPT ![old] = @ \ {e}] EXCEPT ![w] = @ \cup {e}]
    /\ leaseIndex' = (leaseIndex \ {<<old, e>>}) \cup {<<w, e>>}
    /\ creds' = [creds EXCEPT ![w] = @ \cup {<<e, t>>}]
    /\ UNCHANGED <<sessionVars, counterVars, sessionJobs, pending, activeRecord, runVars, historyVars>>

\* ADOPT_PERSISTENT_SCRIPT when the session is gone.
AdoptDrop(e, d) ==
    LET s == SessionOf[e]  old == job[e].lease.worker IN
    /\ Leased(e)
    /\ Expired(e, d)
    /\ activeRecord[s] = e
    /\ ~Live(s)
    /\ job' = Removed(e)
    /\ activeCount' = Decr(activeCount, s)
    /\ UnindexLease(old, e)
    /\ UNCHANGED <<sessionVars, queueDepth, sessionJobs, pending, activeRecord, creds, runVars, historyVars>>

\* COMPLETE_SCRIPT: the holder of a current lease removes the job for good.
Complete(w, e, t, d) ==
    LET s == SessionOf[e] IN
    /\ <<e, t>> \in creds[w] \ ended[w]
    /\ Owns(w, e, t)
    /\ ~Expired(e, d)
    /\ Live(s)
    /\ job' = Removed(e)
    /\ activeCount' = Decr(activeCount, s)
    /\ UnindexLease(w, e)
    /\ sessionJobs' = [sessionJobs EXCEPT ![s] = @ \ {e}]
    /\ pending' = pending \ {e}
    /\ finished' = finished \cup {e}
    /\ UNCHANGED <<sessionVars, queueDepth, activeRecord, creds, runVars, issued, grants>>

-----------------------------------------------------------------------------
(* Workers, sessions and time. *)

\* markExecutionRunning: the run of a claim records its start on the session,
\* which counts the execution in active-executions a second time.
StartRun(w, e, t) ==
    LET s == SessionOf[e] IN
    /\ <<e, t>> \in creds[w] \ ended[w]
    /\ \A u \in Tokens : <<e, u>> \notin running[w]
    /\ activeCount[s] < CountBound
    /\ activeCount' = IF s \in terminal THEN activeCount ELSE Incr(activeCount, s)
    /\ running' = [running EXCEPT ![w] = @ \cup {<<e, t>>}]
    /\ UNCHANGED <<job, sessionVars, queueDepth, indexVars, activeRecord, creds, ended, lost, historyVars>>

\* The end of finalize: the run records its finish.
FinishRun(w, e, t) ==
    /\ <<e, t>> \in running[w]
    /\ activeCount' = Decr(activeCount, SessionOf[e])
    /\ running' = [running EXCEPT ![w] = @ \ {<<e, t>>}]
    /\ ended' = [ended EXCEPT ![w] = @ \cup {<<e, t>>}]
    /\ UNCHANGED <<job, sessionVars, queueDepth, indexVars, activeRecord, creds, lost, historyVars>>

\* A worker loses a credential: forgetOwnership after a run, a claim whose
\* reply never arrived, or a crash of the process, which takes the record of a
\* start with it.
Forget(w, e, t) ==
    /\ <<e, t>> \in creds[w]
    /\ creds' = [creds EXCEPT ![w] = @ \ {<<e, t>>}]
    /\ running' = [running EXCEPT ![w] = @ \ {<<e, t>>}]
    /\ ended' = [ended EXCEPT ![w] = @ \ {<<e, t>>}]
    /\ lost' = IF <<e, t>> \in running[w] THEN Incr(lost, SessionOf[e]) ELSE lost
    /\ UNCHANGED <<job, sessionVars, counterVars, indexVars, activeRecord, historyVars>>

\* CLAIM_ACTIVE_EXECUTION_SCRIPT: the process of a claimed execution is being
\* dispatched to the session's persistent shell, which runs one at a time.
RecordPersistent(w, e) ==
    /\ \E t \in Tokens : <<e, t>> \in creds[w] \ ended[w]
    /\ activeRecord[SessionOf[e]] = NoExecution
    /\ activeRecord' = [activeRecord EXCEPT ![SessionOf[e]] = e]
    /\ UNCHANGED <<job, sessionVars, counterVars, indexVars, creds, runVars, historyVars>>

\* RELEASE_ACTIVE_EXECUTION_SCRIPT.
ReleasePersistent(s) ==
    /\ activeRecord[s] # NoExecution
    /\ activeRecord' = [activeRecord EXCEPT ![s] = NoExecution]
    /\ UNCHANGED <<job, sessionVars, counterVars, indexVars, creds, runVars, historyVars>>

\* The idle TTL of the status key runs out.
IdleExpire(s) ==
    /\ s \in status
    /\ status' = status \ {s}
    /\ UNCHANGED <<job, core, terminal, cleanup, touching, counterVars, indexVars, activeRecord, creds, runVars, historyVars>>

\* The absolute TTL of the core key runs out.
DurationExpire(s) ==
    /\ s \in core
    /\ core' = core \ {s}
    /\ UNCHANGED <<job, status, terminal, cleanup, touching, counterVars, indexVars, activeRecord, creds, runVars, historyVars>>

\* touchSession, first half: core and terminal are read (status is not, so a
\* session whose idle TTL ran out unnoticed passes as well) ...
TouchCheck(s) ==
    /\ s \in core
    /\ s \notin terminal
    /\ s \notin touching
    /\ touching' = touching \cup {s}
    /\ UNCHANGED <<job, core, status, terminal, cleanup, counterVars, indexVars, activeRecord, creds, runVars, historyVars>>

\* ... second half: the status key is rewritten whatever happened in between.
TouchWrite(s) ==
    /\ s \in touching
    /\ touching' = touching \ {s}
    /\ status' = status \cup {s}
    /\ UNCHANGED <<job, core, terminal, cleanup, counterVars, indexVars, activeRecord, creds, runVars, historyVars>>

\* latchTerminal: SET terminal NX, from terminateSession or a lazy expiry.  The
\* core record its caller has read may have expired in between.
Latch(s) ==
    /\ s \notin terminal
    /\ terminal' = terminal \cup {s}
    /\ UNCHANGED <<job, core, status, cleanup, touching, counterVars, indexVars, activeRecord, creds, runVars, historyVars>>

\* cleanupAfterTerminal, run by the caller that won the latch, some time later
\* or (a crash in between) never: the jobs of the session and their leases.
CleanupRead(s) ==
    LET jobs == sessionJobs[s] IN
    /\ s \in terminal
    /\ ~CleanupBegun(s)
    /\ cleanup' = [cleanup EXCEPT ![s] =
            [todo |-> {"jobs", "index"}, jobs |-> jobs,
             leases |-> {<<job[e].lease.worker, e>> : e \in {f \in jobs : Leased(f)}}]]
    /\ UNCHANGED <<job, core, status, terminal, touching, counterVars, indexVars, activeRecord, creds, runVars, historyVars>>

\* What was read for a part is dropped with it.
JobsDone(c) == [todo |-> c.todo \ {"jobs"}, jobs |-> {}, leases |-> c.leases]
IndexDone(c) == [todo |-> c.todo \ {"index"}, jobs |-> c.jobs, leases |-> {}]

\* DEL of the counters, the status key, the job records and the session's job
\* set; the pending index is left alone.
CleanupJobs(s) ==
    /\ "jobs" \in cleanup[s].todo
    /\ cleanup' = [cleanup EXCEPT ![s] = JobsDone(@)]
    /\ status' = status \ {s}
    /\ queueDepth' = [queueDepth EXCEPT ![s] = 0]
    /\ activeCount' = [activeCount EXCEPT ![s] = 0]
    /\ job' = [e \in Executions |-> IF e \in cleanup[s].jobs THEN NoJob ELSE job[e]]
    /\ sessionJobs' = [sessionJobs EXCEPT ![s] = {}]
    /\ UNCHANGED <<core, terminal, touching, pending, workerLeases, leaseIndex, activeRecord, creds, runVars, historyVars>>

\* SREM of the leases that were read, from both lease indexes.
CleanupIndex(s) ==
    /\ "index" \in cleanup[s].todo
    /\ cleanup' = [cleanup EXCEPT ![s] = IndexDone(@)]
    /\ workerLeases' = [w \in Workers |->
            {e \in workerLeases[w] : <<w, e>> \notin cleanup[s].leases}]
    /\ leaseIndex' = leaseIndex \ cleanup[s].leases
    /\ UNCHANGED <<job, core, status, terminal, touching, counterVars, sessionJobs, pending, activeRecord, creds, runVars, historyVars>>

\* One tick: every lease comes one step closer to its expiry and its horizon.
\* Below -Skew all clocks agree that the time has passed.
Sooner(r) == IF r > -Skew THEN r - 1 ELSE r
Tick ==
    /\ job' = [e \in Executions |->
            IF Leased(e)
            THEN LeasedJob(job[e].attempt,
                     Retimed(job[e].lease, Sooner(job[e].lease.expires), Sooner(job[e].lease.horizon)))
            ELSE job[e]]
    /\ job' # job
    /\ UNCHANGED <<sessionVars, counterVars, indexVars, activeRecord, creds, runVars, historyVars>>

-----------------------------------------------------------------------------
Claim(w, e) == ClaimDrop(e) \/ \E t \in Tokens, d \in Offsets : ClaimGrant(w, e, t, d)

Recover(e) ==
    \E d \in Offsets : RecoverRequeue(e, d) \/ RecoverAbandon(e, d) \/ RecoverDrop(e, d)

WorkerStep(w) ==
    \E e \in Executions :
        \/ Claim(w, e)
        \/ Recover(e)
        \/ RecordPersistent(w, e)
        \/ \E t \in Tokens : StartRun(w, e, t) \/ FinishRun(w, e, t) \/ Forget(w, e, t)
        \/ \E d \in Offsets : AdoptDrop(e, d)
        \/ \E t \in Tokens, d \in Offsets :
              \/ Renew(w, e, t, d)
              \/ ReleaseRequeue(w, e, t, d)
              \/ ReleaseAbandon(w, e, t, d)
              \/ Adopt(w, e, t, d)
              \/ Complete(w, e, t, d)

SessionStep(s) ==
    \/ ReleasePersistent(s)
    \/ IdleExpire(s)
    \/ DurationExpire(s)
    \/ TouchCheck(s)
    \/ TouchWrite(s)
    \/ Latch(s)
    \/ CleanupRead(s)
    \/ CleanupJobs(s)
    \/ CleanupIndex(s)

Next ==
    \/ \E e \in Executions : Admit(e)
    \/ \E w \in Workers : WorkerStep(w)
    \/ \E s \in Sessions : SessionStep(s)
    \/ Tick

Spec == Init /\ [][Next]_vars

\* Time passes; the recovery service scans the lease index again and again, and
\* the pollers claim what the pending index lists; executor.finally forgets
\* every credential.  Nothing obliges anyone to renew, complete or adopt.
Fairness ==
    /\ WF_vars(Tick)
    /\ \A e \in Executions :
        /\ WF_vars(Leased(e) /\ <<job[e].lease.worker, e>> \in leaseIndex /\ Recover(e))
        /\ WF_vars(e \in pending /\ \E w \in Workers : Claim(w, e))
    /\ \A w \in Workers, e \in Executions, t \in Tokens : WF_vars(Forget(w, e, t))

FairSpec == Spec /\ Fairness

-----------------------------------------------------------------------------
(* Properties. *)

\* Every variable has its type.
TypeOK ==
    /\ job \in [Executions -> Job]
    /\ core \subseteq Sessions /\ status \subseteq Sessions /\ terminal \subseteq Sessions
    /\ cleanup \in [Sessions -> CleanupRecord]
    /\ touching \subseteq Sessions
    /\ queueDepth \in [Sessions -> Nat]
    /\ activeCount \in [Sessions -> Nat]
    /\ sessionJobs \in [Sessions -> SUBSET Executions]
    /\ pending \subseteq Executions
    /\ workerLeases \in [Workers -> SUBSET Executions]
    /\ leaseIndex \subseteq Workers \X Executions
    /\ activeRecord \in [Sessions -> Executions \cup {NoExecution}]
    /\ creds \in [Workers -> SUBSET (Executions \X Tokens)]
    /\ running \in [Workers -> SUBSET (Executions \X Tokens)]
    /\ ended \in [Workers -> SUBSET (Executions \X Tokens)]
    /\ lost \in [Sessions -> Nat]
    /\ issued \subseteq Executions
    /\ grants \in [Executions -> Nat]
    /\ finished \subseteq Executions

\* The two admission counters of a session that is not terminal count exactly
\* what they are charged for: queue-depth the queued jobs, active-executions the
\* queued and the leased ones, the runs that have recorded their start, and the
\* runs a crash took before they could record their finish.  Eleven script
\* branches move jobs between these classes, and each must repair precisely the
\* right counter; an over-release would lift the session's limit.
QueueDepthExact(s) == queueDepth[s] = Cardinality(QueuedOf(s))
ActiveCountExact(s) ==
    activeCount[s] = Cardinality(AdmittedOf(s)) + Cardinality(RunningOf(s)) + lost[s]
CountersExact ==
    \A s \in Sessions : s \notin terminal => QueueDepthExact(s) /\ ActiveCountExact(s)

\* A session never has more jobs queued and leased than its concurrency limit,
\* although releases and recoveries put jobs back without consulting a limit.
ConcurrencyLimit == \A s \in Sessions : Cardinality(AdmittedOf(s)) <= MaxConcurrent

\* Work can always be found: a queued job is in the pending index the pollers
\* read, and a lease is in the index the recovery scan reads, until a cleanup
\* of its terminal session has begun.
QueuedIsPending == \A e \in Executions : Queued(e) => e \in pending
LeasedIsIndexed ==
    \A e \in Executions : Leased(e) /\ ~CleanupBegun(SessionOf[e]) =>
        /\ <<job[e].lease.worker, e>> \in leaseIndex
        /\ e \in workerLeases[job[e].lease.worker]
Discoverable == QueuedIsPending /\ LeasedIsIndexed

\* The lease index holds current leases only: no worker appears to hold an
\* execution that was released, recovered, adopted by another or completed,
\* except while the cleanup of its terminal session is about to remove it.
IndexIsCurrent ==
    \A m \in leaseIndex :
        \/ Leased(m[2]) /\ job[m[2]].lease.worker = m[1]
        \/ m \in cleanup[SessionOf[m[2]]].leases

\* Two leases never share a token, so a credential fences one lease of one
\* execution.
TokensDistinct ==
    \A e, f \in Executions :
        Leased(e) /\ Leased(f) /\ job[e].lease.token = job[f].lease.token => e = f

\* The retry ceiling: an execution is handed out from the queue at most
\* MaxAttempts times over its whole life, through any sequence of releases,
\* recoveries and adoptions.
RetryCeiling ==
    \A e \in Executions :
        /\ grants[e] <= MaxAttempts
        /\ job[e].status # "none" => grants[e] <= job[e].attempt

\* A completed execution is out of every structure that could run it again.
CompletedIsFinal ==
    \A e \in finished : ~Queued(e) /\ ~Leased(e) /\ e \notin pending

\* Once its cleanup has run, a terminal session has no queued or leased job and
\* no entry in the lease index left, and none can appear later.
CleanedIsEmpty ==
    \A s \in Sessions : Cleaned(s) =>
        /\ AdmittedOf(s) = {}
        /\ \A m \in leaseIndex : SessionOf[m[2]] # s

\* The indexes agree with the jobs they are about, through every order of the six scripts, of the
\* cleanup's separate steps, and of crashes between them: nothing is lost to the pollers and the
\* recovery scan, and nothing is found that is over.
IndexesAreTrue == Discoverable /\ IndexIsCurrent /\ CompletedIsFinal /\ CleanedIsEmpty

\* Renewals never carry a lease past the horizon fixed when it was claimed.
WithinHorizon ==
    \A e \in Executions : Leased(e) => job[e].lease.expires <= job[e].lease.horizon

\* No step takes an unexpired lease of a live session away from a worker that
\* lost its credential: until every clock agrees on the expiry, nobody else can
\* requeue, adopt or complete the execution of a crashed holder.
NoTheft ==
    [][\A e \in Executions :
          /\ Leased(e)
          /\ job[e].lease.expires > Skew
          /\ Live(SessionOf[e]) /\ Live(SessionOf[e])'
          /\ <<e, job[e].lease.token>> \notin creds[job[e].lease.worker]
          => Leased(e)' /\ job'[e].lease.token = job[e].lease.token]_vars

\* A terminal session is never served again: no job of it becomes leased, and
\* no lease of it is extended or handed over.
TerminalIsFinal ==
    [][\A e \in Executions :
          SessionOf[e] \in terminal /\ Leased(e)' =>
              /\ Leased(e)
              /\ job'[e].lease.token = job[e].lease.token
              /\ job'[e].lease.expires <= job[e].lease.expires]_vars

\* Every lease ends: renewals stop at the horizon, and then the recovery scan
\* finds the lease in its index, whatever happened to the holder.  The one
\* exception is a cleanup that unindexed the lease and crashed before it
\* removed the job of its terminal session.
LeaseEnds ==
    \A e \in Executions, t \in Tokens :
        (Leased(e) /\ job[e].lease.token = t)
        ~> (\/ ~Leased(e)
            \/ job[e].lease.token # t
            \/ CleanupBegun(SessionOf[e]))

-----------------------------------------------------------------------------
(* What the scripts promise: ExecutionOwnership.  A job record that is gone   *)
(* and an abandoned one both stand for a retired execution; a lease stands    *)
(* for ownership by its worker whether or not it has expired, because an      *)
(* expired lease still fences the execution until a recovery or an adoption   *)
(* replaces it.                                                               *)

PhaseOf(e) ==
    CASE Queued(e) -> "waiting"
      [] Leased(e) -> "owned"
      [] e \notin issued -> "new"
      [] OTHER -> "retired"

OwnerOf(e) == IF Leased(e) THEN job[e].lease.worker ELSE NoOwner

phaseBar == [e \in Executions |-> PhaseOf(e)]
ownerBar == [e \in Executions |-> OwnerOf(e)]

Ownership == INSTANCE ExecutionOwnership WITH
    MaxTurns <- MaxAttempts, phase <- phaseBar, owner <- ownerBar, turns <- grants

\* The lease scripts implement exclusive, bounded, final ownership: every step
\* is a step of ExecutionOwnership or leaves it unchanged.
ImplementsOwnership == Ownership!Spec
=============================================================================
