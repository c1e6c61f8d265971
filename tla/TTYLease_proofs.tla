--------------------------- MODULE TTYLease_proofs ---------------------------
(***************************************************************************)
(* The lease plane, for every instance of its constants.                   *)
(*                                                                         *)
(* Type correctness: one lemma per action.  Each lemma types the variables *)
(* the action computes; the others are unchanged.                          *)
(*                                                                         *)
(* The safety properties that need no counting.  LifeInv is inductive: the *)
(* retry ceiling, the fencing tokens, the horizon of renewals.  The action *)
(* properties follow from the fate of one job in one step (Fate), and so   *)
(* does the refinement of ExecutionOwnership.                              *)
(*                                                                         *)
(* Discovery and capacity: what the indexes list, and what the counters    *)
(* count.                                                                  *)
(***************************************************************************)
EXTENDS TTYLease, FiniteSetTheorems, TLAPS

LEMMA InitTypeOK == Init => TypeOK
<1>1. NoJob \in Job
  BY LeaseAssumption DEF NoJob, Job, IdleJob
<1>2. NoCleanup \in CleanupRecord
  BY DEF NoCleanup, CleanupRecord, CleanupPart
<1>. QED
  BY <1>1, <1>2 DEF Init, TypeOK

-----------------------------------------------------------------------------
(* The values the scripts build. *)

LEMMA NewLeaseType ==
    ASSUME NEW w \in Workers, NEW t \in Tokens, NEW d \in Offsets
    PROVE  NewLease(w, t, d) \in Lease
<1>1. d + LeaseMs \in Remaining /\ d + MaxLeaseMs \in Remaining
  BY LeaseAssumption DEF Offsets, Remaining
<1>. QED
  BY <1>1 DEF NewLease, Lease

LEMMA RetimedType ==
    ASSUME NEW l \in Lease, NEW x \in Remaining, NEW h \in Remaining
    PROVE  Retimed(l, x, h) \in Lease
BY DEF Retimed, Lease

LEMMA LeasedJobType ==
    ASSUME NEW attempt \in 1 .. MaxAttempts, NEW l \in Lease
    PROVE  LeasedJob(attempt, l) \in Job
BY DEF LeasedJob, Job, HeldJob

LEMMA UnleasedJobType ==
    ASSUME NEW attempt \in 0 .. MaxAttempts
    PROVE  /\ QueuedJob(attempt) \in Job
           /\ AbandonedJob(attempt) \in Job
           /\ NoJob \in Job
BY LeaseAssumption DEF QueuedJob, AbandonedJob, NoJob, Job, IdleJob

LEMMA CounterType ==
    ASSUME NEW c \in [Sessions -> Nat], NEW s \in Sessions
    PROVE  Decr(c, s) \in [Sessions -> Nat] /\ Incr(c, s) \in [Sessions -> Nat]
BY DEF Decr, Incr

\* What the type of the job variable says of one execution.
LEMMA JobFacts ==
    ASSUME TypeOK, NEW e \in Executions
    PROVE  /\ SessionOf[e] \in Sessions
           /\ job[e] \in Job
           /\ job[e].attempt \in 0 .. MaxAttempts
           /\ Leased(e) => /\ job[e].attempt \in 1 .. MaxAttempts
                           /\ job[e].lease \in Lease
                           /\ job[e].lease.worker \in Workers
                           /\ job[e].lease.token \in Tokens
                           /\ job[e].lease.expires \in Remaining
                           /\ job[e].lease.horizon \in Remaining
                           /\ job[e] = LeasedJob(job[e].attempt, job[e].lease)
BY LeaseAssumption DEF TypeOK, Job, IdleJob, HeldJob, Lease, Leased, LeasedJob

\* Removing a job, requeueing it and the two index updates keep the types.
LEMMA RemovedType ==
    ASSUME TypeOK, NEW e \in Executions PROVE Removed(e) \in [Executions -> Job]
<1>1. NoJob \in Job
  BY UnleasedJobType, LeaseAssumption
<1>. QED
  BY <1>1 DEF TypeOK, Removed

LEMMA RequeueType ==
    ASSUME TypeOK, NEW e \in Executions, NEW a \in 0 .. MaxAttempts, Requeue(e, a)
    PROVE  /\ job' \in [Executions -> Job]
           /\ queueDepth' \in [Sessions -> Nat]
           /\ pending' \subseteq Executions
<1>1. QueuedJob(a) \in Job
  BY UnleasedJobType
<1>2. Incr(queueDepth, SessionOf[e]) \in [Sessions -> Nat]
  BY CounterType, JobFacts DEF TypeOK
<1>. QED
  BY <1>1, <1>2 DEF TypeOK, Requeue

LEMMA IndexType ==
    ASSUME TypeOK, NEW w \in Workers, NEW e \in Executions, IndexLease(w, e) \/ UnindexLease(w, e)
    PROVE  /\ workerLeases' \in [Workers -> SUBSET Executions]
           /\ leaseIndex' \subseteq Workers \X Executions
BY DEF TypeOK, IndexLease, UnindexLease

-----------------------------------------------------------------------------
(* The steps. *)

LEMMA AdmitType ==
    ASSUME TypeOK, NEW e \in Executions, Admit(e) PROVE TypeOK'
<1>1. SessionOf[e] \in Sessions /\ QueuedJob(0) \in Job
  BY JobFacts, UnleasedJobType, LeaseAssumption
<1>2. queueDepth' \in [Sessions -> Nat] /\ activeCount' \in [Sessions -> Nat]
  BY <1>1, CounterType DEF TypeOK, Admit
<1>. QED
  BY <1>1, <1>2 DEF TypeOK, Admit, sessionVars, runVars

LEMMA ClaimGrantType ==
    ASSUME TypeOK, NEW w \in Workers, NEW e \in Executions, NEW t \in Tokens, NEW d \in Offsets,
           ClaimGrant(w, e, t, d)
    PROVE  TypeOK'
<1>1. SessionOf[e] \in Sessions /\ job[e].attempt + 1 \in 1 .. MaxAttempts
  BY JobFacts, LeaseAssumption DEF ClaimGrant
<1>2. job' \in [Executions -> Job]
  BY <1>1, LeasedJobType, NewLeaseType DEF TypeOK, ClaimGrant
<1>3. queueDepth' \in [Sessions -> Nat]
  BY <1>1, CounterType DEF TypeOK, ClaimGrant
<1>4. workerLeases' \in [Workers -> SUBSET Executions] /\ leaseIndex' \subseteq Workers \X Executions
  BY IndexType DEF ClaimGrant
<1>5. creds' \in [Workers -> SUBSET (Executions \X Tokens)] /\ grants' \in [Executions -> Nat]
  BY DEF TypeOK, ClaimGrant
<1>. QED
  BY <1>2, <1>3, <1>4, <1>5 DEF TypeOK, ClaimGrant, sessionVars, runVars

LEMMA ClaimDropType ==
    ASSUME TypeOK, NEW e \in Executions, ClaimDrop(e) PROVE TypeOK'
<1>1. job' \in [Executions -> Job]
  BY RemovedType DEF ClaimDrop
<1>2. queueDepth' \in [Sessions -> Nat] /\ activeCount' \in [Sessions -> Nat]
  BY JobFacts, CounterType DEF TypeOK, ClaimDrop
<1>. QED
  BY <1>1, <1>2 DEF TypeOK, ClaimDrop, sessionVars, runVars, historyVars

LEMMA RenewType ==
    ASSUME TypeOK, NEW w \in Workers, NEW e \in Executions, NEW t \in Tokens, NEW d \in Offsets,
           Renew(w, e, t, d)
    PROVE  TypeOK'
<1> DEFINE r == Smaller(d + LeaseMs, job[e].lease.horizon)
<1>1. Leased(e)
  BY DEF Renew, Owns
<1>2. r \in Remaining
  BY <1>1, JobFacts, LeaseAssumption DEF Smaller, Remaining, Offsets
<1>3. LeasedJob(job[e].attempt, Retimed(job[e].lease, r, job[e].lease.horizon)) \in Job
  BY <1>1, <1>2, JobFacts, RetimedType, LeasedJobType
<1>4. job' \in [Executions -> Job]
  BY <1>3 DEF TypeOK, Renew
<1>. QED
  BY <1>4 DEF TypeOK, Renew, sessionVars, runVars, counterVars, indexVars, historyVars

LEMMA ReleaseRequeueType ==
    ASSUME TypeOK, NEW w \in Workers, NEW e \in Executions, NEW t \in Tokens, NEW d \in Offsets,
           ReleaseRequeue(w, e, t, d)
    PROVE  TypeOK'
<1>1. job[e].attempt + 1 \in 0 .. MaxAttempts
  BY JobFacts, LeaseAssumption DEF ReleaseRequeue
<1>2. job' \in [Executions -> Job] /\ queueDepth' \in [Sessions -> Nat] /\ pending' \subseteq Executions
  BY <1>1, RequeueType DEF ReleaseRequeue
<1>3. workerLeases' \in [Workers -> SUBSET Executions] /\ leaseIndex' \subseteq Workers \X Executions
  BY IndexType DEF ReleaseRequeue
<1>. QED
  BY <1>2, <1>3 DEF TypeOK, ReleaseRequeue, sessionVars, runVars, historyVars

LEMMA ReleaseAbandonType ==
    ASSUME TypeOK, NEW w \in Workers, NEW e \in Executions, NEW t \in Tokens, NEW d \in Offsets,
           ReleaseAbandon(w, e, t, d)
    PROVE  TypeOK'
<1>1. AbandonedJob(job[e].attempt) \in Job
  BY JobFacts, UnleasedJobType
<1>2. activeCount' \in [Sessions -> Nat]
  BY JobFacts, CounterType DEF TypeOK, ReleaseAbandon
<1>3. workerLeases' \in [Workers -> SUBSET Executions] /\ leaseIndex' \subseteq Workers \X Executions
  BY IndexType DEF ReleaseAbandon
<1>4. job' \in [Executions -> Job]
  BY <1>1 DEF TypeOK, ReleaseAbandon
<1>. QED
  BY <1>2, <1>3, <1>4 DEF TypeOK, ReleaseAbandon, sessionVars, runVars, historyVars

LEMMA RecoverRequeueType ==
    ASSUME TypeOK, NEW e \in Executions, NEW d \in Offsets, RecoverRequeue(e, d)
    PROVE  TypeOK'
<1>1. job[e].attempt \in 0 .. MaxAttempts /\ job[e].lease.worker \in Workers
  BY JobFacts DEF RecoverRequeue
<1>2. job' \in [Executions -> Job] /\ queueDepth' \in [Sessions -> Nat] /\ pending' \subseteq Executions
  BY <1>1, RequeueType DEF RecoverRequeue
<1>3. workerLeases' \in [Workers -> SUBSET Executions] /\ leaseIndex' \subseteq Workers \X Executions
  BY <1>1, IndexType DEF RecoverRequeue
<1>. QED
  BY <1>2, <1>3 DEF TypeOK, RecoverRequeue, sessionVars, runVars, historyVars

LEMMA RecoverAbandonType ==
    ASSUME TypeOK, NEW e \in Executions, NEW d \in Offsets, RecoverAbandon(e, d)
    PROVE  TypeOK'
<1>1. AbandonedJob(job[e].attempt) \in Job
  BY JobFacts, UnleasedJobType
<1>2. activeCount' \in [Sessions -> Nat]
  BY JobFacts, CounterType DEF TypeOK, RecoverAbandon
<1>3. job' \in [Executions -> Job]
  BY <1>1 DEF TypeOK, RecoverAbandon
<1>. QED
  BY <1>2, <1>3 DEF TypeOK, RecoverAbandon, sessionVars, runVars, historyVars

LEMMA RecoverDropType ==
    ASSUME TypeOK, NEW e \in Executions, NEW d \in Offsets, RecoverDrop(e, d)
    PROVE  TypeOK'
<1>1. job' \in [Executions -> Job]
  BY RemovedType DEF RecoverDrop
<1>2. activeCount' \in [Sessions -> Nat]
  BY JobFacts, CounterType DEF TypeOK, RecoverDrop
<1>3. workerLeases' \in [Workers -> SUBSET Executions] /\ leaseIndex' \subseteq Workers \X Executions
  BY JobFacts, IndexType DEF RecoverDrop
<1>. QED
  BY <1>1, <1>2, <1>3 DEF TypeOK, RecoverDrop, sessionVars, runVars, historyVars

LEMMA AdoptType ==
    ASSUME TypeOK, NEW w \in Workers, NEW e \in Executions, NEW t \in Tokens, NEW d \in Offsets,
           Adopt(w, e, t, d)
    PROVE  TypeOK'
<1>1. job[e].attempt \in 1 .. MaxAttempts /\ job[e].lease.worker \in Workers
  BY JobFacts DEF Adopt
<1>3. job' \in [Executions -> Job]
  BY <1>1, LeasedJobType, NewLeaseType DEF TypeOK, Adopt
<1>4. workerLeases' \in [Workers -> SUBSET Executions] /\ leaseIndex' \subseteq Workers \X Executions
  <2> DEFINE wl == [workerLeases EXCEPT ![job[e].lease.worker] = @ \ {e}]
  <2>1. wl \in [Workers -> SUBSET Executions]
    BY <1>1 DEF TypeOK
  <2>2. workerLeases' = [wl EXCEPT ![w] = @ \cup {e}]
    BY DEF Adopt
  <2> HIDE DEF wl
  <2>3. \A v \in Workers : [wl EXCEPT ![w] = @ \cup {e}][v] \in SUBSET Executions
    BY <2>1
  <2>4. workerLeases' \in [Workers -> SUBSET Executions]
    BY <2>1, <2>2, <2>3
  <2>. QED
    BY <1>1, <2>4 DEF TypeOK, Adopt
<1>5. creds' \in [Workers -> SUBSET (Executions \X Tokens)]
  BY DEF TypeOK, Adopt
<1>. QED
  BY <1>3, <1>4, <1>5 DEF TypeOK, Adopt, sessionVars, runVars, counterVars, historyVars

LEMMA AdoptDropType ==
    ASSUME TypeOK, NEW e \in Executions, NEW d \in Offsets, AdoptDrop(e, d)
    PROVE  TypeOK'
<1>1. job' \in [Executions -> Job]
  BY RemovedType DEF AdoptDrop
<1>2. activeCount' \in [Sessions -> Nat]
  BY JobFacts, CounterType DEF TypeOK, AdoptDrop
<1>3. workerLeases' \in [Workers -> SUBSET Executions] /\ leaseIndex' \subseteq Workers \X Executions
  BY JobFacts, IndexType DEF AdoptDrop
<1>. QED
  BY <1>1, <1>2, <1>3 DEF TypeOK, AdoptDrop, sessionVars, runVars, historyVars

LEMMA CompleteType ==
    ASSUME TypeOK, NEW w \in Workers, NEW e \in Executions, NEW t \in Tokens, NEW d \in Offsets,
           Complete(w, e, t, d)
    PROVE  TypeOK'
<1>1. job' \in [Executions -> Job]
  BY RemovedType DEF Complete
<1>2. activeCount' \in [Sessions -> Nat]
  BY JobFacts, CounterType DEF TypeOK, Complete
<1>3. workerLeases' \in [Workers -> SUBSET Executions] /\ leaseIndex' \subseteq Workers \X Executions
  BY IndexType DEF Complete
<1>. QED
  BY <1>1, <1>2, <1>3 DEF TypeOK, Complete, sessionVars, runVars

LEMMA CleanupType ==
    ASSUME NEW c \in CleanupRecord
    PROVE  JobsDone(c) \in CleanupRecord /\ IndexDone(c) \in CleanupRecord
<1>1. /\ c.todo \in SUBSET CleanupPart
      /\ c.jobs \in SUBSET Executions
      /\ c.leases \in SUBSET (Workers \X Executions)
  BY DEF CleanupRecord
<1>2. /\ c.todo \ {"jobs"} \in SUBSET CleanupPart
      /\ c.todo \ {"index"} \in SUBSET CleanupPart
  BY <1>1
<1>3. JobsDone(c) \in CleanupRecord
  BY <1>1, <1>2 DEF CleanupRecord, JobsDone
<1>4. IndexDone(c) \in CleanupRecord
  BY <1>1, <1>2 DEF CleanupRecord, IndexDone
<1>. QED
  BY <1>3, <1>4

LEMMA CleanupReadType ==
    ASSUME TypeOK, NEW s \in Sessions, CleanupRead(s) PROVE TypeOK'
<1>1. {<<job[e].lease.worker, e>> : e \in {f \in sessionJobs[s] : Leased(f)}} \subseteq Workers \X Executions
  BY JobFacts DEF TypeOK
<1>2. cleanup' \in [Sessions -> CleanupRecord]
  BY <1>1 DEF TypeOK, CleanupRead, CleanupRecord, CleanupPart
<1>. QED
  BY <1>2 DEF TypeOK, CleanupRead, counterVars, indexVars, runVars, historyVars

LEMMA CleanupJobsType ==
    ASSUME TypeOK, NEW s \in Sessions, CleanupJobs(s) PROVE TypeOK'
<1>1. NoJob \in Job
  BY UnleasedJobType, LeaseAssumption
<1>2. job' \in [Executions -> Job]
  BY <1>1 DEF TypeOK, CleanupJobs
<1>3. cleanup' \in [Sessions -> CleanupRecord]
  BY CleanupType DEF TypeOK, CleanupJobs
<1>. QED
  <2>1. /\ queueDepth' \in [Sessions -> Nat] /\ activeCount' \in [Sessions -> Nat]
        /\ sessionJobs' \in [Sessions -> SUBSET Executions]
    BY DEF TypeOK, CleanupJobs
  <2>. QED
    BY <1>2, <1>3, <2>1 DEF TypeOK, CleanupJobs, runVars, historyVars

LEMMA CleanupIndexType ==
    ASSUME TypeOK, NEW s \in Sessions, CleanupIndex(s) PROVE TypeOK'
<1>1. cleanup' \in [Sessions -> CleanupRecord]
  BY CleanupType DEF TypeOK, CleanupIndex
<1>. QED
  BY <1>1 DEF TypeOK, CleanupIndex, counterVars, runVars, historyVars

LEMMA TickType ==
    ASSUME TypeOK, Tick PROVE TypeOK'
<1>1. \A r \in Remaining : Sooner(r) \in Remaining
  BY LeaseAssumption DEF Sooner, Remaining
<1>2. ASSUME NEW e \in Executions, Leased(e)
      PROVE  LeasedJob(job[e].attempt,
                Retimed(job[e].lease, Sooner(job[e].lease.expires), Sooner(job[e].lease.horizon))) \in Job
  BY <1>1, <1>2, JobFacts, RetimedType, LeasedJobType
<1>3. job' \in [Executions -> Job]
  BY <1>2 DEF TypeOK, Tick
<1>. QED
  BY <1>3 DEF TypeOK, Tick, sessionVars, runVars, counterVars, indexVars, historyVars

\* The remaining steps copy or flip a few values.
LEMMA SmallStepType ==
    ASSUME TypeOK,
           \/ \E w \in Workers, e \in Executions, t \in Tokens :
                 StartRun(w, e, t) \/ FinishRun(w, e, t) \/ Forget(w, e, t)
           \/ \E w \in Workers, e \in Executions : RecordPersistent(w, e)
           \/ \E s \in Sessions :
                 \/ ReleasePersistent(s) \/ IdleExpire(s) \/ DurationExpire(s)
                 \/ TouchCheck(s) \/ TouchWrite(s) \/ Latch(s)
           \/ UNCHANGED vars
    PROVE  TypeOK'
<1>1. CASE \E w \in Workers, e \in Executions, t \in Tokens :
                 StartRun(w, e, t) \/ FinishRun(w, e, t) \/ Forget(w, e, t)
  <2>1. PICK w \in Workers, e \in Executions, t \in Tokens :
            StartRun(w, e, t) \/ FinishRun(w, e, t) \/ Forget(w, e, t)
    BY <1>1
  <2>2. activeCount' \in [Sessions -> Nat] /\ lost' \in [Sessions -> Nat]
    <3>1. /\ SessionOf[e] \in Sessions
          /\ activeCount \in [Sessions -> Nat] /\ lost \in [Sessions -> Nat]
      BY JobFacts DEF TypeOK
    <3>2. /\ Incr(activeCount, SessionOf[e]) \in [Sessions -> Nat]
          /\ Decr(activeCount, SessionOf[e]) \in [Sessions -> Nat]
          /\ Incr(lost, SessionOf[e]) \in [Sessions -> Nat]
      BY <3>1, CounterType
    <3>. QED
      BY <2>1, <3>1, <3>2 DEF StartRun, FinishRun, Forget, counterVars
  <2>3. /\ creds' \in [Workers -> SUBSET (Executions \X Tokens)]
        /\ running' \in [Workers -> SUBSET (Executions \X Tokens)]
        /\ ended' \in [Workers -> SUBSET (Executions \X Tokens)]
    BY SMTT(30), <2>1 DEF TypeOK, StartRun, FinishRun, Forget
  <2>. QED
    BY <2>1, <2>2, <2>3 DEF TypeOK, StartRun, FinishRun, Forget, sessionVars, counterVars, indexVars, historyVars
<1>2. CASE \E w \in Workers, e \in Executions : RecordPersistent(w, e)
  BY <1>2, JobFacts DEF TypeOK, RecordPersistent, sessionVars, runVars, counterVars, indexVars, historyVars
<1>3. CASE \E s \in Sessions : ReleasePersistent(s)
  BY <1>3 DEF TypeOK, ReleasePersistent, sessionVars, runVars, counterVars, indexVars, historyVars
<1>4. CASE \E s \in Sessions : IdleExpire(s) \/ DurationExpire(s) \/ Latch(s)
  BY <1>4 DEF TypeOK, IdleExpire, DurationExpire, Latch, counterVars, indexVars, runVars, historyVars
<1>5. CASE \E s \in Sessions : TouchCheck(s) \/ TouchWrite(s)
  BY <1>5 DEF TypeOK, TouchCheck, TouchWrite, counterVars, indexVars, runVars, historyVars
<1>6. CASE UNCHANGED vars
  BY <1>6 DEF TypeOK, vars, sessionVars, runVars, counterVars, indexVars, historyVars
<1>. QED
  BY <1>1, <1>2, <1>3, <1>4, <1>5, <1>6

LEMMA StepTypeOK ==
    ASSUME TypeOK, [Next]_vars PROVE TypeOK'
<1>1. CASE \E e \in Executions : Admit(e)
  BY <1>1, AdmitType
<1>2. CASE \E w \in Workers : WorkerStep(w)
  <2>1. PICK w \in Workers, e \in Executions :
            \/ Claim(w, e)
            \/ Recover(e)
            \/ RecordPersistent(w, e)
            \/ \E t \in Tokens : StartRun(w, e, t) \/ FinishRun(w, e, t) \/ Forget(w, e, t)
            \/ \E d \in Offsets : AdoptDrop(e, d)
            \/ \E t \in Tokens, d \in Offsets :
                  \/ Renew(w, e, t, d)
                  \/ ReleaseRequeue(w, e, t, d)
                  \/ ReleaseAbandon(w, e, t, d)
                  \/ Adopt(w, e, t, d)
                  \/ Complete(w, e, t, d)
    BY <1>2 DEF WorkerStep
  <2>2. CASE Claim(w, e)
    BY <2>2, ClaimDropType, ClaimGrantType DEF Claim
  <2>3. CASE Recover(e)
    BY <2>3, RecoverRequeueType, RecoverAbandonType, RecoverDropType DEF Recover
  <2>4. CASE RecordPersistent(w, e) \/ \E t \in Tokens : StartRun(w, e, t) \/ FinishRun(w, e, t) \/ Forget(w, e, t)
    BY <2>4, SmallStepType
  <2>5. CASE \E d \in Offsets : AdoptDrop(e, d)
    BY <2>5, AdoptDropType
  <2>6. CASE \E t \in Tokens, d \in Offsets :
                \/ Renew(w, e, t, d)
                \/ ReleaseRequeue(w, e, t, d)
                \/ ReleaseAbandon(w, e, t, d)
                \/ Adopt(w, e, t, d)
                \/ Complete(w, e, t, d)
    BY <2>6, RenewType, ReleaseRequeueType, ReleaseAbandonType, AdoptType, CompleteType
  <2>. QED
    BY <2>1, <2>2, <2>3, <2>4, <2>5, <2>6
<1>3. CASE \E s \in Sessions : SessionStep(s)
  <2>1. CASE \E s \in Sessions : CleanupRead(s) \/ CleanupJobs(s) \/ CleanupIndex(s)
    BY <2>1, CleanupReadType, CleanupJobsType, CleanupIndexType
  <2>2. CASE \E s \in Sessions : \/ ReleasePersistent(s) \/ IdleExpire(s) \/ DurationExpire(s)
                                 \/ TouchCheck(s) \/ TouchWrite(s) \/ Latch(s)
    BY <2>2, SmallStepType
  <2>. QED
    BY <1>3, <2>1, <2>2 DEF SessionStep
<1>4. CASE Tick
  BY <1>4, TickType
<1>5. CASE UNCHANGED vars
  BY <1>5, SmallStepType
<1>. QED
  BY <1>1, <1>2, <1>3, <1>4, <1>5 DEF Next

\* Every variable keeps its type: attempts stay within the retry ceiling,
\* counters never become negative, a leased job always carries a lease, and the
\* remaining times of leases stay within the horizon and the clock skew.
THEOREM TypeCorrect == Spec => []TypeOK
<1>1. Init => TypeOK
  BY InitTypeOK
<1>2. TypeOK /\ [Next]_vars => TypeOK'
  BY StepTypeOK
<1>. QED
  BY <1>1, <1>2, PTL DEF Spec

-----------------------------------------------------------------------------
(* Safety *)

\* A step is one of the actions, with its parameters.
LEMMA Steps ==
    ASSUME [Next]_vars
    PROVE  \/ \E e \in Executions : Admit(e) \/ ClaimDrop(e)
           \/ \E w \in Workers, e \in Executions, t \in Tokens, d \in Offsets :
                 \/ ClaimGrant(w, e, t, d)
                 \/ Renew(w, e, t, d)
                 \/ ReleaseRequeue(w, e, t, d)
                 \/ ReleaseAbandon(w, e, t, d)
                 \/ Adopt(w, e, t, d)
                 \/ Complete(w, e, t, d)
           \/ \E e \in Executions, d \in Offsets :
                 RecoverRequeue(e, d) \/ RecoverAbandon(e, d) \/ RecoverDrop(e, d) \/ AdoptDrop(e, d)
           \/ \E w \in Workers, e \in Executions, t \in Tokens :
                 StartRun(w, e, t) \/ FinishRun(w, e, t) \/ Forget(w, e, t)
           \/ \E w \in Workers, e \in Executions : RecordPersistent(w, e)
           \/ \E s \in Sessions :
                 \/ ReleasePersistent(s) \/ IdleExpire(s) \/ DurationExpire(s)
                 \/ TouchCheck(s) \/ TouchWrite(s) \/ Latch(s)
                 \/ CleanupRead(s) \/ CleanupJobs(s) \/ CleanupIndex(s)
           \/ Tick
           \/ UNCHANGED vars
<1>1. CASE \E w \in Workers : WorkerStep(w)
  BY <1>1 DEF WorkerStep, Claim, Recover
<1>2. CASE \E s \in Sessions : SessionStep(s)
  BY <1>2 DEF SessionStep
<1>. QED
  BY <1>1, <1>2 DEF Next

-----------------------------------------------------------------------------
(* What the cleanup of a session may touch. *)

\* Recording a start or a finish and forgetting a credential leave the jobs,
\* the session keys and the indexes alone.
LEMMA RunKeeps ==
    ASSUME NEW w \in Workers, NEW e \in Executions, NEW t \in Tokens,
           StartRun(w, e, t) \/ FinishRun(w, e, t) \/ Forget(w, e, t)
    PROVE  UNCHANGED <<job, core, status, terminal, cleanup, touching, queueDepth, sessionJobs, pending,
                       workerLeases, leaseIndex, activeRecord, issued, grants, finished>>
BY DEF StartRun, FinishRun, Forget, sessionVars, counterVars, indexVars, historyVars

\* The cleanup of a session runs only when the session is terminal, and what it
\* read are executions of that session.
CleanupInv ==
    \A s \in Sessions :
        /\ CleanupBegun(s) => s \in terminal
        /\ "read" \in cleanup[s].todo => cleanup[s] = NoCleanup
        /\ \A e \in sessionJobs[s] : SessionOf[e] = s
        /\ \A e \in cleanup[s].jobs : SessionOf[e] = s
        /\ \A m \in cleanup[s].leases : SessionOf[m[2]] = s

LEMMA CleanupInit == Init => CleanupInv
BY DEF Init, CleanupInv, NoCleanup, CleanupBegun

LEMMA CleanupStep ==
    ASSUME TypeOK, CleanupInv, [Next]_vars
    PROVE  CleanupInv'
<1>1. CASE \E e \in Executions : Admit(e) \/ ClaimDrop(e)
  BY <1>1, LeaseAssumption DEF CleanupInv, CleanupBegun, TypeOK, Admit, ClaimDrop, sessionVars
<1>2. CASE \E w \in Workers, e \in Executions, t \in Tokens, d \in Offsets :
              \/ ClaimGrant(w, e, t, d) \/ Renew(w, e, t, d) \/ ReleaseRequeue(w, e, t, d)
              \/ Adopt(w, e, t, d)
  BY <1>2 DEF CleanupInv, CleanupBegun, ClaimGrant, Renew, ReleaseRequeue, Adopt, sessionVars, indexVars
<1>3. CASE \E w \in Workers, e \in Executions, t \in Tokens, d \in Offsets :
              ReleaseAbandon(w, e, t, d) \/ Complete(w, e, t, d)
  BY <1>3, LeaseAssumption DEF CleanupInv, CleanupBegun, TypeOK, ReleaseAbandon, Complete, sessionVars
<1>4. CASE \E e \in Executions, d \in Offsets :
              RecoverRequeue(e, d) \/ RecoverAbandon(e, d) \/ RecoverDrop(e, d) \/ AdoptDrop(e, d)
  BY <1>4 DEF CleanupInv, CleanupBegun, RecoverRequeue, RecoverAbandon, RecoverDrop, AdoptDrop, sessionVars
<1>5. CASE \/ \E w \in Workers, e \in Executions, t \in Tokens :
                 StartRun(w, e, t) \/ FinishRun(w, e, t) \/ Forget(w, e, t)
           \/ \E w \in Workers, e \in Executions : RecordPersistent(w, e)
           \/ \E s \in Sessions : ReleasePersistent(s)
           \/ Tick
           \/ UNCHANGED vars
  BY <1>5, RunKeeps DEF CleanupInv, CleanupBegun, RecordPersistent, ReleasePersistent, Tick, vars,
     sessionVars, indexVars
<1>6. CASE \E s \in Sessions :
              IdleExpire(s) \/ DurationExpire(s) \/ TouchCheck(s) \/ TouchWrite(s) \/ Latch(s)
  BY <1>6 DEF CleanupInv, CleanupBegun, IdleExpire, DurationExpire, TouchCheck, TouchWrite, Latch, indexVars
<1>7. CASE \E s \in Sessions : CleanupRead(s)
  BY <1>7 DEF CleanupInv, CleanupBegun, TypeOK, CleanupRead, indexVars
<1>8. CASE \E s \in Sessions : CleanupJobs(s)
  <2>1. PICK s \in Sessions : CleanupJobs(s)
    BY <1>8
  <2>2. "read" \notin cleanup[s].todo
    BY <2>1 DEF CleanupJobs, CleanupInv, NoCleanup
  <2>3. cleanup' = [cleanup EXCEPT ![s] = JobsDone(cleanup[s])] /\ JobsDone(cleanup[s]).todo = cleanup[s].todo \ {"jobs"}
    BY <2>1 DEF CleanupJobs, JobsDone
  <2>4. /\ terminal' = terminal
        /\ \A q \in Sessions : sessionJobs'[q] \subseteq sessionJobs[q]
        /\ \A q \in Sessions : cleanup'[q].jobs \subseteq cleanup[q].jobs
        /\ \A q \in Sessions : cleanup'[q].leases \subseteq cleanup[q].leases
    BY <2>1, <2>3 DEF CleanupJobs, JobsDone, TypeOK
  <2>5. \A q \in Sessions \ {s} : cleanup'[q] = cleanup[q]
    BY <2>3 DEF TypeOK
  <2>6. "read" \notin cleanup'[s].todo
    BY <2>2, <2>3 DEF TypeOK
  <2>. QED
    BY <2>2, <2>4, <2>5, <2>6 DEF CleanupInv, CleanupBegun
<1>9. CASE \E s \in Sessions : CleanupIndex(s)
  <2>1. PICK s \in Sessions : CleanupIndex(s)
    BY <1>9
  <2>2. "read" \notin cleanup[s].todo
    BY <2>1 DEF CleanupIndex, CleanupInv, NoCleanup
  <2>3. cleanup' = [cleanup EXCEPT ![s] = IndexDone(cleanup[s])] /\ IndexDone(cleanup[s]).todo = cleanup[s].todo \ {"index"}
    BY <2>1 DEF CleanupIndex, IndexDone
  <2>4. /\ terminal' = terminal
        /\ \A q \in Sessions : sessionJobs'[q] \subseteq sessionJobs[q]
        /\ \A q \in Sessions : cleanup'[q].jobs \subseteq cleanup[q].jobs
        /\ \A q \in Sessions : cleanup'[q].leases \subseteq cleanup[q].leases
    BY <2>1, <2>3 DEF CleanupIndex, IndexDone, TypeOK
  <2>5. \A q \in Sessions \ {s} : cleanup'[q] = cleanup[q]
    BY <2>3 DEF TypeOK
  <2>6. "read" \notin cleanup'[s].todo
    BY <2>2, <2>3 DEF TypeOK
  <2>. QED
    BY <2>2, <2>4, <2>5, <2>6 DEF CleanupInv, CleanupBegun
<1>. QED
  BY Steps, <1>1, <1>2, <1>3, <1>4, <1>5, <1>6, <1>7, <1>8, <1>9

-----------------------------------------------------------------------------
(* What one step may do to one execution. *)

Stays(e) == job'[e] = job[e] /\ grants'[e] = grants[e]

Enters(e) == e \notin issued /\ e \in issued' /\ job'[e] = QueuedJob(0) /\ grants'[e] = grants[e]

\* No other execution changes.
Alone(e) == \A f \in Executions \ {e} : job'[f] = job[f]

Granted(e) ==
    /\ Queued(e) /\ Live(SessionOf[e]) /\ job[e].attempt < MaxAttempts
    /\ \E w \in Workers, t \in FreshTokens, d \in Offsets :
          job'[e] = LeasedJob(job[e].attempt + 1, NewLease(w, t, d))
    /\ grants'[e] = grants[e] + 1
    /\ Alone(e)

\* The lease stays with its worker and its token.
Kept(e, expires, horizon) ==
    /\ Leased(e)
    /\ job'[e] = LeasedJob(job[e].attempt, Retimed(job[e].lease, expires, horizon))
    /\ grants'[e] = grants[e]

Renewed(e) ==
    /\ Live(SessionOf[e])
    /\ \E d \in Offsets :
          Kept(e, Smaller(d + LeaseMs, job[e].lease.horizon), job[e].lease.horizon)

Aged(e) == Kept(e, Sooner(job[e].lease.expires), Sooner(job[e].lease.horizon))

\* What justifies that a lease ends: its expiry, its holder, or its session.
LeaseLost(e) ==
    \/ \E d \in Offsets : Expired(e, d)
    \/ <<e, job[e].lease.token>> \in creds[job[e].lease.worker]
    \/ ~Live(SessionOf[e])

Requeued(e) ==
    /\ Leased(e) /\ LeaseLost(e) /\ job[e].attempt < MaxAttempts
    /\ \E a \in {job[e].attempt, job[e].attempt + 1} : job'[e] = QueuedJob(a)
    /\ grants'[e] = grants[e]

Adopted(e) ==
    /\ Leased(e) /\ LeaseLost(e) /\ Live(SessionOf[e])
    /\ \E w \in Workers, t \in FreshTokens, d \in Offsets :
          job'[e] = LeasedJob(job[e].attempt, NewLease(w, t, d))
    /\ grants'[e] = grants[e]
    /\ Alone(e)

Ended(e) ==
    /\ Leased(e) => LeaseLost(e)
    /\ \/ job'[e] = NoJob
       \/ job[e].status # "none" /\ job'[e] = AbandonedJob(job[e].attempt)
    /\ grants'[e] = grants[e]

Fate(e) ==
    \/ Stays(e) \/ Enters(e) \/ Granted(e) \/ Renewed(e) \/ Aged(e)
    \/ Requeued(e) \/ Adopted(e) \/ Ended(e)

\* A step that rewrites the job of e alone leaves the others as they are.
LEMMA OtherJobs ==
    ASSUME TypeOK, NEW e \in Executions, NEW f \in Executions, f # e, NEW j,
           job' = [job EXCEPT ![e] = j], grants' = grants
    PROVE  Stays(f)
BY DEF Stays, TypeOK

LEMMA SameJobs ==
    ASSUME TypeOK, NEW f \in Executions, job' = job, grants' = grants
    PROVE  Fate(f)
BY DEF Stays, Fate

LEMMA AdmitFate ==
    ASSUME TypeOK, NEW e \in Executions, Admit(e), NEW f \in Executions PROVE Fate(f)
<1>1. CASE f = e
  BY <1>1 DEF TypeOK, Admit, Enters, Fate
<1>2. CASE f # e
  BY <1>2, OtherJobs DEF Admit, Fate
<1>. QED
  BY <1>1, <1>2

LEMMA ClaimDropFate ==
    ASSUME TypeOK, NEW e \in Executions, ClaimDrop(e), NEW f \in Executions PROVE Fate(f)
<1>1. CASE f = e
  <2>1. job'[e] = NoJob /\ grants'[e] = grants[e]
    BY DEF TypeOK, ClaimDrop, Removed, historyVars
  <2>2. ~Leased(e)
    BY DEF ClaimDrop, Queued, Leased
  <2>3. Ended(e)
    BY <2>1, <2>2 DEF Ended
  <2>. QED
    BY <1>1, <2>3 DEF Fate
<1>2. CASE f # e
  BY <1>2, OtherJobs DEF ClaimDrop, Removed, Fate, historyVars
<1>. QED
  BY <1>1, <1>2

LEMMA ClaimGrantFate ==
    ASSUME TypeOK, NEW w \in Workers, NEW e \in Executions, NEW t \in Tokens, NEW d \in Offsets,
           ClaimGrant(w, e, t, d), NEW f \in Executions
    PROVE  Fate(f)
<1>1. CASE f = e
  BY <1>1 DEF TypeOK, ClaimGrant, Granted, Alone, Fate
<1>2. CASE f # e
  BY <1>2 DEF TypeOK, ClaimGrant, Stays, Fate
<1>. QED
  BY <1>1, <1>2

LEMMA RenewFate ==
    ASSUME TypeOK, NEW w \in Workers, NEW e \in Executions, NEW t \in Tokens, NEW d \in Offsets,
           Renew(w, e, t, d), NEW f \in Executions
    PROVE  Fate(f)
<1> DEFINE r == Smaller(d + LeaseMs, job[e].lease.horizon)
<1>1. CASE f = e
  <2>1. Leased(e) /\ Live(SessionOf[e])
    BY DEF Renew, Owns
  <2>5. Kept(e, r, job[e].lease.horizon)
    BY <2>1 DEF TypeOK, Renew, Kept, historyVars
  <2>. QED
    BY <1>1, <2>1, <2>5 DEF Renewed, Fate
<1>2. CASE f # e
  BY <1>2 DEF TypeOK, Renew, Stays, Fate, historyVars
<1>. QED
  BY <1>1, <1>2

LEMMA ReleaseRequeueFate ==
    ASSUME TypeOK, NEW w \in Workers, NEW e \in Executions, NEW t \in Tokens, NEW d \in Offsets,
           ReleaseRequeue(w, e, t, d), NEW f \in Executions
    PROVE  Fate(f)
<1>1. Leased(e) /\ LeaseLost(e)
  BY DEF ReleaseRequeue, Owns, LeaseLost
<1>2. Requeued(e)
  BY <1>1 DEF TypeOK, ReleaseRequeue, Requeue, historyVars, Requeued
<1>. QED
  BY <1>2, OtherJobs DEF Fate, ReleaseRequeue, Requeue, historyVars

LEMMA ReleaseAbandonFate ==
    ASSUME TypeOK, NEW w \in Workers, NEW e \in Executions, NEW t \in Tokens, NEW d \in Offsets,
           ReleaseAbandon(w, e, t, d), NEW f \in Executions
    PROVE  Fate(f)
<1>1. Leased(e) /\ LeaseLost(e)
  BY DEF ReleaseAbandon, Owns, LeaseLost
<1>2. Ended(e)
  BY <1>1 DEF TypeOK, ReleaseAbandon, Leased, historyVars, Ended
<1>. QED
  BY <1>2, OtherJobs DEF Fate, ReleaseAbandon, historyVars

LEMMA CompleteFate ==
    ASSUME TypeOK, NEW w \in Workers, NEW e \in Executions, NEW t \in Tokens, NEW d \in Offsets,
           Complete(w, e, t, d), NEW f \in Executions
    PROVE  Fate(f)
<1>1. Leased(e) /\ LeaseLost(e)
  BY DEF Complete, Owns, LeaseLost
<1>2. Ended(e)
  BY <1>1 DEF TypeOK, Complete, Removed, Ended
<1>. QED
  BY <1>2, OtherJobs DEF Fate, Complete, Removed

LEMMA AdoptFate ==
    ASSUME TypeOK, NEW w \in Workers, NEW e \in Executions, NEW t \in Tokens, NEW d \in Offsets,
           Adopt(w, e, t, d), NEW f \in Executions
    PROVE  Fate(f)
<1>1. Leased(e) /\ LeaseLost(e)
  BY DEF Adopt, LeaseLost
<1>2. Adopted(e)
  BY <1>1 DEF TypeOK, Adopt, historyVars, Alone, Adopted
<1>. QED
  BY <1>2, OtherJobs DEF Fate, Adopt, historyVars

LEMMA RecoverRequeueFate ==
    ASSUME TypeOK, NEW e \in Executions, NEW d \in Offsets,
           RecoverRequeue(e, d), NEW f \in Executions
    PROVE  Fate(f)
<1>1. Leased(e) /\ LeaseLost(e)
  BY DEF RecoverRequeue, LeaseLost
<1>2. Requeued(e)
  BY <1>1 DEF TypeOK, RecoverRequeue, Requeue, historyVars, Requeued
<1>. QED
  BY <1>2, OtherJobs DEF Fate, RecoverRequeue, Requeue, historyVars

LEMMA RecoverAbandonFate ==
    ASSUME TypeOK, NEW e \in Executions, NEW d \in Offsets,
           RecoverAbandon(e, d), NEW f \in Executions
    PROVE  Fate(f)
<1>1. Leased(e) /\ LeaseLost(e)
  BY DEF RecoverAbandon, LeaseLost
<1>2. Ended(e)
  BY <1>1 DEF TypeOK, RecoverAbandon, Leased, historyVars, Ended
<1>. QED
  BY <1>2, OtherJobs DEF Fate, RecoverAbandon, historyVars

LEMMA RecoverDropFate ==
    ASSUME TypeOK, NEW e \in Executions, NEW d \in Offsets,
           RecoverDrop(e, d), NEW f \in Executions
    PROVE  Fate(f)
<1>1. Leased(e) /\ LeaseLost(e)
  BY DEF RecoverDrop, LeaseLost
<1>2. Ended(e)
  BY <1>1 DEF TypeOK, RecoverDrop, Removed, historyVars, Ended
<1>. QED
  BY <1>2, OtherJobs DEF Fate, RecoverDrop, Removed, historyVars

LEMMA AdoptDropFate ==
    ASSUME TypeOK, NEW e \in Executions, NEW d \in Offsets,
           AdoptDrop(e, d), NEW f \in Executions
    PROVE  Fate(f)
<1>1. Leased(e) /\ LeaseLost(e)
  BY DEF AdoptDrop, LeaseLost
<1>2. Ended(e)
  BY <1>1 DEF TypeOK, AdoptDrop, Removed, historyVars, Ended
<1>. QED
  BY <1>2, OtherJobs DEF Fate, AdoptDrop, Removed, historyVars

LEMMA CleanupJobsFate ==
    ASSUME TypeOK, CleanupInv, NEW s \in Sessions, CleanupJobs(s), NEW f \in Executions
    PROVE  Fate(f)
<1>1. CASE f \in cleanup[s].jobs
  <2>1. SessionOf[f] = s /\ s \in terminal
    BY <1>1 DEF CleanupInv, CleanupBegun, NoCleanup, CleanupJobs
  <2>2. LeaseLost(f)
    BY <2>1 DEF LeaseLost, Live
  <2>3. Ended(f)
    BY <1>1, <2>2 DEF CleanupJobs, Ended, historyVars
  <2>. QED
    BY <2>3 DEF Fate
<1>2. CASE f \notin cleanup[s].jobs
  BY <1>2 DEF CleanupJobs, Stays, Fate, historyVars
<1>. QED
  BY <1>1, <1>2

LEMMA TickFate ==
    ASSUME TypeOK, Tick, NEW f \in Executions PROVE Fate(f)
<1>1. CASE Leased(f)
  BY <1>1 DEF Tick, Aged, Kept, Fate, historyVars
<1>2. CASE ~Leased(f)
  BY <1>2 DEF Tick, Stays, Fate, historyVars
<1>. QED
  BY <1>1, <1>2

\* Every step treats every execution in one of these ways.
LEMMA StepFate ==
    ASSUME TypeOK, CleanupInv, [Next]_vars, NEW f \in Executions PROVE Fate(f)
<1>1. CASE \E e \in Executions : Admit(e) \/ ClaimDrop(e)
  BY <1>1, AdmitFate, ClaimDropFate
<1>2. CASE \E w \in Workers, e \in Executions, t \in Tokens, d \in Offsets :
              \/ ClaimGrant(w, e, t, d)
              \/ Renew(w, e, t, d)
              \/ ReleaseRequeue(w, e, t, d)
              \/ ReleaseAbandon(w, e, t, d)
              \/ Adopt(w, e, t, d)
              \/ Complete(w, e, t, d)
  BY <1>2, ClaimGrantFate, RenewFate, ReleaseRequeueFate, ReleaseAbandonFate, AdoptFate, CompleteFate
<1>3. CASE \E e \in Executions, d \in Offsets :
              RecoverRequeue(e, d) \/ RecoverAbandon(e, d) \/ RecoverDrop(e, d) \/ AdoptDrop(e, d)
  BY <1>3, RecoverRequeueFate, RecoverAbandonFate, RecoverDropFate, AdoptDropFate
<1>4. CASE \/ \E w \in Workers, e \in Executions, t \in Tokens :
                 StartRun(w, e, t) \/ FinishRun(w, e, t) \/ Forget(w, e, t)
           \/ \E w \in Workers, e \in Executions : RecordPersistent(w, e)
           \/ \E s \in Sessions :
                 \/ ReleasePersistent(s) \/ IdleExpire(s) \/ DurationExpire(s)
                 \/ TouchCheck(s) \/ TouchWrite(s) \/ Latch(s)
                 \/ CleanupRead(s) \/ CleanupIndex(s)
           \/ UNCHANGED vars
  <2>1. job' = job /\ grants' = grants
    BY <1>4, RunKeeps DEF RecordPersistent, ReleasePersistent, IdleExpire, DurationExpire,
       TouchCheck, TouchWrite, Latch, CleanupRead, CleanupIndex, vars, historyVars
  <2>. QED
    BY <2>1, SameJobs
<1>5. CASE \E s \in Sessions : CleanupJobs(s)
  BY <1>5, CleanupJobsFate
<1>6. CASE Tick
  BY <1>6, TickFate
<1>. QED
  BY Steps, <1>1, <1>2, <1>3, <1>4, <1>5, <1>6

\* What a step does to a lease that is there after it.
LEMMA LeaseFate ==
    ASSUME TypeOK, CleanupInv, [Next]_vars, NEW e \in Executions, Leased(e)'
    PROVE  \/ Stays(e) /\ Leased(e)
           \/ Renewed(e) \/ Aged(e) \/ Adopted(e) \/ Granted(e)
<1>1. Fate(e)
  BY StepFate
<1>2. ~Enters(e) /\ ~Requeued(e) /\ ~Ended(e)
  BY DEF Enters, Requeued, Ended, Leased, QueuedJob, NoJob, AbandonedJob
<1>. QED
  BY <1>1, <1>2 DEF Fate, Stays, Leased

-----------------------------------------------------------------------------
(* The retry ceiling. *)

\* An execution that was never admitted has no job and was never granted; one
\* that was granted has used an attempt for every grant.
IssuedInv ==
    \A e \in Executions :
        /\ e \notin issued => job[e] = NoJob /\ grants[e] = 0
        /\ grants[e] <= MaxAttempts
        /\ job[e].status # "none" => grants[e] <= job[e].attempt

LEMMA IssuedInit == Init => IssuedInv
BY LeaseAssumption DEF Init, IssuedInv, NoJob

LEMMA IssuedGrows == ASSUME [Next]_vars PROVE issued \subseteq issued'
<1>1. CASE \E e \in Executions : Admit(e) \/ ClaimDrop(e)
  BY <1>1 DEF Admit, ClaimDrop, historyVars
<1>2. CASE \E w \in Workers, e \in Executions, t \in Tokens, d \in Offsets :
              \/ ClaimGrant(w, e, t, d)
              \/ Renew(w, e, t, d)
              \/ ReleaseRequeue(w, e, t, d)
              \/ ReleaseAbandon(w, e, t, d)
              \/ Adopt(w, e, t, d)
              \/ Complete(w, e, t, d)
  BY <1>2 DEF ClaimGrant, Renew, ReleaseRequeue, ReleaseAbandon, Adopt, Complete, historyVars
<1>3. CASE \E e \in Executions, d \in Offsets :
              RecoverRequeue(e, d) \/ RecoverAbandon(e, d) \/ RecoverDrop(e, d) \/ AdoptDrop(e, d)
  BY <1>3 DEF RecoverRequeue, RecoverAbandon, RecoverDrop, AdoptDrop, historyVars
<1>4. CASE \/ \E w \in Workers, e \in Executions, t \in Tokens :
                 StartRun(w, e, t) \/ FinishRun(w, e, t) \/ Forget(w, e, t)
           \/ \E w \in Workers, e \in Executions : RecordPersistent(w, e)
           \/ Tick
           \/ UNCHANGED vars
  BY <1>4, RunKeeps DEF RecordPersistent, Tick, vars, historyVars
<1>5. CASE \E s \in Sessions :
                 \/ ReleasePersistent(s) \/ IdleExpire(s) \/ DurationExpire(s)
                 \/ TouchCheck(s) \/ TouchWrite(s) \/ Latch(s)
                 \/ CleanupRead(s) \/ CleanupJobs(s) \/ CleanupIndex(s)
  BY <1>5 DEF ReleasePersistent, IdleExpire, DurationExpire, TouchCheck, TouchWrite, Latch,
     CleanupRead, CleanupJobs, CleanupIndex, historyVars
<1>. QED
  BY Steps, <1>1, <1>2, <1>3, <1>4, <1>5

LEMMA IssuedStep ==
    ASSUME TypeOK, TypeOK', CleanupInv, IssuedInv, [Next]_vars PROVE IssuedInv'
<1>. SUFFICES ASSUME NEW e \in Executions
              PROVE  /\ e \notin issued' => job'[e] = NoJob /\ grants'[e] = 0
                     /\ grants'[e] <= MaxAttempts
                     /\ job'[e].status # "none" => grants'[e] <= job'[e].attempt
  BY DEF IssuedInv
<1>1. /\ e \notin issued => job[e] = NoJob /\ grants[e] = 0
      /\ grants[e] <= MaxAttempts
      /\ job[e].status # "none" => grants[e] <= job[e].attempt
      /\ grants[e] \in Nat /\ job[e].attempt \in 0 .. MaxAttempts
      /\ issued \subseteq issued'
  BY IssuedGrows, JobFacts DEF IssuedInv, TypeOK
<1>2. CASE Stays(e)
  BY <1>1, <1>2 DEF Stays
<1>3. CASE Enters(e)
  BY <1>1, <1>3 DEF Enters, QueuedJob
<1>4. CASE Granted(e)
  BY <1>1, <1>4, LeaseAssumption DEF Granted, Queued, LeasedJob, NoJob
<1>5. CASE Renewed(e) \/ Aged(e) \/ Adopted(e)
  <2>1. Leased(e) /\ job'[e].attempt = job[e].attempt /\ grants'[e] = grants[e]
    <3>1. CASE Renewed(e)
      BY <3>1 DEF Renewed, Kept, LeasedJob
    <3>2. CASE Aged(e)
      BY <3>2 DEF Aged, Kept, LeasedJob
    <3>3. CASE Adopted(e)
      BY <3>3 DEF Adopted, LeasedJob
    <3>. QED
      BY <1>5, <3>1, <3>2, <3>3
  <2>. QED
    BY <1>1, <2>1 DEF Leased, NoJob
<1>6. CASE Requeued(e)
  BY <1>1, <1>6 DEF Requeued, Leased, QueuedJob, NoJob
<1>7. CASE Ended(e)
  BY <1>1, <1>7 DEF Ended, AbandonedJob, NoJob
<1>. QED
  BY <1>2, <1>3, <1>4, <1>5, <1>6, <1>7, StepFate DEF Fate

-----------------------------------------------------------------------------
(* Renewals and fencing tokens. *)

\* What a renewed or aged lease looks like.
LEMMA KeptFields ==
    ASSUME TypeOK, NEW e \in Executions, NEW x, NEW h, Kept(e, x, h)
    PROVE  /\ Leased(e)
           /\ job'[e].attempt = job[e].attempt
           /\ job'[e].lease.worker = job[e].lease.worker
           /\ job'[e].lease.token = job[e].lease.token
           /\ job'[e].lease.expires = x
           /\ job'[e].lease.horizon = h
<1>1. Leased(e) /\ job[e].lease \in Lease
  BY JobFacts DEF Kept
<1>2. job'[e].lease = Retimed(job[e].lease, x, h) /\ job'[e].attempt = job[e].attempt
  BY DEF Kept, LeasedJob
<1>. QED
  BY <1>1, <1>2 DEF Retimed, Lease

LEMMA HorizonStep ==
    ASSUME TypeOK, CleanupInv, WithinHorizon, [Next]_vars PROVE WithinHorizon'
<1>. SUFFICES ASSUME NEW e \in Executions, Leased(e)'
              PROVE  job'[e].lease.expires <= job'[e].lease.horizon
  BY DEF WithinHorizon
<1>1. Leased(e) => /\ job[e].lease.expires <= job[e].lease.horizon
                   /\ job[e].lease.expires \in Int /\ job[e].lease.horizon \in Int
  BY JobFacts DEF WithinHorizon, Remaining
<1>2. CASE Stays(e) /\ Leased(e)
  BY <1>1, <1>2 DEF Stays
<1>3. CASE Renewed(e)
  <2>1. PICK d \in Offsets : Kept(e, Smaller(d + LeaseMs, job[e].lease.horizon), job[e].lease.horizon)
    BY <1>3 DEF Renewed
  <2>2. Smaller(d + LeaseMs, job[e].lease.horizon) <= job[e].lease.horizon
    BY <1>1, <2>1, LeaseAssumption DEF Smaller, Offsets, Kept
  <2>. QED
    BY <2>1, <2>2, KeptFields
<1>4. CASE Aged(e)
  <2>1. Sooner(job[e].lease.expires) <= Sooner(job[e].lease.horizon)
    BY <1>1, <1>4, LeaseAssumption DEF Sooner, Aged, Kept
  <2>. QED
    BY <1>4, <2>1, KeptFields DEF Aged
<1>5. CASE Adopted(e) \/ Granted(e)
  <2>1. PICK w \in Workers, t \in FreshTokens, d \in Offsets :
            \/ job'[e] = LeasedJob(job[e].attempt, NewLease(w, t, d))
            \/ job'[e] = LeasedJob(job[e].attempt + 1, NewLease(w, t, d))
    BY <1>5 DEF Adopted, Granted
  <2>2. job'[e].lease.expires = d + LeaseMs /\ job'[e].lease.horizon = d + MaxLeaseMs
    BY <2>1 DEF LeasedJob, NewLease
  <2>. QED
    BY <2>2, LeaseAssumption DEF Offsets
<1>. QED
  BY <1>2, <1>3, <1>4, <1>5, LeaseFate

\* At most one execution gets a new lease in a step, with a token of no lease.
LEMMA TokenStep ==
    ASSUME TypeOK, CleanupInv, TokensDistinct, [Next]_vars PROVE TokensDistinct'
<1>1. CASE \E e \in Executions : Adopted(e) \/ Granted(e)
  <2>1. PICK e \in Executions : Adopted(e) \/ Granted(e)
    BY <1>1
  <2>2. PICK t \in FreshTokens : job'[e].lease.token = t
    <3>1. CASE Adopted(e)
      BY <3>1 DEF Adopted, LeasedJob, NewLease
    <3>2. CASE Granted(e)
      BY <3>2 DEF Granted, LeasedJob, NewLease
    <3>. QED
      BY <2>1, <3>1, <3>2
  <2>3. \A f \in Executions \ {e} : job'[f] = job[f]
    BY <2>1 DEF Adopted, Granted, Alone
  <2>4. \A f \in Executions : Leased(f) => job[f].lease.token # t
    BY DEF FreshTokens, Remembered
  <2>. QED
    BY <2>2, <2>3, <2>4 DEF TokensDistinct, Leased
<1>2. CASE ~\E e \in Executions : Adopted(e) \/ Granted(e)
  <2>1. ASSUME NEW e \in Executions, Leased(e)'
        PROVE  Leased(e) /\ job'[e].lease.token = job[e].lease.token
    BY <1>2, <2>1, LeaseFate, KeptFields DEF Stays, Renewed, Aged
  <2>. QED
    BY <2>1 DEF TokensDistinct
<1>. QED
  BY <1>1, <1>2


-----------------------------------------------------------------------------
(* The theorems. *)

LifeInv == TypeOK /\ CleanupInv /\ IssuedInv /\ WithinHorizon /\ TokensDistinct

LEMMA LifeInvariant == Spec => []LifeInv
<1>1. Init => LifeInv
  BY InitTypeOK, CleanupInit, IssuedInit
     DEF Init, LifeInv, WithinHorizon, TokensDistinct, Leased, NoJob
<1>2. LifeInv /\ [Next]_vars => LifeInv'
  BY StepTypeOK, CleanupStep, IssuedStep, HorizonStep, TokenStep DEF LifeInv
<1>. QED
  BY <1>1, <1>2, PTL DEF Spec

\* However often an execution is released, recovered and adopted, it is handed
\* out from the queue at most MaxAttempts times.
THEOREM RetryCeilingHolds == Spec => []RetryCeiling
<1>1. LifeInv => RetryCeiling
  BY DEF LifeInv, IssuedInv, RetryCeiling
<1>. QED
  BY <1>1, LifeInvariant, PTL

\* Renewals never carry a lease past the horizon of its claim.
THEOREM WithinHorizonHolds == Spec => []WithinHorizon
<1>1. LifeInv => WithinHorizon
  BY DEF LifeInv
<1>. QED
  BY <1>1, LifeInvariant, PTL

\* No two leases share a token: a credential fences one lease of one execution.
THEOREM TokensDistinctHolds == Spec => []TokensDistinct
<1>1. LifeInv => TokensDistinct
  BY DEF LifeInv
<1>. QED
  BY <1>1, LifeInvariant, PTL

\* The lease of a crashed holder is out of everybody's reach until it has
\* expired for the fastest clock.
THEOREM NoTheftHolds == Spec => NoTheft
<1>1. ASSUME LifeInv, [Next]_vars, NEW e \in Executions,
             Leased(e), job[e].lease.expires > Skew, Live(SessionOf[e]),
             <<e, job[e].lease.token>> \notin creds[job[e].lease.worker]
      PROVE  Leased(e)' /\ job'[e].lease.token = job[e].lease.token
  <2>1. Fate(e)
    BY <1>1, StepFate DEF LifeInv
  <2>2. ~LeaseLost(e)
    BY <1>1, JobFacts, LeaseAssumption DEF LifeInv, LeaseLost, Expired, Offsets, Remaining
  <2>3. CASE Stays(e)
    BY <1>1, <2>3 DEF Stays, Leased
  <2>4. CASE Renewed(e) \/ Aged(e)
    <3>1. PICK x, h : Kept(e, x, h)
      BY <2>4 DEF Renewed, Aged
    <3>2. job'[e].lease.token = job[e].lease.token
      BY <1>1, <3>1, KeptFields DEF LifeInv
    <3>. QED
      BY <3>1, <3>2 DEF Kept, Leased, LeasedJob
  <2>5. ~Enters(e) /\ ~Granted(e)
    BY <1>1 DEF LifeInv, IssuedInv, Enters, Granted, Queued, Leased, NoJob
  <2>. QED
    BY <1>1, <2>1, <2>2, <2>3, <2>4, <2>5 DEF Fate, Requeued, Adopted, Ended
<1>2. LifeInv /\ [Next]_vars =>
        [\A e \in Executions :
          /\ Leased(e)
          /\ job[e].lease.expires > Skew
          /\ Live(SessionOf[e]) /\ Live(SessionOf[e])'
          /\ <<e, job[e].lease.token>> \notin creds[job[e].lease.worker]
          => Leased(e)' /\ job'[e].lease.token = job[e].lease.token]_vars
  BY <1>1
<1>. QED
  BY <1>2, LifeInvariant, PTL DEF Spec, NoTheft

\* Whatever races with its termination, a terminal session is never served: no
\* job of it is leased, renewed or adopted.
THEOREM TerminalIsFinalHolds == Spec => TerminalIsFinal
<1>1. ASSUME LifeInv, [Next]_vars, NEW e \in Executions, SessionOf[e] \in terminal, Leased(e)'
      PROVE  /\ Leased(e)
             /\ job'[e].lease.token = job[e].lease.token
             /\ job'[e].lease.expires <= job[e].lease.expires
  <2>1. ~Live(SessionOf[e])
    BY <1>1 DEF Live
  <2>2. (Stays(e) /\ Leased(e)) \/ Aged(e)
    BY <1>1, <2>1, LeaseFate DEF LifeInv, Renewed, Adopted, Granted
  <2>3. Leased(e)
    BY <2>2 DEF Aged, Kept
  <2>4. job[e].lease.expires \in Int
    BY <1>1, <2>3, JobFacts DEF LifeInv, Remaining
  <2>5. CASE Stays(e)
    BY <2>3, <2>4, <2>5 DEF Stays
  <2>6. CASE Aged(e)
    <3>1. Sooner(job[e].lease.expires) <= job[e].lease.expires
      BY <2>4, LeaseAssumption DEF Sooner
    <3>. QED
      BY <1>1, <2>6, <2>3, <3>1, KeptFields DEF LifeInv, Aged
  <2>. QED
    BY <2>2, <2>5, <2>6
<1>2. LifeInv /\ [Next]_vars =>
        [\A e \in Executions :
          SessionOf[e] \in terminal /\ Leased(e)' =>
              /\ Leased(e)
              /\ job'[e].lease.token = job[e].lease.token
              /\ job'[e].lease.expires <= job[e].lease.expires]_vars
  BY <1>1
<1>. QED
  BY <1>2, LifeInvariant, PTL DEF Spec, TerminalIsFinal

(***************************************************************************)
(* The lease plane implements ExecutionOwnership, for every instance of    *)
(* the constants.  A step maps to a stutter, to one abstract step of the   *)
(* execution it is about, or, for the cleanup of a session, to the         *)
(* retirement of all the executions that had a job left.                   *)
(***************************************************************************)
\* What the mapping shows of one execution.
Seen(e) == PhaseOf(e)' = PhaseOf(e) /\ OwnerOf(e)' = OwnerOf(e)

\* The abstract state does not change.
LEMMA Stutters ==
    ASSUME \A e \in Executions : Seen(e), grants' = grants
    PROVE  UNCHANGED <<phaseBar, ownerBar, grants>>
BY DEF Seen, phaseBar, ownerBar

LEMMA SeenSame ==
    ASSUME NEW e \in Executions, job'[e] = job[e], e \in issued' <=> e \in issued
    PROVE  Seen(e)
BY DEF Seen, PhaseOf, OwnerOf, Queued, Leased

\* A step about e alone changes the abstract state at e alone.
LEMMA Elsewhere ==
    ASSUME TypeOK, NEW e \in Executions, NEW j, job' = [job EXCEPT ![e] = j],
           \A f \in Executions \ {e} : f \in issued' <=> f \in issued
    PROVE  /\ job'[e] = j
           /\ phaseBar' = [phaseBar EXCEPT ![e] = PhaseOf(e)']
           /\ ownerBar' = [ownerBar EXCEPT ![e] = OwnerOf(e)']
<1>1. job'[e] = j /\ \A f \in Executions \ {e} : job'[f] = job[f]
  BY DEF TypeOK
<1>2. \A f \in Executions \ {e} : PhaseOf(f)' = PhaseOf(f) /\ OwnerOf(f)' = OwnerOf(f)
  BY <1>1, SeenSame DEF Seen
<1>. QED
  BY <1>1, <1>2 DEF phaseBar, ownerBar

\* What the mapping makes of a job.
LEMMA Phases ==
    ASSUME IssuedInv, NEW e \in Executions
    PROVE  /\ phaseBar[e] = PhaseOf(e) /\ ownerBar[e] = OwnerOf(e)
           /\ Queued(e) => PhaseOf(e) = "waiting" /\ OwnerOf(e) = NoOwner
           /\ Leased(e) => PhaseOf(e) = "owned" /\ OwnerOf(e) = job[e].lease.worker
           /\ Queued(e) \/ Leased(e) => e \in issued
           /\ ~Leased(e) => OwnerOf(e) = NoOwner
           /\ e \notin issued => PhaseOf(e) = "new" /\ job[e] = NoJob
BY DEF IssuedInv, phaseBar, ownerBar, PhaseOf, OwnerOf, Queued, Leased, NoJob

LEMMA QueuedAgain ==
    ASSUME NEW e \in Executions, e \in issued', NEW a, job'[e] = QueuedJob(a)
    PROVE  PhaseOf(e)' = "waiting" /\ OwnerOf(e)' = NoOwner
<1>1. Queued(e)' /\ ~Leased(e)'
  BY DEF Queued, Leased, QueuedJob
<1>. QED
  BY <1>1 DEF PhaseOf, OwnerOf

LEMMA OwnedAgain ==
    ASSUME NEW e \in Executions, e \in issued', NEW a, NEW lease, job'[e] = LeasedJob(a, lease)
    PROVE  PhaseOf(e)' = "owned" /\ OwnerOf(e)' = lease.worker
<1>1. ~Queued(e)' /\ Leased(e)' /\ job'[e].lease = lease
  BY DEF Queued, Leased, LeasedJob
<1>. QED
  BY <1>1 DEF PhaseOf, OwnerOf

LEMMA RetiredForGood ==
    ASSUME NEW e \in Executions, e \in issued', job'[e] = NoJob \/ \E a : job'[e] = AbandonedJob(a)
    PROVE  PhaseOf(e)' = "retired" /\ OwnerOf(e)' = NoOwner
<1>1. job'[e].status # "queued" /\ job'[e].status # "leased"
  <2>1. NoJob.status = "none" /\ \A a : AbandonedJob(a).status = "abandoned"
    BY DEF NoJob, AbandonedJob
  <2>. QED
    BY <2>1
<1>2. OwnerOf(e)' = NoOwner
  BY <1>1 DEF OwnerOf, Leased
<1>3. PhaseOf(e)' = "retired"
  BY <1>1 DEF PhaseOf, Queued, Leased
<1>. QED
  BY <1>2, <1>3

-----------------------------------------------------------------------------
(* Action by action. *)

LEMMA AdmitMaps ==
    ASSUME TypeOK, IssuedInv, NEW e \in Executions, Admit(e) PROVE Ownership!Submit(e)
<1>1. /\ e \notin issued /\ job' = [job EXCEPT ![e] = QueuedJob(0)]
      /\ issued' = issued \cup {e} /\ grants' = grants
  BY DEF Admit
<1>2. /\ job'[e] = QueuedJob(0)
      /\ phaseBar' = [phaseBar EXCEPT ![e] = PhaseOf(e)']
      /\ ownerBar' = [ownerBar EXCEPT ![e] = OwnerOf(e)']
  BY <1>1, Elsewhere
<1>3. PhaseOf(e)' = "waiting" /\ OwnerOf(e)' = NoOwner
  BY <1>1, <1>2, QueuedAgain
<1>4. phaseBar[e] = "new" /\ ownerBar[e] = NoOwner
  BY <1>1, Phases DEF Leased, NoJob
<1>5. ownerBar' = ownerBar
  BY <1>2, <1>3, <1>4 DEF ownerBar
<1>. QED
  BY <1>1, <1>2, <1>3, <1>4, <1>5 DEF Ownership!Submit

LEMMA ClaimGrantMaps ==
    ASSUME TypeOK, IssuedInv, NEW w \in Workers, NEW e \in Executions, NEW t \in Tokens, NEW d \in Offsets,
           ClaimGrant(w, e, t, d)
    PROVE  Ownership!Acquire(w, e)
<1>1. /\ Queued(e) /\ job[e].attempt < MaxAttempts
      /\ job' = [job EXCEPT ![e] = LeasedJob(job[e].attempt + 1, NewLease(w, t, d))]
      /\ grants' = [grants EXCEPT ![e] = @ + 1] /\ issued' = issued
  BY DEF ClaimGrant
<1>2. /\ job'[e] = LeasedJob(job[e].attempt + 1, NewLease(w, t, d))
      /\ phaseBar' = [phaseBar EXCEPT ![e] = PhaseOf(e)']
      /\ ownerBar' = [ownerBar EXCEPT ![e] = OwnerOf(e)']
  BY <1>1, Elsewhere
<1>3. PhaseOf(e)' = "owned" /\ OwnerOf(e)' = w
  BY <1>1, <1>2, Phases, OwnedAgain DEF NewLease
<1>4. phaseBar[e] = "waiting"
  BY <1>1, Phases
<1>5. grants[e] < MaxAttempts
  <2>1. grants[e] <= job[e].attempt
    BY <1>1 DEF IssuedInv, Queued
  <2>2. grants[e] \in Nat /\ job[e].attempt \in Int
    BY JobFacts DEF TypeOK
  <2>. QED
    BY <1>1, <2>1, <2>2, LeaseAssumption
<1>. QED
  BY <1>1, <1>2, <1>3, <1>4, <1>5 DEF Ownership!Acquire

\* A lease that moves to a worker.
LEMMA AdoptMaps ==
    ASSUME TypeOK, IssuedInv, NEW w \in Workers, NEW e \in Executions, NEW t \in Tokens, NEW d \in Offsets,
           Adopt(w, e, t, d)
    PROVE  Ownership!HandOver(w, e)
<1>1. /\ Leased(e) /\ grants' = grants /\ issued' = issued
      /\ job' = [job EXCEPT ![e] = LeasedJob(job[e].attempt, NewLease(w, t, d))]
  BY DEF Adopt, historyVars
<1>2. /\ job'[e] = LeasedJob(job[e].attempt, NewLease(w, t, d))
      /\ phaseBar' = [phaseBar EXCEPT ![e] = PhaseOf(e)']
      /\ ownerBar' = [ownerBar EXCEPT ![e] = OwnerOf(e)']
  BY <1>1, Elsewhere
<1>3. PhaseOf(e)' = "owned" /\ OwnerOf(e)' = w
  BY <1>1, <1>2, Phases, OwnedAgain DEF NewLease
<1>4. phaseBar[e] = "owned"
  BY <1>1, Phases
<1>5. phaseBar' = phaseBar
  BY <1>2, <1>3, <1>4 DEF phaseBar
<1>. QED
  BY <1>1, <1>2, <1>3, <1>4, <1>5 DEF Ownership!HandOver

\* A leased job that is queued again.
LEMMA RequeueMaps ==
    ASSUME TypeOK, IssuedInv, NEW e \in Executions, NEW a, Leased(e),
           job' = [job EXCEPT ![e] = QueuedJob(a)], issued' = issued, grants' = grants
    PROVE  Ownership!GiveBack(e)
<1>1. /\ job'[e] = QueuedJob(a)
      /\ phaseBar' = [phaseBar EXCEPT ![e] = PhaseOf(e)']
      /\ ownerBar' = [ownerBar EXCEPT ![e] = OwnerOf(e)']
  BY Elsewhere
<1>2. PhaseOf(e)' = "waiting" /\ OwnerOf(e)' = NoOwner
  BY <1>1, Phases, QueuedAgain
<1>3. phaseBar[e] = "owned"
  BY Phases
<1>. QED
  BY <1>1, <1>2, <1>3 DEF Ownership!GiveBack

\* Jobs that are removed or abandoned; the rest of their executions had none.
LEMMA RetireMaps ==
    ASSUME TypeOK, IssuedInv, NEW S \in SUBSET Executions, issued' = issued, grants' = grants,
           \A e \in S : Queued(e) \/ Leased(e),
           \A e \in S : job'[e] = NoJob \/ \E a : job'[e] = AbandonedJob(a),
           \A e \in Executions \ S : Seen(e)
    PROVE  Ownership!Retire(S)
<1>1. \A e \in S : e \in issued' /\ phaseBar[e] # "new"
  BY Phases
<1>2. \A e \in S : PhaseOf(e)' = "retired" /\ OwnerOf(e)' = NoOwner
  BY <1>1, RetiredForGood
<1>3. \A e \in Executions \ S : PhaseOf(e)' = phaseBar[e] /\ OwnerOf(e)' = ownerBar[e]
  BY Phases DEF Seen
<1>4. phaseBar' = [e \in Executions |-> IF e \in S THEN "retired" ELSE phaseBar[e]]
  BY <1>2, <1>3 DEF phaseBar
<1>5. ownerBar' = [e \in Executions |-> IF e \in S THEN NoOwner ELSE ownerBar[e]]
  BY <1>2, <1>3 DEF ownerBar
<1>. QED
  BY <1>1, <1>4, <1>5 DEF Ownership!Retire

LEMMA EndMaps ==
    ASSUME TypeOK, IssuedInv, NEW e \in Executions, NEW j, job' = [job EXCEPT ![e] = j],
           Queued(e) \/ Leased(e), j = NoJob \/ \E a : j = AbandonedJob(a),
           issued' = issued, grants' = grants
    PROVE  Ownership!Retire({e})
<1>1. job'[e] = j /\ \A f \in Executions \ {e} : job'[f] = job[f]
  BY DEF TypeOK
<1>2. \A f \in Executions \ {e} : Seen(f)
  BY <1>1, SeenSame
<1>. QED
  BY <1>1, <1>2, RetireMaps

LEMMA CleanupJobsMaps ==
    ASSUME TypeOK, IssuedInv, NEW s \in Sessions, CleanupJobs(s)
    PROVE  \E S \in SUBSET Executions : Ownership!Retire(S)
<1> DEFINE S == {e \in cleanup[s].jobs \cap Executions : Queued(e) \/ Leased(e)}
<1>1. /\ job' = [e \in Executions |-> IF e \in cleanup[s].jobs THEN NoJob ELSE job[e]]
      /\ issued' = issued /\ grants' = grants
  BY DEF CleanupJobs, historyVars
<1>2. ASSUME NEW e \in Executions \ S PROVE Seen(e)
  <2>1. CASE e \in cleanup[s].jobs
    <3>1. ~Queued(e) /\ ~Leased(e) /\ ~Queued(e)' /\ ~Leased(e)'
      BY <1>1, <1>2, <2>1 DEF Queued, Leased, NoJob
    <3>. QED
      BY <1>1, <3>1 DEF Seen, PhaseOf, OwnerOf
  <2>2. CASE e \notin cleanup[s].jobs
    BY <1>1, <2>2, SeenSame
  <2>. QED
    BY <2>1, <2>2
<1>3. \A e \in S : job'[e] = NoJob
  BY <1>1
<1>4. Ownership!Retire(S)
  BY <1>1, <1>2, <1>3, RetireMaps
<1>. QED
  BY <1>4

\* Renewals and the passing of time leave owners alone.
LEMMA LeaseStutters ==
    ASSUME TypeOK, IssuedInv, NEW e \in Executions, e \in issued' <=> e \in issued,
           Stays(e) \/ \E x, h : Kept(e, x, h)
    PROVE  Seen(e)
<1>1. CASE Stays(e)
  BY <1>1, SeenSame DEF Stays
<1>2. CASE \E x, h : Kept(e, x, h)
  <2>1. PICK x, h : Kept(e, x, h)
    BY <1>2
  <2>2. Leased(e) /\ job'[e] = LeasedJob(job[e].attempt, Retimed(job[e].lease, x, h))
    BY <2>1 DEF Kept
  <2>3. Retimed(job[e].lease, x, h).worker = job[e].lease.worker
    BY <2>2, JobFacts DEF Retimed, Lease
  <2>. QED
    BY <2>2, <2>3, Phases, OwnedAgain DEF Seen
<1>. QED
  BY <1>1, <1>2

LEMMA StepMaps ==
    ASSUME TypeOK, CleanupInv, IssuedInv, [Next]_vars
    PROVE  Ownership!Next \/ UNCHANGED <<phaseBar, ownerBar, grants>>
<1>1. CASE \E e \in Executions : Admit(e)
  BY <1>1, AdmitMaps DEF Ownership!Next
<1>2. CASE \E e \in Executions : ClaimDrop(e)
  <2>1. PICK e \in Executions : ClaimDrop(e)
    BY <1>2
  <2>2. Queued(e) /\ job' = [job EXCEPT ![e] = NoJob] /\ issued' = issued /\ grants' = grants
    BY <2>1 DEF ClaimDrop, Removed, historyVars
  <2>3. Ownership!Retire({e})
    BY <2>2, EndMaps
  <2>. QED
    BY <2>3 DEF Ownership!Next
<1>3. CASE \E w \in Workers, e \in Executions, t \in Tokens, d \in Offsets :
              ClaimGrant(w, e, t, d) \/ Adopt(w, e, t, d)
  BY <1>3, ClaimGrantMaps, AdoptMaps DEF Ownership!Next
<1>4. CASE \E w \in Workers, e \in Executions, t \in Tokens, d \in Offsets : Renew(w, e, t, d)
  <2>1. PICK w \in Workers, e \in Executions, t \in Tokens, d \in Offsets : Renew(w, e, t, d)
    BY <1>4
  <2> DEFINE r == Smaller(d + LeaseMs, job[e].lease.horizon)
  <2>2. /\ Leased(e) /\ issued' = issued /\ grants' = grants
        /\ job' = [job EXCEPT ![e] = LeasedJob(job[e].attempt, Retimed(job[e].lease, r, job[e].lease.horizon))]
    BY <2>1 DEF Renew, Owns, historyVars
  <2>3. Kept(e, r, job[e].lease.horizon) /\ \A f \in Executions \ {e} : Stays(f)
    BY <2>2 DEF Kept, Stays, TypeOK
  <2>4. \A f \in Executions : Seen(f)
    BY <2>2, <2>3, LeaseStutters
  <2>. QED
    BY <2>2, <2>4, Stutters
<1>5. CASE \E w \in Workers, e \in Executions, t \in Tokens, d \in Offsets :
              ReleaseRequeue(w, e, t, d)
  <2>1. PICK w \in Workers, e \in Executions, t \in Tokens, d \in Offsets : ReleaseRequeue(w, e, t, d)
    BY <1>5
  <2>2. /\ Leased(e) /\ issued' = issued /\ grants' = grants
        /\ \E a : job' = [job EXCEPT ![e] = QueuedJob(a)]
    BY <2>1 DEF ReleaseRequeue, Requeue, Owns, historyVars
  <2>3. Ownership!GiveBack(e)
    BY <2>2, RequeueMaps
  <2>. QED
    BY <2>3 DEF Ownership!Next
<1>6. CASE \E w \in Workers, e \in Executions, t \in Tokens, d \in Offsets :
              ReleaseAbandon(w, e, t, d) \/ Complete(w, e, t, d)
  <2>1. PICK w \in Workers, e \in Executions, t \in Tokens, d \in Offsets :
           ReleaseAbandon(w, e, t, d) \/ Complete(w, e, t, d)
    BY <1>6
  <2>2. /\ Leased(e) /\ issued' = issued /\ grants' = grants
        /\ \/ job' = [job EXCEPT ![e] = NoJob]
           \/ job' = [job EXCEPT ![e] = AbandonedJob(job[e].attempt)]
    BY <2>1 DEF ReleaseAbandon, Complete, Removed, Owns, historyVars
  <2>3. Ownership!Retire({e})
    BY <2>2, EndMaps
  <2>. QED
    BY <2>3 DEF Ownership!Next
<1>7. CASE \E e \in Executions, d \in Offsets : RecoverRequeue(e, d)
  <2>1. PICK e \in Executions, d \in Offsets : RecoverRequeue(e, d)
    BY <1>7
  <2>2. /\ Leased(e) /\ issued' = issued /\ grants' = grants
        /\ \E a : job' = [job EXCEPT ![e] = QueuedJob(a)]
    BY <2>1 DEF RecoverRequeue, Requeue, historyVars
  <2>3. Ownership!GiveBack(e)
    BY <2>2, RequeueMaps
  <2>. QED
    BY <2>3 DEF Ownership!Next
<1>8. CASE \E e \in Executions, d \in Offsets :
              RecoverAbandon(e, d) \/ RecoverDrop(e, d) \/ AdoptDrop(e, d)
  <2>1. PICK e \in Executions, d \in Offsets :
           RecoverAbandon(e, d) \/ RecoverDrop(e, d) \/ AdoptDrop(e, d)
    BY <1>8
  <2>2. /\ Leased(e) /\ issued' = issued /\ grants' = grants
        /\ \/ job' = [job EXCEPT ![e] = NoJob]
           \/ job' = [job EXCEPT ![e] = AbandonedJob(job[e].attempt)]
    BY <2>1 DEF RecoverAbandon, RecoverDrop, AdoptDrop, Removed, historyVars
  <2>3. Ownership!Retire({e})
    BY <2>2, EndMaps
  <2>. QED
    BY <2>3 DEF Ownership!Next
<1>9. CASE \E s \in Sessions : CleanupJobs(s)
  BY <1>9, CleanupJobsMaps DEF Ownership!Next
<1>10. CASE Tick
  <2>1. issued' = issued /\ grants' = grants
    BY <1>10 DEF Tick, historyVars
  <2>2. ASSUME NEW e \in Executions PROVE Stays(e) \/ \E x, h : Kept(e, x, h)
    <3>1. CASE Leased(e)
      BY <1>10, <3>1 DEF Tick, Kept, historyVars
    <3>2. CASE ~Leased(e)
      BY <1>10, <3>2 DEF Tick, Stays, historyVars
    <3>. QED
      BY <3>1, <3>2
  <2>3. \A e \in Executions : Seen(e)
    BY <2>1, <2>2, LeaseStutters
  <2>. QED
    BY <2>1, <2>3, Stutters
<1>11. CASE \/ \E w \in Workers, e \in Executions, t \in Tokens :
                  StartRun(w, e, t) \/ FinishRun(w, e, t) \/ Forget(w, e, t)
            \/ \E w \in Workers, e \in Executions : RecordPersistent(w, e)
            \/ \E s \in Sessions :
                  \/ ReleasePersistent(s) \/ IdleExpire(s) \/ DurationExpire(s)
                  \/ TouchCheck(s) \/ TouchWrite(s) \/ Latch(s)
                  \/ CleanupRead(s) \/ CleanupIndex(s)
            \/ UNCHANGED vars
  <2>1. job' = job /\ issued' = issued /\ grants' = grants
    BY <1>11, RunKeeps DEF RecordPersistent, ReleasePersistent, IdleExpire, DurationExpire,
       TouchCheck, TouchWrite, Latch, CleanupRead, CleanupIndex, vars, historyVars
  <2>2. \A e \in Executions : Seen(e)
    BY <2>1, SeenSame
  <2>. QED
    BY <2>1, <2>2, Stutters
<1>. QED
  BY Steps, <1>1, <1>2, <1>3, <1>4, <1>5, <1>6, <1>7, <1>8, <1>9, <1>10, <1>11

LEMMA InitMaps == Init => Ownership!Init
BY DEF Init, Ownership!Init, phaseBar, ownerBar, PhaseOf, OwnerOf, Queued, Leased, NoJob

\* Every behaviour of the six scripts, of admission, of the cleanup of sessions
\* and of time is one of exclusive, bounded and final ownership.
THEOREM LeasePlaneImplementsOwnership == Spec => ImplementsOwnership
<1>1. LifeInv /\ [Next]_vars => [Ownership!Next]_<<phaseBar, ownerBar, grants>>
  BY StepMaps DEF LifeInv
<1>2. LifeInv /\ [Next]_vars => [Ownership!Next]_(Ownership!vars)
  BY <1>1 DEF Ownership!vars
<1>. QED
  BY <1>2, InitMaps, LifeInvariant, PTL DEF Spec, ImplementsOwnership, Ownership!Spec

(***************************************************************************)
(* Discovery: every queued job is in the pending index, every lease in the *)
(* lease index, and the lease index holds nothing else.  The argument has  *)
(* to follow the cleanup of a terminal session, which reads its jobs and   *)
(* leases first and deletes them in an arbitrary order later.              *)
(***************************************************************************)

\* The job set of a session lists its queued and leased jobs, and a cleanup that
\* has yet to delete jobs has read all of them.
JobsInv ==
    /\ \A e \in Executions : Queued(e) \/ Leased(e) => e \in sessionJobs[SessionOf[e]]
    /\ \A s \in Sessions : CleanupBegun(s) =>
          IF "jobs" \in cleanup[s].todo
          THEN sessionJobs[s] \subseteq cleanup[s].jobs
          ELSE sessionJobs[s] = {}

LEMMA JobsInit == Init => JobsInv
BY DEF Init, JobsInv, NoJob, NoCleanup, CleanupBegun, Queued, Leased

\* The record of a job after a step that rewrites it alone.
LEMMA Rewritten ==
    ASSUME TypeOK, NEW e \in Executions, NEW j, job' = [job EXCEPT ![e] = j]
    PROVE  job'[e] = j /\ \A f \in Executions \ {e} : job'[f] = job[f]
BY DEF TypeOK

LEMMA Statuses ==
    /\ \A a : QueuedJob(a).status = "queued" /\ AbandonedJob(a).status = "abandoned"
    /\ \A a, l : LeasedJob(a, l).status = "leased"
    /\ NoJob.status = "none"
BY DEF QueuedJob, AbandonedJob, LeasedJob, NoJob

LEMMA JobsStep ==
    ASSUME TypeOK, CleanupInv, JobsInv, [Next]_vars PROVE JobsInv'
<1>1. CASE \E e \in Executions : Admit(e)
  <2>1. PICK e \in Executions : Admit(e)
    BY <1>1
  <2>2. SessionOf[e] \in Sessions /\ ~CleanupBegun(SessionOf[e])
    BY <2>1, JobFacts DEF Admit, Live, CleanupInv
  <2>3. /\ sessionJobs' = [sessionJobs EXCEPT ![SessionOf[e]] = @ \cup {e}]
        /\ cleanup' = cleanup
        /\ job'[e] = QueuedJob(0) /\ \A f \in Executions \ {e} : job'[f] = job[f]
    BY <2>1, Rewritten DEF Admit, sessionVars
  <2>. QED
    BY <2>2, <2>3, JobFacts DEF JobsInv, CleanupBegun, Queued, Leased, TypeOK
<1>2. CASE \/ \E e \in Executions : ClaimDrop(e)
           \/ \E w \in Workers, e \in Executions, t \in Tokens, d \in Offsets :
                 ReleaseAbandon(w, e, t, d) \/ Complete(w, e, t, d)
  <2>1. PICK e \in Executions :
            /\ job' = [job EXCEPT ![e] = NoJob] \/ job' = [job EXCEPT ![e] = AbandonedJob(job[e].attempt)]
            /\ sessionJobs' = [sessionJobs EXCEPT ![SessionOf[e]] = @ \ {e}]
            /\ cleanup' = cleanup
    BY ZenonT(40), <1>2 DEF ClaimDrop, ReleaseAbandon, Complete, Removed, sessionVars
  <2>2. ~Queued(e)' /\ ~Leased(e)' /\ \A f \in Executions \ {e} : job'[f] = job[f]
    BY <2>1, Rewritten, Statuses DEF Queued, Leased
  <2>3. \A s \in Sessions : sessionJobs'[s] \subseteq sessionJobs[s]
    BY <2>1 DEF TypeOK
  <2>4. \A f \in Executions \ {e} : f \in sessionJobs[SessionOf[f]] => f \in sessionJobs'[SessionOf[f]]
    BY <2>1, JobFacts DEF TypeOK
  <2>. QED
    BY <2>1, <2>2, <2>3, <2>4 DEF JobsInv, CleanupBegun, Queued, Leased
<1>3. CASE \/ \E w \in Workers, e \in Executions, t \in Tokens, d \in Offsets :
                 ClaimGrant(w, e, t, d) \/ Renew(w, e, t, d) \/ Adopt(w, e, t, d) \/ ReleaseRequeue(w, e, t, d)
           \/ \E e \in Executions, d \in Offsets :
                 RecoverRequeue(e, d) \/ RecoverAbandon(e, d) \/ RecoverDrop(e, d) \/ AdoptDrop(e, d)
  <2>1. PICK e \in Executions : \E j :
            /\ job' = [job EXCEPT ![e] = j]
            /\ Queued(e) \/ Leased(e)
            /\ sessionJobs' = sessionJobs /\ cleanup' = cleanup
    <3>1. CASE \E w \in Workers, e \in Executions, t \in Tokens, d \in Offsets :
                 ClaimGrant(w, e, t, d) \/ Renew(w, e, t, d) \/ Adopt(w, e, t, d) \/ ReleaseRequeue(w, e, t, d)
      BY <3>1 DEF ClaimGrant, Renew, Adopt, ReleaseRequeue, Owns, Requeue, sessionVars, indexVars
    <3>2. CASE \E e \in Executions, d \in Offsets :
                 RecoverRequeue(e, d) \/ RecoverAbandon(e, d) \/ RecoverDrop(e, d) \/ AdoptDrop(e, d)
      BY <3>2 DEF RecoverRequeue, RecoverAbandon, RecoverDrop, AdoptDrop, Requeue, Removed, sessionVars
    <3>. QED
      BY <1>3, <3>1, <3>2
  <2>2. \A f \in Executions \ {e} : job'[f] = job[f]
    BY <2>1, Rewritten
  <2>. QED
    BY <2>1, <2>2 DEF JobsInv, CleanupBegun, Queued, Leased
<1>4. CASE \/ \E w \in Workers, e \in Executions, t \in Tokens :
                 StartRun(w, e, t) \/ FinishRun(w, e, t) \/ Forget(w, e, t)
           \/ \E w \in Workers, e \in Executions : RecordPersistent(w, e)
           \/ \E s \in Sessions :
                 \/ ReleasePersistent(s) \/ IdleExpire(s) \/ DurationExpire(s)
                 \/ TouchCheck(s) \/ TouchWrite(s) \/ Latch(s)
           \/ UNCHANGED vars
  <2>1. UNCHANGED <<job, sessionJobs, cleanup>>
    BY <1>4, RunKeeps DEF RecordPersistent, ReleasePersistent, IdleExpire, DurationExpire,
       TouchCheck, TouchWrite, Latch, vars, sessionVars, indexVars
  <2>. QED
    BY <2>1 DEF JobsInv, CleanupBegun, Queued, Leased
<1>5. CASE \E s \in Sessions : CleanupRead(s)
  <2>1. PICK s \in Sessions : CleanupRead(s)
    BY <1>5
  <2>2. /\ job' = job /\ sessionJobs' = sessionJobs
        /\ cleanup'[s].todo = {"jobs", "index"} /\ cleanup'[s].jobs = sessionJobs[s]
        /\ \A q \in Sessions \ {s} : cleanup'[q] = cleanup[q]
    BY <2>1 DEF CleanupRead, TypeOK, indexVars
  <2>. QED
    BY <2>2 DEF JobsInv, CleanupBegun, Queued, Leased
<1>6. CASE \E s \in Sessions : CleanupIndex(s)
  <2>1. PICK s \in Sessions : CleanupIndex(s)
    BY <1>6
  <2>2. /\ job' = job /\ sessionJobs' = sessionJobs
        /\ \A q \in Sessions : /\ cleanup'[q].jobs = cleanup[q].jobs
                               /\ CleanupBegun(q)' => CleanupBegun(q)
                               /\ "jobs" \in cleanup'[q].todo <=> "jobs" \in cleanup[q].todo
    <3>1. "read" \notin cleanup[s].todo
      BY <2>1 DEF CleanupIndex, CleanupInv, NoCleanup
    <3>. QED
      BY <2>1, <3>1 DEF CleanupIndex, IndexDone, TypeOK, CleanupBegun
  <2>. QED
    BY <2>2 DEF JobsInv, Queued, Leased
<1>7. CASE \E s \in Sessions : CleanupJobs(s)
  <2>1. PICK s \in Sessions : CleanupJobs(s)
    BY <1>7
  <2>2. CleanupBegun(s) /\ sessionJobs[s] \subseteq cleanup[s].jobs
    BY <2>1 DEF CleanupJobs, CleanupInv, CleanupBegun, NoCleanup, JobsInv
  <2>3. /\ \A f \in Executions : job'[f] = IF f \in cleanup[s].jobs THEN NoJob ELSE job[f]
        /\ sessionJobs'[s] = {} /\ \A q \in Sessions \ {s} : sessionJobs'[q] = sessionJobs[q]
        /\ "jobs" \notin cleanup'[s].todo /\ \A q \in Sessions \ {s} : cleanup'[q] = cleanup[q]
    BY <2>1 DEF CleanupJobs, JobsDone, TypeOK
  <2>4. \A e \in Executions : Queued(e)' \/ Leased(e)' => e \in sessionJobs'[SessionOf[e]]
    BY <2>2, <2>3, Statuses, JobFacts DEF JobsInv, Queued, Leased
  <2>. QED
    BY <2>3, <2>4 DEF JobsInv, CleanupBegun
<1>8. CASE Tick
  <2>1. UNCHANGED <<sessionJobs, cleanup>>
    BY <1>8 DEF Tick, sessionVars, indexVars
  <2>2. \A e \in Executions : Queued(e)' \/ Leased(e)' => Queued(e) \/ Leased(e)
    BY <1>8 DEF Tick, Queued, Leased
  <2>. QED
    BY <2>1, <2>2 DEF JobsInv, CleanupBegun
<1>. QED
  BY Steps, <1>1, <1>2, <1>3, <1>4, <1>5, <1>6, <1>7, <1>8

-----------------------------------------------------------------------------
(* The lease index. *)

\* Besides the two properties of the index: once a cleanup has read the leases of
\* its session, the index has no other entries of it, and in the end none.
IndexInv ==
    /\ IndexIsCurrent
    /\ LeasedIsIndexed
    /\ \A s \in Sessions : CleanupBegun(s) =>
          \A m \in leaseIndex : SessionOf[m[2]] = s =>
              "index" \in cleanup[s].todo /\ m \in cleanup[s].leases

LEMMA IndexInit == Init => IndexInv
BY DEF Init, IndexInv, IndexIsCurrent, LeasedIsIndexed, NoJob, Leased

\* In a session whose cleanup has not begun every entry is a current lease.
LEMMA LiveEntries ==
    ASSUME TypeOK, CleanupInv, IndexInv, NEW m \in leaseIndex, ~CleanupBegun(SessionOf[m[2]])
    PROVE  Leased(m[2]) /\ job[m[2]].lease.worker = m[1]
<1>1. m[2] \in Executions /\ SessionOf[m[2]] \in Sessions
  BY LeaseAssumption DEF TypeOK
<1>2. cleanup[SessionOf[m[2]]].leases = {}
  BY <1>1 DEF CleanupInv, CleanupBegun, NoCleanup
<1>. QED
  BY <1>2 DEF IndexInv, IndexIsCurrent

\* A lease that ends leaves the index with its worker.
LEMMA LeaseEnded ==
    ASSUME TypeOK, CleanupInv, IndexInv, NEW e \in Executions, NEW j, j.status # "leased",
           Leased(e), job' = [job EXCEPT ![e] = j],
           leaseIndex' = leaseIndex \ {<<job[e].lease.worker, e>>},
           \/ workerLeases' = [workerLeases EXCEPT ![job[e].lease.worker] = @ \ {e}]
           \/ workerLeases' = workerLeases,
           cleanup' = cleanup
    PROVE  IndexInv'
<1>1. job'[e] = j /\ \A f \in Executions \ {e} : job'[f] = job[f]
  BY Rewritten
<1>2. IndexIsCurrent'
  <2>. SUFFICES ASSUME NEW m \in leaseIndex'
                PROVE  \/ Leased(m[2])' /\ job'[m[2]].lease.worker = m[1]
                       \/ m \in cleanup'[SessionOf[m[2]]].leases
    BY DEF IndexIsCurrent
  <2>1. m \in leaseIndex /\ m[2] \in Executions /\ m = <<m[1], m[2]>> /\ m # <<job[e].lease.worker, e>>
    BY DEF TypeOK
  <2>2. \/ Leased(m[2]) /\ job[m[2]].lease.worker = m[1]
        \/ m \in cleanup[SessionOf[m[2]]].leases
    BY <2>1 DEF IndexInv, IndexIsCurrent
  <2>. QED
    BY <1>1, <2>1, <2>2 DEF Leased
<1>3. LeasedIsIndexed'
  <2>. SUFFICES ASSUME NEW f \in Executions, Leased(f)', ~CleanupBegun(SessionOf[f])
                PROVE  /\ <<job'[f].lease.worker, f>> \in leaseIndex'
                       /\ f \in workerLeases'[job'[f].lease.worker]
    BY DEF LeasedIsIndexed, CleanupBegun
  <2>1. f # e /\ job'[f] = job[f] /\ Leased(f)
    BY <1>1 DEF Leased
  <2>2. <<job[f].lease.worker, f>> \in leaseIndex /\ f \in workerLeases[job[f].lease.worker]
    BY <2>1 DEF IndexInv, LeasedIsIndexed
  <2>3. job[f].lease.worker \in Workers /\ job[e].lease.worker \in Workers
    BY <2>1, JobFacts
  <2>. QED
    BY <2>1, <2>2, <2>3 DEF TypeOK
<1>. QED
  BY <1>2, <1>3 DEF IndexInv, CleanupBegun

\* A lease that begins, after the lease of old (if it had one) was unindexed.
LEMMA LeaseBegun ==
    ASSUME TypeOK, CleanupInv, IndexInv, NEW e \in Executions, NEW j, NEW w \in Workers,
           ~CleanupBegun(SessionOf[e]),
           j.status = "leased", j.lease.worker = w, job' = [job EXCEPT ![e] = j],
           NEW wl \in [Workers -> SUBSET Executions],
           \A v \in Workers : wl[v] = workerLeases[v] \/ wl[v] = workerLeases[v] \ {e},
           workerLeases' = [wl EXCEPT ![w] = @ \cup {e}],
           \/ ~Leased(e) /\ leaseIndex' = leaseIndex \cup {<<w, e>>}
           \/ Leased(e) /\ leaseIndex' = (leaseIndex \ {<<job[e].lease.worker, e>>}) \cup {<<w, e>>},
           cleanup' = cleanup
    PROVE  IndexInv'
<1>1. job'[e] = j /\ \A f \in Executions \ {e} : job'[f] = job[f]
  BY Rewritten
<1>2. IndexIsCurrent'
  <2>. SUFFICES ASSUME NEW m \in leaseIndex', m # <<w, e>>
                PROVE  \/ Leased(m[2])' /\ job'[m[2]].lease.worker = m[1]
                       \/ m \in cleanup'[SessionOf[m[2]]].leases
    BY <1>1 DEF IndexIsCurrent, Leased
  <2>1. m \in leaseIndex /\ m[2] \in Executions /\ m = <<m[1], m[2]>>
    BY DEF TypeOK
  <2>2. m[2] # e
    BY <2>1, LiveEntries
  <2>3. \/ Leased(m[2]) /\ job[m[2]].lease.worker = m[1]
        \/ m \in cleanup[SessionOf[m[2]]].leases
    BY <2>1 DEF IndexInv, IndexIsCurrent
  <2>. QED
    BY <1>1, <2>1, <2>2, <2>3 DEF Leased
<1>3. LeasedIsIndexed'
  <2>. SUFFICES ASSUME NEW f \in Executions, Leased(f)', ~CleanupBegun(SessionOf[f])
                PROVE  /\ <<job'[f].lease.worker, f>> \in leaseIndex'
                       /\ f \in workerLeases'[job'[f].lease.worker]
    BY DEF LeasedIsIndexed, CleanupBegun
  <2>1. CASE f = e
    BY <1>1, <2>1
  <2>2. CASE f # e
    <3>1. job'[f] = job[f] /\ Leased(f)
      BY <1>1, <2>2 DEF Leased
    <3>2. <<job[f].lease.worker, f>> \in leaseIndex /\ f \in workerLeases[job[f].lease.worker]
      BY <3>1 DEF IndexInv, LeasedIsIndexed
    <3>3. job[f].lease.worker \in Workers
      BY <3>1, JobFacts
    <3>. QED
      BY <2>2, <3>1, <3>2, <3>3
  <2>. QED
    BY <2>1, <2>2
<1>4. ASSUME NEW s \in Sessions, CleanupBegun(s)', NEW m \in leaseIndex', SessionOf[m[2]] = s
      PROVE  "index" \in cleanup'[s].todo /\ m \in cleanup'[s].leases
  <2>1. CleanupBegun(s) /\ m \in leaseIndex
    BY <1>4 DEF CleanupBegun
  <2>. QED
    BY <1>4, <2>1 DEF IndexInv
<1>. QED
  BY <1>2, <1>3, <1>4 DEF IndexInv

\* Jobs that are not leased before and after do not matter to the index.
LEMMA IndexKept ==
    ASSUME TypeOK, IndexInv, UNCHANGED <<leaseIndex, workerLeases, cleanup>>,
           \A f \in Executions :
              /\ Leased(f)' <=> Leased(f)
              /\ Leased(f) => job'[f].lease.worker = job[f].lease.worker
    PROVE  IndexInv'
<1>1. \A m \in leaseIndex : m[2] \in Executions
  BY DEF TypeOK
<1>. QED
  BY <1>1 DEF IndexInv, IndexIsCurrent, LeasedIsIndexed, CleanupBegun

LEMMA IndexStep ==
    ASSUME TypeOK, CleanupInv, IssuedInv, JobsInv, IndexInv, [Next]_vars PROVE IndexInv'
<1>1. CASE \E e \in Executions : Admit(e) \/ ClaimDrop(e)
  <2>1. PICK e \in Executions : Admit(e) \/ ClaimDrop(e)
    BY <1>1
  <2>2. ~Leased(e) /\ UNCHANGED <<leaseIndex, workerLeases, cleanup>>
    BY <2>1 DEF Admit, ClaimDrop, IssuedInv, Queued, Leased, NoJob, sessionVars
  <2>3. PICK j : j.status # "leased" /\ job' = [job EXCEPT ![e] = j]
    BY <2>1, Statuses DEF Admit, ClaimDrop, Removed
  <2>4. ~Leased(e)' /\ \A f \in Executions \ {e} : job'[f] = job[f]
    BY <2>3, Rewritten DEF Leased
  <2>. QED
    BY <2>2, <2>4, IndexKept DEF Leased
<1>2. CASE \E w \in Workers, e \in Executions, t \in Tokens, d \in Offsets :
              ReleaseRequeue(w, e, t, d) \/ ReleaseAbandon(w, e, t, d) \/ Complete(w, e, t, d)
  <2>1. PICK w \in Workers, e \in Executions, t \in Tokens, d \in Offsets :
            ReleaseRequeue(w, e, t, d) \/ ReleaseAbandon(w, e, t, d) \/ Complete(w, e, t, d)
    BY <1>2
  <2>2. Leased(e) /\ w = job[e].lease.worker /\ UnindexLease(w, e) /\ cleanup' = cleanup
    BY <2>1 DEF ReleaseRequeue, ReleaseAbandon, Complete, Owns, sessionVars
  <2>3. PICK j : j.status # "leased" /\ job' = [job EXCEPT ![e] = j]
    BY <2>1, Statuses DEF ReleaseRequeue, ReleaseAbandon, Complete, Requeue, Removed
  <2>. QED
    BY <2>2, <2>3, LeaseEnded DEF UnindexLease
<1>3. CASE \E e \in Executions, d \in Offsets :
              RecoverRequeue(e, d) \/ RecoverAbandon(e, d) \/ RecoverDrop(e, d) \/ AdoptDrop(e, d)
  <2>1. PICK e \in Executions, d \in Offsets :
            RecoverRequeue(e, d) \/ RecoverAbandon(e, d) \/ RecoverDrop(e, d) \/ AdoptDrop(e, d)
    BY <1>3
  <2>2. /\ Leased(e) /\ cleanup' = cleanup
        /\ leaseIndex' = leaseIndex \ {<<job[e].lease.worker, e>>}
        /\ \/ workerLeases' = [workerLeases EXCEPT ![job[e].lease.worker] = @ \ {e}]
           \/ workerLeases' = workerLeases
    BY <2>1 DEF RecoverRequeue, RecoverAbandon, RecoverDrop, AdoptDrop, UnindexLease, sessionVars
  <2>3. PICK j : j.status # "leased" /\ job' = [job EXCEPT ![e] = j]
    BY <2>1, Statuses DEF RecoverRequeue, RecoverAbandon, RecoverDrop, AdoptDrop, Requeue, Removed
  <2>. QED
    BY <2>2, <2>3, LeaseEnded
<1>4. CASE \E w \in Workers, e \in Executions, t \in Tokens, d \in Offsets : ClaimGrant(w, e, t, d)
  <2>1. PICK w \in Workers, e \in Executions, t \in Tokens, d \in Offsets : ClaimGrant(w, e, t, d)
    BY <1>4
  <2>2. /\ ~Leased(e) /\ ~CleanupBegun(SessionOf[e]) /\ cleanup' = cleanup
        /\ workerLeases' = [workerLeases EXCEPT ![w] = @ \cup {e}]
        /\ leaseIndex' = leaseIndex \cup {<<w, e>>}
    BY <2>1, JobFacts DEF ClaimGrant, Queued, Leased, Live, CleanupInv, IndexLease, sessionVars
  <2>3. PICK j : j.status = "leased" /\ j.lease.worker = w /\ job' = [job EXCEPT ![e] = j]
    BY <2>1 DEF ClaimGrant, LeasedJob, NewLease
  <2>. QED
    BY <2>2, <2>3, LeaseBegun DEF TypeOK
<1>5. CASE \E w \in Workers, e \in Executions, t \in Tokens, d \in Offsets : Adopt(w, e, t, d)
  <2>1. PICK w \in Workers, e \in Executions, t \in Tokens, d \in Offsets : Adopt(w, e, t, d)
    BY <1>5
  <2> DEFINE old == job[e].lease.worker
             wl == [workerLeases EXCEPT ![old] = @ \ {e}]
  <2>2. /\ Leased(e) /\ ~CleanupBegun(SessionOf[e]) /\ cleanup' = cleanup
        /\ workerLeases' = [wl EXCEPT ![w] = @ \cup {e}]
        /\ leaseIndex' = (leaseIndex \ {<<old, e>>}) \cup {<<w, e>>}
    BY <2>1, JobFacts DEF Adopt, Live, CleanupInv, sessionVars
  <2>3. PICK j : j.status = "leased" /\ j.lease.worker = w /\ job' = [job EXCEPT ![e] = j]
    BY <2>1 DEF Adopt, LeasedJob, NewLease
  <2>4. wl \in [Workers -> SUBSET Executions]
    BY DEF TypeOK
  <2>5. \A v \in Workers : wl[v] = workerLeases[v] \/ wl[v] = workerLeases[v] \ {e}
    BY DEF TypeOK
  <2> HIDE DEF wl
  <2>. QED
    BY <2>2, <2>3, <2>4, <2>5, LeaseBegun
<1>6. CASE \E w \in Workers, e \in Executions, t \in Tokens, d \in Offsets : Renew(w, e, t, d)
  <2>1. PICK w \in Workers, e \in Executions, t \in Tokens, d \in Offsets : Renew(w, e, t, d)
    BY <1>6
  <2>2. UNCHANGED <<leaseIndex, workerLeases, cleanup>> /\ \A f \in Executions \ {e} : job'[f] = job[f]
    BY <2>1 DEF Renew, TypeOK, sessionVars, indexVars
  <2>3. Kept(e, Smaller(d + LeaseMs, job[e].lease.horizon), job[e].lease.horizon)
    BY <2>1 DEF TypeOK, Renew, Owns, Kept, historyVars
  <2>4. job'[e].lease.worker = job[e].lease.worker
    BY <2>3, KeptFields
  <2>5. Leased(e) /\ Leased(e)'
    BY <2>3, Statuses DEF Kept, Leased
  <2>. QED
    BY <2>2, <2>4, <2>5, IndexKept DEF Leased
<1>7. CASE \/ \E w \in Workers, e \in Executions, t \in Tokens :
                 StartRun(w, e, t) \/ FinishRun(w, e, t) \/ Forget(w, e, t)
           \/ \E w \in Workers, e \in Executions : RecordPersistent(w, e)
           \/ \E s \in Sessions :
                 \/ ReleasePersistent(s) \/ IdleExpire(s) \/ DurationExpire(s)
                 \/ TouchCheck(s) \/ TouchWrite(s) \/ Latch(s)
           \/ UNCHANGED vars
  <2>1. UNCHANGED <<job, leaseIndex, workerLeases, cleanup>>
    BY <1>7, RunKeeps DEF RecordPersistent, ReleasePersistent, IdleExpire, DurationExpire,
       TouchCheck, TouchWrite, Latch, vars, sessionVars, indexVars
  <2>. QED
    BY <2>1, IndexKept DEF Leased
<1>8. CASE Tick
  <2>1. UNCHANGED <<leaseIndex, workerLeases, cleanup>>
    BY <1>8 DEF Tick, sessionVars, indexVars
  <2>2. ASSUME NEW f \in Executions
        PROVE  /\ Leased(f)' <=> Leased(f)
               /\ Leased(f) => job'[f].lease.worker = job[f].lease.worker
    <3>1. CASE Leased(f)
      <4>1. Aged(f)
        BY <1>8, <3>1 DEF Tick, Aged, Kept, historyVars
      <4>2. job'[f].lease.worker = job[f].lease.worker
        BY <4>1, KeptFields DEF Aged
      <4>3. Leased(f)'
        BY <4>1, Statuses DEF Aged, Kept, Leased
      <4>. QED
        BY <3>1, <4>2, <4>3
    <3>2. CASE ~Leased(f)
      BY <1>8, <3>2 DEF Tick, Leased
    <3>. QED
      BY <3>1, <3>2
  <2>. QED
    BY <2>1, <2>2, IndexKept
<1>9. CASE \E s \in Sessions : CleanupRead(s)
  <2>1. PICK s \in Sessions : CleanupRead(s)
    BY <1>9
  <2> DEFINE leases == {<<job[e].lease.worker, e>> : e \in {f \in sessionJobs[s] : Leased(f)}}
  <2>2. /\ UNCHANGED <<job, leaseIndex, workerLeases>>
        /\ ~CleanupBegun(s)
        /\ cleanup'[s].todo = {"jobs", "index"} /\ cleanup'[s].leases = leases
        /\ \A q \in Sessions \ {s} : cleanup'[q] = cleanup[q]
    BY <2>1 DEF CleanupRead, TypeOK, indexVars
  <2>3. \A m \in leaseIndex : SessionOf[m[2]] = s => m \in leases
    <3>. SUFFICES ASSUME NEW m \in leaseIndex, SessionOf[m[2]] = s PROVE m \in leases
      OBVIOUS
    <3>1. Leased(m[2]) /\ job[m[2]].lease.worker = m[1]
      BY <2>2, LiveEntries
    <3>2. m = <<m[1], m[2]>> /\ m[2] \in Executions
      BY DEF TypeOK
    <3>3. m[2] \in sessionJobs[s]
      BY <3>1, <3>2 DEF JobsInv
    <3>. QED
      BY <3>1, <3>2, <3>3
  <2>4. \A m \in leaseIndex : m[2] \in Executions /\ SessionOf[m[2]] \in Sessions
    BY LeaseAssumption DEF TypeOK
  <2>. QED
    BY <2>2, <2>3, <2>4, LeaseAssumption DEF IndexInv, IndexIsCurrent, LeasedIsIndexed, CleanupBegun, Leased
<1>10. CASE \E s \in Sessions : CleanupJobs(s)
  <2>1. PICK s \in Sessions : CleanupJobs(s)
    BY <1>10
  <2>2. UNCHANGED <<leaseIndex, workerLeases>> /\ CleanupBegun(s)
    BY <2>1 DEF CleanupJobs, CleanupInv, CleanupBegun, NoCleanup
  <2>3. \A f \in Executions : job'[f] = job[f] \/ (SessionOf[f] = s /\ job'[f] = NoJob)
    BY <2>1 DEF CleanupJobs, CleanupInv
  <2>4. \A q \in Sessions :
            /\ CleanupBegun(q)' <=> CleanupBegun(q)
            /\ "index" \in cleanup'[q].todo <=> "index" \in cleanup[q].todo
            /\ cleanup'[q].leases = cleanup[q].leases
    BY <2>1, <2>2 DEF CleanupJobs, JobsDone, CleanupBegun, TypeOK
  <2>5. \A m \in leaseIndex : m[2] \in Executions /\ SessionOf[m[2]] \in Sessions
    BY LeaseAssumption DEF TypeOK
  <2>6. IndexIsCurrent'
    BY <2>2, <2>3, <2>4, <2>5 DEF IndexInv, IndexIsCurrent, Leased
  <2>7. LeasedIsIndexed'
    <3>1. \A f \in Executions : Leased(f)' => job'[f] = job[f] /\ Leased(f)
      BY <2>3, Statuses DEF Leased
    <3>. QED
      BY <2>2, <2>4, <3>1, LeaseAssumption DEF IndexInv, LeasedIsIndexed
  <2>. QED
    BY <2>2, <2>4, <2>6, <2>7 DEF IndexInv
<1>11. CASE \E s \in Sessions : CleanupIndex(s)
  <2>1. PICK s \in Sessions : CleanupIndex(s)
    BY <1>11
  <2>2. /\ job' = job /\ CleanupBegun(s)
        /\ leaseIndex' = leaseIndex \ cleanup[s].leases
        /\ \A m \in cleanup[s].leases : SessionOf[m[2]] = s
        /\ \A w \in Workers : workerLeases'[w] = {e \in workerLeases[w] : <<w, e>> \notin cleanup[s].leases}
    BY <2>1 DEF CleanupIndex, CleanupInv, CleanupBegun, NoCleanup
  <2>3. /\ \A q \in Sessions : CleanupBegun(q)' <=> CleanupBegun(q)
        /\ \A q \in Sessions \ {s} : cleanup'[q] = cleanup[q]
    BY <2>1, <2>2 DEF CleanupIndex, IndexDone, CleanupBegun, TypeOK
  <2>4. \A m \in leaseIndex : m[2] \in Executions /\ SessionOf[m[2]] \in Sessions
    BY LeaseAssumption DEF TypeOK
  <2>5. \A m \in leaseIndex' : m \in leaseIndex /\ SessionOf[m[2]] # s
    BY <2>2 DEF IndexInv
  <2>6. IndexIsCurrent'
    BY <2>2, <2>3, <2>4, <2>5 DEF IndexInv, IndexIsCurrent, Leased
  <2>7. LeasedIsIndexed'
    <3>. SUFFICES ASSUME NEW f \in Executions, Leased(f), ~CleanupBegun(SessionOf[f])
                  PROVE  /\ <<job[f].lease.worker, f>> \in leaseIndex'
                         /\ f \in workerLeases'[job[f].lease.worker]
      BY <2>2, <2>3, LeaseAssumption DEF LeasedIsIndexed, Leased
    <3>1. SessionOf[f] # s /\ job[f].lease.worker \in Workers
      BY <2>2, JobFacts
    <3>2. <<job[f].lease.worker, f>> \in leaseIndex /\ f \in workerLeases[job[f].lease.worker]
      BY DEF IndexInv, LeasedIsIndexed
    <3>3. <<job[f].lease.worker, f>> \notin cleanup[s].leases
      BY <2>2, <3>1
    <3>. QED
      BY <2>2, <3>1, <3>2, <3>3
  <2>. QED
    BY <2>3, <2>5, <2>6, <2>7, <2>4 DEF IndexInv
<1>. QED
  BY Steps, <1>1, <1>2, <1>3, <1>4, <1>5, <1>6, <1>7, <1>8, <1>9, <1>10, <1>11

-----------------------------------------------------------------------------
(* The pending index and completion. *)

FinishedInv == \A e \in finished : e \in issued /\ ~Queued(e) /\ ~Leased(e) /\ e \notin pending

PendingInv == QueuedIsPending /\ FinishedInv

LEMMA PendingInit == Init => PendingInv
BY DEF Init, PendingInv, QueuedIsPending, FinishedInv, NoJob, Queued

\* Only a completion finishes an execution; what becomes pending becomes queued,
\* and what leaves the pending index is not queued any more.
LEMMA PendingChange ==
    ASSUME TypeOK, CleanupInv, [Next]_vars, NEW e \in Executions
    PROVE  /\ Queued(e)' /\ e \notin pending' => Queued(e) /\ e \notin pending
           /\ e \in pending' /\ e \notin pending => Queued(e)'
           /\ e \in finished' /\ e \notin finished =>
                 Leased(e) /\ ~Queued(e)' /\ ~Leased(e)' /\ e \notin pending'
<1>1. CASE \/ \E f \in Executions : Admit(f) \/ ClaimDrop(f)
           \/ \E w \in Workers, f \in Executions, t \in Tokens, d \in Offsets : ClaimGrant(w, f, t, d)
  BY <1>1, Statuses DEF Admit, ClaimDrop, ClaimGrant, Removed, Queued, TypeOK, historyVars
<1>2. CASE \E w \in Workers, f \in Executions, t \in Tokens, d \in Offsets :
              ReleaseRequeue(w, f, t, d) \/ ReleaseAbandon(w, f, t, d)
  BY <1>2, Statuses DEF ReleaseRequeue, ReleaseAbandon, Requeue, Queued, TypeOK, historyVars
<1>3. CASE \E w \in Workers, f \in Executions, t \in Tokens, d \in Offsets : Complete(w, f, t, d)
  BY <1>3, Statuses DEF Complete, Owns, Removed, Queued, Leased, TypeOK
<1>4. CASE \E f \in Executions, d \in Offsets :
              RecoverRequeue(f, d) \/ RecoverAbandon(f, d) \/ RecoverDrop(f, d) \/ AdoptDrop(f, d)
  BY <1>4, Statuses DEF RecoverRequeue, RecoverAbandon, RecoverDrop, AdoptDrop, Requeue, Removed,
     Queued, TypeOK, historyVars
<1>5. CASE \E w \in Workers, f \in Executions, t \in Tokens, d \in Offsets :
              Renew(w, f, t, d) \/ Adopt(w, f, t, d)
  <2>1. pending' = pending /\ finished' = finished
    BY <1>5 DEF Renew, Adopt, indexVars, historyVars
  <2>2. Queued(e)' => Queued(e)
    BY <1>5, Statuses DEF Renew, Adopt, Queued, TypeOK
  <2>. QED
    BY <2>1, <2>2
<1>7. CASE Tick \/ \E s \in Sessions : CleanupJobs(s)
  <2>1. pending' = pending /\ finished' = finished
    BY <1>7 DEF Tick, CleanupJobs, indexVars, historyVars
  <2>2. Queued(e)' => Queued(e)
    <3>1. CASE Tick
      BY <3>1, Statuses DEF Tick, Queued
    <3>2. CASE \E s \in Sessions : CleanupJobs(s)
      BY <3>2, Statuses DEF CleanupJobs, Queued
    <3>. QED
      BY <1>7, <3>1, <3>2
  <2>. QED
    BY <2>1, <2>2
<1>6. CASE \/ \E w \in Workers, f \in Executions, t \in Tokens : StartRun(w, f, t) \/ FinishRun(w, f, t) \/ Forget(w, f, t)
           \/ \E w \in Workers, f \in Executions : RecordPersistent(w, f)
           \/ \E s \in Sessions :
                 \/ ReleasePersistent(s) \/ IdleExpire(s) \/ DurationExpire(s)
                 \/ TouchCheck(s) \/ TouchWrite(s) \/ Latch(s)
                 \/ CleanupRead(s) \/ CleanupIndex(s)
           \/ UNCHANGED vars
  <2>1. UNCHANGED <<job, pending, finished>>
    BY <1>6, RunKeeps DEF RecordPersistent, ReleasePersistent, IdleExpire, DurationExpire,
       TouchCheck, TouchWrite, Latch, CleanupRead, CleanupIndex, vars, indexVars, historyVars
  <2>. QED
    BY <2>1 DEF Queued, Leased
<1>. QED
  BY Steps, <1>1, <1>2, <1>3, <1>4, <1>5, <1>6, <1>7

LEMMA PendingStep ==
    ASSUME TypeOK, CleanupInv, IssuedInv, PendingInv, [Next]_vars PROVE PendingInv'
<1>1. QueuedIsPending'
  BY PendingChange DEF PendingInv, QueuedIsPending
<1>2. ASSUME NEW e \in finished'
      PROVE  e \in issued' /\ ~Queued(e)' /\ ~Leased(e)' /\ e \notin pending'
  <2>0. e \in Executions
    BY <1>2, StepTypeOK DEF TypeOK
  <2>1. CASE e \notin finished
    <3>1. Leased(e) /\ ~Queued(e)' /\ ~Leased(e)' /\ e \notin pending'
      BY <1>2, <2>0, <2>1, PendingChange
    <3>2. e \in issued
      BY <2>0, <3>1 DEF IssuedInv, Leased, NoJob
    <3>. QED
      BY <3>1, <3>2, IssuedGrows
  <2>2. CASE e \in finished
    <3>1. e \in issued /\ ~Queued(e) /\ ~Leased(e) /\ e \notin pending
      BY <2>2 DEF PendingInv, FinishedInv
    <3>2. e \in issued'
      BY <3>1, IssuedGrows
    <3>3. Fate(e)
      BY <2>0, StepFate
    <3>4. Stays(e) \/ Ended(e)
      BY <3>1, <3>3 DEF Fate, Enters, Granted, Renewed, Aged, Kept, Requeued, Adopted
    <3>5. ~Queued(e)' /\ ~Leased(e)'
      BY <3>1, <3>4, Statuses DEF Stays, Ended, Queued, Leased
    <3>6. e \notin pending'
      BY <2>0, <3>1, <3>5, PendingChange
    <3>. QED
      BY <3>2, <3>5, <3>6
  <2>. QED
    BY <2>1, <2>2
<1>. QED
  BY <1>1, <1>2 DEF PendingInv, FinishedInv

-----------------------------------------------------------------------------
(* The theorems. *)

DiscoveryInv == LifeInv /\ JobsInv /\ IndexInv /\ PendingInv

LEMMA DiscoveryInvariant == Spec => []DiscoveryInv
<1>1. Init => JobsInv /\ IndexInv /\ PendingInv
  BY JobsInit, IndexInit, PendingInit
<1>2. /\ LifeInv /\ LifeInv' /\ JobsInv /\ IndexInv /\ PendingInv
      /\ [Next]_vars
      => JobsInv' /\ IndexInv' /\ PendingInv'
  BY JobsStep, IndexStep, PendingStep DEF LifeInv
<1>. QED
  BY <1>1, <1>2, LifeInvariant, PTL DEF Spec, DiscoveryInv

\* Every queued job can be found by a poller and every lease by the recovery
\* scan, as long as no cleanup of the session has begun.
THEOREM DiscoverableHolds == Spec => []Discoverable
<1>1. DiscoveryInv => Discoverable
  BY DEF DiscoveryInv, IndexInv, PendingInv, Discoverable
<1>. QED
  BY <1>1, DiscoveryInvariant, PTL

\* The lease index names current leases only.
THEOREM IndexIsCurrentHolds == Spec => []IndexIsCurrent
<1>1. DiscoveryInv => IndexIsCurrent
  BY DEF DiscoveryInv, IndexInv
<1>. QED
  BY <1>1, DiscoveryInvariant, PTL

\* Nothing can run a completed execution again.
THEOREM CompletedIsFinalHolds == Spec => []CompletedIsFinal
<1>1. DiscoveryInv => CompletedIsFinal
  BY DEF DiscoveryInv, PendingInv, FinishedInv, CompletedIsFinal
<1>. QED
  BY <1>1, DiscoveryInvariant, PTL

\* After its cleanup a terminal session has no job and no index entry left.
THEOREM CleanedIsEmptyHolds == Spec => []CleanedIsEmpty
<1>1. ASSUME DiscoveryInv, NEW s \in Sessions, Cleaned(s)
      PROVE  AdmittedOf(s) = {} /\ \A m \in leaseIndex : SessionOf[m[2]] # s
  <2>1. CleanupBegun(s) /\ sessionJobs[s] = {}
    BY <1>1 DEF DiscoveryInv, JobsInv, Cleaned, CleanupBegun
  <2>2. AdmittedOf(s) = {}
    BY <1>1, <2>1 DEF DiscoveryInv, JobsInv, AdmittedOf
  <2>3. \A m \in leaseIndex : SessionOf[m[2]] # s
    BY <1>1, <2>1 DEF DiscoveryInv, IndexInv, Cleaned
  <2>. QED
    BY <2>2, <2>3
<1>2. DiscoveryInv => CleanedIsEmpty
  BY <1>1 DEF CleanedIsEmpty
<1>. QED
  BY <1>2, DiscoveryInvariant, PTL

\* The indexes agree with the jobs: what the pollers and the recovery scan find is all there is.
THEOREM IndexesAreTrueHolds == Spec => []IndexesAreTrue
<1>1. Discoverable /\ IndexIsCurrent /\ CompletedIsFinal /\ CleanedIsEmpty => IndexesAreTrue
  BY DEF IndexesAreTrue
<1>. QED
  BY <1>1, DiscoverableHolds, IndexIsCurrentHolds, CompletedIsFinalHolds, CleanedIsEmptyHolds, PTL

(***************************************************************************)
(* Capacity: the two counters of a session that is not terminal count      *)
(* exactly what they are charged for (jobs, recorded runs and runs lost to *)
(* crashes), hence no session holds more jobs than its concurrency limit.  *)
(***************************************************************************)
Admitted(e) == Queued(e) \/ Leased(e)

\* What each script does to a counter when a job joins or leaves the class it
\* counts.
Charged(counter, s, was, is) ==
    IF is /\ ~was THEN Incr(counter, s)
    ELSE IF was /\ ~is THEN Decr(counter, s) ELSE counter

LEMMA ChargedAt ==
    ASSUME NEW c \in [Sessions -> Nat], NEW q \in Sessions, NEW s \in Sessions,
           NEW was \in BOOLEAN, NEW is \in BOOLEAN
    PROVE  Charged(c, q, was, is)[s] =
              IF q = s /\ is /\ ~was THEN c[s] + 1
              ELSE IF q = s /\ was /\ ~is THEN IF c[s] > 0 THEN c[s] - 1 ELSE 0
              ELSE c[s]
BY DEF Charged, Incr, Decr

LEMMA Finite ==
    ASSUME NEW s
    PROVE  /\ IsFiniteSet(QueuedOf(s)) /\ Cardinality(QueuedOf(s)) \in Nat
           /\ IsFiniteSet(AdmittedOf(s)) /\ Cardinality(AdmittedOf(s)) \in Nat
<1>1. QueuedOf(s) \subseteq Executions /\ AdmittedOf(s) \subseteq Executions
  BY DEF QueuedOf, AdmittedOf
<1>2. IsFiniteSet(QueuedOf(s)) /\ IsFiniteSet(AdmittedOf(s))
  BY <1>1, LeaseAssumption, FS_Subset
<1>. QED
  BY <1>2, FS_CardinalityType

\* One element joins or leaves a finite set, or nothing happens to it.
LEMMA CardinalityChange ==
    ASSUME NEW S, NEW T, NEW x, IsFiniteSet(S), T \ {x} = S \ {x}
    PROVE  Cardinality(T) = IF x \in S /\ x \notin T THEN Cardinality(S) - 1
                            ELSE IF x \notin S /\ x \in T THEN Cardinality(S) + 1
                            ELSE Cardinality(S)
<1>1. CASE x \in S /\ x \notin T
  <2>1. T = S \ {x}
    BY <1>1
  <2>. QED
    BY <1>1, <2>1, FS_RemoveElement
<1>2. CASE x \notin S /\ x \in T
  <2>1. T = S \cup {x}
    BY <1>2
  <2>. QED
    BY <1>2, <2>1, FS_AddElement
<1>3. CASE x \in S <=> x \in T
  <2>1. T = S
    BY <1>3
  <2>. QED
    BY <1>3, <2>1
<1>. QED
  BY <1>1, <1>2, <1>3

RunsFinite == \A s \in Sessions : IsFiniteSet(RunningOf(s))
CapacityInv == CountersExact /\ ConcurrencyLimit /\ RunsFinite

\* The runs of a session can be counted, and when it is not terminal all three
\* summands of its active count are natural numbers.
LEMMA Summands ==
    ASSUME TypeOK, CapacityInv, NEW s \in Sessions
    PROVE  /\ IsFiniteSet(RunningOf(s)) /\ Cardinality(RunningOf(s)) \in Nat
           /\ lost[s] \in Nat
           /\ s \notin terminal => activeCount[s] >= Cardinality(AdmittedOf(s)) + Cardinality(RunningOf(s))
<1>1. IsFiniteSet(RunningOf(s)) /\ lost[s] \in Nat
  BY DEF CapacityInv, RunsFinite, TypeOK
<1>2. Cardinality(RunningOf(s)) \in Nat
  BY <1>1, FS_CardinalityType
<1>. QED
  BY <1>1, <1>2, Finite DEF CapacityInv, CountersExact, ActiveCountExact

\* Steps that leave the runs alone.
LEMMA RunsKept ==
    ASSUME UNCHANGED running, NEW s
    PROVE  RunningOf(s)' = RunningOf(s)
BY DEF RunningOf

\* A step that rewrites one job and charges both counters accordingly.
LEMMA OneJobCharged ==
    ASSUME TypeOK, CapacityInv, NEW e \in Executions, NEW j,
           job' = [job EXCEPT ![e] = j],
           queueDepth' = Charged(queueDepth, SessionOf[e], Queued(e), j.status = "queued"),
           activeCount' = Charged(activeCount, SessionOf[e], Admitted(e), j.status \in {"queued", "leased"}),
           terminal \subseteq terminal', UNCHANGED <<running, lost>>,
           ~Admitted(e) /\ j.status \in {"queued", "leased"} =>
               activeCount[SessionOf[e]] < MaxConcurrent /\ SessionOf[e] \notin terminal
    PROVE  CapacityInv'
<1>1. job'[e] = j /\ \A f \in Executions \ {e} : job'[f] = job[f]
  BY Rewritten
<1>2. \A s \in Sessions : /\ QueuedOf(s)' \ {e} = QueuedOf(s) \ {e}
                          /\ AdmittedOf(s)' \ {e} = AdmittedOf(s) \ {e}
  BY <1>1 DEF QueuedOf, AdmittedOf, Queued, Leased
<1>3. \A s \in Sessions : /\ e \in QueuedOf(s) <=> SessionOf[e] = s /\ Queued(e)
                          /\ e \in QueuedOf(s)' <=> SessionOf[e] = s /\ j.status = "queued"
                          /\ e \in AdmittedOf(s) <=> SessionOf[e] = s /\ Admitted(e)
                          /\ e \in AdmittedOf(s)' <=> SessionOf[e] = s /\ j.status \in {"queued", "leased"}
  BY <1>1 DEF QueuedOf, AdmittedOf, Queued, Leased, Admitted
<1>4. ASSUME NEW s \in Sessions
      PROVE  /\ Cardinality(QueuedOf(s)') =
                  IF e \in QueuedOf(s) /\ e \notin QueuedOf(s)' THEN Cardinality(QueuedOf(s)) - 1
                  ELSE IF e \notin QueuedOf(s) /\ e \in QueuedOf(s)' THEN Cardinality(QueuedOf(s)) + 1
                  ELSE Cardinality(QueuedOf(s))
             /\ Cardinality(AdmittedOf(s)') =
                  IF e \in AdmittedOf(s) /\ e \notin AdmittedOf(s)' THEN Cardinality(AdmittedOf(s)) - 1
                  ELSE IF e \notin AdmittedOf(s) /\ e \in AdmittedOf(s)' THEN Cardinality(AdmittedOf(s)) + 1
                  ELSE Cardinality(AdmittedOf(s))
  <2>1. /\ IsFiniteSet(QueuedOf(s)) /\ QueuedOf(s)' \ {e} = QueuedOf(s) \ {e}
        /\ IsFiniteSet(AdmittedOf(s)) /\ AdmittedOf(s)' \ {e} = AdmittedOf(s) \ {e}
    BY <1>2, Finite
  <2> DEFINE Q == QueuedOf(s)'
             A == AdmittedOf(s)'
  <2>2. IsFiniteSet(QueuedOf(s)) /\ Q \ {e} = QueuedOf(s) \ {e}
    BY <2>1
  <2>3. IsFiniteSet(AdmittedOf(s)) /\ A \ {e} = AdmittedOf(s) \ {e}
    BY <2>1
  <2> HIDE DEF Q, A
  <2>4. Cardinality(Q) =
                  IF e \in QueuedOf(s) /\ e \notin Q THEN Cardinality(QueuedOf(s)) - 1
                  ELSE IF e \notin QueuedOf(s) /\ e \in Q THEN Cardinality(QueuedOf(s)) + 1
                  ELSE Cardinality(QueuedOf(s))
    BY <2>2, CardinalityChange
  <2>5. Cardinality(A) =
                  IF e \in AdmittedOf(s) /\ e \notin A THEN Cardinality(AdmittedOf(s)) - 1
                  ELSE IF e \notin AdmittedOf(s) /\ e \in A THEN Cardinality(AdmittedOf(s)) + 1
                  ELSE Cardinality(AdmittedOf(s))
    BY <2>3, CardinalityChange
  <2>. QED
    BY <2>4, <2>5 DEF Q, A
<1>5. ASSUME NEW s \in Sessions, s \notin terminal'
      PROVE  QueueDepthExact(s)' /\ ActiveCountExact(s)'
  <2> DEFINE n == Cardinality(RunningOf(s)) + lost[s]
  <2>0. n \in Nat
    BY Summands
  <2> HIDE DEF n
  <2>1. queueDepth[s] = Cardinality(QueuedOf(s)) /\ activeCount[s] = Cardinality(AdmittedOf(s)) + n
    BY <1>5, <2>0, Finite, Summands DEF CapacityInv, CountersExact, QueueDepthExact, ActiveCountExact, n
  <2>2. e \in QueuedOf(s) => queueDepth[s] > 0
    BY <2>1, Finite, FS_EmptySet
  <2>3. e \in AdmittedOf(s) => activeCount[s] > 0
    BY <2>0, <2>1, Finite, FS_EmptySet
  <2>4. queueDepth'[s] = Cardinality(QueuedOf(s)')
    <3> DEFINE was == Queued(e)
               is == j.status = "queued"
    <3>1. queueDepth \in [Sessions -> Nat] /\ SessionOf[e] \in Sessions /\ was \in BOOLEAN /\ is \in BOOLEAN
      BY JobFacts DEF TypeOK, Queued, Leased, Admitted
    <3>2. queueDepth' = Charged(queueDepth, SessionOf[e], was, is)
      OBVIOUS
    <3> HIDE DEF was, is
    <3>3. queueDepth'[s] =
              IF SessionOf[e] = s /\ is /\ ~was THEN queueDepth[s] + 1
              ELSE IF SessionOf[e] = s /\ was /\ ~is
              THEN IF queueDepth[s] > 0 THEN queueDepth[s] - 1 ELSE 0
              ELSE queueDepth[s]
      BY <3>1, <3>2, ChargedAt
    <3>. QED
      BY <1>3, <1>4, <2>1, <2>2, <3>3 DEF was, is
  <2>5. activeCount'[s] = Cardinality(AdmittedOf(s)') + n
    <3> DEFINE was == Admitted(e)
               is == j.status \in {"queued", "leased"}
    <3>1. activeCount \in [Sessions -> Nat] /\ SessionOf[e] \in Sessions /\ was \in BOOLEAN /\ is \in BOOLEAN
      BY JobFacts DEF TypeOK, Queued, Leased, Admitted
    <3>2. activeCount' = Charged(activeCount, SessionOf[e], was, is)
      OBVIOUS
    <3> HIDE DEF was, is
    <3>3. activeCount'[s] =
              IF SessionOf[e] = s /\ is /\ ~was THEN activeCount[s] + 1
              ELSE IF SessionOf[e] = s /\ was /\ ~is
              THEN IF activeCount[s] > 0 THEN activeCount[s] - 1 ELSE 0
              ELSE activeCount[s]
      BY <3>1, <3>2, ChargedAt
    <3>. QED
      BY <1>3, <1>4, <2>0, <2>1, <2>3, <3>3, Finite DEF was, is
  <2>6. Cardinality(AdmittedOf(s)') + n = Cardinality(AdmittedOf(s)') + Cardinality(RunningOf(s)) + lost[s]
    <3> DEFINE A == AdmittedOf(s)'
    <3>1. Cardinality(A) \in Int
      BY <1>4, Finite
    <3> HIDE DEF A
    <3>2. Cardinality(A) + n = Cardinality(A) + Cardinality(RunningOf(s)) + lost[s]
      BY <3>1, Summands DEF n
    <3>. QED
      BY <3>2 DEF A
  <2>7. RunningOf(s)' = RunningOf(s) /\ lost' = lost
    BY RunsKept
  <2>. QED
    BY <2>4, <2>5, <2>6, <2>7 DEF QueueDepthExact, ActiveCountExact
<1>6. ASSUME NEW s \in Sessions
      PROVE  Cardinality(AdmittedOf(s)') <= MaxConcurrent
  <2>1. Cardinality(AdmittedOf(s)) <= MaxConcurrent /\ Cardinality(AdmittedOf(s)) \in Nat
    BY Finite DEF CapacityInv, ConcurrencyLimit
  <2>2. CASE e \notin AdmittedOf(s) /\ e \in AdmittedOf(s)'
    <3>1. s = SessionOf[e] /\ activeCount[s] < MaxConcurrent /\ s \notin terminal
      BY <1>3, <2>2
    <3>2. activeCount[s] >= Cardinality(AdmittedOf(s)) /\ activeCount[s] \in Nat
      BY <2>1, <3>1, Summands DEF TypeOK
    <3>. QED
      BY <1>4, <2>1, <2>2, <3>1, <3>2, LeaseAssumption
  <2>3. CASE ~(e \notin AdmittedOf(s) /\ e \in AdmittedOf(s)')
    BY <1>4, <2>1, <2>3, LeaseAssumption
  <2>. QED
    BY <2>2, <2>3
<1>7. RunsFinite'
  BY RunsKept DEF CapacityInv, RunsFinite
<1>. QED
  BY <1>5, <1>6, <1>7 DEF CapacityInv, CountersExact, ConcurrencyLimit

\* Steps that leave the classes of all jobs and both counters alone.
LEMMA ClassesKept ==
    ASSUME CapacityInv, UNCHANGED <<queueDepth, activeCount, running, lost>>, terminal \subseteq terminal',
           \A e \in Executions : (Queued(e)' <=> Queued(e)) /\ (Leased(e)' <=> Leased(e))
    PROVE  CapacityInv'
<1>1. \A s \in Sessions : QueuedOf(s)' = QueuedOf(s) /\ AdmittedOf(s)' = AdmittedOf(s)
  BY DEF QueuedOf, AdmittedOf
<1>2. \A s \in Sessions : Cardinality(QueuedOf(s)') = Cardinality(QueuedOf(s))
                          /\ Cardinality(AdmittedOf(s)') = Cardinality(AdmittedOf(s))
  BY <1>1
<1>3. \A s \in Sessions : RunningOf(s)' = RunningOf(s)
  BY RunsKept
<1>4. CountersExact'
  BY <1>2, <1>3 DEF CapacityInv, CountersExact, QueueDepthExact, ActiveCountExact
<1>. QED
  BY <1>2, <1>3, <1>4 DEF CapacityInv, ConcurrencyLimit, RunsFinite

LEMMA CapacityInit == Init => CapacityInv
<1>. SUFFICES ASSUME Init PROVE CapacityInv
  OBVIOUS
<1>1. \A s \in Sessions : QueuedOf(s) = {} /\ AdmittedOf(s) = {} /\ RunningOf(s) = {}
  BY Statuses DEF Init, QueuedOf, AdmittedOf, RunningOf, Queued, Leased
<1>2. \A s \in Sessions : /\ Cardinality(QueuedOf(s)) = 0 /\ Cardinality(AdmittedOf(s)) = 0
                          /\ Cardinality(RunningOf(s)) = 0 /\ IsFiniteSet(RunningOf(s))
  BY <1>1, FS_EmptySet
<1>. QED
  BY <1>2, LeaseAssumption
     DEF Init, CapacityInv, CountersExact, QueueDepthExact, ActiveCountExact, ConcurrencyLimit, RunsFinite

\* One run appears or disappears, and the active count and the lost runs of its
\* session follow.
LEMMA OneRunChanged ==
    ASSUME TypeOK, CapacityInv, NEW w \in Workers, NEW e \in Executions, NEW t \in Tokens,
           UNCHANGED <<job, queueDepth, terminal>>,
           \A v \in Workers, f \in Executions, u \in Tokens :
               <<v, f, u>> # <<w, e, t>> => (<<f, u>> \in running'[v] <=> <<f, u>> \in running[v]),
           \A s \in Sessions \ {SessionOf[e]} : activeCount'[s] = activeCount[s] /\ lost'[s] = lost[s],
           SessionOf[e] \notin terminal =>
               \/ /\ <<e, t>> \notin running[w] /\ <<e, t>> \in running'[w]
                  /\ activeCount'[SessionOf[e]] = activeCount[SessionOf[e]] + 1
                  /\ lost'[SessionOf[e]] = lost[SessionOf[e]]
               \/ /\ <<e, t>> \in running[w] /\ <<e, t>> \notin running'[w]
                  /\ \/ /\ activeCount'[SessionOf[e]] =
                              IF activeCount[SessionOf[e]] > 0 THEN activeCount[SessionOf[e]] - 1 ELSE 0
                        /\ lost'[SessionOf[e]] = lost[SessionOf[e]]
                     \/ /\ activeCount'[SessionOf[e]] = activeCount[SessionOf[e]]
                        /\ lost'[SessionOf[e]] = lost[SessionOf[e]] + 1
               \/ /\ <<e, t>> \in running[w] <=> <<e, t>> \in running'[w]
                  /\ activeCount'[SessionOf[e]] = activeCount[SessionOf[e]]
                  /\ lost'[SessionOf[e]] = lost[SessionOf[e]]
    PROVE  CapacityInv'
<1> DEFINE r == <<w, e, t>>
           R(s) == RunningOf(s)'
<1>1. \A s \in Sessions : QueuedOf(s)' = QueuedOf(s) /\ AdmittedOf(s)' = AdmittedOf(s)
  BY DEF QueuedOf, AdmittedOf, Queued, Leased
<1>2. \A s \in Sessions : /\ R(s) \ {r} = RunningOf(s) \ {r}
                          /\ r \in RunningOf(s) <=> SessionOf[e] = s /\ <<e, t>> \in running[w]
                          /\ r \in R(s) <=> SessionOf[e] = s /\ <<e, t>> \in running'[w]
  BY DEF RunningOf
<1>3. \A s \in Sessions : IsFiniteSet(RunningOf(s)) /\ Cardinality(RunningOf(s)) \in Nat
  BY Summands
<1> HIDE DEF r, R
<1>4. \A s \in Sessions :
         Cardinality(R(s)) = IF r \in RunningOf(s) /\ r \notin R(s) THEN Cardinality(RunningOf(s)) - 1
                             ELSE IF r \notin RunningOf(s) /\ r \in R(s) THEN Cardinality(RunningOf(s)) + 1
                             ELSE Cardinality(RunningOf(s))
  BY <1>2, <1>3, CardinalityChange
<1>5. \A s \in Sessions : IsFiniteSet(R(s))
  <2>1. SUFFICES ASSUME NEW s \in Sessions PROVE IsFiniteSet(R(s))
    OBVIOUS
  <2>2. IsFiniteSet(RunningOf(s) \cup {r}) /\ R(s) \subseteq RunningOf(s) \cup {r}
    BY <1>2, <1>3, FS_AddElement
  <2>. QED
    BY <2>2, FS_Subset
<1>6. ASSUME NEW s \in Sessions, s \notin terminal
      PROVE  activeCount'[s] = Cardinality(AdmittedOf(s)) + Cardinality(R(s)) + lost'[s]
  <2>1. activeCount[s] = Cardinality(AdmittedOf(s)) + Cardinality(RunningOf(s)) + lost[s]
    BY <1>6 DEF CapacityInv, CountersExact, ActiveCountExact
  <2>2. Cardinality(AdmittedOf(s)) \in Nat /\ Cardinality(RunningOf(s)) \in Nat /\ lost[s] \in Nat
    BY Summands, Finite
  <2>3. r \in RunningOf(s) => Cardinality(RunningOf(s)) > 0
    BY <1>3, FS_EmptySet
  <2>4. CASE s # SessionOf[e]
    <3>1. activeCount'[s] = activeCount[s] /\ lost'[s] = lost[s]
      BY <2>4
    <3>2. r \notin RunningOf(s) /\ r \notin R(s)
      BY <1>2, <2>4
    <3>. QED
      BY <1>4, <2>1, <3>1, <3>2
  <2>5. CASE s = SessionOf[e]
    <3>1. /\ r \in RunningOf(s) <=> <<e, t>> \in running[w]
          /\ r \in R(s) <=> <<e, t>> \in running'[w]
      BY <1>2, <2>5
    <3>2. CASE /\ r \notin RunningOf(s) /\ r \in R(s)
               /\ activeCount'[s] = activeCount[s] + 1 /\ lost'[s] = lost[s]
      BY <1>4, <2>1, <2>2, <3>2
    <3>3. CASE /\ r \in RunningOf(s) /\ r \notin R(s)
               /\ activeCount'[s] = IF activeCount[s] > 0 THEN activeCount[s] - 1 ELSE 0
               /\ lost'[s] = lost[s]
      BY <1>4, <2>1, <2>2, <2>3, <3>3
    <3>4. CASE /\ r \in RunningOf(s) /\ r \notin R(s)
               /\ activeCount'[s] = activeCount[s] /\ lost'[s] = lost[s] + 1
      BY <1>4, <2>1, <2>2, <3>4
    <3>5. CASE /\ r \in RunningOf(s) <=> r \in R(s)
               /\ activeCount'[s] = activeCount[s] /\ lost'[s] = lost[s]
      BY <1>4, <2>1, <3>5
    <3>. QED
      BY <1>6, <2>5, <3>1, <3>2, <3>3, <3>4, <3>5
  <2>. QED
    BY <2>4, <2>5
<1>7. CountersExact'
  <2>1. SUFFICES ASSUME NEW s \in Sessions, s \notin terminal PROVE QueueDepthExact(s)' /\ ActiveCountExact(s)'
    BY DEF CountersExact
  <2>2. QueueDepthExact(s)'
    BY <1>1, <2>1 DEF CapacityInv, CountersExact, QueueDepthExact
  <2>3. ActiveCountExact(s)'
    BY <1>1, <1>6, <2>1 DEF ActiveCountExact, R
  <2>. QED
    BY <2>2, <2>3
<1>. QED
  BY <1>1, <1>5, <1>7 DEF CapacityInv, ConcurrencyLimit, RunsFinite, R

LEMMA CapacityStep ==
    ASSUME TypeOK, CleanupInv, IssuedInv, CapacityInv, [Next]_vars PROVE CapacityInv'
<1>1. CASE \E e \in Executions : Admit(e)
  <2>1. PICK e \in Executions : Admit(e)
    BY <1>1
  <2>2. ~Queued(e) /\ ~Leased(e) /\ ~Admitted(e)
    BY <2>1 DEF Admit, IssuedInv, NoJob, Queued, Leased, Admitted
  <2>. QED
    BY <2>1, <2>2, OneJobCharged, Statuses DEF Admit, HasRoom, Live, Charged, sessionVars, runVars
<1>2. CASE \E e \in Executions : ClaimDrop(e)
  <2>1. PICK e \in Executions : ClaimDrop(e)
    BY <1>2
  <2>2. Queued(e) /\ Admitted(e)
    BY <2>1 DEF ClaimDrop, Admitted
  <2>. QED
    BY <2>1, <2>2, OneJobCharged, Statuses DEF ClaimDrop, Removed, Charged, sessionVars, runVars
<1>3. CASE \E w \in Workers, e \in Executions, t \in Tokens, d \in Offsets : ClaimGrant(w, e, t, d)
  <2>1. PICK w \in Workers, e \in Executions, t \in Tokens, d \in Offsets : ClaimGrant(w, e, t, d)
    BY <1>3
  <2>2. Queued(e) /\ Admitted(e)
    BY <2>1 DEF ClaimGrant, Admitted
  <2>. QED
    BY <2>1, <2>2, OneJobCharged, Statuses DEF ClaimGrant, Charged, sessionVars, runVars
<1>4. CASE \/ \E w \in Workers, e \in Executions, t \in Tokens, d \in Offsets : ReleaseRequeue(w, e, t, d)
           \/ \E e \in Executions, d \in Offsets : RecoverRequeue(e, d)
  <2>1. PICK e \in Executions : \E a :
            Leased(e) /\ Requeue(e, a) /\ UNCHANGED <<activeCount, terminal, running, lost>>
    BY <1>4 DEF ReleaseRequeue, RecoverRequeue, Owns, sessionVars, runVars
  <2>2. ~Queued(e) /\ Admitted(e)
    BY <2>1 DEF Queued, Leased, Admitted
  <2>. QED
    BY <2>1, <2>2, OneJobCharged, Statuses DEF Requeue, Charged
<1>5. CASE \/ \E w \in Workers, e \in Executions, t \in Tokens, d \in Offsets :
                 ReleaseAbandon(w, e, t, d) \/ Complete(w, e, t, d)
           \/ \E e \in Executions, d \in Offsets :
                 RecoverAbandon(e, d) \/ RecoverDrop(e, d) \/ AdoptDrop(e, d)
  <2>1. PICK e \in Executions :
            /\ Leased(e)
            /\ \/ job' = [job EXCEPT ![e] = NoJob]
               \/ job' = [job EXCEPT ![e] = AbandonedJob(job[e].attempt)]
            /\ activeCount' = Decr(activeCount, SessionOf[e])
            /\ UNCHANGED <<queueDepth, terminal, running, lost>>
    <3>1. CASE \E w \in Workers, e \in Executions, t \in Tokens, d \in Offsets : ReleaseAbandon(w, e, t, d)
      BY <3>1 DEF ReleaseAbandon, Owns, sessionVars, runVars
    <3>2. CASE \E w \in Workers, e \in Executions, t \in Tokens, d \in Offsets : Complete(w, e, t, d)
      BY <3>2 DEF Complete, Owns, Removed, sessionVars, runVars
    <3>3. CASE \E e \in Executions, d \in Offsets : RecoverAbandon(e, d)
      BY <3>3 DEF RecoverAbandon, sessionVars, runVars
    <3>4. CASE \E e \in Executions, d \in Offsets : RecoverDrop(e, d)
      BY <3>4 DEF RecoverDrop, Removed, sessionVars, runVars
    <3>5. CASE \E e \in Executions, d \in Offsets : AdoptDrop(e, d)
      BY <3>5 DEF AdoptDrop, Removed, sessionVars, runVars
    <3>. QED
      BY <1>5, <3>1, <3>2, <3>3, <3>4, <3>5
  <2>2. ~Queued(e) /\ Admitted(e)
    BY <2>1 DEF Queued, Leased, Admitted
  <2>. QED
    BY <2>1, <2>2, OneJobCharged, Statuses DEF Charged
<1>6. CASE \E w \in Workers, e \in Executions, t \in Tokens, d \in Offsets :
              Renew(w, e, t, d) \/ Adopt(w, e, t, d)
  <2>1. PICK e \in Executions : \E a : \E l :
            /\ Leased(e) /\ job' = [job EXCEPT ![e] = LeasedJob(a, l)]
            /\ UNCHANGED <<queueDepth, activeCount, terminal, running, lost>>
    <3>1. CASE \E w \in Workers, e \in Executions, t \in Tokens, d \in Offsets : Renew(w, e, t, d)
      BY <3>1 DEF Renew, Owns, sessionVars, counterVars, runVars
    <3>2. CASE \E w \in Workers, e \in Executions, t \in Tokens, d \in Offsets : Adopt(w, e, t, d)
      BY ZenonT(40), <3>2 DEF Adopt, sessionVars, counterVars, runVars
    <3>. QED
      BY <1>6, <3>1, <3>2
  <2>2. PICK a : \E l : job' = [job EXCEPT ![e] = LeasedJob(a, l)]
    BY <2>1
  <2>3. PICK l : job' = [job EXCEPT ![e] = LeasedJob(a, l)]
    BY <2>2
  <2>4. \A f \in Executions : (Queued(f)' <=> Queued(f)) /\ (Leased(f)' <=> Leased(f))
    BY <2>1, <2>3, Rewritten, Statuses DEF Queued, Leased
  <2>. QED
    BY <2>1, <2>4, ClassesKept
<1>7. CASE \/ \E w \in Workers, e \in Executions : RecordPersistent(w, e)
           \/ \E s \in Sessions :
                 \/ ReleasePersistent(s) \/ IdleExpire(s) \/ DurationExpire(s)
                 \/ TouchCheck(s) \/ TouchWrite(s) \/ Latch(s)
                 \/ CleanupRead(s) \/ CleanupIndex(s)
           \/ UNCHANGED vars
  <2>1. UNCHANGED <<job, queueDepth, activeCount, running, lost>> /\ terminal \subseteq terminal'
    BY <1>7 DEF RecordPersistent, ReleasePersistent, IdleExpire, DurationExpire,
       TouchCheck, TouchWrite, Latch, CleanupRead, CleanupIndex, vars, sessionVars, counterVars, runVars
  <2>. QED
    BY <2>1, ClassesKept DEF Queued, Leased
<1>8. CASE Tick
  <2>1. UNCHANGED <<queueDepth, activeCount, terminal, running, lost>>
    BY <1>8 DEF Tick, sessionVars, counterVars, runVars
  <2>2. \A e \in Executions : (Queued(e)' <=> Queued(e)) /\ (Leased(e)' <=> Leased(e))
    BY <1>8, Statuses DEF Tick, Queued, Leased
  <2>. QED
    BY <2>1, <2>2, ClassesKept
<1>9. CASE \E s \in Sessions : CleanupJobs(s)
  <2>1. PICK s \in Sessions : CleanupJobs(s)
    BY <1>9
  <2>2. s \in terminal /\ \A e \in cleanup[s].jobs : SessionOf[e] = s
    BY <2>1 DEF CleanupJobs, CleanupInv, CleanupBegun, NoCleanup
  <2>3. terminal' = terminal
    BY <2>1 DEF CleanupJobs
  <2>4. ASSUME NEW q \in Sessions, q # s
        PROVE  /\ queueDepth'[q] = queueDepth[q] /\ QueuedOf(q)' = QueuedOf(q)
               /\ activeCount'[q] = activeCount[q] /\ AdmittedOf(q)' = AdmittedOf(q)
               /\ lost'[q] = lost[q] /\ RunningOf(q)' = RunningOf(q)
    BY <2>1, <2>2, <2>4 DEF CleanupJobs, TypeOK, QueuedOf, AdmittedOf, RunningOf, Queued, Leased, runVars
  <2>5. ASSUME NEW q \in Sessions, q \notin terminal'
        PROVE  QueueDepthExact(q)' /\ ActiveCountExact(q)'
    <3>1. q # s /\ QueueDepthExact(q) /\ ActiveCountExact(q)
      BY <2>2, <2>3, <2>5 DEF CapacityInv, CountersExact
    <3> DEFINE Q == QueuedOf(q)'
               A == AdmittedOf(q)'
               R == RunningOf(q)'
    <3>2. /\ Q = QueuedOf(q) /\ A = AdmittedOf(q) /\ R = RunningOf(q)
          /\ queueDepth'[q] = queueDepth[q] /\ activeCount'[q] = activeCount[q] /\ lost'[q] = lost[q]
      BY <2>4, <3>1
    <3> HIDE DEF Q, A, R
    <3>3. queueDepth'[q] = Cardinality(Q) /\ activeCount'[q] = Cardinality(A) + Cardinality(R) + lost'[q]
      BY <3>1, <3>2 DEF QueueDepthExact, ActiveCountExact
    <3>. QED
      BY <3>3 DEF Q, A, R, QueueDepthExact, ActiveCountExact
  <2>6. ASSUME NEW q \in Sessions
        PROVE  Cardinality(AdmittedOf(q)') <= MaxConcurrent
    <3> DEFINE A == AdmittedOf(q)'
    <3>1. A \subseteq AdmittedOf(q)
      BY <2>1 DEF CleanupJobs, AdmittedOf, Queued, Leased, NoJob
    <3>2. Cardinality(AdmittedOf(q)) <= MaxConcurrent
      BY DEF CapacityInv, ConcurrencyLimit
    <3> HIDE DEF A
    <3>3. Cardinality(A) <= Cardinality(AdmittedOf(q)) /\ IsFiniteSet(A)
      BY <3>1, Finite, FS_Subset
    <3>4. Cardinality(A) \in Nat /\ Cardinality(AdmittedOf(q)) \in Nat
      BY <3>3, Finite, FS_CardinalityType
    <3>5. Cardinality(A) <= MaxConcurrent
      BY <3>2, <3>3, <3>4, LeaseAssumption
    <3>. QED
      BY <3>5 DEF A
  <2>7. RunsFinite'
    BY <2>1, RunsKept DEF CapacityInv, RunsFinite, CleanupJobs, runVars
  <2>. QED
    BY <2>5, <2>6, <2>7 DEF CapacityInv, CountersExact, ConcurrencyLimit
<1>10. CASE \E w \in Workers, e \in Executions, t \in Tokens :
               StartRun(w, e, t) \/ FinishRun(w, e, t) \/ Forget(w, e, t)
  <2>1. PICK w \in Workers, e \in Executions, t \in Tokens :
            StartRun(w, e, t) \/ FinishRun(w, e, t) \/ Forget(w, e, t)
    BY <1>10
  <2>2. /\ SessionOf[e] \in Sessions
        /\ running \in [Workers -> SUBSET (Executions \X Tokens)]
        /\ activeCount \in [Sessions -> Nat] /\ lost \in [Sessions -> Nat]
    BY JobFacts DEF TypeOK
  <2>3. UNCHANGED <<job, queueDepth, terminal>>
    BY <2>1, RunKeeps
  <2>4. CASE StartRun(w, e, t)
    <3>1. <<e, t>> \notin running[w]
      BY <2>4 DEF StartRun
    <3>. QED
      BY <2>2, <2>3, <2>4, <3>1, OneRunChanged DEF StartRun, Incr
  <2>5. CASE FinishRun(w, e, t)
    BY <2>2, <2>3, <2>5, OneRunChanged DEF FinishRun, Decr
  <2>6. CASE Forget(w, e, t)
    BY <2>2, <2>3, <2>6, OneRunChanged DEF Forget, Incr, counterVars
  <2>. QED
    BY <2>1, <2>4, <2>5, <2>6
<1>. QED
  BY Steps, <1>1, <1>2, <1>3, <1>4, <1>5, <1>6, <1>7, <1>8, <1>9, <1>10

LEMMA CapacityInvariant == Spec => []CapacityInv
<1>1. LifeInv /\ CapacityInv /\ [Next]_vars => CapacityInv'
  BY CapacityStep DEF LifeInv
<1>. QED
  BY <1>1, CapacityInit, LifeInvariant, PTL DEF Spec

\* The counters admission consults are the number of queued jobs of the session,
\* and the number of its queued or leased jobs plus its recorded and lost runs,
\* through every script, run and cleanup.
THEOREM CountersExactHolds == Spec => []CountersExact
<1>1. CapacityInv => CountersExact
  BY DEF CapacityInv
<1>. QED
  BY <1>1, CapacityInvariant, PTL

\* Releases and recoveries requeue without a limit check, yet the jobs a session
\* holds never exceed its concurrency limit.
THEOREM ConcurrencyLimitHolds == Spec => []ConcurrencyLimit
<1>1. CapacityInv => ConcurrencyLimit
  BY DEF CapacityInv
<1>. QED
  BY <1>1, CapacityInvariant, PTL
==============================================================================
