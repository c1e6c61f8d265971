---------------------------- MODULE TTYExecution ----------------------------
(***************************************************************************)
(* What happens to an admitted execution between the worker that claims it *)
(* and its terminal state record: the executor of each worker              *)
(* (tty-worker-executor.ts), the coordinator that runs a claimed or an     *)
(* adopted execution (tty-execution-coordinator.ts), the state machine     *)
(* (tty-execution-state.ts), cancellation, and the services that recover   *)
(* executions of lost workers.  A store access is one step, so everything  *)
(* that can happen between two of them does.                               *)
(*                                                                         *)
(* The lease is the one of TTYLease, reduced to what its callers see: who  *)
(* holds it, under which token, and whether it has expired.  A token is    *)
(* the number of the lease among those its execution ever had.  Every      *)
(* execution has a session of its own.                                     *)
(***************************************************************************)
EXTENDS Naturals, FiniteSets

CONSTANTS
    Workers,        \* worker processes
    Executions,     \* admitted executions
    Services,       \* hosts that call coordinator.recoverExecution
    Scanners,       \*   those of them with a TTYWorkerRecoveryService
    Runtimes,       \* TRUE for tmux shells, FALSE for child processes: what the workers may run on
    Cancellable,    \* executions somebody cancels
    Crashing,       \* workers that may crash
    Stopping,       \* workers that are asked to stop, and started again
    Detaching,      \* workers that may lose the attachment to a tmux shell
    Mortal,         \* executions whose session ends before them
    Kinds,          \* what the jobs of the instance may ask for
    StoreErrors,    \* a renewal may fail although the lease is held
    MaxAttempts,    \* TTY_MAX_LEASE_ATTEMPTS
    MaxProcesses,   \* maxConcurrentProcesses of a worker's resource guard
    TokenBound,     \* bound: leases an execution may have over its life
    None

\* A job asks for a command, for a virtual one whose output the coordinator makes
\* up itself, or for something the coordinator refuses.
Kind == {"command", "virtual", "refused"}

ASSUME ExecutionAssumption ==
    /\ Scanners \subseteq Services
    /\ Runtimes \subseteq BOOLEAN
    /\ Kinds \subseteq Kind
    /\ Cancellable \subseteq Executions /\ Mortal \subseteq Executions
    /\ Crashing \subseteq Workers /\ Stopping \subseteq Workers /\ Detaching \subseteq Workers
    /\ StoreErrors \in BOOLEAN
    /\ MaxAttempts \in Nat \ {0}
    /\ MaxProcesses \in Nat \ {0}
    /\ TokenBound \in Nat
    /\ None \notin Executions \cup Workers

VARIABLES
    rec,        \* tty:execution:<id>:state, the name of the state
    active,     \* tty:executions:active
    marker,     \* executions with a cancellation marker
    kind,       \* what the job of an execution asks for
    persistent, \* commands run in tmux shells and survive their worker
    live,       \* executions whose session is alive
    lease,      \* the lease of the job
    tokens,     \* how many leases the execution has had
    shell,      \* commands running for it, each known by the token of its dispatch
    record,     \* active-execution record: the command in the tmux shell, 0 for none
    runtime,    \* runtime metadata key: the last command started, 0 for none
    home,       \* the worker attached to the tmux shell, None for none
    fenced,     \* executions whose session is being ended because of a kill
    run,        \* the coordinator contexts of each worker
    slots,      \* reservations of each worker's resource guard
    exec,       \* the active execution of each worker's executor
    listed,     \* pending ids the executor has been handed and not yet tried
    adopt,      \* the adoption in flight of each worker's persistent recovery
    cancel,     \* cancelExecution calls from outside the worker
    service     \* recoverExecution calls in flight

leaseVars == <<lease, tokens>>
commandVars == <<shell, record, runtime, home>>
workerVars == <<run, slots, exec, listed, adopt>>
storeVars == <<rec, active, marker>>
sessionVars == <<kind, persistent, live, fenced>>
vars == <<storeVars, sessionVars, leaseVars, commandVars, workerVars, cancel, service>>

-----------------------------------------------------------------------------
(* The state machine. *)

ActiveState == {"starting", "running", "streaming"}
TerminalState == {"succeeded", "failed", "cancelled", "timed_out", "expired"}
State == {"queued", "leased"} \cup ActiveState \cup TerminalState

Stopped == {"failed", "cancelled", "expired"}

\* TTY_EXECUTION_TRANSITIONS
Transitions(s) ==
    CASE s = "queued" -> {"queued", "leased"} \cup Stopped
      [] s = "leased" -> {"leased", "starting"} \cup Stopped
      [] s = "starting" -> {"starting", "running", "timed_out"} \cup Stopped
      [] s = "running" -> {"running", "streaming"} \cup TerminalState
      [] s = "streaming" -> {"streaming"} \cup TerminalState
      [] OTHER -> {s}

\* RECOVERABLE_EXECUTION_STATES
Recoverable == {"leased"} \cup ActiveState

\* STATE_TRANSITION_SCRIPT: replaces the record only if its state still has the
\* expected name, and keeps the active index in step.
Store(e, expected, next) ==
    IF rec[e] = expected
    THEN /\ rec' = [rec EXCEPT ![e] = next]
         /\ active' = IF next \in ActiveState THEN active \cup {e} ELSE active \ {e}
    ELSE UNCHANGED <<rec, active>>

-----------------------------------------------------------------------------
(* The lease, as its callers see it. *)

Phase == {"queued", "leased", "completed", "abandoned", "removed"}
Token == 0 .. TokenBound

Unleased(phase, attempt) ==
    [phase |-> phase, owner |-> None, token |-> 0, expired |-> FALSE, attempt |-> attempt]

Leased(e) == lease[e].phase = "leased"
Expired(e) == Leased(e) /\ lease[e].expired
Owns(w, e, t) == Leased(e) /\ lease[e].owner = w /\ lease[e].token = t
Holds(w, e, t) == Owns(w, e, t) /\ ~lease[e].expired

\* A new lease of w: a claim spends an attempt, an adoption does not.
Grant(w, e, attempt) ==
    /\ tokens[e] < TokenBound
    /\ tokens' = [tokens EXCEPT ![e] = @ + 1]
    /\ lease' = [lease EXCEPT ![e] =
           [phase |-> "leased", owner |-> w, token |-> tokens[e] + 1, expired |-> FALSE,
            attempt |-> attempt]]

\* What becomes of an expired lease under RECOVER_SCRIPT.
AfterRecover(e) ==
    IF e \notin live THEN Unleased("removed", 0)
    ELSE IF lease[e].attempt >= MaxAttempts THEN Unleased("abandoned", lease[e].attempt)
    ELSE Unleased("queued", lease[e].attempt)

\* What becomes of a lease its holder gives back under RELEASE_SCRIPT.
AfterRelease(e) ==
    IF lease[e].attempt < MaxAttempts THEN Unleased("queued", lease[e].attempt + 1)
    ELSE Unleased("abandoned", lease[e].attempt)

-----------------------------------------------------------------------------
(* Contexts. *)

Reason == {"none", "cancelled", "timed_out", "failed", "expired"}
Stage == {"idle", "adopt", "leased", "session", "starting", "marker", "dispatch", "metadata",
          "running", "live", "streaming", "complete", "final", "tidy"}

\* token: the lease the run works under.  command: the command its handle is
\* attached to, 0 for none.  adopted: it resumes a command.  goal: the state of
\* the transition under way.  known: the last state record the run has read or
\* written.  read: the transition has read the record and not yet written it.
\* reason: why the run is being stopped.  stop: requestStop has met a handle.
\* deaf: the handle will never report the exit.  slot: it holds a reservation.
\* guarded: it is inside the try block of execute().
Context == [stage : Stage, token : Token, command : Token, adopted : BOOLEAN, goal : State,
            known : State, read : BOOLEAN, reason : Reason, stop : BOOLEAN, deaf : BOOLEAN,
            slot : BOOLEAN, guarded : BOOLEAN]

Idle == [stage |-> "idle", token |-> 0, command |-> 0, adopted |-> FALSE, goal |-> "queued",
         known |-> "queued", read |-> FALSE, reason |-> "none", stop |-> FALSE, deaf |-> FALSE,
         slot |-> FALSE, guarded |-> FALSE]

Running(w, e) == run[w][e].stage # "idle"
Becomes(w, e, context) == run' = [run EXCEPT ![w][e] = context]

\* finalize() with the requested state: an expired run does not complete its
\* lease.  What interrupts the run from here on changes nothing any more.
Finalize(c, goal) ==
    [c EXCEPT !.stage = IF goal = "expired" THEN "final" ELSE "complete", !.goal = goal,
              !.read = FALSE, !.known = "queued", !.reason = "none", !.stop = FALSE]

\* terminalForExit: the outcome of a command that has ended.
Outcomes(reason) == IF reason = "none" THEN {"succeeded", "failed"} ELSE {reason}

\* The stage after a successful transition; known is the record it returned.
Proceed(c, known) ==
    LET d == [c EXCEPT !.known = known, !.read = FALSE] IN
    CASE c.stage = "adopt" /\ c.goal = "leased" -> [d EXCEPT !.goal = "starting"]
      [] c.stage \in {"adopt", "leased"} -> [d EXCEPT !.stage = "session"]
      [] c.stage = "starting" -> [d EXCEPT !.stage = "marker", !.guarded = TRUE]
      [] c.stage = "final" -> [d EXCEPT !.stage = "tidy", !.goal = "queued", !.known = "queued"]
      [] OTHER -> [d EXCEPT !.stage = "live"]

\* Mutant: the promise of the run is never settled.
EndedSilently(w, e) == Becomes(w, e, Idle) /\ UNCHANGED exec

\* The executor notices the end of the run it waits for; a recovered run has
\* nobody waiting.
Ended(w, e) ==
    /\ Becomes(w, e, Idle)
    /\ exec' = IF exec[w].phase = "waiting" /\ exec[w].id = e /\ exec[w].token = run[w][e].token
               THEN [exec EXCEPT ![w].phase = "release"] ELSE exec

\* An exception: inside the try block the run is finalized as failed, in
\* pumpOutput it stops the command, anywhere else it ends the run on the spot.
Throws(w, e) ==
    LET c == run[w][e] IN
    IF c.stage = "streaming"
    THEN Becomes(w, e, [c EXCEPT !.stage = "live", !.read = FALSE, !.stop = TRUE,
             !.reason = IF @ \in {"expired", "timed_out"} THEN @ ELSE "failed"]) /\ UNCHANGED exec
    ELSE IF c.guarded
    THEN Becomes(w, e, [Finalize(c, "failed") EXCEPT !.guarded = FALSE]) /\ UNCHANGED exec
    ELSE Ended(w, e)

-----------------------------------------------------------------------------
(* The executor. *)

NoTask == [phase |-> "idle", id |-> None, token |-> 0]
Task(phase, e, t) == [phase |-> phase, id |-> e, token |-> t]

Init ==
    /\ kind \in [Executions -> Kinds]
    /\ persistent \in Runtimes
    /\ rec = [e \in Executions |-> "queued"]
    /\ active = {} /\ marker = {} /\ live = Executions
    /\ lease = [e \in Executions |-> Unleased("queued", 0)]
    /\ tokens = [e \in Executions |-> 0]
    /\ shell = [e \in Executions |-> {}]
    /\ record = [e \in Executions |-> 0]
    /\ runtime = [e \in Executions |-> 0]
    /\ home = [e \in Executions |-> None]
    /\ fenced = {}
    /\ run = [w \in Workers |-> [e \in Executions |-> Idle]]
    /\ slots = [w \in Workers |-> {}]
    /\ exec = [w \in Workers |-> NoTask]
    /\ listed = [w \in Workers |-> {}]
    /\ adopt = [w \in Workers |-> NoTask]
    /\ cancel = [e \in Executions |-> "idle"]
    /\ service = [r \in Services |-> [stage |-> "idle", id |-> None, known |-> "queued"]]

\* A poll hands the pending ids to the executor, which tries them one by one.
Poll(w) ==
    /\ exec[w].phase = "idle"
    /\ listed[w] = {}
    /\ listed' = [listed EXCEPT ![w] = {e \in Executions : lease[e].phase = "queued"}]
    /\ UNCHANGED <<storeVars, sessionVars, leaseVars, commandVars, run, slots, exec, adopt, cancel, service>>

\* The executor takes up the next listed id.
Tries(w, e) ==
    /\ exec[w].phase = "idle"
    /\ e \in listed[w]
    /\ listed' = [listed EXCEPT ![w] = @ \ {e}]
    /\ UNCHANGED <<storeVars, sessionVars, commandVars, run, slots, adopt, cancel, service>>

\* claimExecutionForCoordinator, granted.
Claim(w, e) ==
    /\ Tries(w, e)
    /\ lease[e].phase = "queued"
    /\ e \in live
    /\ lease[e].attempt < MaxAttempts
    /\ Grant(w, e, lease[e].attempt + 1)
    /\ exec' = [exec EXCEPT ![w] = Task("handoff", e, tokens[e] + 1)]

\* The claim script finds the session gone and removes the job.
ClaimDrop(w, e) ==
    /\ Tries(w, e)
    /\ lease[e].phase = "queued"
    /\ e \notin live
    /\ lease' = [lease EXCEPT ![e] = Unleased("removed", 0)]
    /\ UNCHANGED <<tokens, exec>>

\* resolveClaimFailure: the claim met a lease, which the claim service recovers
\* if it has expired.  The state record is left alone.
ClaimConflict(w, e) ==
    /\ Tries(w, e)
    /\ Leased(e)
    /\ lease' = IF Expired(e) THEN [lease EXCEPT ![e] = AfterRecover(e)] ELSE lease
    /\ UNCHANGED <<tokens, exec>>

\* Any other refusal changes nothing.
ClaimRefused(w, e) ==
    /\ Tries(w, e)
    /\ \/ lease[e].phase = "queued" /\ e \in live /\ lease[e].attempt >= MaxAttempts
       \/ lease[e].phase \in {"completed", "abandoned", "removed"}
    /\ UNCHANGED <<leaseVars, exec>>

NewContext(t) == [Idle EXCEPT !.stage = "leased", !.goal = "leased", !.token = t]

\* Mutant: the executor forgets a claim that the coordinator did not accept.
RunClaimedForgets(w) ==
    LET e == exec[w].id IN
    /\ exec[w].phase = "handoff"
    /\ IF rec[e] \in TerminalState \/ Running(w, e)
       THEN exec' = [exec EXCEPT ![w] = NoTask] /\ UNCHANGED run
       ELSE /\ exec' = [exec EXCEPT ![w].phase = "waiting"]
            /\ Becomes(w, e, NewContext(exec[w].token))
    /\ UNCHANGED <<storeVars, sessionVars, leaseVars, commandVars, slots, listed, adopt, cancel, service>>

\* runClaimed: nothing is run for a terminal record, nor twice at a time.
RunClaimed(w) ==
    LET e == exec[w].id IN
    /\ exec[w].phase = "handoff"
    /\ IF rec[e] \in TerminalState \/ Running(w, e)
       THEN exec' = [exec EXCEPT ![w].phase = "release"] /\ UNCHANGED run
       ELSE /\ exec' = [exec EXCEPT ![w].phase = "waiting"]
            /\ Becomes(w, e, NewContext(exec[w].token))
    /\ UNCHANGED <<storeVars, sessionVars, leaseVars, commandVars, slots, listed, adopt, cancel, service>>

\* releaseOwnership, after every run: a lease that is still held goes back to the
\* queue, one attempt poorer.
Release(w) ==
    LET e == exec[w].id IN
    /\ exec[w].phase = "release"
    /\ exec' = [exec EXCEPT ![w] = NoTask]
    /\ lease' =
        IF Holds(w, e, exec[w].token) /\ e \in live
        THEN [lease EXCEPT ![e] = AfterRelease(e)] ELSE lease
    /\ UNCHANGED <<storeVars, sessionVars, tokens, commandVars, run, slots, listed, adopt, cancel, service>>

-----------------------------------------------------------------------------
(* Persistent recovery. *)

\* ensureAttached: a tmux shell has one attached worker at a time.
Attaches(w, e) ==
    /\ e \in live
    /\ home[e] \in {None, w}
    /\ home' = [home EXCEPT ![e] = w]

\* adoptPersistent: the expired lease of a command that runs in a tmux shell.
Adopt(w, e) ==
    /\ persistent
    /\ adopt[w].phase = "idle"
    /\ record[e] # 0
    /\ Expired(e)
    /\ e \in live
    /\ Grant(w, e, lease[e].attempt)
    /\ adopt' = [adopt EXCEPT ![w] = Task("handoff", e, tokens[e] + 1)]
    /\ UNCHANGED <<storeVars, sessionVars, commandVars, run, slots, exec, listed, cancel, service>>

\* adoptPersistent of a session that is gone.
AdoptDrop(w, e) ==
    /\ persistent
    /\ adopt[w].phase = "idle"
    /\ record[e] # 0
    /\ Expired(e)
    /\ e \notin live
    /\ lease' = [lease EXCEPT ![e] = Unleased("removed", 0)]
    /\ UNCHANGED <<storeVars, sessionVars, tokens, commandVars, workerVars, cancel, service>>

\* The run of an adopted execution with a handle on its command (command # 0), or
\* without one because the command has completed (reason none) or the shell is
\* out of reach (reason failed).  The state it starts from decides the first
\* transition.
AdoptedContext(t, command, reason, s) ==
    [Idle EXCEPT !.stage = "adopt", !.token = t, !.command = command, !.adopted = TRUE,
        !.reason = reason, !.known = s,
        !.goal = IF s = "queued" THEN "leased" ELSE IF s = "leased" THEN "starting" ELSE s]

\* runRecoveredPersistent, unless attaching to the shell fails.
RunAdopted(w) ==
    LET e == adopt[w].id
        resumes == rec[e] \notin TerminalState /\ ~Running(w, e)
        resumed(command, reason) ==
            IF resumes THEN Becomes(w, e, AdoptedContext(adopt[w].token, command, reason, rec[e]))
            ELSE UNCHANGED run
    IN
    /\ adopt[w].phase = "handoff"
    /\ adopt' = [adopt EXCEPT ![w] = NoTask]
    /\ \/ Attaches(w, e) /\ record[e] # 0 /\ resumed(record[e], "none")
       \/ \E reason \in {"none", "failed"} :
             /\ reason = "none" => record[e] \notin shell[e]
             /\ resumed(0, reason)
             /\ UNCHANGED home
       \/ UNCHANGED <<run, home>>
    /\ UNCHANGED <<storeVars, sessionVars, leaseVars, shell, record, runtime, slots, exec, listed, cancel,
                   service>>

-----------------------------------------------------------------------------
(* The coordinator's run of e on w.  Each action is one store access, with    *)
(* the code up to the next one.                                              *)

Transition == {"adopt", "leased", "starting", "running", "streaming", "final"}

\* transition(), first half: the record is read.  A terminal record is accepted
\* as it is and the run goes on; any other that cannot move to the goal throws.
ReadRecord(w, e) ==
    LET c == run[w][e]  s == rec[e] IN
    /\ c.stage \in Transition
    /\ ~c.read
    /\ IF c.goal \in Transitions(s)
       THEN Becomes(w, e, [c EXCEPT !.read = TRUE, !.known = s]) /\ UNCHANGED exec
       ELSE IF s \in TerminalState
       THEN Becomes(w, e, Proceed(c, s)) /\ UNCHANGED exec
       ELSE Throws(w, e)
    /\ UNCHANGED <<storeVars, sessionVars, leaseVars, commandVars, slots, listed, adopt, cancel, service>>

\* transition(), second half: the script stores the goal, or leaves a record that
\* has changed its state and returns it; the run goes on either way.
WriteRecord(w, e) ==
    LET c == run[w][e] IN
    /\ c.stage \in Transition
    /\ c.read
    /\ Store(e, c.known, c.goal)
    /\ Becomes(w, e, Proceed(c, rec'[e]))
    /\ UNCHANGED <<marker, sessionVars, leaseVars, commandVars, slots, exec, listed, adopt, cancel, service>>

\* Session and job are checked, and a process slot is reserved.
CheckSession(w, e) ==
    LET c == run[w][e] IN
    /\ c.stage = "session"
    /\ IF c.reason = "cancelled"
       THEN Becomes(w, e, Finalize(c, "cancelled")) /\ UNCHANGED slots
       ELSE IF e \notin live
       THEN Becomes(w, e, Finalize(c, "expired")) /\ UNCHANGED slots
       ELSE IF kind[e] = "refused"
       THEN Becomes(w, e, Finalize(c, "failed")) /\ UNCHANGED slots
       ELSE IF c.adopted /\ c.command = 0
       THEN /\ \E goal \in Outcomes(c.reason) : Becomes(w, e, Finalize(c, goal))
            /\ UNCHANGED slots
       ELSE IF e \in slots[w] \/ Cardinality(slots[w]) >= MaxProcesses
       THEN Becomes(w, e, Finalize(c, "failed")) /\ UNCHANGED slots
       ELSE /\ slots' = [slots EXCEPT ![w] = @ \cup {e}]
            /\ Becomes(w, e,
                  IF c.adopted THEN [c EXCEPT !.slot = TRUE, !.stage = "marker", !.guarded = TRUE]
                  ELSE [c EXCEPT !.slot = TRUE, !.stage = "starting", !.goal = "starting"])
    /\ UNCHANGED <<storeVars, sessionVars, leaseVars, commandVars, exec, listed, adopt, cancel, service>>

\* Mutant: the marker is not looked at before the start.
CheckMarkerOmitted(w, e) ==
    LET c == run[w][e] IN
    /\ c.stage = "marker"
    /\ Becomes(w, e,
          IF kind[e] = "virtual" THEN [c EXCEPT !.stage = "running", !.goal = "running"]
          ELSE [c EXCEPT !.stage = IF c.adopted THEN "metadata" ELSE "dispatch"])
    /\ UNCHANGED <<storeVars, sessionVars, leaseVars, commandVars, slots, exec, listed, adopt, cancel, service>>

\* The last look at the cancellation marker before the command starts; a virtual
\* command has output but nothing to start.
CheckMarker(w, e) ==
    LET c == run[w][e] IN
    /\ c.stage = "marker"
    /\ Becomes(w, e,
          IF e \in marker \/ c.reason = "cancelled" THEN Finalize(c, "cancelled")
          ELSE IF kind[e] = "virtual" THEN [c EXCEPT !.stage = "running", !.goal = "running"]
          ELSE [c EXCEPT !.stage = IF c.adopted THEN "metadata" ELSE "dispatch"])
    /\ UNCHANGED <<storeVars, sessionVars, leaseVars, commandVars, slots, exec, listed, adopt, cancel, service>>

\* processRuntime.start: a new command.  A tmux shell takes one at a time, which
\* its attached worker knows, and anybody else if the record says so; a record
\* marked completed is replaced.
Dispatch(w, e) ==
    LET c == run[w][e] IN
    /\ c.stage = "dispatch"
    /\ IF persistent
       THEN /\ Attaches(w, e)
            /\ home[e] = w => shell[e] = {}
            /\ record[e] \notin shell[e]
            /\ record' = [record EXCEPT ![e] = c.token]
       ELSE UNCHANGED <<record, home>>
    /\ shell' = [shell EXCEPT ![e] = @ \cup {c.token}]
    /\ Becomes(w, e, [c EXCEPT !.stage = "metadata", !.command = c.token])
    /\ UNCHANGED <<storeVars, sessionVars, leaseVars, runtime, slots, exec, listed, adopt, cancel, service>>

\* startExecution finds the execution already dispatched, and not known to have
\* ended, and attaches to its command.
DispatchAttach(w, e) ==
    LET c == run[w][e] IN
    /\ c.stage = "dispatch"
    /\ persistent
    /\ Attaches(w, e)
    /\ \E command \in ((IF home[e] = w THEN shell[e] ELSE {}) \cup {record[e]}) \ {0} :
          Becomes(w, e, [c EXCEPT !.stage = "metadata", !.command = command])
    /\ UNCHANGED <<storeVars, sessionVars, leaseVars, shell, record, runtime, slots, exec, listed, adopt,
                   cancel, service>>

\* The command cannot be started.
DispatchFails(w, e) ==
    /\ run[w][e].stage = "dispatch"
    /\ Throws(w, e)
    /\ UNCHANGED <<storeVars, sessionVars, leaseVars, commandVars, slots, listed, adopt, cancel, service>>

\* persistRuntimeMetadata; a run that is not running yet becomes so.
PersistMetadata(w, e) ==
    LET c == run[w][e] IN
    /\ c.stage = "metadata"
    /\ runtime' = [runtime EXCEPT ![e] = c.command]
    /\ Becomes(w, e,
          IF c.known \in {"starting", "leased"} THEN [c EXCEPT !.stage = "running", !.goal = "running"]
          ELSE [c EXCEPT !.stage = "live", !.goal = "running"])
    /\ UNCHANGED <<storeVars, sessionVars, leaseVars, shell, record, home, slots, exec, listed, adopt, cancel,
                   service>>

Attached(w, e) ==
    /\ run[w][e].stage \in {"metadata", "running", "live", "streaming"}
    /\ run[w][e].command # 0

\* Mutant: the reason is recorded and the command is left running.
StopsNothing(w, e, reason) == run' = [run EXCEPT ![w][e].reason = reason]

\* requestStop, for a reason.
Stops(w, e, reason) == run' = [run EXCEPT ![w][e].reason = reason, ![w][e].stop = Attached(w, e)]

\* Both pumps and the timers are running.
Pumping(w, e) == run[w][e].stage \in {"live", "streaming"}

\* While the command is attached the marker is polled ...
PollMarker(w, e) ==
    /\ Attached(w, e)
    /\ run[w][e].reason = "none"
    /\ e \in marker
    /\ Stops(w, e, "cancelled")
    /\ UNCHANGED <<storeVars, sessionVars, leaseVars, commandVars, slots, exec, listed, adopt, cancel, service>>

\* ... the lease is renewed, which a worker that does not hold it is refused and
\* a failing store answers with an error: the lease counts as lost ...
RenewFails(w, e) ==
    /\ Pumping(w, e) /\ Attached(w, e)
    /\ Holds(w, e, run[w][e].token) /\ e \in live => StoreErrors
    /\ run[w][e].reason # "expired"
    /\ Stops(w, e, "expired")
    /\ UNCHANGED <<storeVars, sessionVars, leaseVars, commandVars, slots, exec, listed, adopt, cancel, service>>

\* ... the execution may run out of time ...
TimesOut(w, e) ==
    /\ Pumping(w, e) /\ Attached(w, e)
    /\ run[w][e].reason \notin {"expired", "timed_out"}
    /\ Stops(w, e, "timed_out")
    /\ UNCHANGED <<storeVars, sessionVars, leaseVars, commandVars, slots, exec, listed, adopt, cancel, service>>

\* ... or exceed an output limit ...
ExceedsOutput(w, e) ==
    /\ Pumping(w, e)
    /\ run[w][e].reason \notin {"expired", "failed"}
    /\ Stops(w, e, "failed")
    /\ UNCHANGED <<storeVars, sessionVars, leaseVars, commandVars, slots, exec, listed, adopt, cancel, service>>

\* ... and the first output makes the execution streaming.
FirstOutput(w, e) ==
    LET c == run[w][e] IN
    /\ c.stage = "live"
    /\ "streaming" \notin {c.known, c.goal}
    /\ c.command \in shell[e] \cup {0}
    /\ ~c.deaf
    /\ Becomes(w, e, [c EXCEPT !.stage = "streaming", !.goal = "streaming"])
    /\ UNCHANGED <<storeVars, sessionVars, leaseVars, commandVars, slots, exec, listed, adopt, cancel, service>>

\* cancelExecution on the worker that runs the execution, when its executor is
\* stopped: the run is told directly.
StopExecutor(w) ==
    LET e == exec[w].id IN
    /\ w \in Stopping
    /\ exec[w].phase = "waiting"
    /\ run[w][e].stage \notin {"complete", "final", "tidy"}
    /\ run[w][e].reason \in {"none", "timed_out"}
    /\ marker' = marker \cup {e}
    /\ Stops(w, e, "cancelled")
    /\ UNCHANGED <<rec, active, sessionVars, leaseVars, commandVars, slots, exec, listed, adopt, cancel, service>>

Reaches(w, e) ==
    /\ Attached(w, e)
    /\ run[w][e].stop
    /\ run[w][e].command \in shell[e]
    /\ persistent => home[e] = w

\* requestStop ends the command ...
StopCommand(w, e) ==
    /\ Reaches(w, e)
    /\ shell' = [shell EXCEPT ![e] = @ \ {run[w][e].command}]
    /\ UNCHANGED <<storeVars, sessionVars, leaseVars, record, runtime, home, workerVars, cancel, service>>

\* ... or the kill after the grace period does, which takes a tmux shell and its
\* session along.
KillShell(w, e) ==
    /\ Reaches(w, e)
    /\ persistent
    /\ shell' = [shell EXCEPT ![e] = {}]
    /\ home' = [home EXCEPT ![e] = None]
    /\ fenced' = fenced \cup {e}
    /\ UNCHANGED <<storeVars, kind, persistent, live, leaseVars, record, runtime, workerVars, cancel, service>>

ExitObserved(w, e) ==
    LET c == run[w][e] IN
    /\ c.stage = "live"
    /\ ~c.deaf
    /\ c.command \notin shell[e]
    /\ \E goal \in Outcomes(c.reason) : Becomes(w, e, Finalize(c, goal))
    /\ UNCHANGED <<storeVars, sessionVars, leaseVars, commandVars, slots, exec, listed, adopt, cancel, service>>

\* Mutant: the answer of complete() is ignored.
CompleteLeaseRegardless(w, e) ==
    LET c == run[w][e] IN
    /\ c.stage = "complete"
    /\ lease' =
        IF Holds(w, e, c.token) /\ e \in live
        THEN [lease EXCEPT ![e] = Unleased("completed", 0)] ELSE lease
    /\ Becomes(w, e, [c EXCEPT !.stage = "final"])
    /\ UNCHANGED <<storeVars, sessionVars, tokens, commandVars, slots, exec, listed, adopt, cancel, service>>

\* finalize(), the lease: if it cannot be completed the execution is expired.
CompleteLease(w, e) ==
    LET c == run[w][e]
        completes == Holds(w, e, c.token) /\ e \in live
    IN
    /\ c.stage = "complete"
    /\ lease' = IF completes THEN [lease EXCEPT ![e] = Unleased("completed", 0)] ELSE lease
    /\ Becomes(w, e, [c EXCEPT !.stage = "final", !.goal = IF completes THEN @ ELSE "expired"])
    /\ UNCHANGED <<storeVars, sessionVars, tokens, commandVars, slots, exec, listed, adopt, cancel, service>>

\* Mutant: the process is not cleaned up.
TidyLeavesProcess(w, e) ==
    LET c == run[w][e] IN
    /\ c.stage = "tidy"
    /\ slots' = IF c.slot THEN [slots EXCEPT ![w] = @ \ {e}] ELSE slots
    /\ record' = IF c.command = 0 THEN record ELSE [record EXCEPT ![e] = 0]
    /\ runtime' = [runtime EXCEPT ![e] = 0]
    /\ marker' = marker \ {e}
    /\ Ended(w, e)
    /\ UNCHANGED <<rec, active, sessionVars, leaseVars, shell, home, listed, adopt, cancel, service>>

\* finalize(), the rest: the reservation, the command, both keys.  A tmux shell
\* keeps a command that still runs; a process is killed.
Tidy(w, e) ==
    LET c == run[w][e] IN
    /\ c.stage = "tidy"
    /\ slots' = IF c.slot THEN [slots EXCEPT ![w] = @ \ {e}] ELSE slots
    /\ shell' = IF persistent THEN shell ELSE [shell EXCEPT ![e] = @ \ {c.command}]
    /\ record' = IF c.command = 0 THEN record ELSE [record EXCEPT ![e] = 0]
    /\ runtime' = [runtime EXCEPT ![e] = 0]
    /\ marker' = marker \ {e}
    /\ Ended(w, e)
    /\ UNCHANGED <<rec, active, sessionVars, leaseVars, home, listed, adopt, cancel, service>>

-----------------------------------------------------------------------------
(* cancelExecution on a host that does not run the execution: the marker is   *)
(* set, then the record is read, and a queued execution is cancelled outright. *)

CancelMark(e) ==
    /\ e \in Cancellable
    /\ cancel[e] = "idle"
    /\ cancel' = [cancel EXCEPT ![e] = "read"]
    /\ marker' = marker \cup {e}
    /\ UNCHANGED <<rec, active, sessionVars, leaseVars, commandVars, workerVars, service>>

CancelRead(e) ==
    /\ cancel[e] = "read"
    /\ cancel' = [cancel EXCEPT ![e] = IF rec[e] = "queued" THEN "write" ELSE "idle"]
    /\ UNCHANGED <<storeVars, sessionVars, leaseVars, commandVars, workerVars, service>>

CancelWrite(e) ==
    /\ cancel[e] = "write"
    /\ cancel' = [cancel EXCEPT ![e] = "idle"]
    /\ Store(e, "queued", "cancelled")
    /\ UNCHANGED <<marker, sessionVars, leaseVars, commandVars, workerVars, service>>

-----------------------------------------------------------------------------
(* recoverExecution, called by a recovery scan or by a repair request. *)

Call(stage, e, known) == [stage |-> stage, id |-> e, known |-> known]
NoCall == Call("idle", None, "queued")

\* Workers on tmux shells have no scanning services beside them
\* (scripts/tty-worker.ts wires none).
Scans(r) == r \in Scanners /\ ~persistent

\* TTYRecoveryManager.findCandidates: every active record, whatever its lease.
ScanOrphan(r, e) ==
    /\ Scans(r)
    /\ service[r] = NoCall
    /\ e \in active
    /\ rec[e] \in ActiveState
    /\ service' = [service EXCEPT ![r] = Call("clean", e, "queued")]
    /\ UNCHANGED <<storeVars, sessionVars, leaseVars, commandVars, workerVars, cancel>>

\* recoverExpiredLeases: an expired lease, and a record that is still leased.
ScanLease(r, e) ==
    /\ Scans(r)
    /\ service[r] = NoCall
    /\ Expired(e)
    /\ rec[e] = "leased"
    /\ service' = [service EXCEPT ![r] = Call("read", e, "queued")]
    /\ UNCHANGED <<storeVars, sessionVars, leaseVars, commandVars, workerVars, cancel>>

\* repairTTYExecution: any execution that is neither queued nor terminal.
Repair(r, e) ==
    /\ service[r] = NoCall
    /\ rec[e] \in Recoverable
    /\ service' = [service EXCEPT ![r] = Call("read", e, "queued")]
    /\ UNCHANGED <<storeVars, sessionVars, leaseVars, commandVars, workerVars, cancel>>

\* cleanupOrphan kills the process of the runtime metadata.
CleanOrphan(r) ==
    LET e == service[r].id IN
    /\ service[r].stage = "clean"
    /\ shell' = [shell EXCEPT ![e] = @ \ {runtime[e]}]
    /\ service' = [service EXCEPT ![r].stage = "read"]
    /\ UNCHANGED <<storeVars, sessionVars, leaseVars, record, runtime, home, workerVars, cancel>>

\* The record is read again; a terminal one, unless expired, is left alone.
RecoverRead(r) ==
    LET e == service[r].id IN
    /\ service[r].stage = "read"
    /\ service' = [service EXCEPT ![r] =
           IF rec[e] \in TerminalState \ {"expired"} THEN NoCall ELSE Call("recover", e, rec[e])]
    /\ UNCHANGED <<storeVars, sessionVars, leaseVars, commandVars, workerVars, cancel>>

\* The lease script, and what follows from its answer: nothing if the lease has
\* not expired, the record back to queued if the job is queued again, and an
\* expired record if the script answers anything else.
RecoverLease(r) ==
    LET e == service[r].id
        known == service[r].known
        after == AfterRecover(e)
    IN
    /\ service[r].stage = "recover"
    /\ lease' = IF Expired(e) THEN [lease EXCEPT ![e] = after] ELSE lease
    /\ service' = [service EXCEPT ![r] =
           IF Expired(e) /\ after.phase = "queued"
           THEN IF known \in Recoverable THEN Call("requeue", e, known) ELSE NoCall
           ELSE IF (Leased(e) /\ ~Expired(e)) \/ known \in TerminalState
           THEN NoCall
           ELSE Call("expire", e, known)]
    /\ UNCHANGED <<storeVars, sessionVars, tokens, commandVars, workerVars, cancel>>

RecoverWrite(r) ==
    LET e == service[r].id
        goal == IF service[r].stage = "requeue" THEN "queued" ELSE "expired"
    IN
    /\ service[r].stage \in {"requeue", "expire"}
    /\ Store(e, service[r].known, goal)
    /\ runtime' = IF goal = "queued" THEN [runtime EXCEPT ![e] = 0] ELSE runtime
    /\ service' = [service EXCEPT ![r] = NoCall]
    /\ UNCHANGED <<marker, sessionVars, leaseVars, shell, record, home, workerVars, cancel>>

-----------------------------------------------------------------------------
(* The environment. *)

\* No renewal came in time.
Expire(e) ==
    /\ Leased(e)
    /\ ~lease[e].expired
    /\ lease' = [lease EXCEPT ![e].expired = TRUE]
    /\ UNCHANGED <<storeVars, sessionVars, tokens, commandVars, workerVars, cancel, service>>

\* The session is terminated or expires.
SessionEnds(e) ==
    /\ e \in Mortal \cup fenced
    /\ e \in live
    /\ live' = live \ {e}
    /\ UNCHANGED <<storeVars, kind, persistent, fenced, leaseVars, commandVars, workerVars, cancel, service>>

\* A command comes to its end, or its shell does.
CommandEnds(e) ==
    /\ \E t \in shell[e] : shell' = [shell EXCEPT ![e] = @ \ {t}]
    /\ UNCHANGED <<storeVars, sessionVars, leaseVars, record, runtime, home, workerVars, cancel, service>>

\* fence(.., 'detach'): the worker has lost the runtime lease, the transcript or
\* the session record, and lets go of the shell.  Handles it has given out never
\* report an exit.
Detach(w, e) ==
    /\ w \in Detaching
    /\ home[e] = w
    /\ home' = [home EXCEPT ![e] = None]
    /\ run' = [run EXCEPT ![w][e].deaf = run[w][e].command # 0]
    /\ UNCHANGED <<storeVars, sessionVars, leaseVars, shell, record, runtime, slots, exec, listed, adopt,
                   cancel, service>>

\* recoverPersistentSessions: a shell nobody is attached to is attached again.
Attach(w, e) ==
    /\ persistent
    /\ record[e] # 0
    /\ home[e] = None
    /\ Attaches(w, e)
    /\ UNCHANGED <<storeVars, sessionVars, leaseVars, shell, record, runtime, workerVars, cancel, service>>

\* A worker process dies and is started again; its commands are detached from it
\* and go on.  (The runtime lease it leaves behind makes attachments fail for a
\* while, as they may anyway.)
Crash(w) ==
    /\ w \in Crashing
    /\ run' = [run EXCEPT ![w] = [e \in Executions |-> Idle]]
    /\ slots' = [slots EXCEPT ![w] = {}]
    /\ exec' = [exec EXCEPT ![w] = NoTask]
    /\ listed' = [listed EXCEPT ![w] = {}]
    /\ adopt' = [adopt EXCEPT ![w] = NoTask]
    /\ home' = [e \in Executions |-> IF home[e] = w THEN None ELSE home[e]]
    /\ <<workerVars, home>>' # <<workerVars, home>>
    /\ UNCHANGED <<storeVars, sessionVars, leaseVars, shell, record, runtime, cancel, service>>

-----------------------------------------------------------------------------
RunStep(w, e) ==
    \/ ReadRecord(w, e)
    \/ WriteRecord(w, e)
    \/ CheckSession(w, e)
    \/ CheckMarker(w, e)
    \/ Dispatch(w, e)
    \/ DispatchAttach(w, e)
    \/ DispatchFails(w, e)
    \/ PersistMetadata(w, e)
    \/ ExitObserved(w, e)
    \/ CompleteLease(w, e)
    \/ Tidy(w, e)

Interruption(w, e) ==
    \/ PollMarker(w, e)
    \/ RenewFails(w, e)
    \/ TimesOut(w, e)
    \/ ExceedsOutput(w, e)
    \/ FirstOutput(w, e)
    \/ StopCommand(w, e)
    \/ KillShell(w, e)

ExecutorStep(w) ==
    \/ Poll(w)
    \/ RunClaimed(w)
    \/ Release(w)
    \/ \E e \in Executions :
          \/ Claim(w, e)
          \/ ClaimDrop(w, e)
          \/ ClaimConflict(w, e)
          \/ ClaimRefused(w, e)

AdoptionStep(w) ==
    \/ RunAdopted(w)
    \/ \E e \in Executions : Adopt(w, e) \/ AdoptDrop(w, e)

ServiceStep(r) ==
    \/ CleanOrphan(r)
    \/ RecoverRead(r)
    \/ RecoverLease(r)
    \/ RecoverWrite(r)
    \/ \E e \in Executions : ScanOrphan(r, e) \/ ScanLease(r, e) \/ Repair(r, e)

CancelStep(e) == CancelMark(e) \/ CancelRead(e) \/ CancelWrite(e)

Environment ==
    \/ \E e \in Executions : Expire(e) \/ SessionEnds(e) \/ CommandEnds(e)
    \/ \E w \in Workers : Crash(w) \/ StopExecutor(w)
    \/ \E w \in Workers, e \in Executions : Detach(w, e) \/ Attach(w, e)

Next ==
    \/ \E w \in Workers : ExecutorStep(w) \/ AdoptionStep(w)
    \/ \E w \in Workers, e \in Executions : RunStep(w, e) \/ Interruption(w, e)
    \/ \E r \in Services : ServiceStep(r)
    \/ \E e \in Executions : CancelStep(e)
    \/ Environment

Spec == Init /\ [][Next]_vars

\* Pollers, recovery scans and runs go on; a lease reaches its horizon; a run that
\* lasts too long is timed out, and a command that is told to stop is killed.
Fairness ==
    /\ \A w \in Workers : WF_vars(ExecutorStep(w)) /\ WF_vars(AdoptionStep(w))
    /\ \A r \in Services : WF_vars(ServiceStep(r))
    /\ \A e \in Executions : WF_vars(Expire(e))
    /\ \A w \in Workers, e \in Executions :
        WF_vars(RunStep(w, e)) /\ WF_vars(TimesOut(w, e)) /\ WF_vars(StopCommand(w, e))

FairSpec == Spec /\ Fairness

-----------------------------------------------------------------------------
(* Properties. *)

TaskOf == [phase : {"idle", "handoff", "waiting", "release"}, id : Executions \cup {None}, token : Token]

\* Every variable has its type.
TypeOK ==
    /\ kind \in [Executions -> Kind] /\ persistent \in BOOLEAN
    /\ rec \in [Executions -> State]
    /\ active \subseteq Executions /\ marker \subseteq Executions
    /\ live \subseteq Executions /\ fenced \subseteq Executions
    /\ lease \in [Executions ->
          [phase : Phase, owner : Workers \cup {None}, token : Token, expired : BOOLEAN,
           attempt : 0 .. MaxAttempts]]
    /\ tokens \in [Executions -> Token]
    /\ shell \in [Executions -> SUBSET Token]
    /\ record \in [Executions -> Token] /\ runtime \in [Executions -> Token]
    /\ home \in [Executions -> Workers \cup {None}]
    /\ run \in [Workers -> [Executions -> Context]]
    /\ slots \in [Workers -> SUBSET Executions]
    /\ exec \in [Workers -> TaskOf] /\ adopt \in [Workers -> TaskOf]
    /\ listed \in [Workers -> SUBSET Executions]
    /\ cancel \in [Executions -> {"idle", "read", "write"}]
    /\ service \in [Services ->
          [stage : {"idle", "clean", "read", "recover", "requeue", "expire"},
           id : Executions \cup {None}, known : State]]

\* An outcome is recorded only by a run that completed its lease, so two workers
\* never publish outcomes of the same execution: of a worker that lost its lease
\* finalize() makes an expired execution.
OutcomeIsOwned ==
    \A e \in Executions : rec[e] \in {"succeeded", "failed", "timed_out"} => lease[e].phase = "completed"

\* No command starts for an execution whose record is terminal: a cancellation
\* acknowledged in the record holds against the claim, the adoption and the
\* restart that are under way.  (With one worker: a second one may read the
\* terminal record of a first whose lease it took over, and go on.)
NoLateStart ==
    [][\A e \in Executions : rec[e] \in TerminalState => shell'[e] \subseteq shell[e]]_vars

\* A run that lets go of its process, short of a crash, leaves none behind that
\* runs outside a tmux shell: whichever way claims, releases, lost leases,
\* recoveries, repairs and failing stores end it.
ProcessIsOwned ==
    [][~persistent =>
          \A w \in Workers \ Crashing, e \in Executions :
             run'[w][e].command # run[w][e].command => run[w][e].command \notin shell'[e]]_vars

\* A lease that is neither expired nor orphaned by its session is the lease the
\* executor of its holder works under: no path from claim to release forgets it,
\* short of a crash.  (An adoption that cannot attach to its tmux shell does.)
HeldIsWorked ==
    ~persistent =>
       \A e \in Executions :
          e \in live /\ Leased(e) /\ ~Expired(e) /\ lease[e].owner \notin Crashing =>
             /\ exec[lease[e].owner].id = e
             /\ exec[lease[e].owner].token = lease[e].token

\* A run comes to its end, if only because its time is up and its command killed, unless its worker
\* has let go of the shell: the handle of the run never reports an exit then.
RunsEnd ==
    \A e \in Executions, w \in Workers : Running(w, e) ~> (~Running(w, e) \/ run[w][e].deaf)

\* The executor comes back to polling after whatever happens to its run, with the same exception.
WorkerReturns ==
    \A w \in Workers : []<>(exec[w].phase = "idle" \/ \E e \in Executions : run[w][e].deaf)
=============================================================================
