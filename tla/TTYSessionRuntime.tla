-------------------------- MODULE TTYSessionRuntime --------------------------
(***************************************************************************)
(* TTYPersistentSessionManager, on every worker, for one session: a tmux   *)
(* shell that outlives workers, the runtime lease that says which worker   *)
(* is attached to it, the durable history and index from which a restarted *)
(* worker finds it again, and the journal from which lost output is        *)
(* replayed.  A worker runs several asynchronous calls at a time; `call`   *)
(* holds where each of them waits.                                         *)
(***************************************************************************)
EXTENDS Integers, FiniteSets, SequencesExt, FiniteSetsExt

CONSTANTS
    Workers,
    None

ASSUME WorkersAssumption ==
    /\ IsFiniteSet(Workers)
    /\ None \notin Workers /\ None \notin [runtime : Nat, worker : Workers]

VARIABLES
    session,          \* status of the session record: "active", "terminal" or, deleted, "gone"
    shell,            \* whether tmux has the session's shell
    journal,          \* chunks of output in the shell's journal
    lease,            \* tty:session:runtime: who holds it, or None
    history,          \* whether tty:session:runtime-history is there
    indexed,          \* whether the persistent-session index names the session
    offset,           \* tty:session:runtime-output-offset
    transcript,       \* the chunks that the session's transcript has
    up,               \* workers whose manager is started
    managed,          \* the worker's ManagedSession, or None
    closing,          \* the worker's fences, exits and cleanups in progress
    call,             \* the worker's calls in progress
    completed,        \* commands that a worker remembers
    typed             \* the input written to the shell, in order

runtimeVars == <<session, shell, journal, lease, history, indexed, offset, transcript,
                 up, managed, closing, call, completed, typed>>

\* The calls a worker may have in progress: a command of each of the three sources of
\* commands, and the heartbeat.
Callers == {"global", "target", "input", "beat"}
Idle == [pc |-> "idle", cmd |-> None, runtime |-> 0, fresh |-> FALSE]

(***************************************************************************)
(* The four scripts on the runtime lease.                                  *)
(***************************************************************************)
Held(lse, id) == lse # None /\ lse.runtime = id

\* Changed: the claim has no NX.
ClaimableAlways(lse) == TRUE

Claimable(lse) == lse = None
Released(lse, id) == IF Held(lse, id) THEN None ELSE lse

(***************************************************************************)
(* ManagedSession: fenced, the state of its tmux client, whether the       *)
(* client's exit was reported, the next chunk the client will show, and    *)
(* what it knows about live output.                                        *)
(***************************************************************************)
NewManaged(id, next) ==
    [runtime |-> id, fenced |-> FALSE, client |-> TRUE, told |-> FALSE, next |-> next,
     ready |-> FALSE, observed |-> FALSE]

Cleaning(w, id) == \E c \in closing[w] : c.runtime = id /\ c.stage \notin {"fence", "exit"}
Closing(w, id) == \E c \in closing[w] : c.runtime = id
Current(w, id) == managed[w] # None /\ managed[w].runtime = id

\* terminateSession latches an active record and leaves every other as it is.
Latched(status) == IF status = "active" THEN "terminal" ELSE status

\* Killing the shell ends every client that is attached to it.
Detached(m) == IF m = None THEN None ELSE [m EXCEPT !.client = FALSE]
AllDetached == [w \in Workers |-> Detached(managed[w])]

\* A session that was never opened, or one that a worker has opened and everybody knows of.
RuntimeInit(owner) ==
    /\ session = "active"
    /\ journal = 0 /\ offset = 0 /\ transcript = {}
    /\ shell = (owner # None) /\ history = (owner # None) /\ indexed = (owner # None)
    /\ lease = IF owner = None THEN None ELSE [runtime |-> 1, worker |-> owner]
    /\ up = IF owner = None THEN {} ELSE {owner}
    /\ managed = [w \in Workers |-> IF w = owner THEN [NewManaged(1, 1) EXCEPT !.ready = TRUE] ELSE None]
    /\ closing = [w \in Workers |-> {}]
    /\ call = [w \in Workers |-> [t \in Callers |-> Idle]]
    /\ completed = [w \in Workers |-> {}]
    /\ typed = <<>>

Goes(w, t, pc) == call' = [call EXCEPT ![w][t].pc = pc]
At(w, t, pc) == w \in up /\ call[w][t].pc = pc

durable == <<session, shell, journal, lease, history, indexed, offset, transcript>>
local == <<up, managed, closing, completed>>

(***************************************************************************)
(* Handling a command.                                                     *)
(***************************************************************************)
\* handle.write throws when the client has exited.
CanType(w, id) == Current(w, id) /\ managed[w].client

HotPath(w, c) == c.type = "write" /\ managed[w] # None /\ ~managed[w].fenced /\ ~Cleaning(w, managed[w].runtime)

\* handle: a command that was completed is not repeated; input for an attached session is
\* written at once; anything else begins with the session record.
Handled(w, t, c) ==
    IF c.id \in completed[w] THEN
        /\ call' = [call EXCEPT ![w][t] = [Idle EXCEPT !.pc = "done", !.cmd = c]]
        /\ UNCHANGED <<completed, typed>>
    ELSE IF HotPath(w, c) THEN
        IF managed[w].client THEN
            /\ typed' = Append(typed, c.id)
            /\ completed' = [completed EXCEPT ![w] = @ \cup {c.id}]
            /\ call' = [call EXCEPT ![w][t] = [Idle EXCEPT !.pc = "done", !.cmd = c]]
        ELSE
            /\ call' = [call EXCEPT ![w][t] = [Idle EXCEPT !.pc = "failed", !.cmd = c]]
            /\ UNCHANGED <<completed, typed>>
    ELSE
        /\ call' = [call EXCEPT ![w][t] = [Idle EXCEPT !.pc = "session", !.cmd = c]]
        /\ UNCHANGED <<completed, typed>>

\* A command is remembered however it ends, unless it throws.
Finish(w, t, pc) ==
    /\ Goes(w, t, pc)
    /\ completed' = IF pc = "done" THEN [completed EXCEPT ![w] = @ \cup {call[w][t].cmd.id}] ELSE completed

\* What ensureAttached begins with: the probe of a session that is managed here, or a claim
\* for one that is not; the durable history tells whether there is a shell to recover.
Attaching(w, cl) ==
    IF managed[w] = None THEN [cl EXCEPT !.pc = "claim", !.fresh = ~history]
    ELSE [cl EXCEPT !.pc = "probe", !.runtime = managed[w].runtime]

\* getSession and, for a resize, touchSession: only an active session is attached to, except
\* that terminate attaches to a shell that nobody on this worker manages, to be able to kill
\* it.
ReadSession(w, t) ==
    /\ At(w, t, "session")
    /\ LET type == call[w][t].cmd.type IN
       CASE session = "gone" \/ (type # "terminate" /\ session # "active") ->
              Finish(w, t, "done")
         [] session # "gone" /\ type = "terminate" /\ (managed[w] # None \/ ~history) ->
              /\ call' = [call EXCEPT ![w][t] = [@ EXCEPT !.pc = "end", !.runtime = IF managed[w] = None THEN 0 ELSE managed[w].runtime]]
              /\ UNCHANGED completed
         [] OTHER -> call' = [call EXCEPT ![w][t] = Attaching(w, @)] /\ UNCHANGED completed
    /\ UNCHANGED <<durable, up, managed, closing, typed>>

\* Then it latches the session and cleans up what it had managed.
EndSession(w, t) ==
    /\ At(w, t, "end")
    /\ session' = Latched(session)
    /\ LET id == call[w][t].runtime IN
       IF Current(w, id)
       THEN /\ closing' = [closing EXCEPT ![w] =
                   IF Cleaning(w, id) THEN @ ELSE @ \cup {[runtime |-> id, how |-> "terminate", stage |-> "client"]}]
            /\ Goes(w, t, "closing")
            /\ UNCHANGED completed
       ELSE Finish(w, t, "done") /\ UNCHANGED closing
    /\ UNCHANGED <<shell, journal, lease, history, indexed, offset, transcript, up, managed, typed>>

\* The call goes on when the cleanup or the fence it awaits has settled.
Closed(w, t) ==
    /\ w \in up /\ call[w][t].pc \in {"closing", "fencing"} /\ ~Closing(w, call[w][t].runtime)
    /\ IF call[w][t].pc = "closing" THEN Finish(w, t, "done") ELSE Goes(w, t, "null") /\ UNCHANGED completed
    /\ UNCHANGED <<durable, up, managed, closing, typed>>

(***************************************************************************)
(* ensureAttached.                                                         *)
(***************************************************************************)
\* fence: an event, the end of the session if it is to be terminated, and the cleanup; a
\* second fence joins the first.
Fenced(w, how) ==
    /\ managed' = [managed EXCEPT ![w].fenced = TRUE]
    /\ closing' = [closing EXCEPT ![w] =
           IF managed[w].fenced THEN @ ELSE @ \cup {[runtime |-> managed[w].runtime, how |-> how, stage |-> "fence"]}]

\* A probe that fails counts as a shell that is gone.
Probe(w, t, fails) ==
    /\ At(w, t, "probe")
    /\ IF shell /\ ~fails THEN Goes(w, t, "attached") /\ UNCHANGED <<managed, closing>>
       ELSE IF Current(w, call[w][t].runtime)
       THEN Fenced(w, "terminate") /\ Goes(w, t, "fencing")
       ELSE Goes(w, t, "null") /\ UNCHANGED <<managed, closing>>
    /\ UNCHANGED <<durable, up, completed, typed>>

\* randomUUID: an id that nothing holds.
RuntimesOf(w) ==
    {call[w][t].runtime : t \in Callers} \cup {c.runtime : c \in closing[w]}
        \cup (IF managed[w] = None THEN {} ELSE {managed[w].runtime})
RuntimesInUse == (IF lease = None THEN {} ELSE {lease.runtime}) \cup UNION {RuntimesOf(w) : w \in Workers}
FreshRuntime == CHOOSE id \in 1..Cardinality(RuntimesInUse) + 1 : id \notin RuntimesInUse

\* CLAIM_RUNTIME_SCRIPT; a lease that is held, also by a call of this very worker, is an
\* error.
ClaimRuntime(w, t) ==
    /\ At(w, t, "claim")
    /\ IF Claimable(lease)
       THEN LET id == FreshRuntime IN
                /\ lease' = [runtime |-> id, worker |-> w]
                /\ call' = [call EXCEPT ![w][t] = [@ EXCEPT !.pc = "create", !.runtime = id]]
       ELSE Goes(w, t, "failed") /\ UNCHANGED lease
    /\ UNCHANGED <<session, shell, journal, history, indexed, offset, transcript, local, typed>>

\* A session without a history gets a shell, unless tmux has one; a session with a history
\* whose shell is gone ends.  A tmux command that fails is an error.
Create(w, t, fails) ==
    /\ At(w, t, "create")
    /\ IF fails THEN Goes(w, t, "abandon") /\ UNCHANGED <<session, shell, indexed, managed>>
       ELSE IF call[w][t].fresh \/ shell
       THEN /\ shell' = TRUE
            /\ managed' = [managed EXCEPT ![w] = NewManaged(call[w][t].runtime, journal + 1)]
            /\ Goes(w, t, "promote")
            /\ UNCHANGED <<session, indexed>>
       ELSE /\ session' = Latched(session)
            /\ indexed' = FALSE
            /\ Goes(w, t, "surrender")
            /\ UNCHANGED <<shell, managed>>
    /\ UNCHANGED <<journal, lease, history, offset, transcript, up, closing, completed, typed>>

\* PROMOTE_RUNTIME_SCRIPT; a lease that was lost on the way is an error.
Promote(w, t) ==
    /\ At(w, t, "promote")
    /\ IF Held(lease, call[w][t].runtime)
       THEN history' = TRUE /\ Goes(w, t, "index") /\ UNCHANGED managed
       ELSE managed' = [managed EXCEPT ![w] = None] /\ Goes(w, t, "kill") /\ UNCHANGED history
    /\ UNCHANGED <<session, shell, journal, lease, indexed, offset, transcript, up, closing, completed, typed>>

\* The error path ends the shell it attached to,
Kill(w, t) ==
    /\ At(w, t, "kill")
    /\ shell' = FALSE
    /\ managed' = AllDetached
    /\ Goes(w, t, "abandon")
    /\ UNCHANGED <<session, journal, lease, history, indexed, offset, transcript, up, closing, completed, typed>>

\* and both ways out that attach nothing release the lease.
Abandon(w, t) ==
    /\ \/ At(w, t, "abandon") /\ Goes(w, t, "failed")
       \/ At(w, t, "surrender") /\ Goes(w, t, "null")
    /\ lease' = Released(lease, call[w][t].runtime)
    /\ UNCHANGED <<session, shell, journal, history, indexed, offset, transcript, local, typed>>

Index(w, t) ==
    /\ At(w, t, "index")
    /\ indexed' = TRUE
    /\ Goes(w, t, "replay")
    /\ UNCHANGED <<session, shell, journal, lease, history, offset, transcript, local, typed>>

\* The journal is replayed from the offset; when it cannot be, the session is detached.
Replayed ==
    /\ transcript' = transcript \cup (offset + 1)..journal
    /\ offset' = Max({offset, journal})

Settles(w, id) == Current(w, id) /\ ~managed[w].fenced /\ ~Cleaning(w, id)

ReplayFirst(w, t, fails) ==
    /\ At(w, t, "replay")
    /\ LET id == call[w][t].runtime IN
       IF ~Settles(w, id)
       THEN Goes(w, t, IF managed[w] = None THEN "null" ELSE "attached") /\ UNCHANGED <<managed, closing, offset, transcript>>
       ELSE IF fails
       THEN Fenced(w, "detach") /\ Goes(w, t, "fencing") /\ UNCHANGED <<offset, transcript>>
       ELSE /\ Replayed
            /\ managed' = [managed EXCEPT ![w].ready = TRUE]
            /\ Goes(w, t, "attached")
            /\ UNCHANGED closing
    /\ UNCHANGED <<session, shell, journal, lease, history, indexed, up, completed, typed>>

\* What the caller does with the session it got: open is done; input and resizing use the
\* client, terminate goes on.
Attached(w, t) ==
    /\ At(w, t, "attached")
    /\ LET c == call[w][t].cmd
           id == call[w][t].runtime IN
       CASE c.type = "terminate" -> Goes(w, t, "end") /\ UNCHANGED <<completed, typed>>
         [] c.type = "recover" -> call' = [call EXCEPT ![w][t] = Idle] /\ UNCHANGED <<completed, typed>>
         [] c.type = "open" -> Finish(w, t, "done") /\ UNCHANGED typed
         [] c.type \in {"write", "resize"} ->
              /\ Finish(w, t, IF CanType(w, id) THEN "done" ELSE "failed")
              /\ typed' = IF c.type = "write" /\ CanType(w, id) THEN Append(typed, c.id) ELSE typed
    /\ UNCHANGED <<durable, up, managed, closing>>

\* What it does without one: the command counts as done, and a session that could not be
\* recovered leaves the index.
Unattached(w, t) ==
    /\ At(w, t, "null")
    /\ LET type == call[w][t].cmd.type IN
       CASE type = "terminate" -> call' = [call EXCEPT ![w][t] = [@ EXCEPT !.pc = "end", !.runtime = 0]] /\ UNCHANGED <<completed, indexed>>
         [] type = "recover" -> call' = [call EXCEPT ![w][t] = Idle] /\ indexed' = FALSE /\ UNCHANGED completed
         [] type = "heartbeat" -> call' = [call EXCEPT ![w][t] = Idle] /\ UNCHANGED <<completed, indexed>>
         [] OTHER -> Finish(w, t, "done") /\ UNCHANGED indexed
    /\ UNCHANGED <<session, shell, journal, lease, history, offset, transcript, up, managed, closing, typed>>

(***************************************************************************)
(* fence, handleExit and cleanup, each a sequence of awaits of its own.    *)
(***************************************************************************)
Advanced(w, c, stage) == [closing EXCEPT ![w] = (@ \ {c}) \cup {[c EXCEPT !.stage = stage]}]
Settled(w, c) == [closing EXCEPT ![w] = @ \ {c}]

\* A fence that terminates ends the session first; either way it joins a cleanup that runs.
FenceStep(w, c) ==
    /\ w \in up /\ c \in closing[w] /\ c.stage = "fence"
    /\ session' = IF c.how = "terminate" THEN Latched(session) ELSE session
    /\ closing' = IF Cleaning(w, c.runtime) \/ ~Current(w, c.runtime) THEN Settled(w, c) ELSE Advanced(w, c, "client")
    /\ UNCHANGED <<shell, journal, lease, history, indexed, offset, transcript, up, managed, call, completed, typed>>

\* The client exited by itself: if the shell remains the session is detached, otherwise it
\* has ended.
ExitEvent(w) ==
    /\ w \in up /\ managed[w] # None /\ ~managed[w].client /\ ~managed[w].told
    /\ managed' = [managed EXCEPT ![w].told = TRUE]
    /\ closing' = [closing EXCEPT ![w] =
           IF managed[w].fenced \/ Cleaning(w, managed[w].runtime) THEN @
           ELSE @ \cup {[runtime |-> managed[w].runtime, how |-> "exit", stage |-> "exit"]}]
    /\ UNCHANGED <<durable, up, call, completed, typed>>

ExitStep(w, c) ==
    /\ w \in up /\ c \in closing[w] /\ c.stage = "exit"
    /\ session' = IF shell THEN session ELSE Latched(session)
    /\ closing' = IF Cleaning(w, c.runtime) \/ ~Current(w, c.runtime) THEN Settled(w, c)
                  ELSE [closing EXCEPT ![w] = (@ \ {c}) \cup
                            {[c EXCEPT !.stage = "client", !.how = IF shell THEN "detach" ELSE "terminate"]}]
    /\ UNCHANGED <<shell, journal, lease, history, indexed, offset, transcript, up, managed, call, completed, typed>>

\* cleanup, step by step: the client or the shell,
CloseClient(w, c) ==
    /\ w \in up /\ c \in closing[w] /\ c.stage = "client"
    /\ IF c.how = "detach"
       THEN managed' = [managed EXCEPT ![w] = Detached(@)] /\ UNCHANGED shell
       ELSE managed' = AllDetached /\ shell' = FALSE
    /\ closing' = Advanced(w, c, "forget")
    /\ UNCHANGED <<session, journal, lease, history, indexed, offset, transcript, up, call, completed, typed>>

\* a detachment that is not confirmed is an error, and the session stays fenced,
DetachFails(w, c) ==
    /\ w \in up /\ c \in closing[w] /\ c.stage = "client"
    /\ closing' = Settled(w, c)
    /\ UNCHANGED <<durable, up, managed, call, completed, typed>>

\* the map, the offset and the index of a terminated session, and the lease.
Forget(w, c) ==
    /\ w \in up /\ c \in closing[w] /\ c.stage = "forget"
    /\ managed' = [managed EXCEPT ![w] = None]
    /\ IF c.how = "terminate" THEN offset' = 0 /\ indexed' = FALSE ELSE UNCHANGED <<offset, indexed>>
    /\ lease' = Released(lease, c.runtime)
    /\ closing' = Settled(w, c)
    /\ UNCHANGED <<session, shell, journal, history, transcript, up, call, completed, typed>>

(***************************************************************************)
(* heartbeatOnce and recoverPersistentSessions.                            *)
(***************************************************************************)
Beating(type, pc, id) == [Idle EXCEPT !.pc = pc, !.cmd = [id |-> None, type |-> type], !.runtime = id]

\* A managed session is fenced when its record is gone, has ended, or its shell is gone.
Heartbeat(w, fails) ==
    /\ At(w, "beat", "idle") /\ managed[w] # None
    /\ LET how == IF session = "gone" THEN "detach"
                  ELSE IF session = "terminal" \/ ~shell \/ fails THEN "terminate" ELSE "none"
           id == managed[w].runtime IN
       IF how = "none" THEN call' = [call EXCEPT ![w]["beat"] = Beating("heartbeat", "renew", id)] /\ UNCHANGED <<managed, closing>>
       ELSE Fenced(w, how) /\ call' = [call EXCEPT ![w]["beat"] = Beating("heartbeat", "fencing", id)]
    /\ UNCHANGED <<durable, up, completed, typed>>

\* RENEW_RUNTIME_SCRIPT; a lease that is lost fences the session.
Renew(w, fails) ==
    /\ At(w, "beat", "renew")
    /\ LET id == call[w]["beat"].runtime IN
       IF (Held(lease, id) /\ ~fails) \/ ~Current(w, id)
       THEN call' = [call EXCEPT ![w]["beat"] = Idle] /\ UNCHANGED <<managed, closing>>
       ELSE Fenced(w, "detach") /\ Goes(w, "beat", "fencing")
    /\ UNCHANGED <<durable, up, completed, typed>>

\* Without one, an indexed session is attached again, or its shell ended with the session;
\* an entry without a history is dropped.
RecoverScan(w) ==
    /\ At(w, "beat", "idle") /\ managed[w] = None /\ indexed
    /\ IF ~history THEN indexed' = FALSE /\ UNCHANGED call
       ELSE /\ call' = [call EXCEPT ![w]["beat"] = IF session = "active" THEN Attaching(w, Beating("recover", "claim", 0))
                                               ELSE Beating("recover", "expire", 0)]
            /\ UNCHANGED indexed
    /\ UNCHANGED <<session, shell, journal, lease, history, offset, transcript, local, typed>>

\* Changed: the entry of an ended session is dropped and its shell is left.
ExpireEntry(w, fails) ==
    /\ At(w, "beat", "expire")
    /\ indexed' = (indexed /\ fails)
    /\ call' = [call EXCEPT ![w]["beat"] = Idle]
    /\ UNCHANGED <<session, shell, managed, journal, lease, history, offset, transcript, up, closing, completed, typed>>

\* cleanupExpiredPersistentRuntime.
ExpireShell(w, fails) ==
    /\ At(w, "beat", "expire")
    /\ IF fails THEN UNCHANGED <<shell, managed, indexed>>
       ELSE shell' = FALSE /\ managed' = AllDetached /\ indexed' = FALSE
    /\ call' = [call EXCEPT ![w]["beat"] = Idle]
    /\ UNCHANGED <<session, journal, lease, history, offset, transcript, up, closing, completed, typed>>

\* An error of the heartbeat's own call is logged.
BeatFailed(w) ==
    /\ At(w, "beat", "failed")
    /\ call' = [call EXCEPT ![w]["beat"] = Idle]
    /\ UNCHANGED <<durable, local, typed>>

(***************************************************************************)
(* Output: the attached client shows what the shell writes, in order and   *)
(* some time after the journal has it.                                     *)
(***************************************************************************)
Write ==
    /\ shell
    /\ journal' = journal + 1
    /\ UNCHANGED <<session, shell, lease, history, indexed, offset, transcript, local, call, typed>>

\* onData drops what comes before the replay is done.
Shown(m) == [m EXCEPT !.next = @ + 1, !.observed = IF m.ready THEN TRUE ELSE @]
Show(w) ==
    /\ w \in up /\ managed[w] # None /\ managed[w].client /\ managed[w].next <= journal
    /\ managed' = [managed EXCEPT ![w] = Shown(@)]
    /\ transcript' = IF managed[w].ready THEN transcript \cup {managed[w].next} ELSE transcript
    /\ UNCHANGED <<session, shell, journal, lease, history, indexed, offset, up, closing, call, completed, typed>>

\* reconcileJournal: until something live was seen the journal is replayed; from then on
\* only the offset is moved to its end.
Reconcile(w, fails) ==
    /\ w \in up /\ managed[w] # None /\ managed[w].ready
    /\ Settles(w, managed[w].runtime) /\ offset < journal
    /\ IF fails THEN Fenced(w, "detach") /\ UNCHANGED <<offset, transcript>>
       ELSE /\ IF managed[w].observed THEN offset' = journal /\ UNCHANGED transcript ELSE Replayed
            /\ UNCHANGED <<managed, closing>>
    /\ UNCHANGED <<session, shell, journal, lease, history, indexed, up, call, completed, typed>>

(***************************************************************************)
(* Workers start, stop and crash; leases expire; shells exit.              *)
(***************************************************************************)
StartManager(w) ==
    /\ w \notin up
    /\ up' = up \cup {w}
    /\ UNCHANGED <<durable, managed, closing, call, completed, typed>>

\* Everything a worker holds in memory is lost; its client ends with it.
Lost(w) ==
    /\ up' = up \ {w}
    /\ managed' = [managed EXCEPT ![w] = None]
    /\ closing' = [closing EXCEPT ![w] = {}]
    /\ call' = [call EXCEPT ![w] = [t \in Callers |-> Idle]]
    /\ completed' = [completed EXCEPT ![w] = {}]

\* stop: what is managed is detached, and the process exits.
StopManager(w) ==
    /\ w \in up /\ \A t \in Callers : call[w][t].pc = "idle"
    /\ Lost(w)
    /\ lease' = IF managed[w] = None THEN lease ELSE Released(lease, managed[w].runtime)
    /\ UNCHANGED <<session, shell, journal, history, indexed, offset, transcript, typed>>

CrashManager(w) ==
    /\ w \in up
    /\ Lost(w)
    /\ UNCHANGED <<durable, typed>>

\* Whether the holder is there to renew its lease, or about to release it.
Kept(lse) ==
    \E w \in up :
        \/ (Current(w, lse.runtime) /\ ~managed[w].fenced) \/ Closing(w, lse.runtime)
        \/ \E t \in Callers : call[w][t].runtime = lse.runtime

ExpireLease ==
    /\ lease # None
    /\ lease' = None
    /\ UNCHANGED <<session, shell, journal, history, indexed, offset, transcript, local, call, typed>>

ShellExits ==
    /\ shell
    /\ shell' = FALSE
    /\ managed' = AllDetached
    /\ UNCHANGED <<session, journal, lease, history, indexed, offset, transcript, up, closing, call, completed, typed>>

\* The session ends, and its record is deleted later.
SessionEnds ==
    /\ session' = IF session = "active" THEN "terminal" ELSE "gone"
    /\ session # "gone"
    /\ UNCHANGED <<shell, journal, lease, history, indexed, offset, transcript, local, call, typed>>
=============================================================================
