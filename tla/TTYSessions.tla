----------------------------- MODULE TTYSessions -----------------------------
(***************************************************************************)
(* A browser, the control API and the workers around one persistent        *)
(* session.  The browser's input queue sends one batch at a time, over the *)
(* broadcast channel when it has one and otherwise, or when that fails,    *)
(* under the same command id through the control route to the durable      *)
(* stream.  `left` is what the environment may still do: it bounds every   *)
(* behaviour, and each scenario is one such budget.                        *)
(***************************************************************************)
EXTENDS TTYSessionRuntime

---------------------------------------------------------------------------
(***************************************************************************)
(* The ways a command reaches the shell: the global control stream, which  *)
(* every worker's TTYSessionControlConsumer reads, the stream of each      *)
(* worker, to which the router forwards what belongs to it, and the        *)
(* broadcast channel of the session's input.  A receipt in the store keeps *)
(* a command from being handled twice.                                     *)
(***************************************************************************)
VARIABLES
    stream,           \* "global" and each worker's stream: sequences of commands
    position,         \* how much of its two streams each worker's consumers have delivered
    receipts,         \* tty:control:receipt:<command>
    wire,             \* input payloads that were broadcast
    subscribed,       \* workers subscribed to the session's input channel
    seen              \* seenCommandIds of each worker

controlVars == <<stream, position, receipts, wire, subscribed, seen>>

\* The streams are the global one and one for each worker; a source of commands is one of
\* them or the broadcast.
Streams == {"global", "target"}
Sources == Streams \cup {"input"}
StreamOf(w, q) == IF q = "global" THEN "global" ELSE w

Unread == [q \in Streams |-> 0]

ControlInit(owner) ==
    /\ RuntimeInit(owner)
    /\ stream = [x \in {"global"} \cup Workers |-> <<>>]
    /\ position = [w \in Workers |-> Unread]
    /\ receipts = {}
    /\ wire = {}
    /\ subscribed = up
    /\ seen = [w \in Workers |-> {}]

\* publishTTYSessionControl.
Published(x, c) == stream' = [stream EXCEPT ![x] = Append(@, c)]

\* Changed: the receipt is not looked at.
AcceptedAlways(c) == TRUE

(***************************************************************************)
(* deliver and TTYSessionControlRouter.handle, for both kinds of consumer. *)
(* The worker's handler subscribes to the input of a session that is       *)
(* opened and unsubscribes from one that is terminated.                    *)
(***************************************************************************)
Accepted(c) == c.id \notin receipts

\* SET NX of the receipt; a command that has one is dropped.  The runtime lease of another
\* worker sends the command, under its own id, to that worker's stream; otherwise it is
\* handled here.
Deliver(w, q, c) ==
    /\ w \in up /\ call[w][q].pc = "idle"
    /\ IF ~Accepted(c)
       THEN UNCHANGED <<receipts, call, subscribed, stream, completed, typed>>
       ELSE /\ receipts' = receipts \cup {c.id}
            /\ subscribed' = IF c.type = "open" THEN subscribed \cup {w} ELSE subscribed
            /\ IF lease # None /\ lease.worker # w
               THEN /\ Published(lease.worker, c)
                    /\ call' = [call EXCEPT ![w][q] = [Idle EXCEPT !.pc = "done", !.cmd = c]]
                    /\ UNCHANGED <<completed, typed>>
               ELSE Handled(w, q, c) /\ UNCHANGED stream
    /\ UNCHANGED <<wire, durable, up, managed, closing>>

\* A command that fails gives its receipt back, and is not retried by this consumer.
Settle(w, q) ==
    /\ w \in up /\ call[w][q].pc \in {"done", "failed"}
    /\ receipts' = IF call[w][q].pc = "failed" THEN receipts \ {call[w][q].cmd.id} ELSE receipts
    /\ subscribed' = IF call[w][q].cmd.type = "terminate" THEN subscribed \ {w} ELSE subscribed
    /\ call' = [call EXCEPT ![w][q] = Idle]
    /\ UNCHANGED <<stream, position, wire, seen, durable, local, typed>>

(***************************************************************************)
(* TTYSessionControlConsumer on a store with realtime notifications:       *)
(* start, reconcileRealtime, queueRealtimeEntry, drainRealtime and the     *)
(* session's tail.  However late, repeated, lost or out of order the       *)
(* notifications are, gaps are read from the stream and a session's        *)
(* entries are delivered from the first one on, one after the other.       *)
(***************************************************************************)
Consume(w, q) ==
    /\ position[w][q] < Len(stream[StreamOf(w, q)])
    /\ Deliver(w, q, stream[StreamOf(w, q)][position[w][q] + 1])
    /\ position' = [position EXCEPT ![w][q] = @ + 1]
    /\ UNCHANGED seen

(***************************************************************************)
(* TTYSessionInputBroadcastConsumer.                                       *)
(***************************************************************************)
\* queue: a payload is taken once by each worker.
Hear(w, c) ==
    /\ w \in subscribed /\ c \in wire /\ c.id \notin seen[w]
    /\ Deliver(w, "input", c)
    /\ seen' = [seen EXCEPT ![w] = @ \cup {c.id}]
    /\ UNCHANGED position

\* start subscribes to the sessions of the index, once the manager has started.
Listening(w) == subscribed' = IF indexed THEN subscribed \cup {w} ELSE subscribed

\* What a worker holds of the streams is lost with it.
Deaf(w) ==
    /\ position' = [position EXCEPT ![w] = Unread]
    /\ subscribed' = subscribed \ {w}
    /\ seen' = [seen EXCEPT ![w] = {}]
    /\ UNCHANGED <<stream, receipts, wire>>

---------------------------------------------------------------------------
(* The session and those who use it. *)

CONSTANTS
    Scenarios        \* the initial values of `left`

\* What a view of the session can ask for.
Views == {"open", "write", "resize", "terminate"}

\* A lease lapses under its holder only in a scenario that says so.
ASSUME ScenariosAssumption ==
    /\ Scenarios \subseteq [owner : Workers \cup {None}, script : Seq(Views), crashes : Nat, stops : Nat, stalls : Nat,
                          stalling : BOOLEAN, faults : Nat, faulty : BOOLEAN, exits : Nat, output : Nat, ends : Nat]
    /\ \A s \in Scenarios : s.stalls > 0 => s.stalling

VARIABLES
    browser,         \* the view's input queue, its channel and the batch being sent
    left             \* what the environment may still do, and the operations still to come
sessionsVars == <<runtimeVars, controlVars, browser, left>>

\* What a view of the session asks for, in its order, is the rest of `left.script`; the
\* position of an operation is its command id.
SessionsInit ==
    /\ left \in Scenarios
    /\ ControlInit(left.owner)
    /\ browser = [issued |-> 0, outbox |-> <<>>, sending |-> None, channel |-> left.owner # None]

Spend(kind) == left[kind] > 0 /\ left' = [left EXCEPT ![kind] = @ - 1]

\* A step that may fail spends a fault when it does.
Faulty(fails) == IF fails THEN Spend("faults") ELSE UNCHANGED left

(***************************************************************************)
(* The browser.                                                            *)
(***************************************************************************)
Next1 == [id |-> browser.issued + 1, type |-> left.script[browser.issued + 1]]
Asks == browser.issued < Len(left.script)

\* open and resize go to the control route at once, which refuses a session that is not
\* active, and a terminate latches the session before it is published; publishing may fail.
Request(fails) ==
    /\ Asks /\ Next1.type \in {"open", "resize", "terminate"}
    /\ browser' = [browser EXCEPT !.issued = @ + 1]
    /\ IF Next1.type = "terminate" THEN session' = Latched(session) ELSE UNCHANGED session
    /\ IF fails \/ session = "gone" \/ (Next1.type # "terminate" /\ session # "active")
       THEN UNCHANGED stream ELSE Published("global", Next1)
    /\ Faulty(fails)
    /\ UNCHANGED <<shell, journal, lease, history, indexed, offset, transcript, local, call, typed,
                   position, receipts, wire, subscribed, seen>>

\* prepareInputChannel, after open.
PrepareChannel ==
    /\ ~browser.channel /\ session = "active" /\ browser.issued > 0
    /\ browser' = [browser EXCEPT !.channel = TRUE]
    /\ UNCHANGED <<left, runtimeVars, controlVars>>

\* enqueue and flush: a batch takes its sequence number and waits for the one before it.
Enqueue ==
    /\ Asks /\ Next1.type = "write"
    /\ browser' = [browser EXCEPT !.issued = @ + 1, !.outbox = Append(@, Next1)]
    /\ UNCHANGED <<left, runtimeVars, controlVars>>

\* The batch is broadcast; a send that fails, whether or not it reached anybody, falls back
\* to the control route.
Broadcast(fails, reaches) ==
    /\ browser.outbox # <<>> /\ browser.sending = None /\ browser.channel
    /\ reaches \/ fails
    /\ wire' = IF reaches THEN wire \cup {Head(browser.outbox)} ELSE wire
    /\ browser' = IF fails THEN [browser EXCEPT !.sending = Head(browser.outbox)] ELSE [browser EXCEPT !.outbox = Tail(@)]
    /\ Faulty(fails)
    /\ UNCHANGED <<runtimeVars, stream, position, receipts, subscribed, seen>>

\* The control route, which does not touch the session for a write.  An error rejects the
\* batch, and the next one follows.
SendControl(fails) ==
    /\ browser.outbox # <<>> /\ (browser.sending # None \/ ~browser.channel)
    /\ browser' = [browser EXCEPT !.sending = None, !.outbox = Tail(@)]
    /\ IF fails \/ session # "active" THEN UNCHANGED stream ELSE Published("global", Head(browser.outbox))
    /\ Faulty(fails)
    /\ UNCHANGED <<runtimeVars, position, receipts, wire, subscribed, seen>>

(***************************************************************************)
(* Workers.                                                                *)
(***************************************************************************)
Own(step) == step /\ UNCHANGED <<controlVars, browser, left>>

\* The steps of a worker's manager that cannot fail,
ManagerStep(w) ==
    \/ \E t \in Callers :
           \/ ReadSession(w, t) \/ EndSession(w, t) \/ Closed(w, t) \/ ClaimRuntime(w, t) \/ Promote(w, t) \/ Kill(w, t) \/ Abandon(w, t) \/ Index(w, t)
           \/ Attached(w, t) \/ Unattached(w, t)
    \/ \E c \in closing[w] : FenceStep(w, c) \/ ExitStep(w, c) \/ CloseClient(w, c) \/ Forget(w, c)
    \/ ExitEvent(w) \/ BeatFailed(w) \/ Show(w)

\* and those that may.
FallibleStep(w, fails) ==
    \/ \E t \in Callers : Probe(w, t, fails) \/ Create(w, t, fails) \/ ReplayFirst(w, t, fails)
    \/ Renew(w, fails) \/ ExpireShell(w, fails) \/ Reconcile(w, fails)

\* The heartbeat's timer.  A heartbeat with nothing to change is left out.
Beat(w) == (managed[w] # None /\ (session # "active" \/ ~shell \/ ~Held(lease, managed[w].runtime)) /\ Heartbeat(w, FALSE)) \/ RecoverScan(w)

ConsumerStep(w) == (\E q \in Streams : Consume(w, q)) \/ \E q \in Sources : Settle(w, q)

\* A crash takes the worker's consumers with it; the provisioning of workers starts another.
Crash(w) == Spend("crashes") /\ CrashManager(w) /\ Deaf(w) /\ UNCHANGED browser
Stop(w) == Spend("stops") /\ StopManager(w) /\ Deaf(w) /\ UNCHANGED browser
Start(w) == StartManager(w) /\ Listening(w) /\ UNCHANGED <<stream, position, receipts, wire, seen, browser, left>>

\* A lease expires while its holder lives only when the holder stalls.
Lapse == ExpireLease /\ UNCHANGED <<controlVars, browser>> /\ (IF Kept(lease) THEN Spend("stalls") ELSE UNCHANGED left)

Happens(kind, event) == Spend(kind) /\ event /\ UNCHANGED <<controlVars, browser>>

SessionsNext ==
    \/ \E fails \in BOOLEAN : Request(fails) \/ SendControl(fails) \/ \E reaches \in BOOLEAN : Broadcast(fails, reaches)
    \/ PrepareChannel \/ Enqueue
    \/ \E w \in Workers :
           \/ Own(ManagerStep(w)) \/ Own(Beat(w))
           \/ Own(FallibleStep(w, FALSE)) \/ Happens("faults", FallibleStep(w, TRUE))
           \/ Happens("faults", managed[w] # None /\ Heartbeat(w, TRUE))
           \/ Happens("faults", \E c \in closing[w] : DetachFails(w, c))
           \/ (ConsumerStep(w) /\ UNCHANGED <<browser, left>>)
           \/ (\E c \in wire : Hear(w, c) /\ UNCHANGED <<browser, left>>)
           \/ Start(w) \/ Crash(w) \/ Stop(w)
    \/ Lapse
    \/ Happens("output", Write) \/ Happens("exits", ShellExits) \/ Happens("ends", SessionEnds)

(***************************************************************************)
(* A live worker's loops and timers keep going, a worker that went down is *)
(* started again, and a lease nobody renews expires.  Nothing is assumed   *)
(* of the browser, of notifications or of faults.                          *)
(***************************************************************************)
SessionsSpec ==
    /\ SessionsInit /\ [][SessionsNext]_sessionsVars
    /\ \A w \in Workers :
           /\ WF_sessionsVars(Own(ManagerStep(w))) /\ WF_sessionsVars(Own(FallibleStep(w, FALSE)))
           /\ WF_sessionsVars(Own(Beat(w))) /\ WF_sessionsVars(ConsumerStep(w) /\ UNCHANGED <<browser, left>>)
           /\ WF_sessionsVars(Start(w))
    /\ WF_sessionsVars(Lapse /\ UNCHANGED left)
-----------------------------------------------------------------------------
(***************************************************************************)
(* Properties.                                                             *)
(***************************************************************************)
Statuses == {"active", "terminal", "gone"}
SessionsTypeOK ==
    /\ session \in Statuses /\ shell \in BOOLEAN /\ history \in BOOLEAN /\ indexed \in BOOLEAN
    /\ lease = None \/ (lease.runtime \in Nat \ {0} /\ lease.worker \in Workers)
    /\ offset \in 0..journal /\ transcript \subseteq 1..journal
    /\ \A w \in Workers : (w \notin up => managed[w] = None /\ closing[w] = {}) /\ (managed[w] # None => managed[w].runtime \in Nat \ {0})

\* A write reaches the shell at most once, although the same batch may be broadcast to every
\* worker, published on the stream after the broadcast reported an error, and replayed from
\* the stream's start by each worker that starts.
AtMostOnce == \A i, j \in 1..Len(typed) : typed[i] = typed[j] => i = j

\* A session whose worker was never held up is attached on one worker only: the runtime lease
\* is claimed before the shell is attached and released after it was let go, through fences,
\* exits, failed cleanups, terminations and recoveries that overlap.
Calm == ~left.stalling
AttachedOnce ==
    Calm => \A v, w \in Workers :
        v # w /\ managed[v] # None /\ managed[w] # None => managed[v].fenced \/ managed[w].fenced

\* The shell of a session that ended is ended by some worker in the end, whichever of them
\* crash and whatever becomes of the terminate command.
ShellEnds == (session # "active" /\ indexed /\ ~left.faulty) ~> ~shell

=============================================================================
