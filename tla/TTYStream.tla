----------------------------- MODULE TTYStream -----------------------------
(***************************************************************************)
(* The live stream of one execution: the worker that publishes its events  *)
(* (tty-stream-broker.ts, publish), the persisted stream they are kept in, *)
(* the broker of a web process that replays and fans them out (subscribe), *)
(* the bounded SSE connection of each viewer (tty-sse-manager.ts), and the *)
(* browser hook at its end (useTTYExecutionStream.ts).  An event is known  *)
(* by its sequence number.  Everything a process does between two awaits   *)
(* is one step; the broker's operations are serialized, and the step       *)
(* between their read of the store and their end is where others run.      *)
(***************************************************************************)
EXTENDS Integers, FiniteSets, SequencesExt, FiniteSetsExt

CONSTANTS
    Viewers,        \* browser hooks of the execution, on one web process
    Modes,          \* how the store tells a web process of new events
    MaxReplay,      \* maxReplayEvents: window of the persisted stream
    MaxBuffered,    \* maxBufferedEvents: window of the hot buffer
    MaxQueue,       \* maxQueueEvents of a connection (its bytes are left out)
    Faults,         \* kinds of faults that happen in the instance
    MaxEvents,      \* bound: events of the execution
    MaxFaults,      \* bound: faults in a behaviour
    None

\* XTRIM, a read of the store, a realtime row, a connection, the web process, or the user, who asks for
\* a replay.
FaultKind == {"trim", "read", "wire", "network", "restart", "user"}

\* A store with subscribeToStream pushes rows, any other is polled.
Mode == {"realtime", "polling"}

ASSUME StreamAssumption ==
    /\ Modes \subseteq Mode
    /\ MaxReplay \in Nat \ {0} /\ MaxBuffered \in Nat \ {0} /\ MaxQueue \in Nat \ {0}
    /\ Faults \subseteq FaultKind
    /\ MaxEvents \in Nat /\ MaxFaults \in Nat
    /\ None \notin Viewers

VARIABLES
    mode,           \* the mode of the instance
    log,            \* types of the events published so far, by sequence
    low,            \* lowest sequence the persisted stream still holds
    trimming,       \* publish() has yet to trim the stream
    channel,        \* realtime subscription of the web process
    wire,           \* rows on their way to the web process
    buffer,         \* the ExecutionBuffer of the web process
    subscribers,    \* subscriptions: a viewer's validation fetch or its source
    op,             \* the serialized operation that has read the store
    conn,           \* the SSE connection of each viewer
    hook,           \* the browser hook of each viewer
    faults          \* faults so far

Fault(kind) ==
    /\ kind \in Faults
    /\ faults < MaxFaults
    /\ faults' = faults + 1

storeVars == <<mode, log, low, trimming>>
brokerVars == <<channel, wire, buffer, subscribers, op>>
vars == <<storeVars, brokerVars, conn, hook, faults>>

-----------------------------------------------------------------------------
(* The persisted stream. *)

Type == {"output", "state", "completion"}
Droppable(s) == log[s] = "output"       \* DROPPABLE_TYPES
Completed == \E s \in DOMAIN log : log[s] = "completion"

\* What XRANGE with a COUNT returns: the oldest rows.
Persisted == low .. Min({Len(log), low + MaxReplay - 1})

\* PUBLISH_LIVE_EVENT_SCRIPT numbers the event and appends its row.  The worker's
\* executions end with their completion, but a pump may still have output then.
Publish(type) ==
    /\ Len(log) < MaxEvents
    /\ ~trimming
    /\ Completed => type = "output"
    /\ log' = Append(log, type)
    /\ trimming' = TRUE
    /\ wire' = IF channel = "joined" THEN Append(wire, Len(log) + 1) ELSE wire
    /\ UNCHANGED <<mode, low, channel, buffer, subscribers, op, conn, hook, faults>>

\* The XTRIM after it, whose failure is ignored.
Trim ==
    /\ trimming
    /\ trimming' = FALSE
    /\ \/ low' = Max({low, Len(log) - MaxReplay + 1}) /\ UNCHANGED faults
       \/ low' = low /\ Fault("trim")
    /\ UNCHANGED <<mode, log, brokerVars, conn, hook>>

-----------------------------------------------------------------------------
(* The bounded queue of a connection.  A frame is an event, by its sequence,  *)
(* or the error event that tells the browser of a failed replay.              *)

Frame == [seq : Nat \ {0}, error : BOOLEAN]
Event(s) == [seq |-> s, error |-> FALSE]
Drops(f) == ~f.error /\ Droppable(f.seq)
Completes(f) == ~f.error /\ log[f.seq] = "completion"

Unconnected == [open |-> FALSE, ready |-> FALSE, after |-> 0, sent |-> 0, queue |-> <<>>,
                closed |-> FALSE, ended |-> FALSE, closing |-> FALSE]

\* The queue without the first of the frames at places, and with f.
Instead(queue, places, f) == Append(RemoveAt(queue, Min(places)), f)

\* BoundedSSEQueue.enqueue: a full queue makes room by dropping output, and for a
\* completion by dropping anything else; otherwise it drops the event itself if
\* it may, and gives the connection up if it may not.
Queued(c, f) ==
    LET q == c.queue
        droppable == {i \in DOMAIN q : Drops(q[i])}
        other == {i \in DOMAIN q : ~Completes(q[i])}
    IN  IF Len(q) < MaxQueue THEN [c EXCEPT !.queue = Append(q, f)]
        ELSE IF droppable # {} THEN [c EXCEPT !.queue = Instead(q, droppable, f)]
        ELSE IF Completes(f) /\ other # {} THEN [c EXCEPT !.queue = Instead(q, other, f)]
        ELSE IF Completes(f) \/ Drops(f) THEN c
        ELSE [c EXCEPT !.closed = TRUE, !.closing = TRUE]

\* enqueueEvent: what was acknowledged, and what follows a completion, is ignored.
Enqueue(c, f) ==
    IF f.seq <= c.after \/ c.ended THEN c
    ELSE IF c.closed THEN [c EXCEPT !.closing = TRUE]
    ELSE LET d == Queued(c, f) IN
         IF Completes(f) /\ Len(d.queue) > 0 /\ Last(d.queue) = f
         THEN [d EXCEPT !.ended = TRUE, !.closing = TRUE]
         ELSE d

\* A replay is queued event by event.
Queueing(c, events) ==
    LET queued[n \in 0 .. Len(events)] ==
            IF n = 0 THEN c ELSE Enqueue(queued[n - 1], Event(events[n]))
    IN  queued
EnqueueAll(c, events) == Queueing(c, events)[Len(events)]

-----------------------------------------------------------------------------
(* The broker of the web process. *)

NoBuffer == [made |-> FALSE, events |-> <<>>, completed |-> FALSE, notified |-> 0]
Idle == [kind |-> "none", viewer |-> None, snapshot |-> {}, failed |-> FALSE]

Sorted(S) ==
    CHOOSE q \in [1 .. Cardinality(S) -> S] : \A i, j \in DOMAIN q : i < j => q[i] < q[j]

\* replayInternal: the rows it read and the hot buffer, as it is by then.
Replay(after) ==
    LET all == op.snapshot \cup ToSet(buffer.events)
        later == {s \in all : s > after}
        events == {s \in later : Cardinality({t \in later : t < s}) < MaxReplay}
        gap == all # {} /\ after < Min(all) - 1
    IN  [status |-> IF gap THEN "gap"
                    ELSE IF op.failed /\ events = {} THEN "unavailable" ELSE "ok",
         events |-> Sorted(events),
         max |-> Max(all \cup {0}),
         next |-> Max(events \cup {after}) + 1,
         completed |-> IF buffer.made THEN buffer.completed
                       ELSE \E s \in all : log[s] = "completion"]

Sources == {v \in Viewers : <<v, "source">> \in subscribers}

\* Mutant of Notify: what was notified before is notified again.
NotifyAgain(state, s) ==
    IF ~state.buffer.made THEN state
    ELSE [buffer |-> [state.buffer EXCEPT !.notified = Max({@, s})],
          conn |-> [v \in Viewers |->
             IF v \in Sources /\ state.conn[v].ready
             THEN Enqueue(state.conn[v], Event(s))
             ELSE state.conn[v]]]

\* notifyPersistedEvent, of a state of the buffer and the connections.
Notify(state, s) ==
    IF ~state.buffer.made \/ s <= state.buffer.notified THEN state
    ELSE [buffer |->
             [state.buffer EXCEPT
                !.events = LET e == Append(@, s) IN
                           IF Len(e) > MaxBuffered THEN Tail(e) ELSE e,
                !.completed = @ \/ log[s] = "completion",
                !.notified = s],
          conn |-> [v \in Viewers |->
             IF v \in Sources /\ state.conn[v].ready
             THEN Enqueue(state.conn[v], Event(s))
             ELSE state.conn[v]]]

Notifying(events) ==
    LET notified[n \in 0 .. Len(events)] ==
            IF n = 0 THEN [buffer |-> buffer, conn |-> conn]
            ELSE Notify(notified[n - 1], events[n])
    IN  notified
NotifyAll(events) == Notifying(events)[Len(events)]

\* unsubscribe of the subscriptions in S, and cleanup once none is left.
Unsubscribe(S) ==
    /\ subscribers' = subscribers \ S
    /\ IF subscribers \ S = {}
       THEN /\ channel' = "off"
            /\ wire' = <<>>
            /\ buffer' = IF buffer.events = <<>> THEN NoBuffer ELSE buffer
       ELSE UNCHANGED <<channel, wire, buffer>>

\* The realtime channel is joined some time after it was asked for.
Join ==
    /\ channel = "joining"
    /\ channel' = "joined"
    /\ UNCHANGED <<storeVars, wire, buffer, subscribers, op, conn, hook, faults>>

Lose ==
    /\ Fault("wire")
    /\ wire # <<>>
    /\ wire' = Tail(wire)
    /\ UNCHANGED <<storeVars, channel, buffer, subscribers, op, conn, hook>>

\* A realtime row reaches the broker.
Deliver ==
    /\ wire # <<>>
    /\ op = Idle
    /\ LET state == Notify([buffer |-> buffer, conn |-> conn], Head(wire)) IN
       /\ buffer' = state.buffer
       /\ conn' = state.conn
    /\ wire' = Tail(wire)
    /\ UNCHANGED <<storeVars, channel, subscribers, op, hook, faults>>

\* An operation reads the persisted stream.
Read(kind, v) ==
    /\ op = Idle
    /\ \/ /\ op' = [kind |-> kind, viewer |-> v, snapshot |-> Persisted, failed |-> FALSE]
          /\ UNCHANGED faults
       \/ /\ op' = [kind |-> kind, viewer |-> v, snapshot |-> {}, failed |-> TRUE]
          /\ Fault("read")

PollRead ==
    /\ mode = "polling"
    /\ subscribers # {}
    /\ Read("poll", None)
    /\ UNCHANGED <<storeVars, channel, wire, buffer, subscribers, conn, hook>>

\* pollRedis: notifies what it read after the last event it had notified.
PollNotify ==
    /\ op.kind = "poll"
    /\ LET replay == Replay(buffer.notified)
           state == IF replay.status = "unavailable" THEN NotifyAll(<<>>)
                    ELSE NotifyAll(replay.events)
       IN /\ buffer' = state.buffer
          /\ conn' = state.conn
    /\ op' = Idle
    /\ UNCHANGED <<storeVars, channel, wire, subscribers, hook, faults>>

-----------------------------------------------------------------------------
(* The browser hook.  It validates the stream with a fetch of its own before  *)
(* it opens an EventSource, whose own reconnections it leaves to the browser. *)

NewHook == [phase |-> "scheduled", last |-> 0, full |-> FALSE, id |-> 0, shown |-> {}]

\* The cursor in the URL; a source that reconnects asks for what follows the last
\* id it received instead.
Cursor(h) == IF h.full THEN 0 ELSE h.last

\* The fetch that validates the stream subscribes to it.
ProbeRead(v) ==
    /\ hook[v].phase = "scheduled"
    /\ <<v, "probe">> \notin subscribers
    /\ Read("probe", v)
    /\ hook' = [hook EXCEPT ![v].phase = "probing"]
    /\ UNCHANGED <<storeVars, channel, wire, buffer, subscribers, conn>>

\* An EventSource asks for the stream, for the first time or again.
SourceRead(v) ==
    /\ hook[v].phase \in {"opening", "native"}
    /\ Read("source", v)
    /\ UNCHANGED <<storeVars, channel, wire, buffer, subscribers, conn, hook>>

\* Mutant of Subscribed: the viewer is taken for informed of all that is published.
SubscribedAhead(v, part, replay) ==
    /\ buffer' = [buffer EXCEPT !.made = TRUE, !.notified = Max({@, Len(log)})]
    /\ subscribers' = subscribers \cup {<<v, part>>}
    /\ channel' = IF mode = "realtime" /\ channel = "off" THEN "joining" ELSE channel
    /\ op' = Idle

\* subscribe(): the broker now takes the viewer for informed up to the replay.
Subscribed(v, part, replay) ==
    /\ buffer' = [buffer EXCEPT !.made = TRUE, !.notified = Max({@, replay.max})]
    /\ subscribers' = subscribers \cup {<<v, part>>}
    /\ channel' = IF mode = "realtime" /\ channel = "off" THEN "joining" ELSE channel
    /\ op' = Idle

\* The hook aborts its fetch as soon as it has the headers, and opens a source.
ProbeSubscribed(v) ==
    /\ op.kind = "probe" /\ op.viewer = v
    /\ Subscribed(v, "probe", Replay(Cursor(hook[v])))
    /\ hook' = [hook EXCEPT ![v].phase = "opening", ![v].id = Cursor(hook[v])]
    /\ UNCHANGED <<storeVars, wire, conn, faults>>

ProbeAborted(v) ==
    /\ <<v, "probe">> \in subscribers
    /\ Unsubscribe({<<v, "probe">>})
    /\ UNCHANGED <<storeVars, op, conn, hook, faults>>

\* open(): the replay is queued before the browser can read, and a replay with a
\* gap is not queued at all.
Opened(after, replay) ==
    LET c == [Unconnected EXCEPT !.open = TRUE, !.after = after, !.sent = after]
        d == EnqueueAll([c EXCEPT !.ready = TRUE], replay.events)
    IN  IF replay.status # "ok"
        THEN [c EXCEPT !.queue = <<[seq |-> replay.next, error |-> TRUE]>>, !.closing = TRUE]
        ELSE [d EXCEPT !.closing = @ \/ (/\ replay.completed
                                         /\ ~\E s \in ToSet(replay.events) : log[s] = "completion")]

SourceSubscribed(v) ==
    /\ op.kind = "source" /\ op.viewer = v
    /\ LET after == IF hook[v].phase = "native" THEN hook[v].id ELSE Cursor(hook[v])
           replay == Replay(after)
       IN /\ Subscribed(v, "source", replay)
          /\ conn' = [conn EXCEPT ![v] = Opened(after, replay)]
    /\ hook' = [hook EXCEPT ![v].phase = "open"]
    /\ UNCHANGED <<storeVars, wire, faults>>

\* Mutant of Received: the sequence of an event is not compared with the last one.
ReceivedBlindly(h, f) ==
    [h EXCEPT !.id = f.seq,
              !.full = @ \/ f.error,
              !.last = Max({@, f.seq}),
              !.shown = IF f.error THEN @ ELSE @ \cup {f.seq},
              !.phase = IF f.error THEN "recovering" ELSE IF Completes(f) THEN "completed" ELSE @]

\* queueEvent and the listeners: a gap closes the source, an error starts the
\* recovery from the saved output, a completion ends the hook's work.
Received(h, f) ==
    LET gap == ~f.error /\ h.last > 0 /\ f.seq > h.last + 1
        g == [h EXCEPT !.id = f.seq,
                       !.full = @ \/ f.error \/ gap,
                       !.last = IF gap THEN @ ELSE Max({@, f.seq}),
                       !.shown = IF gap \/ f.error THEN @ ELSE @ \cup {f.seq}]
    IN  CASE f.error -> [g EXCEPT !.phase = "recovering"]
          [] ~f.error /\ Completes(f) -> [g EXCEPT !.phase = "completed"]
          [] ~f.error /\ ~Completes(f) /\ gap -> [g EXCEPT !.phase = "stuck"]
          [] OTHER -> g

\* pump(): one frame to the browser; whoever ends the connection unsubscribes it.
Send(v) ==
    /\ conn[v].open
    /\ conn[v].queue # <<>>
    /\ LET f == Head(conn[v].queue)
           h == Received(hook[v], f)
           rest == Tail(conn[v].queue)
       IN  IF h.phase # "open" \/ (conn[v].closing /\ rest = <<>>)
           THEN /\ conn' = [conn EXCEPT ![v] = Unconnected]
                /\ Unsubscribe({<<v, "source">>})
                /\ hook' = [hook EXCEPT ![v] =
                              IF h.phase = "open" THEN [h EXCEPT !.phase = "native"] ELSE h]
           ELSE /\ conn' = [conn EXCEPT ![v].queue = rest, ![v].sent = f.seq]
                /\ hook' = [hook EXCEPT ![v] = h]
                /\ UNCHANGED <<channel, wire, buffer, subscribers>>
    /\ UNCHANGED <<storeVars, op, faults>>

\* A connection with nothing left to say is closed; the source will reconnect.
CloseEmpty(v) ==
    /\ conn[v].open /\ conn[v].closing /\ conn[v].queue = <<>>
    /\ conn' = [conn EXCEPT ![v] = Unconnected]
    /\ Unsubscribe({<<v, "source">>})
    /\ hook' = [hook EXCEPT ![v].phase = "native"]
    /\ UNCHANGED <<storeVars, op, faults>>

\* closeConnection() by the idle timer: a queue that nobody reads takes no more.
IdleTimeout(v) ==
    /\ conn[v].open /\ ~conn[v].closed
    /\ conn[v].queue # <<>>
    /\ conn' = [conn EXCEPT ![v].closed = TRUE, ![v].closing = TRUE]
    /\ UNCHANGED <<storeVars, brokerVars, hook, faults>>

\* recoverDurableOutput: the saved output replaces what the stream could not give.
Recover(v) ==
    /\ hook[v].phase = "recovering"
    /\ hook' = [hook EXCEPT
          ![v].last = Max({@, Len(log)}),
          ![v].shown = @ \cup DOMAIN log,
          ![v].phase = IF Completed THEN "completed" ELSE "scheduled"]
    /\ UNCHANGED <<storeVars, brokerVars, conn, faults>>

\* The saved output is unavailable: the hook tries the stream again.
RecoverFails(v) ==
    /\ Fault("read")
    /\ hook[v].phase = "recovering"
    /\ hook' = [hook EXCEPT ![v].phase = "scheduled"]
    /\ UNCHANGED <<storeVars, brokerVars, conn>>

\* clear() and reconnect(), which the workspace's replay button calls.
UserReplay(v) ==
    /\ Fault("user")
    /\ op.viewer # v
    /\ hook' = [hook EXCEPT ![v] = NewHook]
    /\ conn' = [conn EXCEPT ![v] = Unconnected]
    /\ Unsubscribe({<<v, "source">>, <<v, "probe">>})
    /\ UNCHANGED <<storeVars, op>>

\* The network faults a connection.
Break(v) ==
    /\ Fault("network")
    /\ conn[v].open
    /\ conn' = [conn EXCEPT ![v] = Unconnected]
    /\ hook' = [hook EXCEPT ![v].phase = "native"]
    /\ Unsubscribe({<<v, "source">>})
    /\ UNCHANGED <<storeVars, op>>

\* The web process restarts with nothing in memory.
Restart ==
    /\ Fault("restart")
    /\ channel' = "off"
    /\ wire' = <<>>
    /\ buffer' = NoBuffer
    /\ subscribers' = {}
    /\ op' = Idle
    /\ conn' = [v \in Viewers |-> Unconnected]
    /\ hook' = [v \in Viewers |->
          [hook[v] EXCEPT !.phase = CASE @ = "open" -> "native"
                                      [] @ = "probing" -> "scheduled"
                                      [] OTHER -> @]]
    /\ UNCHANGED storeVars

-----------------------------------------------------------------------------
(* The specification. *)

Init ==
    /\ mode \in Modes
    /\ log = <<>>
    /\ low = 1
    /\ trimming = FALSE
    /\ channel = "off"
    /\ wire = <<>>
    /\ buffer = NoBuffer
    /\ subscribers = {}
    /\ op = Idle
    /\ conn = [v \in Viewers |-> Unconnected]
    /\ hook = [v \in Viewers |-> NewHook]
    /\ faults = 0

Worker == (\E type \in Type : Publish(type)) \/ Trim
Channel == Join \/ Deliver
Poller == PollRead \/ PollNotify
Connection(v) ==
    \/ ProbeRead(v) \/ ProbeSubscribed(v) \/ ProbeAborted(v)
    \/ SourceRead(v) \/ SourceSubscribed(v)
    \/ Send(v) \/ CloseEmpty(v)
    \/ Recover(v)
Disturbance(v) == IdleTimeout(v) \/ RecoverFails(v) \/ UserReplay(v) \/ Break(v)

Next ==
    \/ Worker
    \/ Channel
    \/ Lose
    \/ Poller
    \/ \E v \in Viewers : Connection(v) \/ Disturbance(v)
    \/ Restart

Spec == Init /\ [][Next]_vars

\* Timers keep polling, operations are served in the order they were called, and
\* browsers read what they are sent.
Fairness ==
    /\ WF_vars(Join) /\ SF_vars(Deliver) /\ WF_vars(Poller)
    /\ \A v \in Viewers : SF_vars(Connection(v))

FairSpec == Spec /\ Fairness

-----------------------------------------------------------------------------
(* Properties. *)

Seqs == 1 .. MaxEvents

\* Every variable has its type.
TypeOK ==
    /\ mode \in Mode
    /\ log \in Seq(Type) /\ Len(log) <= MaxEvents
    /\ low \in 1 .. MaxEvents + 1
    /\ trimming \in BOOLEAN
    /\ channel \in {"off", "joining", "joined"}
    /\ wire \in Seq(Seqs)
    /\ buffer \in [made : BOOLEAN, events : Seq(Seqs), completed : BOOLEAN, notified : 0 .. MaxEvents]
    /\ subscribers \subseteq Viewers \X {"probe", "source"}
    /\ op \in [kind : {"none", "probe", "source", "poll"}, viewer : Viewers \cup {None},
               snapshot : SUBSET Seqs, failed : BOOLEAN]
    /\ conn \in [Viewers -> [open : BOOLEAN, ready : BOOLEAN, after : Nat, sent : Nat,
                             queue : Seq(Frame), closed : BOOLEAN, ended : BOOLEAN,
                             closing : BOOLEAN]]
    /\ hook \in [Viewers -> [phase : {"scheduled", "probing", "opening", "open", "native",
                                      "recovering", "completed", "stuck"},
                             last : Nat, full : BOOLEAN, id : Nat, shown : SUBSET Seqs]]
    /\ faults \in 0 .. MaxFaults

\* On one connection, events go out in their order, none twice, none the browser has acknowledged and
\* none behind a completion, whatever mixture of replay, hot buffer, polls and realtime rows they come
\* from.
FramesInOrder ==
    \A v \in Viewers :
        LET q == conn[v].queue IN
        /\ \A i \in DOMAIN q : q[i].seq > conn[v].sent
        /\ \A i, j \in DOMAIN q : i < j => q[i].seq < q[j].seq /\ ~Completes(q[i])

\* Whatever connections, brokers and queues lose on the way, the browser knows:
\* until it asks for a full replay, what it shows has no hole (the first event it
\* shows may be any, as it has nothing to compare it with).
GapIsNoticed ==
    \A v \in Viewers :
        LET h == hook[v] IN
        ~h.full => \A s, t \in h.shown : s .. t \subseteq h.shown

\* A viewer that polls is shown the completion in the end, whatever read fails, connection breaks or
\* process restarts, when the stream has not outgrown its window.  (A realtime viewer may miss it: the
\* README has the scenario.)
Fits == low = 1 /\ Len(log) <= MaxReplay
CompletionArrives ==
    \A v \in Viewers :
        (Completed /\ mode = "polling") ~> (hook[v].phase = "completed" \/ ~Fits)
=============================================================================
