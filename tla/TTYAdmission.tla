------------------------------ MODULE TTYAdmission ------------------------------
(***************************************************************************)
(* The front door of the terminals: the lifecycle routes that open, read,  *)
(* touch and end sessions, the route that admits a command to one, and the *)
(* policy both ask.                                                        *)
(*                                                                         *)
(* One user.  The two scripts that check limits are SQL functions, which   *)
(* read in one statement and commit later (see RuntimeStore); what they    *)
(* check may have changed by then.  The counters, the rate window and the  *)
(* worker's side of a job are those of TTYLease.                           *)
(***************************************************************************)
EXTENDS Integers, FiniteSets

CONSTANTS
    Terminals,   \* session ids
    Visits,      \* requests of the user's browsers
    NoJob,       \* no job
    Ceiling,     \* maxConcurrentSessions of the tier
    Slots        \* maxConcurrentExecutionsPerSession

ASSUME AdmissionAssumption == NoJob \notin Visits

VARIABLES
    session,     \* the rows of each session: its core, its idle status, its terminal latch
    index,       \* the owner's index of sessions
    pruning,     \* members of the index that are about to be removed
    admitted,        \* rows of admitted jobs, by the visit that was admitted
    remembered,  \* the idempotency row of each session and key
    visit,       \* what each visit asks, and where it stands
    lapsed,      \* sessions that have been idle for too long at some time
    together,    \* visits whose reservations overlapped, in pairs
    forgotten,   \* visits that had been admitted under a key when its row expired
    direct,      \* the route activates what it has admitted
    turns        \* what may still happen

admissionVars == <<session, index, pruning, admitted, remembered, visit, lapsed, together, forgotten, direct, turns>>

Absence == [core |-> FALSE, status |-> FALSE, terminal |-> FALSE]
Opened == [core |-> TRUE, status |-> TRUE, terminal |-> FALSE]
Rows == {"k1", "k2"}     \* idempotency keys

\* isSessionLive, and the same question in the scripts.
Usable(s) == session[s].core /\ session[s].status /\ ~session[s].terminal
Idled(s) == session[s].core /\ ~session[s].status /\ ~session[s].terminal

\* What a visit may ask: a session id is made for each session that is opened.
Requests == [op : {"create", "get", "end", "touch", "admit"}, terminal : Terminals, key : Rows, input : STRING]
WithNewIds(asked, opened) ==
    /\ asked \in [Visits -> Requests] /\ opened \subseteq Terminals
    /\ \A v \in Visits : asked[v].op = "create" =>
          asked[v].terminal \notin opened /\ \A u \in Visits : asked[u].op = "create" /\ asked[u].terminal = asked[v].terminal => u = v

AdmissionInit(asked, opened, activates, budget) ==
    /\ session = [s \in Terminals |-> IF s \in opened THEN Opened ELSE Absence]
    /\ index = opened /\ pruning = {} /\ admitted = {}
    /\ remembered = [s \in Terminals |-> [k \in Rows |-> NoJob]]
    /\ visit = [v \in Visits |-> [asks |-> asked[v], pc |-> "asked", live |-> {}, dead |-> {}, job |-> NoJob]]
    /\ lapsed = {} /\ together = {} /\ forgotten = {}
    /\ direct = activates /\ turns = budget

Chance(what) == turns[what] > 0 /\ turns' = [turns EXCEPT ![what] = @ - 1]
Step(v, pc) == visit' = [visit EXCEPT ![v].pc = pc]
Stands(v, pc) == visit[v].pc = pc
Asks(v, what) == visit[v].asks.op = what
Terminal(v) == visit[v].asks.terminal

-----------------------------------------------------------------------------
(* Opening a session.                                                      *)

\* evaluateSessionCreationPolicy, and the script.
Full(live) == Cardinality(live) >= Ceiling

\* countActiveSessionsForUser: what is not live is removed from the index without waiting for it.
Count(v) ==
    /\ Stands(v, "asked") /\ Asks(v, "create")
    /\ LET live == {s \in index : Usable(s)} IN
          /\ pruning' = pruning \cup (index \ live)
          /\ Step(v, IF Full(live) THEN "full" ELSE "cap")
    /\ UNCHANGED <<session, index, admitted, remembered, lapsed, together, forgotten, direct, turns>>

Prune(s) ==
    /\ s \in pruning
    /\ pruning' = pruning \ {s}
    /\ index' = index \ {s}
    /\ UNCHANGED <<session, admitted, remembered, visit, lapsed, together, forgotten, direct, turns>>

\* create-with-cap reads the members and counts those that are live.
ReadCap(v) ==
    /\ Stands(v, "cap")
    /\ LET live == {s \in index : Usable(s)} IN
          visit' = [visit EXCEPT ![v].pc = IF Full(live) THEN "full" ELSE "open", ![v].live = live, ![v].dead = index \ live]
    /\ UNCHANGED <<session, index, pruning, admitted, remembered, lapsed, together, forgotten, direct, turns>>

\* Changed: the index is written as it was read.
Indexed_read(v) == visit[v].live \cup {Terminal(v)}
\* What was found dead is removed, and the session added.
Indexed(v) == (index \ visit[v].dead) \cup {Terminal(v)}

\* The core and the idle status, with their lifetimes, and the index.
CommitCap(v) ==
    /\ Stands(v, "open")
    /\ session' = [session EXCEPT ![Terminal(v)] = Opened]
    /\ index' = Indexed(v)
    /\ Step(v, "created")
    /\ UNCHANGED <<pruning, admitted, remembered, lapsed, together, forgotten, direct, turns>>

-----------------------------------------------------------------------------
(* Reading, touching and ending a session.                                 *)

\* latchTerminal: whoever finds a session idle, or is asked to end it, latches it and cleans up.
Latch(v, s) == session' = [session EXCEPT ![s].terminal = TRUE] /\ Step(v, "clean")
Unchanged(v, s, pc) == UNCHANGED session /\ Step(v, pc)

Look(v) ==
    /\ Stands(v, "asked") /\ Asks(v, "get")
    /\ IF Idled(Terminal(v)) THEN Latch(v, Terminal(v))
       ELSE Unchanged(v, Terminal(v), IF Usable(Terminal(v)) THEN "shown" ELSE "gone")
    /\ UNCHANGED <<index, pruning, admitted, remembered, lapsed, together, forgotten, direct, turns>>

End(v) ==
    /\ Stands(v, "asked") /\ Asks(v, "end")
    /\ LET s == Terminal(v) IN
          IF session[s].core /\ ~session[s].terminal THEN Latch(v, s) ELSE Unchanged(v, s, "gone")
    /\ UNCHANGED <<index, pruning, admitted, remembered, lapsed, together, forgotten, direct, turns>>

\* cleanupAfterTerminal: the counters and the status, the jobs and the idempotency rows, the index.
Clean(v) ==
    /\ Stands(v, "clean")
    /\ LET s == Terminal(v) IN
          /\ session' = [session EXCEPT ![s].status = FALSE]
          /\ admitted' = {j \in admitted : Terminal(j) # s}
          /\ remembered' = [remembered EXCEPT ![s] = [k \in Rows |-> NoJob]]
          /\ index' = index \ {s}
    /\ Step(v, "gone")
    /\ UNCHANGED <<pruning, lapsed, together, forgotten, direct, turns>>

\* touchSession asks for the latch and then writes the status, be it there or not.
Touch(v) ==
    /\ Stands(v, "asked") /\ Asks(v, "touch")
    /\ Step(v, IF session[Terminal(v)].core /\ ~session[Terminal(v)].terminal THEN "touch" ELSE "gone")
    /\ UNCHANGED <<session, index, pruning, admitted, remembered, lapsed, together, forgotten, direct, turns>>
Refresh(v) ==
    /\ Stands(v, "touch")
    /\ session' = [session EXCEPT ![Terminal(v)].status = TRUE]
    /\ Step(v, "shown")
    /\ UNCHANGED <<index, pruning, admitted, remembered, lapsed, together, forgotten, direct, turns>>

IdleEnds(s) ==
    /\ session[s].status /\ Chance("idle")
    /\ session' = [session EXCEPT ![s].status = FALSE]
    /\ lapsed' = lapsed \cup {s}
    /\ UNCHANGED <<index, pruning, admitted, remembered, visit, together, forgotten, direct>>

-----------------------------------------------------------------------------
(* Admitting a command.                                                    *)

Unsupported == {"unknown"}     \* what classifyTerminalInput finds no kind for
NeedsScope == {"probe"}             \* TARGET_GATED_EXECUTION_KINDS

\* The input, the session as getSession finds it, and the kind of the command.
Check(v) ==
    /\ Stands(v, "asked") /\ Asks(v, "admit")
    /\ LET s == Terminal(v) IN
          IF Idled(s) THEN Latch(v, s)
          ELSE Unchanged(v, s, IF ~Usable(s) THEN "gone"
                               ELSE IF visit[v].asks.input \in Unsupported THEN "refused" ELSE "authorize")
    /\ UNCHANGED <<index, pruning, admitted, remembered, lapsed, together, forgotten, direct, turns>>

\* A command that names a target needs a verified scope; a failure to find out is a refusal.
AuthorizeTarget(v) ==
    /\ Stands(v, "authorize")
    /\ \/ Step(v, "reserve")
       \/ visit[v].asks.input \in NeedsScope /\ Step(v, "refused")
    /\ UNCHANGED <<session, index, pruning, admitted, remembered, lapsed, together, forgotten, direct, turns>>

\* The remembered command is the one that is asked for.
Fingerprinted(v, id) == visit[id].asks.input = visit[v].asks.input

\* The reservation reads: an idempotency row answers for its job; or the limits allow another.
ReadReserve(v) ==
    /\ Stands(v, "reserve")
    /\ LET s == Terminal(v)
           id == remembered[s][visit[v].asks.key]
           open == {u \in Visits : Stands(u, "insert") /\ u # v}
       IN  IF id # NoJob
           THEN /\ visit' = [visit EXCEPT ![v].pc = IF Fingerprinted(v, id) THEN "activate" ELSE "refused", ![v].job = id]
                /\ UNCHANGED together
           ELSE LET room == Usable(s) /\ Cardinality({j \in admitted : Terminal(j) = s}) < Slots
                IN  /\ Step(v, IF room THEN "insert" ELSE "refused")
                    /\ together' = IF room THEN together \cup {{u, v} : u \in open} ELSE together
    /\ UNCHANGED <<session, index, pruning, admitted, remembered, lapsed, forgotten, direct, turns>>

\* Changed: the job is written without its key.
Remembering_unwritten(v) == remembered
\* The envelope of the job, under the key, whatever was there.
Remembering(v) == [remembered EXCEPT ![Terminal(v)][visit[v].asks.key] = v]
CommitReserve(v) ==
    /\ Stands(v, "insert")
    /\ admitted' = admitted \cup {v}
    /\ remembered' = Remembering(v)
    /\ visit' = [visit EXCEPT ![v].pc = "activate", ![v].job = v]
    /\ UNCHANGED <<session, index, pruning, lapsed, together, forgotten, direct, turns>>

\* The jobs of a session that were admitted under a key.
Under(s, k) == {j \in admitted : Terminal(j) = s /\ visit[j].asks.key = k}

\* An idempotency row expires.
Forget(s, k) ==
    /\ remembered[s][k] # NoJob /\ Chance("forget")
    /\ remembered' = [remembered EXCEPT ![s][k] = NoJob]
    /\ forgotten' = forgotten \cup Under(s, k)
    /\ UNCHANGED <<session, index, pruning, admitted, visit, lapsed, together, direct>>

\* Without activation the answer is immediate.
Queued(v) ==
    /\ Stands(v, "activate") /\ ~direct
    /\ Step(v, "told")
    /\ UNCHANGED <<session, index, pruning, admitted, remembered, lapsed, together, forgotten, direct, turns>>

\* An activation that settles in time is the answer, unless it gives no reason.
Activated(v) ==
    /\ Stands(v, "activate") /\ direct
    /\ \E outcome \in {"told", "unstarted"} : Step(v, outcome)
    /\ UNCHANGED <<session, index, pruning, admitted, remembered, lapsed, together, forgotten, direct, turns>>

\* raceActivationBudget: the budget runs out, or the activation settles without a reason.
Overdue(v) == Stands(v, "activate") /\ direct
Pending(v) ==
    /\ Overdue(v)
    /\ Step(v, "told")
    /\ UNCHANGED <<session, index, pruning, admitted, remembered, lapsed, together, forgotten, direct, turns>>

Handling(v) ==
    \/ Count(v) \/ ReadCap(v) \/ CommitCap(v)
    \/ Look(v) \/ End(v) \/ Clean(v) \/ Touch(v) \/ Refresh(v)
    \/ Check(v) \/ AuthorizeTarget(v) \/ ReadReserve(v) \/ CommitReserve(v) \/ Queued(v) \/ Pending(v)
AdmissionNext ==
    \/ \E v \in Visits : Handling(v) \/ Activated(v)
    \/ \E s \in Terminals : \/ Prune(s) \/ IdleEnds(s)
                            \/ \E k \in Rows : Forget(s, k)

-----------------------------------------------------------------------------
(* Properties.                                                             *)

\* A session that can be used is in its owner's index, where the ceiling counts it and the list
\* shows it: whatever is pruned, opened and ended at the same time. A touch revives a session that
\* has been idle for too long after the index has lost it.
LiveIsListed == \A s \in Terminals : Usable(s) /\ s \notin lapsed => s \in index

\* A command sent again under its key runs once: two jobs of a key are left only by reservations
\* that overlapped, or by one that was made after the key had expired. And whoever is told of a job
\* is told of a job of the session and of the command it asked for.
RetryIsOnce ==
    /\ \A i \in admitted, j \in admitted :
          i # j /\ Terminal(i) = Terminal(j) /\ visit[i].asks.key = visit[j].asks.key
          => {i, j} \in together \/ i \in forgotten \/ j \in forgotten
    /\ \A v \in Visits :
          visit[v].pc \in {"activate", "told", "unstarted"} =>
              /\ Terminal(visit[v].job) = Terminal(v)
              /\ visit[visit[v].job].asks.input = visit[v].asks.input
=============================================================================
