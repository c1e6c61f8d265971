--------------------------- MODULE Investigations ---------------------------
(***************************************************************************)
(* One investigation of one owner, kept in the key-value runtime store     *)
(* (investigation-store.ts) and served by the investigation routes         *)
(* (investigation-api.ts, investigation-resolver.ts,                       *)
(* investigation-execution-sync.ts).                                       *)
(*                                                                         *)
(* Every route is a request that runs step by step: a step is one call of  *)
(* the store or of another service, so two requests interleave between any *)
(* two calls, and a request may be cut off after any of them.  The record  *)
(* is read and written whole, without a compare-and-set: `seen` is what    *)
(* the request read.  The counters, the index of the executions and the    *)
(* timeline are keys of their own.                                         *)
(***************************************************************************)
EXTENDS Naturals, FiniteSets, Sequences, Bags, BagsExt

CONSTANTS
    Requests,      \* the requests that can be in flight at the same time
    Sessions,      \* the identifiers the session service can hand out
    Executions,    \* the executions the owner can start
    Absent,        \* no record, no session, no execution
    Text,          \* [Executions -> Seq(...)]: the events each execution writes
    MaxTries,      \* attempts of the canonical resolver
    Unlimited      \* a budget that is never used up

ASSUME InvestigationsAssumption ==
    /\ MaxTries \in Nat \ {0}
    /\ DOMAIN Text = Executions
    /\ Absent \notin Sessions

VARIABLES
    inv,    \* the keys of the investigation
    task,   \* the requests in flight
    tty,    \* the session and execution services behind the routes
    left    \* what may still be asked, and what may still go wrong

invVars == <<inv, task, tty, left>>

Titles == {"first", "second"}
Terminal == {"succeeded", "failed"}
Statuses == {"active", "archived", "deleted"}

Live(record) == record # Absent /\ record.status # "deleted"

\* Which states an execution may be moved to: never backwards, never out of an end.
Reaches == [queued    |-> {"queued", "running"} \cup Terminal,
            running   |-> {"running"} \cup Terminal,
            succeeded |-> {"succeeded"},
            failed    |-> {"failed"}]

\* Changed: a later state of the source replaces whatever was recorded only one step at a time.
CanStep(from, to) == \/ from = to
                     \/ from = "queued" /\ to = "running"

CanTransition(from, to) == to \in Reaches[from]

-----------------------------------------------------------------------------
(* The requests *)

Idle == [op |-> "none", pc |-> "idle", seen |-> Absent, arg |-> Absent, key |-> Absent, then |-> "",
         tries |-> 0, sess |-> Absent, made |-> Absent, exec |-> Absent, state |-> Absent,
         todo |-> {}, pos |-> 0, upto |-> 0, again |-> FALSE]

At(r, pc) == task[r].pc = pc
Op(r) == task[r].op

\* The record with these fields as given, and those it had besides.
Updated(record, fields) ==
    [x \in DOMAIN record \cup DOMAIN fields |-> IF x \in DOMAIN fields THEN fields[x] ELSE record[x]]

Moves(r, fields) == task' = [task EXCEPT ![r] = Updated(@, fields)]
Replies(r) == task' = [task EXCEPT ![r] = Idle]
\* A call that is refused.  `calm` says that nothing has failed, stopped or been ended so far.
Fails == left.fail > 0 /\ left' = [left EXCEPT !.fail = @ - 1, !.calm = FALSE]

Spend(what) == left' = [left EXCEPT ![what] = IF @ = Unlimited THEN @ ELSE @ - 1]

\* Goes on after an event: "end" is the answer.
Continues(r) == IF task[r].then = "end" THEN Replies(r)
                ELSE Moves(r, [pc |-> task[r].then, key |-> Absent, then |-> ""])

\* Appends an event, then goes on.  A key of Absent stands for a key no other request can form
\* (a fresh note, a time stamp), whose mark is never found.
Emits(key, then) == [pc |-> "mark", key |-> key, then |-> then]

Asked(op, pc) == [Idle EXCEPT !.op = op, !.pc = pc]

Begin(r, op, pc, fields) ==
    /\ task[r] = Idle
    /\ left[op] > 0
    /\ Spend(op)
    /\ task' = [task EXCEPT ![r] = Updated(Asked(op, pc), fields)]
    /\ UNCHANGED <<inv, tty>>

StartCreate(r) == Begin(r, "create", "insert", [tries |-> 0])
StartPatch(r) == \E field \in {"second", "active", "archived"} : Begin(r, "patch", "read", [arg |-> field])
StartDelete(r) == Begin(r, "delete", "peek", [tries |-> 0])
StartList(r) == Begin(r, "list", "scan", [tries |-> 0])
StartEnsure(r) == Begin(r, "ensure", "resolve", [tries |-> 0])
StartTerminate(r) == Begin(r, "terminate", "resolve", [tries |-> 0])
\* The session the caller names is a hint: any session there ever was.
StartAttach(r) == \E e \in Executions, s \in Sessions :
                     /\ tty.sess[s] # "none"
                     /\ Begin(r, "attach", "resolve", [exec |-> e, sess |-> s])
StartOpen(r) == Begin(r, "open", "load", [tries |-> 0])
StartBookmark(r) ==
    \E e \in Executions : Begin(r, "bookmark", "note", [exec |-> e, key |-> <<"bookmark", e>>])
StartNote(r) == \E kind \in {"added", "edited", "removed"} : Begin(r, "note", "note", [arg |-> kind])

-----------------------------------------------------------------------------
(* appendTimeline: the mark, the event, and the mark taken back when the event is refused *)

Mark(r) ==
    /\ At(r, "mark")
    /\ IF task[r].key \in inv.marks
       THEN /\ IF Op(r) = "bookmark" THEN Replies(r) ELSE Continues(r)
            /\ UNCHANGED inv
       ELSE /\ inv' = [inv EXCEPT !.marks = @ \cup {task[r].key}]
            /\ Moves(r, [pc |-> "append"])
    /\ UNCHANGED <<tty, left>>

AppendEvent(r) ==
    /\ At(r, "append")
    /\ inv' = [inv EXCEPT !.timeline = @ (+) SetToBag({task[r].key})]
    /\ Continues(r)
    /\ UNCHANGED <<tty, left>>

AppendRefused(r) ==
    /\ At(r, "append")
    /\ Fails
    /\ Moves(r, [pc |-> "unmark"])
    /\ UNCHANGED <<inv, tty>>

Unmark(r) ==
    /\ At(r, "unmark")
    /\ inv' = [inv EXCEPT !.marks = @ \ {task[r].key}]
    /\ CASE Op(r) = "create" -> Moves(r, [pc |-> "undo"])
         [] Op(r) = "open" -> Moves(r, [pc |-> "next"])
         [] OTHER -> Replies(r)
    /\ UNCHANGED <<tty, left>>

-----------------------------------------------------------------------------
(* create, patch, delete, list *)

InsertRecord(r) ==
    /\ At(r, "insert")
    /\ inv.record = Absent
    /\ inv' = [inv EXCEPT !.record = [status |-> "active", title |-> "first", session |-> Absent]]
    /\ Moves(r, [pc |-> "index"])
    /\ UNCHANGED <<tty, left>>

IndexRecord(r) ==
    /\ At(r, "index")
    /\ \/ /\ inv' = [inv EXCEPT !.listed = TRUE]
          /\ Moves(r, Emits(<<"created">>, "end"))
          /\ UNCHANGED left
       \/ /\ Fails
          /\ Moves(r, [pc |-> "undo"])
          /\ UNCHANGED inv
    /\ UNCHANGED tty

\* removeInvestigationKeys
Undo(r) ==
    /\ At(r, "undo")
    /\ inv' = [inv EXCEPT !.record = Absent, !.listed = FALSE, !.session = Absent,
                          !.count = 0, !.evidence = 0, !.marks = {}, !.timeline = EmptyBag, !.bookmarks = {}]
    /\ Replies(r)
    /\ UNCHANGED <<tty, left>>

\* readRecord at the start of patch and delete.
ReadRecord(r) ==
    /\ At(r, "read")
    /\ IF Live(inv.record) THEN Moves(r, [pc |-> "write", seen |-> inv.record]) ELSE Replies(r)
    /\ UNCHANGED <<inv, tty, left>>

WritePatch(r) ==
    /\ At(r, "write")
    /\ Op(r) = "patch"
    /\ LET field == task[r].arg
           seen == task[r].seen
           next == IF field \in Titles THEN [seen EXCEPT !.title = field] ELSE [seen EXCEPT !.status = field]
       IN  /\ inv' = [inv EXCEPT !.record = next]
           /\ IF next.title # seen.title \/ next.status # seen.status
              THEN Moves(r, [pc |-> "append", then |-> "end", seen |-> Absent])
              ELSE Replies(r)
    /\ UNCHANGED <<tty, left>>

\* The delete route looks the session up before the store deletes anything.
Peek(r) ==
    /\ At(r, "peek")
    /\ Moves(r, [pc |-> "read", sess |-> IF Live(inv.record) THEN inv.record.session ELSE Absent])
    /\ UNCHANGED <<inv, tty, left>>

WriteDelete(r) ==
    /\ At(r, "write")
    /\ Op(r) = "delete"
    /\ inv' = [inv EXCEPT !.record = [task[r].seen EXCEPT !.status = "deleted"]]
    /\ Moves(r, [pc |-> "append", then |-> "unlist", seen |-> Absent])
    /\ left' = [left EXCEPT !.calm = FALSE]
    /\ UNCHANGED tty

Unlist(r) ==
    /\ At(r, "unlist")
    /\ inv' = [inv EXCEPT !.listed = FALSE]
    /\ IF Op(r) = "delete" THEN Moves(r, [pc |-> "unbind"]) ELSE Replies(r)
    /\ UNCHANGED <<tty, left>>

Unbind(r) ==
    /\ At(r, "unbind")
    /\ inv' = [inv EXCEPT !.session = Absent]
    /\ IF task[r].sess = Absent THEN Replies(r) ELSE Moves(r, [pc |-> "discard", made |-> task[r].sess])
    /\ UNCHANGED <<tty, left>>

\* list: an entry without a live record leaves the index.
Scan(r) ==
    /\ At(r, "scan")
    /\ IF inv.listed /\ ~Live(inv.record) THEN Moves(r, [pc |-> "unlist"]) ELSE Replies(r)
    /\ UNCHANGED <<inv, tty, left>>

-----------------------------------------------------------------------------
(* The session of the investigation *)

\* resolveCanonicalInvestigation, and what each route does with the answer.
Resolve(r) ==
    /\ At(r, "resolve")
    /\ IF ~Live(inv.record)
       THEN IF task[r].tries + 1 < MaxTries THEN Moves(r, [tries |-> task[r].tries + 1]) ELSE Replies(r)
       ELSE LET s == inv.record.session
            IN  CASE Op(r) = "attach" -> Moves(r, [pc |-> "admit"])
                  [] Op(r) = "terminate" ->
                       IF s = Absent THEN Replies(r) ELSE Moves(r, [pc |-> "kill", sess |-> s])
                  [] OTHER ->
                       Moves(r, [pc |-> IF s = Absent THEN "make" ELSE "probe", sess |-> s])
    /\ UNCHANGED <<inv, tty, left>>

\* A session that is active and has a runtime is reused; one that is gone is cleared once, one
\* without a runtime is cleared twice.
Probe(r) ==
    /\ At(r, "probe")
    /\ LET s == task[r].sess
       IN  CASE tty.sess[s] = "live" -> Replies(r)
             [] tty.sess[s] = "hollow" -> Moves(r, [pc |-> "clear", again |-> TRUE])
             [] OTHER -> Moves(r, [pc |-> "clear", again |-> FALSE])
    /\ UNCHANGED <<inv, tty, left>>

ProbeFails(r) ==
    /\ At(r, "probe")
    /\ Fails
    /\ Replies(r)
    /\ UNCHANGED <<inv, tty>>

\* clearSession: whatever session the record names by now is taken out of it.
AfterClear(r) == CASE Op(r) = "terminate" -> Replies(r)
                   [] task[r].again -> Moves(r, [pc |-> "clear", again |-> FALSE])
                   [] OTHER -> Moves(r, [pc |-> "make"])

Clear(r) ==
    /\ At(r, "clear")
    /\ IF Live(inv.record) /\ inv.record.session # Absent
       THEN Moves(r, [pc |-> "forget", seen |-> inv.record])
       ELSE AfterClear(r)
    /\ UNCHANGED <<inv, tty, left>>

\* The record is written and the session key deleted side by side, in either order.
Forget(r) ==
    /\ At(r, "forget")
    /\ \/ /\ inv' = [inv EXCEPT !.record = [task[r].seen EXCEPT !.session = Absent]]
          /\ Moves(r, [pc |-> "release"])
       \/ /\ inv' = [inv EXCEPT !.session = Absent]
          /\ Moves(r, [pc |-> "blank"])
    /\ UNCHANGED <<tty, left>>

ForgetRest(r) ==
    /\ At(r, "release") \/ At(r, "blank")
    /\ inv' = IF At(r, "release") THEN [inv EXCEPT !.session = Absent]
              ELSE [inv EXCEPT !.record = [task[r].seen EXCEPT !.session = Absent]]
    /\ Moves(r, Updated(Emits(<<"terminated", task[r].seen.session>>, "cleared"), [seen |-> Absent]))
    /\ UNCHANGED <<tty, left>>

Cleared(r) ==
    /\ At(r, "cleared")
    /\ AfterClear(r)
    /\ UNCHANGED <<inv, tty, left>>

Fresh == {s \in Sessions : tty.sess[s] = "none"}

Make(r) ==
    /\ At(r, "make")
    /\ IF Fresh = {}
       THEN Replies(r) /\ UNCHANGED tty
       ELSE \E s \in {CHOOSE s \in Fresh : TRUE} :
              /\ tty' = [tty EXCEPT !.sess[s] = "live"]
              /\ Moves(r, [pc |-> "bind", made |-> s])
    /\ UNCHANGED <<inv, left>>

\* attachSession
Bind(r) ==
    /\ At(r, "bind")
    /\ IF ~Live(inv.record) THEN Moves(r, [pc |-> "discard", sess |-> Absent])
       ELSE IF inv.record.session # Absent THEN Moves(r, [pc |-> "bound", sess |-> inv.record.session])
       ELSE Moves(r, [pc |-> "claim", seen |-> inv.record])
    /\ UNCHANGED <<inv, tty, left>>

\* Changed: the key is set whether or not another request has set it.
ClaimAlways(r) ==
    /\ At(r, "claim")
    /\ inv' = [inv EXCEPT !.session = task[r].made]
    /\ Moves(r, [pc |-> "keep", sess |-> task[r].made])
    /\ UNCHANGED <<tty, left>>

Claim(r) ==
    /\ At(r, "claim")
    /\ IF inv.session = Absent
       THEN /\ inv' = [inv EXCEPT !.session = task[r].made]
            /\ Moves(r, [pc |-> "keep", sess |-> task[r].made])
       ELSE /\ Moves(r, [pc |-> "lookup"])
            /\ UNCHANGED inv
    /\ UNCHANGED <<tty, left>>

Lookup(r) ==
    /\ At(r, "lookup")
    /\ Moves(r, [pc |-> IF inv.session = Absent THEN "discard" ELSE "keep", sess |-> inv.session])
    /\ UNCHANGED <<inv, tty, left>>

Keep(r) ==
    /\ At(r, "keep")
    /\ inv' = [inv EXCEPT !.record = [task[r].seen EXCEPT !.session = task[r].sess]]
    /\ Moves(r, Updated(Emits(<<"attached", task[r].sess>>, "bound"), [seen |-> Absent]))
    /\ UNCHANGED <<tty, left>>

Bound(r) ==
    /\ At(r, "bound")
    /\ IF task[r].sess = task[r].made THEN Replies(r) ELSE Moves(r, [pc |-> "discard"])
    /\ UNCHANGED <<inv, tty, left>>

\* The session the route does not keep is terminated; a failure of that is swallowed.
Discard(r) ==
    /\ At(r, "discard")
    /\ \/ tty' = [tty EXCEPT !.sess[task[r].made] = "gone"] /\ UNCHANGED left
       \/ Fails /\ UNCHANGED tty
    /\ Replies(r)
    /\ UNCHANGED inv

\* The session route's DELETE: the session first, then the reference to it.
Kill(r) ==
    /\ At(r, "kill")
    /\ \/ /\ tty' = [tty EXCEPT !.sess[task[r].sess] = "gone"]
          /\ Moves(r, [pc |-> "clear"])
          /\ left' = [left EXCEPT !.calm = FALSE]
       \/ /\ Fails
          /\ Replies(r)
          /\ UNCHANGED tty
    /\ UNCHANGED inv

-----------------------------------------------------------------------------
(* Attaching an execution *)

\* Admission queues the execution when the session named accepts it.
Admit(r) ==
    /\ At(r, "admit")
    /\ IF tty.sess[task[r].sess] \in {"live", "hollow"}
       THEN /\ tty' = [tty EXCEPT !.exec[task[r].exec] = IF @ = Absent THEN "queued" ELSE @]
            /\ Moves(r, [pc |-> "hold"])
       ELSE /\ Replies(r)
            /\ UNCHANGED tty
    /\ UNCHANGED <<inv, left>>

\* attachExecution
Hold(r) ==
    /\ At(r, "hold")
    /\ IF Live(inv.record) THEN Moves(r, [pc |-> "enter"]) ELSE Replies(r)
    /\ UNCHANGED <<inv, tty, left>>

Enter(r) ==
    /\ At(r, "enter")
    /\ IF inv.execs[task[r].exec] = Absent
       THEN /\ inv' = [inv EXCEPT !.execs[task[r].exec] = "queued"]
            /\ Moves(r, [pc |-> "count"])
       ELSE /\ Replies(r)
            /\ UNCHANGED inv
    /\ UNCHANGED <<tty, left>>

\* The index and the counter, side by side.
Count(r) ==
    /\ At(r, "count")
    /\ inv' = [inv EXCEPT !.index = @ \cup {task[r].exec}, !.count = @ + 1]
    /\ Moves(r, [pc |-> "recount", key |-> <<"queued", task[r].exec>>])
    /\ UNCHANGED <<tty, left>>

\* refreshCounts writes back the record it reads, whatever its status.
Recount(r) ==
    /\ At(r, "recount")
    /\ Moves(r, [pc |-> "rewrite", seen |-> inv.record])
    /\ UNCHANGED <<inv, tty, left>>

Rewrite(r) ==
    /\ At(r, "rewrite")
    /\ inv' = [inv EXCEPT !.record = task[r].seen]
    /\ IF Op(r) = "bookmark" THEN Replies(r)
       ELSE Moves(r, Updated(Emits(task[r].key, "end"), [seen |-> Absent]))
    /\ UNCHANGED <<tty, left>>

-----------------------------------------------------------------------------
(* Bookmarks and notes *)

\* recordBookmark and recordNote ask for a record of any status; editing or deleting a note asks
\* for a live record and for the note.
Note(r) ==
    /\ At(r, "note")
    /\ LET found == CASE Op(r) = "bookmark" -> inv.record # Absent
                      [] task[r].arg = "added" -> inv.record # Absent
                      [] OTHER -> Live(inv.record) /\ <<"note", "added">> \in BagToSet(inv.timeline)
                                    /\ <<"note", "removed">> \notin BagToSet(inv.timeline)
       IN  IF ~found THEN Replies(r)
           ELSE IF Op(r) = "bookmark" THEN Moves(r, Emits(task[r].key, "pin"))
           ELSE Moves(r, [pc |-> "append", key |-> <<"note", task[r].arg>>, then |-> "end"])
    /\ UNCHANGED <<inv, tty, left>>

Pin(r) ==
    /\ At(r, "pin")
    /\ inv' = [inv EXCEPT !.bookmarks = @ \cup {task[r].exec}]
    /\ Moves(r, [pc |-> "tally"])
    /\ UNCHANGED <<tty, left>>

Tally(r) ==
    /\ At(r, "tally")
    /\ inv' = [inv EXCEPT !.evidence = @ + 1]
    /\ Moves(r, [pc |-> "recount"])
    /\ UNCHANGED <<tty, left>>

-----------------------------------------------------------------------------
(* Opening an investigation synchronises its executions first.  The route waits a bounded time   *)
(* for that, then answers; the synchronisation itself runs on, as the rest of the request here.  *)

Load(r) ==
    /\ At(r, "load")
    /\ IF Live(inv.record)
       THEN Moves(r, [pc |-> "next", todo |-> {e \in inv.index : inv.execs[e] # Absent}])
       ELSE Replies(r)
    /\ UNCHANGED <<inv, tty, left>>

\* synchronizeExecution: the state of the source as it is now.
NextExecution(r) ==
    /\ At(r, "next")
    /\ IF task[r].todo = {} THEN Replies(r)
       ELSE \E e \in task[r].todo :
              Moves(r, [pc |-> "update", exec |-> e, state |-> tty.exec[e], todo |-> task[r].todo \ {e}])
    /\ UNCHANGED <<inv, tty, left>>

\* updateExecution: read, compare, write; a state out of order is left alone.
ReadMirror(r) ==
    /\ At(r, "update")
    /\ IF Live(inv.record) /\ CanTransition(inv.execs[task[r].exec], task[r].state)
       THEN Moves(r, [pc |-> "mirror"])
       ELSE Moves(r, [pc |-> "output"])
    /\ UNCHANGED <<inv, tty, left>>

StateKey(e, state) == CASE state = "running" -> <<"started", e>>
                        [] state \in Terminal -> <<"terminal", e, state>>
                        [] OTHER -> <<"queued", e>>

WriteMirror(r) ==
    /\ At(r, "mirror")
    /\ inv' = [inv EXCEPT !.execs[task[r].exec] = task[r].state]
    /\ Moves(r, Emits(StateKey(task[r].exec, task[r].state), "output"))
    /\ UNCHANGED <<tty, left>>

\* getOutput: what has been written up to now.
ReadOutput(r) ==
    /\ At(r, "output")
    /\ Moves(r, [pc |-> "replay", pos |-> 1, upto |-> tty.out[task[r].exec]])
    /\ UNCHANGED <<inv, tty, left>>

\* persistOutputEvent, event by event; any record that is there will do.
EventKey(e, i) == CASE Text[e][i] = "text" -> <<"output", e, i>>
                    [] Text[e][i] = "running" -> <<"started", e>>
                    [] OTHER -> <<"terminal", e, Text[e][i]>>

Replay(r) ==
    /\ At(r, "replay")
    /\ IF task[r].pos > task[r].upto THEN Moves(r, [pc |-> "next", pos |-> 0, upto |-> 0])
       ELSE IF inv.record = Absent THEN Moves(r, [pos |-> task[r].pos + 1])
       ELSE Moves(r, Updated(Emits(EventKey(task[r].exec, task[r].pos), "replay"), [pos |-> task[r].pos + 1]))
    /\ UNCHANGED <<inv, tty, left>>

-----------------------------------------------------------------------------
(* The services behind the routes, and what goes wrong *)

ExecutionRuns(e) ==
    /\ tty.exec[e] \in {"queued", "running"}
    /\ tty' = [tty EXCEPT !.exec[e] = IF @ = "queued" THEN "running" ELSE Text[e][Len(Text[e])]]
    /\ UNCHANGED <<inv, task, left>>

\* The stream ends with the completion, written before or after the state is.
ExecutionWrites(e) ==
    /\ tty.exec[e] \in {"running"} \cup Terminal
    /\ tty.out[e] < Len(Text[e])
    /\ tty' = [tty EXCEPT !.out[e] = @ + 1]
    /\ UNCHANGED <<inv, task, left>>

\* A session loses its worker, or ends.
SessionDies(s) ==
    /\ left.die > 0
    /\ \/ tty.sess[s] = "live" /\ tty' = [tty EXCEPT !.sess[s] = "hollow"]
       \/ tty.sess[s] \in {"live", "hollow"} /\ tty' = [tty EXCEPT !.sess[s] = "gone"]
    /\ left' = [left EXCEPT !.die = @ - 1, !.calm = FALSE]
    /\ UNCHANGED <<inv, task>>

\* The server that runs a request stops.
Cut(r) ==
    /\ left.cut > 0
    /\ task[r] # Idle
    /\ left' = [left EXCEPT !.cut = @ - 1, !.calm = FALSE]
    /\ Replies(r)
    /\ UNCHANGED <<inv, tty>>

-----------------------------------------------------------------------------
Start(r) == \/ StartCreate(r) \/ StartPatch(r) \/ StartDelete(r) \/ StartList(r)
            \/ StartEnsure(r) \/ StartTerminate(r) \/ StartAttach(r) \/ StartOpen(r)
            \/ StartBookmark(r) \/ StartNote(r)

Step(r) == \/ Mark(r) \/ AppendEvent(r) \/ AppendRefused(r) \/ Unmark(r)
           \/ InsertRecord(r) \/ IndexRecord(r) \/ Undo(r) \/ ReadRecord(r) \/ WritePatch(r)
           \/ Peek(r) \/ WriteDelete(r) \/ Unlist(r) \/ Unbind(r) \/ Scan(r)
           \/ Resolve(r) \/ Probe(r) \/ ProbeFails(r) \/ Clear(r) \/ Forget(r) \/ ForgetRest(r) \/ Cleared(r)
           \/ Make(r) \/ Bind(r) \/ Claim(r) \/ Lookup(r) \/ Keep(r) \/ Bound(r) \/ Discard(r) \/ Kill(r)
           \/ Admit(r) \/ Hold(r) \/ Enter(r) \/ Count(r) \/ Recount(r) \/ Rewrite(r)
           \/ Note(r) \/ Pin(r) \/ Tally(r)
           \/ Load(r) \/ NextExecution(r) \/ ReadMirror(r) \/ WriteMirror(r) \/ ReadOutput(r) \/ Replay(r)

InvestigationNext ==
    \/ \E r \in Requests : Start(r) \/ Step(r) \/ Cut(r)
    \/ \E e \in Executions : ExecutionRuns(e) \/ ExecutionWrites(e)
    \/ \E s \in Sessions : SessionDies(s)

NoInvestigation ==
    [record |-> Absent, listed |-> FALSE, session |-> Absent, count |-> 0, evidence |-> 0, marks |-> {},
     timeline |-> EmptyBag, bookmarks |-> {}, execs |-> [e \in Executions |-> Absent], index |-> {}]

NoServices == [sess |-> [s \in Sessions |-> "none"], exec |-> [e \in Executions |-> Absent],
               out |-> [e \in Executions |-> 0]]

\* An investigation that is there already, with a session that is too when s is one.
Begun(s) ==
    [NoInvestigation EXCEPT
        !.record = [status |-> "active", title |-> "first", session |-> s], !.listed = TRUE, !.session = s,
        !.marks = {<<"created">>} \cup (IF s = Absent THEN {} ELSE {<<"attached", s>>}),
        !.timeline = SetToBag({<<"created">>} \cup (IF s = Absent THEN {} ELSE {<<"attached", s>>}))]

\* ... and an execution that is attached and waits.
BegunWith(s, e) ==
    [Begun(s) EXCEPT !.execs[e] = "queued", !.index = {e}, !.count = 1,
                     !.marks = @ \cup {<<"queued", e>>}, !.timeline = @ (+) SetToBag({<<"queued", e>>})]

Nobody == [r \in Requests |-> Idle]

\* What may be asked, and what may go wrong: budgets, and whether something has gone wrong yet.
Counts == Nat \cup {Unlimited}
Budgets == [create : Counts, patch : Counts, delete : Counts, list : Counts, ensure : Counts, terminate : Counts,
            attach : Counts, open : Counts, bookmark : Counts, note : Counts, fail : Nat, cut : Nat, die : Nat,
            calm : BOOLEAN]

\* A behaviour starts without an investigation or with one that is complete; no session lives but
\* the one it names.
Beginning(from, services, budget) ==
    /\ from \in {NoInvestigation} \cup {Begun(s) : s \in Sessions \cup {Absent}}
                \cup {BegunWith(s, e) : s \in Sessions \cup {Absent}, e \in Executions}
    /\ services \in [sess : [Sessions -> {"none", "live", "gone"}], exec : [Executions -> {Absent, "queued", "running"}],
                     out : [Executions -> Nat]]
    /\ \A s \in Sessions : services.sess[s] = "live" <=> s = from.session
    /\ budget \in Budgets

InvestigationInit == task = Nobody /\ Beginning(inv, tty, left)

-----------------------------------------------------------------------------
(* Properties *)

Quiet == task = Nobody

\* While nothing has failed or ended, no session is left over when the requests are done: each
\* one that lives is named by the key the next request will find, however many requests
\* created a session for the investigation at the same time, and whatever a patch that ran
\* beside them wrote over the record.
SessionAccounted ==
    Quiet /\ left.calm => \A s \in Sessions : tty.sess[s] = "live" => s = inv.session

\* An execution that has ended is shown as it ended, as long as the investigation is opened
\* again and again: no request that was delayed puts an older state back for good.
MirrorCatchesUp ==
    \A e \in Executions :
        (tty.exec[e] \in Terminal /\ e \in inv.index /\ left.open = Unlimited)
            ~> [](inv.execs[e] = tty.exec[e] \/ ~Live(inv.record))
=============================================================================
