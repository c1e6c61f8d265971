------------------------- MODULE InvestigationClient -------------------------
(***************************************************************************)
(* One browser and the investigations of its user: the list                *)
(* (useInvestigations.ts) with its realtime feed                           *)
(* (investigation-realtime.ts and the bridge trigger of the database), the *)
(* open workspace (useInvestigationWorkspace.ts) and its graph explorer    *)
(* (useEvidenceGraph.ts).                                                  *)
(*                                                                         *)
(* The routes are taken as single steps here.  A call is sent, served and  *)
(* answered in three steps, so answers overtake each other, and what the   *)
(* user does next may come before any of them.                             *)
(***************************************************************************)
EXTENDS Naturals, FiniteSets, Sequences, SequencesExt, TLC

CONSTANTS
    Ids,         \* the investigations there can be
    Void,        \* no investigation, no record, no answer
    PageSize     \* records on a page of the list

RowTitles == {"first", "second", "third"}
RowStates == {"active", "archived", "deleted"}
Rows(ids) == [id : ids, title : RowTitles, status : RowStates, at : Nat]

ASSUME ClientAssumption ==
    /\ PageSize \in Nat \ {0}
    /\ Void \notin RowTitles \cup RowStates /\ Void \notin Rows(Ids) /\ Void \notin [ok : {TRUE}, row : Rows(Ids)]

VARIABLES
    server,      \* the records, in the order of the list, and the clock that stamps them
    feed,        \* realtime events on their way
    view,        \* the list
    desk,        \* the workspace and its explorer
    calls,       \* HTTP calls in flight
    asks         \* what the user may still do, and what may still go wrong

clientVars == <<server, feed, view, desk, calls, asks>>

Ask(what) == asks[what] > 0 /\ asks' = [asks EXCEPT ![what] = @ - 1]

\* The members of a list at some of its places.
Those(list, places) ==
    LET upto[n \in 0..Len(list)] ==
            IF n = 0 THEN <<>>
            ELSE IF n \in places THEN Append(upto[n - 1], list[n])
            ELSE upto[n - 1]
    IN  upto[Len(list)]

LiveRows == Those(server.rows, {i \in DOMAIN server.rows : server.rows[i].status # "deleted"})
Found(rows, id) == SelectInSeq(rows, LAMBDA row : row.id = id)
RowOf(id) == LET i == Found(server.rows, id) IN IF i = 0 THEN Void ELSE server.rows[i]

Upto(list, from, to) == SubSeq(list, from + 1, IF to < Len(list) THEN to ELSE Len(list))
Page(from) == Upto(LiveRows, from, from + PageSize)
CursorAfter(from) == IF Len(LiveRows) > from + PageSize THEN from + PageSize ELSE Void

-----------------------------------------------------------------------------
(* Calls *)

FreeNumber == CHOOSE n \in 1..(Cardinality(calls) + 1) : \A c \in calls : c.no # n

Call(op, id, fields) ==
    LET blank == [no |-> FreeNumber, op |-> op, id |-> id, arg |-> Void, from |-> 0, request |-> 0, version |-> 0,
                  previous |-> Void, place |-> 0, reply |-> Void]
    IN  [x \in DOMAIN blank |-> IF x \in DOMAIN fields THEN fields[x] ELSE blank[x]]

Send(call) == calls' = calls \cup {call}
Pending(c) == c.reply = Void
Answered(c) == calls' = calls \ {c}

-----------------------------------------------------------------------------
(* The server.  Every write of a record is a realtime event, by the trigger of the bridge. *)

Stored(row) ==
    LET i == Found(server.rows, row.id)
        stamped == [row EXCEPT !.at = server.clock + 1]
    IN  /\ server' = [clock |-> server.clock + 1,
                      rows |-> IF i = 0 THEN <<stamped>> \o server.rows ELSE [server.rows EXCEPT ![i] = stamped]]
        /\ feed' = IF asks.realtime THEN Append(feed, stamped) ELSE feed

Reply(c, reply) == calls' = (calls \ {c}) \cup {[c EXCEPT !.reply = reply]}
Serves(c, reply) == Reply(c, reply) /\ UNCHANGED <<server, feed>>

Patched(row, arg) == IF arg \in {"active", "archived"} THEN [row EXCEPT !.status = arg] ELSE [row EXCEPT !.title = arg]

NotFound == [ok |-> FALSE, gone |-> TRUE]
Failed == [ok |-> FALSE, gone |-> FALSE]

Serve(c) ==
    /\ c \in calls /\ Pending(c)
    /\ LET row == RowOf(c.id)
           live == row # Void /\ row.status # "deleted"
           next == [Patched(row, c.arg) EXCEPT !.at = server.clock + 1]
       IN  CASE c.op \in {"refresh", "more"} ->
                  Serves(c, [ok |-> TRUE, rows |-> Page(c.from), cursor |-> CursorAfter(c.from)])
             [] c.op = "create" ->
                  /\ Stored([id |-> c.id, title |-> "first", status |-> "active", at |-> 0])
                  /\ Reply(c, [ok |-> TRUE, row |-> [id |-> c.id, title |-> "first", status |-> "active",
                                                     at |-> server.clock + 1]])
             [] c.op \in {"patch", "edit"} /\ live -> Stored(next) /\ Reply(c, [ok |-> TRUE, row |-> next])
             [] c.op \in {"remove", "discard"} /\ live ->
                  Stored([row EXCEPT !.status = "deleted"]) /\ Reply(c, [ok |-> TRUE])
             [] c.op \in {"load", "post", "summary"} /\ live -> Serves(c, [ok |-> TRUE, row |-> row])
             [] OTHER -> Serves(c, NotFound)
    /\ UNCHANGED <<view, desk, asks>>

\* The server refuses a call, or cannot be reached.
Refuse(c) ==
    /\ c \in calls /\ Pending(c)
    /\ Ask("fail")
    /\ Serves(c, Failed)
    /\ UNCHANGED <<view, desk>>

-----------------------------------------------------------------------------
(* The list *)

Replaced(list, row) == [i \in 1..Len(list) |-> IF list[i].id = row.id THEN row ELSE list[i]]
Without(list, id) == Those(list, {i \in DOMAIN list : list[i].id # id})

Mutating == \E c \in calls : c.op \in {"patch", "remove"}

\* refresh: every call has a number, and remembers how many mutations had begun.
Refresh ==
    /\ Ask("refresh")
    /\ asks.overlap \/ ~Mutating
    /\ Send(Call("refresh", Void, [request |-> view.request + 1, version |-> view.version]))
    /\ view' = [view EXCEPT !.request = @ + 1]
    /\ UNCHANGED <<server, feed, desk>>

LoadMore ==
    /\ Ask("more")
    /\ asks.overlap \/ ~Mutating
    /\ view.cursor # Void /\ ~view.paging
    /\ Send(Call("more", Void, [from |-> view.cursor, request |-> view.request + 1, version |-> view.version]))
    /\ view' = [view EXCEPT !.request = @ + 1, !.paging = TRUE]
    /\ UNCHANGED <<server, feed, desk>>

\* An answer counts when no later call was made and no mutation has begun since.
Current(c) == c.request = view.request /\ c.version = view.version

Listed(c) ==
    /\ c \in calls /\ ~Pending(c) /\ c.op \in {"refresh", "more"}
    /\ LET paged == IF c.op = "more" THEN [view EXCEPT !.paging = FALSE] ELSE view
       IN  view' = IF ~c.reply.ok \/ ~Current(c) THEN paged
                   ELSE [paged EXCEPT !.cursor = c.reply.cursor,
                                      !.list = IF c.op = "more" THEN @ \o c.reply.rows ELSE c.reply.rows]
    /\ Answered(c)
    /\ UNCHANGED <<server, feed, desk, asks>>

\* create: one at a time.
Create ==
    /\ ~\E c \in calls : c.op = "create"
    /\ \E id \in Ids : /\ RowOf(id) = Void
                       /\ Ask("create")
                       /\ Send(Call("create", id, [place |-> 1]))
    /\ UNCHANGED <<server, feed, view, desk>>

Created(c) ==
    /\ c \in calls /\ ~Pending(c) /\ c.op = "create"
    /\ view' = IF ~c.reply.ok THEN view
               ELSE [view EXCEPT !.version = @ + 1, !.list = <<c.reply.row>> \o Without(@, c.id)]
    /\ Answered(c)
    /\ UNCHANGED <<server, feed, desk, asks>>

\* patch and remove queue behind the mutation of the same investigation.
Want(id, op, arg) ==
    /\ Ask(op)
    /\ Found(view.list, id) # 0
    /\ view' = [view EXCEPT !.waits[id] = Append(@, [op |-> op, arg |-> arg]),
                            !.wanted[id] = IF @ = Void \/ arg = "archived" THEN @ ELSE arg]
    /\ UNCHANGED <<server, feed, desk, calls>>

Optimistic(row, arg) == [Patched(row, arg) EXCEPT !.at = server.clock]

\* Changed: a mutation is sent without waiting for the one before it.
NextAny(id) == view.waits[id] # <<>>

InTurn(id) == view.waits[id] # <<>> /\ ~\E c \in calls : c.op \in {"patch", "remove"} /\ c.id = id

Mutate(id) ==
    /\ InTurn(id)
    /\ LET want == Head(view.waits[id])
           i == Found(view.list, id)
           previous == IF i = 0 THEN Void ELSE view.list[i]
           shown == CASE i = 0 -> view.list
                      [] i # 0 /\ want.op = "patch" -> Replaced(view.list, Optimistic(previous, want.arg))
                      [] OTHER -> Without(view.list, id)
       IN  /\ view' = [view EXCEPT !.version = @ + 1, !.list = shown, !.waits[id] = Tail(@)]
           /\ Send(Call(want.op, id, [arg |-> want.arg, previous |-> previous, place |-> i]))
    /\ UNCHANGED <<server, feed, desk, asks>>

PutBack(list, row, place) ==
    IF Found(list, row.id) # 0 THEN list
    ELSE LET i == IF place > Len(list) + 1 THEN Len(list) + 1 ELSE place
         IN  InsertAt(list, i, row)

\* The answer replaces the optimistic row; a failure brings the previous one back.
Mutated(c) ==
    /\ c \in calls /\ ~Pending(c) /\ c.op \in {"patch", "remove"}
    /\ view' = CASE c.op = "patch" /\ c.reply.ok -> [view EXCEPT !.list = Replaced(@, c.reply.row)]
                 [] c.op = "patch" /\ ~c.reply.ok /\ c.previous # Void -> [view EXCEPT !.list = Replaced(@, c.previous)]
                 [] c.op = "remove" /\ ~c.reply.ok /\ c.previous # Void ->
                      [view EXCEPT !.list = PutBack(@, c.previous, c.place)]
                 [] OTHER -> view
    /\ Answered(c)
    /\ UNCHANGED <<server, feed, desk, asks>>

\* applyInvestigationRealtimeChange: an older state than the one shown is ignored; one of an
\* investigation that is not shown is put on top.
Deliver ==
    /\ feed # <<>>
    /\ feed' = Tail(feed)
    /\ LET row == Head(feed)
           i == Found(view.list, row.id)
       IN  view' = CASE row.status = "deleted" -> [view EXCEPT !.list = Without(@, row.id)]
                     [] row.status # "deleted" /\ i = 0 -> [view EXCEPT !.list = <<row>> \o @]
                     [] row.status # "deleted" /\ i # 0 /\ view.list[i].at < row.at ->
                          [view EXCEPT !.list = Replaced(@, row)]
                     [] OTHER -> view
    /\ UNCHANGED <<server, desk, calls, asks>>

-----------------------------------------------------------------------------
(* The workspace.  `data` is the row it shows with the investigation whose *)
(* timeline and executions stand beside it.                                *)

DeskLoad(id, state) ==
    /\ Send(Call("load", id, [request |-> state.request + 1]))
    /\ desk' = [state EXCEPT !.request = @ + 1]

\* Another investigation is opened: what is shown of the old one goes at once.  The explorer's
\* refresh starts with it, and drops what it shows of another investigation.
Select(id) ==
    /\ Ask("select")
    /\ id # desk.selected /\ RowOf(id) # Void
    /\ Send(Call("load", id, [request |-> desk.request + 1]))
    /\ desk' = [desk EXCEPT !.selected = id, !.data = Void, !.request = @ + 1, !.graphRequest = @ + 1,
                            !.fetching = FALSE]
    /\ UNCHANGED <<server, feed, view>>

\* The window comes back: the page is loaded again.
Reload ==
    /\ Ask("reload")
    /\ desk.selected # Void
    /\ DeskLoad(desk.selected, desk)
    /\ UNCHANGED <<server, feed, view>>

\* The page lets go of the investigation, and loads nothing.
LetGo == [desk EXCEPT !.data = Void, !.selected = Void, !.request = @ + 1]

\* Only the answer to the last load counts; one that finds nothing clears the page, a failure keeps it.
LastLoad(c) == c.request = desk.request

Loaded(c) ==
    /\ c \in calls /\ ~Pending(c) /\ c.op = "load"
    /\ desk' = IF ~LastLoad(c) THEN desk
               ELSE IF c.reply.ok THEN [desk EXCEPT !.data = [of |-> c.id, row |-> c.reply.row]]
               ELSE IF c.reply.gone THEN LetGo
               ELSE desk
    /\ Answered(c)
    /\ UNCHANGED <<server, feed, view, asks>>

\* patch and remove overtake the loads in flight.
Edit(op, arg) ==
    /\ Ask(op)
    /\ desk.selected # Void
    /\ Send(Call(op, desk.selected, [arg |-> arg]))
    /\ desk' = [desk EXCEPT !.request = @ + 1]
    /\ UNCHANGED <<server, feed, view>>

Edited(c) ==
    /\ c \in calls /\ ~Pending(c) /\ c.op \in {"edit", "discard"}
    /\ desk' = CASE c.op = "edit" /\ c.reply.ok /\ desk.data # Void -> [desk EXCEPT !.data.row = c.reply.row]
                 [] c.op = "discard" /\ c.reply.ok -> LetGo
                 [] OTHER -> desk
    /\ Answered(c)
    /\ UNCHANGED <<server, feed, view, asks>>

\* Sessions, notes, bookmarks and executions go through one queue; each is followed by a load of
\* the investigation it was asked for.
Post ==
    /\ Ask("post")
    /\ desk.selected # Void
    /\ desk' = [desk EXCEPT !.queue = Append(@, desk.selected)]
    /\ UNCHANGED <<server, feed, view, calls>>

PostNext ==
    /\ desk.queue # <<>> /\ ~desk.posting
    /\ Send(Call("post", Head(desk.queue), [place |-> 1]))
    /\ desk' = [desk EXCEPT !.queue = Tail(@), !.posting = TRUE]
    /\ UNCHANGED <<server, feed, view, asks>>

Posted(c) ==
    /\ c \in calls /\ ~Pending(c) /\ c.op = "post"
    /\ IF c.reply.ok
       THEN /\ calls' = (calls \ {c}) \cup {[c EXCEPT !.op = "load", !.request = desk.request + 1, !.reply = Void]}
            /\ desk' = [desk EXCEPT !.posting = FALSE, !.request = @ + 1]
       ELSE Answered(c) /\ desk' = [desk EXCEPT !.posting = FALSE]
    /\ UNCHANGED <<server, feed, view, asks>>

\* The explorer's refresh: one at a time, by the clock and when the investigation changes.
Explore ==
    /\ Ask("explore")
    /\ desk.selected # Void /\ ~desk.fetching
    /\ Send(Call("summary", desk.selected, [request |-> desk.graphRequest + 1]))
    /\ desk' = [desk EXCEPT !.graphRequest = @ + 1, !.fetching = TRUE,
                            !.graph = IF @ = desk.selected THEN @ ELSE Void]
    /\ UNCHANGED <<server, feed, view>>

Explored(c) ==
    /\ c \in calls /\ ~Pending(c) /\ c.op = "summary"
    /\ desk' = IF c.request # desk.graphRequest THEN desk
               ELSE [desk EXCEPT !.fetching = FALSE, !.graph = IF c.reply.ok THEN c.id ELSE Void,
                                 !.summary = IF c.reply.ok THEN c.reply.row.id ELSE Void]
    /\ Answered(c)
    /\ UNCHANGED <<server, feed, view, asks>>

-----------------------------------------------------------------------------
ClientNext ==
    \/ Refresh \/ LoadMore \/ Create \/ Deliver \/ Reload \/ Post \/ PostNext \/ Explore
    \/ \E id \in Ids : Mutate(id) \/ Select(id)
    \/ \E id \in Ids : (\E arg \in {"second", "third", "archived"} : Want(id, "patch", arg)) \/ Want(id, "remove", Void)
    \/ \E arg \in {"second", "archived"} : Edit("edit", arg)
    \/ Edit("discard", Void)
    \/ \E c \in calls : \/ Serve(c) \/ Refuse(c) \/ Listed(c) \/ Created(c) \/ Mutated(c)
                        \/ Loaded(c) \/ Edited(c) \/ Posted(c) \/ Explored(c)

\* The list has been loaded: what the server has of it, page by page, starts the behaviour.
ClientInit(rows) ==
    /\ server = [rows |-> rows, clock |-> 1]
    /\ feed = <<>> /\ calls = {}
    /\ view = [list |-> Upto(rows, 0, PageSize), cursor |-> IF Len(rows) > PageSize THEN PageSize ELSE Void,
               request |-> 0, version |-> 0, paging |-> FALSE, waits |-> [id \in Ids |-> <<>>],
               wanted |-> [id \in Ids |-> "first"]]
    /\ desk = [selected |-> Void, data |-> Void, request |-> 0, queue |-> <<>>, posting |-> FALSE,
               graphRequest |-> 0, fetching |-> FALSE, graph |-> Void, summary |-> Void]

\* A behaviour starts with records that are not deleted.  It is calm when no call fails and records
\* are changed from the list only.
Asks == [fail : Nat, refresh : Nat, more : Nat, create : Nat, patch : Nat, remove : Nat, select : Nat, reload : Nat,
         edit : Nat, discard : Nat, post : Nat, explore : Nat, overlap : BOOLEAN, realtime : BOOLEAN, calm : BOOLEAN]

Opening(rows, budget) ==
    /\ rows \in Seq(Rows(Ids))
    /\ \A i, j \in DOMAIN rows : rows[i].id = rows[j].id => i = j
    /\ \A i \in DOMAIN rows : rows[i].status # "deleted"
    /\ budget \in Asks
    /\ budget.calm => budget.fail = 0 /\ budget.edit = 0 /\ budget.discard = 0

-----------------------------------------------------------------------------
(* Properties *)

Settled == calls = {} /\ feed = <<>> /\ \A id \in Ids : view.waits[id] = <<>>

\* Where no call fails and the workspace changes nothing, an investigation ends up as its user last
\* wanted it in the list, whatever order the answers come in: its mutations reach the server in the
\* order they were asked for.
LastWishWins ==
    Settled /\ asks.calm =>
        \A id \in Ids : /\ view.wanted[id] = Void => RowOf(id).status = "deleted"
                        /\ view.wanted[id] \in {"second", "third"} => RowOf(id).title = view.wanted[id]

=============================================================================
