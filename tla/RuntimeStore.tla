------------------------------ MODULE RuntimeStore ------------------------------
(***************************************************************************)
(* The runtime store: SupabaseRuntimeStore and the SQL functions it calls, *)
(* which stand in for the Lua scripts of a Redis.                          *)
(*                                                                         *)
(* A script was one step.  A function is several statements of one         *)
(* transaction under READ COMMITTED: `select ... for update` locks a row   *)
(* that is there and nothing where there is none, a statement sees what    *)
(* was committed before it began, and what a transaction writes is seen    *)
(* when it commits.  A call begins by reading its row, and ends with the   *)
(* commit.                                                                 *)
(***************************************************************************)
EXTENDS Integers, Sequences, FiniteSets, FiniteSetsExt

CONSTANTS
    Clients,    \* processes that call the store
    Readers,    \* those of them that follow the stream
    Absent,     \* no row
    Unheld,     \* the value of a job row that nobody holds
    Nobody,     \* who holds a lock that is free
    KeptRows,   \* the threshold a stream is trimmed to
    Page        \* the count of a read

ASSUME StoreAssumption ==
    /\ Absent \notin Clients /\ Unheld \notin Clients /\ Nobody \notin Clients
    /\ Absent # Unheld /\ Absent \notin Nat
    /\ KeptRows \in Nat \ {0}

VARIABLES
    rows,       \* the row of a counter, of a job and of a lease
    old,        \* keys whose row has expired and is still there
    locks,      \* row locks, and the advisory lock of the stream
    stream,     \* the rows of a stream: number, place among all that were appended, numbering, expired or not
    appended,   \* the numbering of each entry ever appended, oldest first
    ebbed,      \* entries up to this one have expired
    calls,      \* what each client is doing, and has yet to do
    told,       \* who was told that it holds the job or the lease
    readers,    \* where each reader has read the stream to, and what it got
    counted,    \* increments committed
    warm,       \* the counter had its row when the behaviour began
    mishaps     \* what may still happen

storeVars == <<rows, old, locks, stream, appended, ebbed, calls, told, readers, counted, warm, mishaps>>

Keys == {"count", "job", "lease"}
Operations == {"incr", "take", "requeue", "claim", "renew", "release", "get", "append", "trim"}
Idle(c) == calls[c].pc = "idle" /\ calls[c].todo # <<>>
Op(c) == Head(calls[c].todo)

\* `todo` is what each client will call, and `initial` the rows there are.
StoreInit(initial, todo, budget) ==
    /\ rows = initial /\ old = {}
    /\ locks = [k \in Keys \cup {"stream"} |-> Nobody]
    /\ stream = {} /\ appended = <<>> /\ ebbed = 0
    /\ calls = [c \in Clients |-> [pc |-> "idle", todo |-> todo[c], seen |-> Absent]]
    /\ told = {}
    /\ readers = [c \in Readers |-> [cursor |-> 0, life |-> 1, got |-> {}]]
    /\ counted = 0 /\ warm = (initial["count"] # Absent)
    /\ mishaps = budget

Befalls(what) == mishaps[what] > 0 /\ mishaps' = [mishaps EXCEPT ![what] = @ - 1]
Enter(c, pc, seen) == calls' = [calls EXCEPT ![c].pc = pc, ![c].seen = seen]
Return(c) == calls' = [calls EXCEPT ![c].pc = "idle", ![c].seen = Absent, ![c].todo = Tail(@)]

-----------------------------------------------------------------------------
(* Functions of one row.                                                   *)

OnRow == [incr |-> "count", take |-> "job", requeue |-> "job", claim |-> "lease", renew |-> "lease", release |-> "lease"]

\* Changed: the row is read without `for update`.
Lockable_unlocked(k) == FALSE
\* There is a row to lock.
Lockable(k) == rows[k] # Absent

\* An increment starts anew where the row has expired; the other functions do not ask for its age.
Seen(op, k) == IF op = "incr" /\ k \in old THEN Absent ELSE rows[k]

BeginRow(c) ==
    /\ Idle(c) /\ Op(c) \in DOMAIN OnRow
    /\ LET k == OnRow[Op(c)] IN
          /\ IF Lockable(k)
             THEN locks[k] = Nobody /\ locks' = [locks EXCEPT ![k] = c]
             ELSE UNCHANGED locks
          /\ Enter(c, "row", Seen(Op(c), k))
    /\ UNCHANGED <<rows, old, stream, appended, ebbed, told, readers, counted, warm, mishaps>>

\* What a function asks of the row it has read: no holder, or the caller.
Applies(op, c, seen) ==
    CASE op = "incr" -> TRUE
      [] op = "claim" -> seen = Absent
      [] op = "take" -> seen = Unheld
      [] op \in {"renew", "release", "requeue"} -> seen = c
Written(op, c, seen) ==
    CASE op = "incr" -> IF seen = Absent THEN 1 ELSE seen + 1
      [] op \in {"claim", "take", "renew"} -> c
      [] op = "release" -> Absent
      [] op = "requeue" -> Unheld
Holders(op, c, k, done) ==
    IF op \in {"claim", "take"} /\ done THEN told \cup {<<c, k>>}
    ELSE IF op \in {"release", "requeue"} \/ (op = "renew" /\ ~done) THEN told \ {<<c, k>>}
    ELSE told

\* The upsert waits for who has the row locked, and then writes what was computed before.
CommitRow(c) ==
    /\ calls[c].pc = "row"
    /\ LET op == Op(c)
           k == OnRow[op]
           seen == calls[c].seen
           done == Applies(op, c, seen)
       IN  /\ done => locks[k] \in {Nobody, c}
           /\ locks' = [locks EXCEPT ![k] = IF @ = c THEN Nobody ELSE @]
           /\ rows' = IF done THEN [rows EXCEPT ![k] = Written(op, c, seen)] ELSE rows
           /\ old' = IF done THEN old \ {k} ELSE old
           /\ told' = Holders(op, c, k, done)
           /\ counted' = IF op = "incr" THEN counted + 1 ELSE counted
    /\ Return(c)
    /\ UNCHANGED <<stream, appended, ebbed, readers, warm, mishaps>>

\* A row expires; it stays until somebody reads it.
LeaseLapses ==
    /\ rows["lease"] # Absent /\ "lease" \notin old
    /\ Befalls("lapse")
    /\ old' = old \cup {"lease"}
    /\ UNCHANGED <<rows, locks, stream, appended, ebbed, calls, told, readers, counted, warm>>

\* get: a row found expired is deleted by a second call, whatever has been written in between.
GetRow(c) ==
    /\ Idle(c) /\ Op(c) = "get"
    /\ IF "lease" \in old THEN Enter(c, "purge", Absent) ELSE Return(c)
    /\ UNCHANGED <<rows, old, locks, stream, appended, ebbed, told, readers, counted, warm, mishaps>>
Purge(c) ==
    /\ calls[c].pc = "purge"
    /\ locks["lease"] = Nobody
    /\ rows' = [rows EXCEPT !["lease"] = Absent]
    /\ old' = old \ {"lease"}
    /\ Return(c)
    /\ UNCHANGED <<locks, stream, appended, ebbed, told, readers, counted, warm, mishaps>>

-----------------------------------------------------------------------------
(* The stream.  An entry is known by its place in `appended`; `life` tells *)
(* the numbering before a stream had expired whole from the one after.     *)

Unexpired(entries) == {e \in entries : ~e.gone}
LastOf(entries) == Max({0} \cup {e.seq : e \in entries})
Life == IF appended = <<>> THEN 1 ELSE appended[Len(appended)]

\* hexical_runtime_append_stream: appends take turns, and the number is the one after the greatest.
BeginAppend(c) ==
    /\ Idle(c) /\ Op(c) = "append"
    /\ locks["stream"] = Nobody
    /\ locks' = [locks EXCEPT !["stream"] = c]
    /\ Enter(c, "append", LastOf(Unexpired(stream)) + 1)
    /\ UNCHANGED <<rows, old, stream, appended, ebbed, told, readers, counted, warm, mishaps>>
CommitAppend(c) ==
    /\ calls[c].pc = "append"
    /\ LET seq == calls[c].seen
           life == IF seq = 1 /\ appended # <<>> THEN Life + 1 ELSE Life
       IN  /\ stream' = Unexpired(stream) \cup {[seq |-> seq, id |-> Len(appended) + 1, life |-> life, gone |-> FALSE]}
           /\ appended' = Append(appended, life)
    /\ locks' = [locks EXCEPT !["stream"] = Nobody]
    /\ Return(c)
    /\ UNCHANGED <<rows, old, ebbed, told, readers, counted, warm, mishaps>>

\* Entries expire oldest first; they are deleted by the next append.
Ebbs ==
    /\ Befalls("ebb")
    /\ \E oldest \in Unexpired(stream) :
          /\ stream' = {[e EXCEPT !.gone = @ \/ e.id <= oldest.id] : e \in stream}
          /\ ebbed' = oldest.id
    /\ UNCHANGED <<rows, old, locks, appended, calls, told, readers, counted, warm>>

\* xtrim: the rows beyond the newest are read, and then those rows are deleted.
Newer(e) == {f \in stream : f.seq > e.seq}
Beyond == {e.seq : e \in {f \in stream : Cardinality(Newer(f)) >= KeptRows}}
ReadBeyond(c) ==
    /\ Idle(c) /\ Op(c) = "trim"
    /\ Enter(c, "trim", Beyond)
    /\ UNCHANGED <<rows, old, locks, stream, appended, ebbed, told, readers, counted, warm, mishaps>>

Trimmed(entries, doomed) == {e \in entries : e.seq \notin doomed}
DeleteRead(c) ==
    /\ calls[c].pc = "trim"
    /\ stream' = Trimmed(stream, calls[c].seen)
    /\ Return(c)
    /\ UNCHANGED <<rows, old, locks, appended, ebbed, told, readers, counted, warm, mishaps>>

FirstPage(entries) == {e \in entries : Cardinality({f \in entries : f.seq < e.seq}) < Page}
\* Changed: what has expired is left out after the limit.
PageOf_late(entries) == Unexpired(FirstPage(entries))
\* xrange leaves out what has expired, and then limits.
PageOf(entries) == FirstPage(Unexpired(entries))

\* A reader reads on from its cursor, again and again. A cursor of one numbering used in the next has
\* no life left.
ReadPage(c) ==
    /\ LET page == PageOf({e \in stream : e.seq > readers[c].cursor}) IN
       \E last \in {e \in page : \A f \in page : f.seq <= e.seq} :
          readers' = [readers EXCEPT ![c] =
             [cursor |-> last.seq, got |-> @.got \cup {e.id : e \in page},
              life |-> IF @.cursor = 0 \/ @.life = last.life THEN last.life ELSE 0]]
    /\ UNCHANGED <<rows, old, locks, stream, appended, ebbed, calls, told, counted, warm, mishaps>>

StoreCall(c) ==
    \/ BeginRow(c) \/ CommitRow(c) \/ GetRow(c) \/ Purge(c)
    \/ BeginAppend(c) \/ CommitAppend(c) \/ ReadBeyond(c) \/ DeleteRead(c)
StoreNext ==
    \/ \E c \in Clients : StoreCall(c)
    \/ \E c \in Readers : ReadPage(c)
    \/ LeaseLapses \/ Ebbs

-----------------------------------------------------------------------------
(* Properties.                                                             *)

\* Calls at once on one row come out as if one followed the other: of all that claim a job, and claim
\* it again when it has been given back, one is told that it has it; no increment of a row that is
\* there is lost; and a trim leaves the newest entries, though others are appended and expire while it
\* runs, as long as the stream has not expired whole and begun to count again.
JobHasOneHolder == Cardinality({c \in Clients : <<c, "job">> \in told}) <= 1
IncrementsAreCounted == warm => rows["count"] = counted
TrimKeepsNewest ==
    Life = 1 =>
    \A id \in 1 .. Len(appended) :
        id > ebbed /\ id > Len(appended) - KeptRows => \E e \in stream : e.id = id
RowsAreExact == JobHasOneHolder /\ IncrementsAreCounted /\ TrimKeepsNewest

\* Who reads page after page has got every entry there is, in the end, over any number that have
\* expired. A cursor is good for one numbering.
ReadersCatchUp ==
    <>[](\A c \in Readers : \A e \in stream :
            e.gone \/ e.life # readers[c].life \/ e.id \in readers[c].got)
=============================================================================
