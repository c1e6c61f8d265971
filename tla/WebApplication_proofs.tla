----------------------- MODULE WebApplication_proofs -----------------------
(***************************************************************************)
(* What holds of the web application for any number of requests, sessions, *)
(* executions, investigations and runs: SessionAccounted,                  *)
(* VerdictIsGrounded and LastWishWins.                                     *)
(*                                                                         *)
(* A behaviour works on one part, and the others stand still: the          *)
(* invariant of a part is kept by the steps of that part.                  *)
(***************************************************************************)
EXTENDS WebApplication, Iteration

-----------------------------------------------------------------------------
(* Investigations.  No session is left over.  What makes it hold is the    *)
(* set-if-absent of the session key: of the requests that create a session *)
(* at the same time one has its session named by the key, and the others   *)
(* each still hold theirs until they have discarded it.                    *)
(*                                                                         *)
(* The record decides nothing.  A patch may write one back that names no   *)
(* session; the next request then creates a session, finds the key set and *)
(* discards what it created.                                               *)

Names == {"op", "pc", "seen", "arg", "key", "then", "tries", "sess", "made", "exec", "state", "todo", "pos", "upto", "again"}
Keys == {"record", "listed", "session", "count", "evidence", "marks", "timeline", "bookmarks", "execs", "index"}
Services == {"sess", "exec", "out"}

\* A record, if there is one, names no session but the one of the key.
NamesKey(v) ==
    v # Absent => v = [x \in {"status", "title", "session"} |-> v[x]] /\ v.session \in {Absent, inv.session}

\* The steps a request takes only after something has failed, stopped or been ended.
AfterTrouble == {"undo", "unmark", "unbind", "clear", "forget", "release", "blank", "cleared"}

\* The steps a request takes with a session it has created: before its fate is known, when the
\* key names it or another one, and when it has to go.
Undecided == {"bind", "claim", "lookup"}
Recording(t) == t.pc \in {"keep", "bound"} \/ (t.pc \in {"mark", "append"} /\ t.then = "bound")
Holding(t) == t.pc \in Undecided \cup {"discard"} \/ Recording(t)

\* A request while nothing has gone wrong.
Sound(t) ==
    /\ t = [x \in Names |-> t[x]]
    /\ t.pc \notin AfterTrouble
    /\ t.then \in {"", "end", "pin", "output", "replay", "bound"}
    /\ NamesKey(t.seen)
    /\ t.pc \in {"write", "claim", "lookup", "keep"} => t.seen # Absent
    /\ t.pc \in {"scan", "unlist"} => t.op = "list"
    /\ t.pc = "resolve" => t.op \in {"ensure", "terminate", "attach"}
    /\ t.pc \in {"probe", "make"} => t.op = "ensure"
    /\ t.pc = "probe" \/ Recording(t) => t.sess = inv.session /\ t.sess # Absent
    /\ (t.made # Absent) <=> Holding(t)
    /\ t.made # Absent => t.op = "ensure" /\ t.made \in Sessions /\ tty.sess[t.made] = "live"
    /\ t.pc \in Undecided \cup {"discard"} => t.made # inv.session

Shape == /\ inv = [x \in Keys |-> inv[x]] /\ tty = [x \in Services |-> tty[x]]
         /\ task = [r \in Requests |-> task[r]]
         /\ NamesKey(inv.record)

\* The session of the key lives.
KeyLives == /\ tty.sess \in [Sessions -> {"none", "live", "gone"}]
            /\ inv.session \in Sessions \cup {Absent}
            /\ inv.session # Absent => tty.sess[inv.session] = "live"

AllSound == \A r \in Requests : Sound(task[r])

\* No two requests hold the same session.
HeldOnce == \A q, r \in Requests : task[q].made = task[r].made => q = r \/ task[r].made = Absent

\* A session that lives is that of the key or of a request.
LiveIsHeld == \A s \in Sessions : tty.sess[s] = "live" => s = inv.session \/ \E r \in Requests : task[r].made = s

\* While nothing has gone wrong.
CalmInv == Shape /\ KeyLives /\ AllSound /\ HeldOnce /\ LiveIsHeld

\* Whether something has gone wrong is always known.
Remembers == left = [x \in DOMAIN left |-> left[x]] /\ "calm" \in DOMAIN left /\ left.calm \in BOOLEAN

SessionInv == Remembers /\ (left.calm => CalmInv)

-----------------------------------------------------------------------------
(* Requests *)

\* A request keeps the fields that a step does not give.
LEMMA UpdatedFields ==
    ASSUME NEW t, t = [x \in Names |-> t[x]], NEW f, DOMAIN f \subseteq Names
    PROVE  /\ Updated(t, f) = [x \in Names |-> Updated(t, f)[x]]
           /\ \A x \in Names : Updated(t, f)[x] = IF x \in DOMAIN f THEN f[x] ELSE t[x]
<1>1. DOMAIN t = Names
  OBVIOUS
<1>2. DOMAIN t \cup DOMAIN f = Names
  BY <1>1
<1>. QED
  BY <1>2 DEF Updated

\* The investigation as a request leaves it that neither makes, names nor ends a session.
Spared == /\ inv' = [x \in Keys |-> inv'[x]]
        /\ inv'.session = inv.session
        /\ NamesKey(inv'.record)
        /\ tty'.sess = tty.sess
        /\ tty' = [x \in Services |-> tty'[x]]

\* Under such a step a sound request stays sound.
LEMMA SoundKept ==
    ASSUME CalmInv, Spared, NEW t
    PROVE  (Sound(t)' <=> Sound(t)) /\ (NamesKey(t)' <=> NamesKey(t))
BY DEF Spared, Sound, NamesKey

\* A step of a request that keeps the session the request holds, if it holds one.
LEMMA MoveInv ==
    ASSUME CalmInv, Spared, NEW r \in Requests, NEW t,
           task' = [task EXCEPT ![r] = t], Sound(t), t.made = task[r].made
    PROVE  CalmInv'
<1>1. \A q \in Requests : task'[q] = IF q = r THEN t ELSE task[q]
  BY DEF CalmInv, Shape
<1>2. \A q \in Requests : task'[q].made = task[q].made
  BY <1>1
<1>3. \A q \in Requests : Sound(task'[q])
  BY <1>1 DEF CalmInv, AllSound
<1>4. AllSound'
  <2> SUFFICES ASSUME NEW q \in Requests PROVE Sound(task[q])'
    BY DEF AllSound
  <2> DEFINE u == task'[q]
  <2>1. Sound(u)
    BY <1>3
  <2> QED
    BY <2>1, Zenon DEF Sound, Spared, NamesKey
<1>5. Shape'
  BY SoundKept DEF CalmInv, Shape, Spared
<1>6. KeyLives' /\ HeldOnce' /\ LiveIsHeld'
  BY <1>2 DEF CalmInv, Spared, KeyLives, HeldOnce, LiveIsHeld
<1>. QED
  BY <1>4, <1>5, <1>6 DEF CalmInv

\* A step that gives some fields of a request, but not the session it holds.
LEMMA FieldsInv ==
    ASSUME CalmInv, Spared, NEW r \in Requests, NEW f, DOMAIN f \subseteq Names \ {"made"},
           Moves(r, f), Sound(Updated(task[r], f))
    PROVE  CalmInv'
<1>1. task[r] = [x \in Names |-> task[r][x]]
  BY DEF CalmInv, AllSound, Sound
<1>2. Updated(task[r], f).made = task[r].made
  BY <1>1, UpdatedFields DEF Names
<1>. QED
  BY <1>2, MoveInv DEF Moves

\* The state outside the request, when a step leaves it alone.
LEMMA Untouched ==
    ASSUME CalmInv, UNCHANGED <<inv, tty>>
    PROVE  Spared
BY DEF CalmInv, Shape, Spared

\* A request that holds no session is done.
LEMMA ReplyInv ==
    ASSUME CalmInv, Spared, NEW r \in Requests, ~Holding(task[r]), Replies(r)
    PROVE  CalmInv'
<1>1. task[r].made = Absent
  BY DEF CalmInv, AllSound, Sound
<1>2. Idle.made = Absent /\ Sound(Idle)
  BY DEF Idle, Sound, Names, AfterTrouble, NamesKey, Recording, Holding, Undecided
<1>. QED
  BY <1>1, <1>2, MoveInv DEF Replies

\* A request begins.
LEMMA BeginInv ==
    ASSUME CalmInv, NEW r \in Requests, NEW op, NEW pc, NEW f, Begin(r, op, pc, f),
           DOMAIN f \subseteq {"arg", "tries", "exec", "sess", "key"},
           pc \in {"insert", "read", "peek", "scan", "resolve", "load", "note"},
           pc = "scan" => op = "list", pc = "resolve" => op \in {"ensure", "terminate", "attach"}
    PROVE  CalmInv'
<1> DEFINE base == Asked(op, pc)
           t == Updated(base, f)
<1>1. base = [x \in Names |-> base[x]] /\ DOMAIN f \subseteq Names
  BY DEF Asked, Idle, Names
<1>2. t = [x \in Names |-> t[x]] /\ \A x \in Names : t[x] = IF x \in DOMAIN f THEN f[x] ELSE base[x]
  BY <1>1, UpdatedFields
<1>3. /\ t.pc = pc /\ t.op = op /\ t.then = "" /\ t.seen = Absent /\ t.made = Absent
  <2>1. base.pc = pc /\ base.op = op /\ base.then = "" /\ base.seen = Absent /\ base.made = Absent
    BY DEF Asked, Idle
  <2> HIDE DEF base, t
  <2>2. {"pc", "op", "then", "seen", "made"} \subseteq Names \ DOMAIN f
    BY DEF Names
  <2>3. \A x \in Names \ DOMAIN f : t[x] = base[x]
    BY <1>2
  <2> QED
    BY <2>1, <2>2, <2>3
<1>4. Sound(t)
  BY <1>2, <1>3 DEF Sound, AfterTrouble, NamesKey, Recording, Holding, Undecided
<1>5. task[r].made = Absent
  <2>1. task[r] = Idle
    BY DEF Begin
  <2>2. Idle.made = Absent
    BY DEF Idle
  <2> QED
    BY <2>1, <2>2
<1>6. Spared /\ task' = [task EXCEPT ![r] = t]
  BY Untouched DEF Begin
<1>. QED
  BY <1>3, <1>4, <1>5, <1>6, MoveInv

LEMMA StartInv ==
    ASSUME CalmInv, NEW r \in Requests, Start(r)
    PROVE  CalmInv'
<1>1. CASE StartCreate(r) \/ StartDelete(r) \/ StartList(r) \/ StartEnsure(r) \/ StartTerminate(r) \/ StartOpen(r)
  BY <1>1, BeginInv DEF StartCreate, StartDelete, StartList, StartEnsure, StartTerminate, StartOpen
<1>2. CASE StartPatch(r) \/ StartNote(r)
  BY <1>2, BeginInv DEF StartPatch, StartNote
<1>3. CASE StartAttach(r)
  BY <1>3, BeginInv DEF StartAttach
<1>4. CASE StartBookmark(r)
  BY <1>4, BeginInv DEF StartBookmark
<1>. QED
  BY <1>1, <1>2, <1>3, <1>4 DEF Start

-----------------------------------------------------------------------------
(* One lemma per step *)

\* The fields the argument is about, after some have been given.
LEMMA Fields ==
    ASSUME CalmInv, NEW r \in Requests, NEW f, DOMAIN f \subseteq Names
    PROVE  LET t == Updated(task[r], f)
           IN  /\ t = [x \in Names |-> t[x]]
               /\ t.op = IF "op" \in DOMAIN f THEN f.op ELSE task[r].op
               /\ t.pc = IF "pc" \in DOMAIN f THEN f.pc ELSE task[r].pc
               /\ t.then = IF "then" \in DOMAIN f THEN f.then ELSE task[r].then
               /\ t.seen = IF "seen" \in DOMAIN f THEN f.seen ELSE task[r].seen
               /\ t.sess = IF "sess" \in DOMAIN f THEN f.sess ELSE task[r].sess
               /\ t.made = IF "made" \in DOMAIN f THEN f.made ELSE task[r].made
<1>1. task[r] = [x \in Names |-> task[r][x]]
  BY DEF CalmInv, AllSound, Sound
<1>. QED
  BY <1>1, UpdatedFields DEF Names

\* A step that gives nothing the argument is about.
LEMMA StayInv ==
    ASSUME CalmInv, Spared, NEW r \in Requests, NEW f, Moves(r, f),
           DOMAIN f \subseteq Names \ {"op", "pc", "then", "seen", "sess", "made"}
    PROVE  CalmInv'
<1> DEFINE t == Updated(task[r], f)
<1>1. /\ t = [x \in Names |-> t[x]] /\ t.op = task[r].op /\ t.pc = task[r].pc /\ t.then = task[r].then
      /\ t.seen = task[r].seen /\ t.sess = task[r].sess /\ t.made = task[r].made
  BY Fields
<1>2. Sound(task[r])
  BY DEF CalmInv, AllSound
<1> HIDE DEF t
<1>3. Sound(t)
  BY <1>1, <1>2 DEF Sound, Holding, Recording
<1>. QED
  BY <1>3, FieldsInv DEF t, Names

\* The steps of a request that has no session in hand and does not look for one.
Plain == {"mark", "append", "read", "write", "index", "admit", "kill", "hold", "enter", "count", "recount", "rewrite",
          "pin", "tally", "next", "update", "mirror", "output", "replay"}

LEMMA PlainInv ==
    ASSUME CalmInv, Spared, NEW r \in Requests, NEW f, Moves(r, f),
           DOMAIN f \subseteq Names \ {"op", "made"}, "pc" \in DOMAIN f, f.pc \in Plain,
           ~Holding(task[r]),
           "seen" \in DOMAIN f => NamesKey(f.seen),
           f.pc = "write" => "seen" \in DOMAIN f /\ f.seen # Absent,
           "then" \in DOMAIN f => f.then \in {"end", "pin", "output", "replay"},
           f.pc \in {"mark", "append"} => "then" \in DOMAIN f
    PROVE  CalmInv'
<1> DEFINE t == Updated(task[r], f)
<1>1. /\ t = [x \in Names |-> t[x]] /\ t.pc = f.pc /\ t.made = task[r].made
      /\ t.then = IF "then" \in DOMAIN f THEN f.then ELSE task[r].then
      /\ t.seen = IF "seen" \in DOMAIN f THEN f.seen ELSE task[r].seen
  BY Fields
<1>2. Sound(task[r])
  BY DEF CalmInv, AllSound
<1> HIDE DEF t
<1>3. Sound(t)
  BY <1>1, <1>2 DEF Sound, Holding, Recording, Undecided, AfterTrouble, Plain
<1>. QED
  BY <1>3, FieldsInv DEF t, Names

LEMMA ContinuesInv ==
    ASSUME CalmInv, Spared, NEW r \in Requests, task[r].pc \in {"mark", "append"}, Continues(r)
    PROVE  CalmInv'
<1>1. Sound(task[r])
  BY DEF CalmInv, AllSound
<1>2. CASE task[r].then = "end"
  BY <1>1, <1>2, ReplyInv DEF Continues, Holding, Undecided, Recording
<1>3. CASE task[r].then # "end"
  <2> DEFINE f == [pc |-> task[r].then, key |-> Absent, then |-> ""]
             t == Updated(task[r], f)
  <2>1. Moves(r, f)
    BY <1>3 DEF Continues
  <2>2. DOMAIN f = {"pc", "key", "then"} /\ f.pc = task[r].then /\ f.then = ""
    OBVIOUS
  <2> HIDE DEF f
  <2>3. DOMAIN f \subseteq Names \ {"made"}
    BY <2>2 DEF Names
  <2>4. /\ t = [x \in Names |-> t[x]] /\ t.op = task[r].op /\ t.pc = task[r].then /\ t.then = ""
        /\ t.seen = task[r].seen /\ t.sess = task[r].sess /\ t.made = task[r].made
    BY <2>2, <2>3, Fields
  <2> HIDE DEF t
  <2>5. Sound(t)
    BY <1>1, <1>3, <2>4 DEF Sound, Holding, Undecided, Recording, AfterTrouble
  <2> QED
    BY <2>1, <2>3, <2>5, FieldsInv DEF t
<1>. QED
  BY <1>2, <1>3

LEMMA MarkInv ==
    ASSUME CalmInv, NEW r \in Requests, Mark(r) \/ AppendEvent(r)
    PROVE  CalmInv'
<1>1. Sound(task[r]) /\ task[r].pc \in {"mark", "append"}
  BY DEF CalmInv, AllSound, Mark, AppendEvent, At
<1>2. Spared
  BY Untouched DEF CalmInv, Shape, Spared, Mark, AppendEvent, Keys
<1>3. CASE Continues(r)
  BY <1>1, <1>2, <1>3, ContinuesInv
<1>4. CASE Op(r) = "bookmark" /\ Replies(r)
  BY <1>1, <1>2, <1>4, ReplyInv DEF Sound, Op
<1>5. CASE At(r, "mark") /\ Moves(r, [pc |-> "append"])
  <2> DEFINE t == Updated(task[r], [pc |-> "append"])
  <2>1. /\ t = [x \in Names |-> t[x]] /\ t.op = task[r].op /\ t.pc = "append" /\ t.then = task[r].then
        /\ t.seen = task[r].seen /\ t.sess = task[r].sess /\ t.made = task[r].made
    BY Fields DEF Names
  <2> HIDE DEF t
  <2>2. Sound(t)
    BY <1>1, <1>5, <2>1 DEF Sound, Holding, Undecided, Recording, AfterTrouble, At
  <2> QED
    BY <1>2, <1>5, <2>2, FieldsInv DEF t, Names
<1>. QED
  BY <1>3, <1>4, <1>5 DEF Mark, AppendEvent

\* An event is to be appended; the request goes on at `then`.
LEMMA EmitsInv ==
    ASSUME CalmInv, Spared, NEW r \in Requests, NEW key, NEW then, Moves(r, Emits(key, then)),
           ~Holding(task[r]), then \in {"end", "pin", "output", "replay"}
    PROVE  CalmInv'
<1> DEFINE f == Emits(key, then)
<1>1. DOMAIN f = {"pc", "key", "then"} /\ f.pc = "mark" /\ f.then = then
  BY DEF Emits
<1> HIDE DEF f
<1>2. DOMAIN f \subseteq Names \ {"op", "made"}
  BY <1>1 DEF Names
<1>3. Moves(r, f)
  BY DEF f
<1>. QED
  BY <1>1, <1>2, <1>3, PlainInv DEF Plain

\* The same with one field more.
LEMMA EmitsWithInv ==
    ASSUME CalmInv, Spared, NEW r \in Requests, NEW key, NEW then, NEW g, DOMAIN g \subseteq {"seen", "pos"},
           Moves(r, Updated(Emits(key, then), g)), "seen" \in DOMAIN g => g.seen = Absent,
           ~Holding(task[r]), then \in {"end", "pin", "output", "replay"}
    PROVE  CalmInv'
<1> DEFINE e == Emits(key, then)
           f == Updated(e, g)
<1>1. DOMAIN e = {"pc", "key", "then"} /\ e.pc = "mark" /\ e.then = then
  BY DEF Emits
<1> HIDE DEF e
<1>2. /\ DOMAIN f = {"pc", "key", "then"} \cup DOMAIN g /\ f.pc = "mark" /\ f.then = then
      /\ "seen" \in DOMAIN f => f.seen = Absent
  BY <1>1 DEF Updated
<1>3. Moves(r, f)
  BY DEF e
<1> HIDE DEF f
<1>4. DOMAIN f \subseteq Names \ {"op", "made"} /\ {"pc", "then"} \subseteq DOMAIN f
  BY <1>2 DEF Names
<1>5. "seen" \in DOMAIN f => NamesKey(f.seen)
  BY <1>2 DEF NamesKey
<1>. QED
  BY <1>2, <1>3, <1>4, <1>5, PlainInv DEF Plain

\* create, as long as nothing is refused.
LEMMA CreateInv ==
    ASSUME CalmInv, NEW r \in Requests, ~Fails, InsertRecord(r) \/ IndexRecord(r)
    PROVE  CalmInv'
<1>1. Spared /\ ~Holding(task[r])
  BY DEF CalmInv, Shape, InsertRecord, IndexRecord, Spared, Keys, NamesKey, Statuses, Titles,
         Holding, Recording, Undecided, At
<1>2. CASE InsertRecord(r)
  BY <1>1, <1>2, PlainInv DEF InsertRecord, Names, Plain
<1>3. CASE IndexRecord(r)
  BY <1>1, <1>3, EmitsInv DEF IndexRecord
<1>. QED
  BY <1>2, <1>3

\* patch and delete read the record, and find a live one.
LEMMA ReadRecordInv ==
    ASSUME CalmInv, NEW r \in Requests, ReadRecord(r) \/ Peek(r)
    PROVE  CalmInv'
<1>1. Spared /\ ~Holding(task[r])
  BY Untouched DEF ReadRecord, Peek, Holding, Recording, Undecided, At
<1>2. CASE Replies(r)
  BY <1>1, <1>2, ReplyInv
<1>3. CASE Live(inv.record) /\ Moves(r, [pc |-> "write", seen |-> inv.record])
  <2> DEFINE f == [pc |-> "write", seen |-> inv.record]
  <2>1. DOMAIN f = {"pc", "seen"} /\ f.pc = "write" /\ f.seen = inv.record
    OBVIOUS
  <2>2. NamesKey(inv.record) /\ inv.record # Absent /\ Moves(r, f)
    BY <1>3 DEF CalmInv, Shape, Live
  <2> HIDE DEF f
  <2>3. DOMAIN f \subseteq Names \ {"op", "made"}
    BY <2>1 DEF Names
  <2> QED
    BY <1>1, <2>1, <2>2, <2>3, PlainInv DEF Plain
<1>4. CASE \E s : Moves(r, [pc |-> "read", sess |-> s])
  <2> PICK s : Moves(r, [pc |-> "read", sess |-> s])
    BY <1>4
  <2> DEFINE f == [pc |-> "read", sess |-> s]
  <2>1. DOMAIN f = {"pc", "sess"} /\ f.pc = "read" /\ Moves(r, f)
    OBVIOUS
  <2> HIDE DEF f
  <2>2. DOMAIN f \subseteq Names \ {"op", "made"}
    BY <2>1 DEF Names
  <2> QED
    BY <1>1, <2>1, <2>2, PlainInv DEF Plain
<1>. QED
  BY <1>2, <1>3, <1>4 DEF ReadRecord, Peek

\* A patch writes back the record it read, with the session it had then.
LEMMA WritePatchInv ==
    ASSUME CalmInv, NEW r \in Requests, WritePatch(r)
    PROVE  CalmInv'
<1>1. task[r].pc = "write" /\ ~Holding(task[r])
  BY DEF WritePatch, Holding, Recording, Undecided, At
<1>2. NamesKey(task[r].seen) /\ task[r].seen # Absent
  BY <1>1 DEF CalmInv, AllSound, Sound
<1> DEFINE next == inv'.record
<1>3. Spared
  <2>1. \E field \in {"title", "status"} : next = [task[r].seen EXCEPT ![field] = task[r].arg]
    BY DEF WritePatch, CalmInv, Shape, Keys
  <2>2. NamesKey(next)
    BY <1>2, <2>1 DEF NamesKey
  <2> HIDE DEF next
  <2> QED
    BY <2>2 DEF Spared, WritePatch, CalmInv, Shape, Keys, next
<1>4. CASE Replies(r)
  BY <1>1, <1>3, <1>4, ReplyInv
<1>5. CASE Moves(r, [pc |-> "append", then |-> "end", seen |-> Absent])
  <2> DEFINE f == [pc |-> "append", then |-> "end", seen |-> Absent]
  <2>1. DOMAIN f = {"pc", "then", "seen"} /\ f.pc = "append" /\ f.then = "end" /\ f.seen = Absent /\ Moves(r, f)
    BY <1>5
  <2> HIDE DEF f
  <2>2. DOMAIN f \subseteq Names \ {"op", "made"} /\ NamesKey(f.seen)
    BY <2>1 DEF Names, NamesKey
  <2> QED
    BY <1>1, <1>3, <2>1, <2>2, PlainInv DEF Plain
<1>. QED
  BY <1>4, <1>5 DEF WritePatch

\* list: an entry without a live record leaves the index.
LEMMA ListInv ==
    ASSUME CalmInv, NEW r \in Requests, Scan(r) \/ Unlist(r)
    PROVE  CalmInv'
<1>1. Spared /\ ~Holding(task[r]) /\ task[r].op = "list"
  BY DEF CalmInv, Shape, AllSound, Sound, Scan, Unlist, Spared, Keys, NamesKey, Holding, Recording, Undecided, At
<1>2. CASE Replies(r)
  BY <1>1, <1>2, ReplyInv
<1>3. CASE Moves(r, [pc |-> "unlist"])
  <2> DEFINE t == Updated(task[r], [pc |-> "unlist"])
  <2>1. /\ t = [x \in Names |-> t[x]] /\ t.op = task[r].op /\ t.pc = "unlist" /\ t.then = task[r].then
        /\ t.seen = task[r].seen /\ t.sess = task[r].sess /\ t.made = task[r].made
    BY Fields DEF Names
  <2>2. Sound(task[r])
    BY DEF CalmInv, AllSound
  <2> HIDE DEF t
  <2>3. Sound(t)
    BY <1>1, <2>1, <2>2 DEF Sound, Holding, Undecided, Recording, AfterTrouble
  <2> QED
    BY <1>1, <1>3, <2>3, FieldsInv DEF t, Names
<1>. QED
  BY <1>1, <1>2, <1>3 DEF Scan, Unlist, Op

\* attach: admission, the entry of the execution, the index and the counters.
LEMMA AttachInv ==
    ASSUME CalmInv, NEW r \in Requests, Admit(r) \/ Hold(r) \/ Enter(r) \/ Count(r) \/ Recount(r)
    PROVE  CalmInv'
<1>1. Spared /\ ~Holding(task[r]) /\ NamesKey(inv.record)
  BY DEF CalmInv, Shape, Admit, Hold, Enter, Count, Recount, Spared, Keys, Services, NamesKey, Holding, Recording, Undecided, At
<1>2. CASE Replies(r)
  BY <1>1, <1>2, ReplyInv
<1>3. CASE Moves(r, [pc |-> "hold"]) \/ Moves(r, [pc |-> "enter"]) \/ Moves(r, [pc |-> "count"])
  BY <1>1, <1>3, PlainInv DEF Names, Plain
<1>4. CASE Moves(r, [pc |-> "recount", key |-> <<"queued", task[r].exec>>])
  <2> DEFINE f == [pc |-> "recount", key |-> <<"queued", task[r].exec>>]
  <2>1. DOMAIN f = {"pc", "key"} /\ f.pc = "recount" /\ Moves(r, f)
    BY <1>4
  <2> HIDE DEF f
  <2>2. DOMAIN f \subseteq Names \ {"op", "made"}
    BY <2>1 DEF Names
  <2> QED
    BY <1>1, <2>1, <2>2, PlainInv DEF Plain
<1>5. CASE Moves(r, [pc |-> "rewrite", seen |-> inv.record])
  <2> DEFINE f == [pc |-> "rewrite", seen |-> inv.record]
  <2>1. DOMAIN f = {"pc", "seen"} /\ f.pc = "rewrite" /\ f.seen = inv.record /\ Moves(r, f)
    BY <1>5
  <2> HIDE DEF f
  <2>2. DOMAIN f \subseteq Names \ {"op", "made"}
    BY <2>1 DEF Names
  <2> QED
    BY <1>1, <2>1, <2>2, PlainInv DEF Plain
<1>. QED
  BY <1>2, <1>3, <1>4, <1>5 DEF Admit, Hold, Enter, Count, Recount

\* The counters are written back with the record they were read with.
LEMMA RewriteInv ==
    ASSUME CalmInv, NEW r \in Requests, Rewrite(r)
    PROVE  CalmInv'
<1>1. ~Holding(task[r]) /\ NamesKey(task[r].seen)
  BY DEF CalmInv, AllSound, Sound, Rewrite, Holding, Recording, Undecided, At
<1>2. Spared
  BY <1>1 DEF CalmInv, Shape, Rewrite, Spared, Keys, NamesKey
<1>3. CASE Replies(r)
  BY <1>1, <1>2, <1>3, ReplyInv
<1>4. CASE Moves(r, Updated(Emits(task[r].key, "end"), [seen |-> Absent]))
  BY <1>1, <1>2, <1>4, EmitsWithInv
<1>. QED
  BY <1>3, <1>4 DEF Rewrite

\* Bookmarks and notes.
LEMMA NoteInv ==
    ASSUME CalmInv, NEW r \in Requests, Note(r) \/ Pin(r) \/ Tally(r)
    PROVE  CalmInv'
<1>1. Spared /\ ~Holding(task[r])
  BY DEF CalmInv, Shape, Note, Pin, Tally, Spared, Keys, NamesKey, Holding, Recording, Undecided, At
<1>2. CASE Replies(r)
  BY <1>1, <1>2, ReplyInv
<1>3. CASE Moves(r, Emits(task[r].key, "pin"))
  BY <1>1, <1>3, EmitsInv
<1>4. CASE Moves(r, [pc |-> "tally"]) \/ Moves(r, [pc |-> "recount"])
  BY <1>1, <1>4, PlainInv DEF Names, Plain
<1>5. CASE Moves(r, [pc |-> "append", key |-> <<"note", task[r].arg>>, then |-> "end"])
  <2> DEFINE f == [pc |-> "append", key |-> <<"note", task[r].arg>>, then |-> "end"]
  <2>1. DOMAIN f = {"pc", "key", "then"} /\ f.pc = "append" /\ f.then = "end" /\ Moves(r, f)
    BY <1>5
  <2> HIDE DEF f
  <2>2. DOMAIN f \subseteq Names \ {"op", "made"}
    BY <2>1 DEF Names
  <2> QED
    BY <1>1, <2>1, <2>2, PlainInv DEF Plain
<1>. QED
  BY <1>2, <1>3, <1>4, <1>5 DEF Note, Pin, Tally

\* Opening an investigation synchronises its executions.
LEMMA OpenInv ==
    ASSUME CalmInv, NEW r \in Requests,
           Load(r) \/ NextExecution(r) \/ ReadMirror(r) \/ WriteMirror(r) \/ ReadOutput(r) \/ Replay(r)
    PROVE  CalmInv'
<1>1. Spared /\ ~Holding(task[r])
  BY DEF CalmInv, Shape, Load, NextExecution, ReadMirror, WriteMirror, ReadOutput, Replay, Spared, Keys, NamesKey,
         Holding, Recording, Undecided, At
<1>2. CASE Replies(r)
  BY <1>1, <1>2, ReplyInv
<1>3. CASE \E todo : Moves(r, [pc |-> "next", todo |-> todo])
  <2> PICK todo : Moves(r, [pc |-> "next", todo |-> todo])
    BY <1>3
  <2> DEFINE f == [pc |-> "next", todo |-> todo]
  <2>1. DOMAIN f = {"pc", "todo"} /\ f.pc = "next" /\ Moves(r, f)
    OBVIOUS
  <2> HIDE DEF f
  <2>2. DOMAIN f \subseteq Names \ {"op", "made"}
    BY <2>1 DEF Names
  <2> QED
    BY <1>1, <2>1, <2>2, PlainInv DEF Plain
<1>4. CASE \E e, state, todo : Moves(r, [pc |-> "update", exec |-> e, state |-> state, todo |-> todo])
  <2> PICK e, state, todo : Moves(r, [pc |-> "update", exec |-> e, state |-> state, todo |-> todo])
    BY <1>4
  <2> DEFINE f == [pc |-> "update", exec |-> e, state |-> state, todo |-> todo]
  <2>1. DOMAIN f = {"pc", "exec", "state", "todo"} /\ f.pc = "update" /\ Moves(r, f)
    OBVIOUS
  <2> HIDE DEF f
  <2>2. DOMAIN f \subseteq Names \ {"op", "made"}
    BY <2>1 DEF Names
  <2> QED
    BY <1>1, <2>1, <2>2, PlainInv DEF Plain
<1>5. CASE Moves(r, [pc |-> "mirror"]) \/ Moves(r, [pc |-> "output"])
  BY <1>1, <1>5, PlainInv DEF Names, Plain
<1>6. CASE \E key : Moves(r, Emits(key, "output"))
  BY <1>1, <1>6, EmitsInv
<1>7. CASE \E pc \in {"replay", "next"} : \E pos, upto : Moves(r, [pc |-> pc, pos |-> pos, upto |-> upto])
  <2> PICK pc \in {"replay", "next"} : \E pos, upto : Moves(r, [pc |-> pc, pos |-> pos, upto |-> upto])
    BY <1>7
  <2> PICK pos, upto : Moves(r, [pc |-> pc, pos |-> pos, upto |-> upto])
    OBVIOUS
  <2> DEFINE f == [pc |-> pc, pos |-> pos, upto |-> upto]
  <2>1. DOMAIN f = {"pc", "pos", "upto"} /\ f.pc = pc /\ Moves(r, f)
    OBVIOUS
  <2> HIDE DEF f
  <2>2. DOMAIN f \subseteq Names \ {"op", "made"}
    BY <2>1 DEF Names
  <2> QED
    BY <1>1, <2>1, <2>2, PlainInv DEF Plain
<1>8. CASE Moves(r, [pos |-> task[r].pos + 1])
  BY <1>1, <1>8, StayInv DEF Names
<1>9. CASE \E key : Moves(r, Updated(Emits(key, "replay"), [pos |-> task[r].pos + 1]))
  BY <1>1, <1>9, EmitsWithInv
<1>. QED
  <2>1. CASE Load(r) \/ NextExecution(r)
    BY <1>2, <1>3, <1>4, <2>1 DEF Load, NextExecution
  <2>2. CASE ReadMirror(r) \/ WriteMirror(r)
    BY <1>5, <1>6, <2>2 DEF ReadMirror, WriteMirror
  <2>3. CASE ReadOutput(r)
    BY <1>7, <2>3 DEF ReadOutput
  <2>4. CASE Replay(r)
    BY <1>7, <1>8, <1>9, <2>4 DEF Replay
  <2>. QED
    BY <2>1, <2>2, <2>3, <2>4

-----------------------------------------------------------------------------
(* The session of the investigation *)

\* A record that names a session names that of the key, which lives.
LEMMA ResolveInv ==
    ASSUME CalmInv, NEW r \in Requests, Resolve(r)
    PROVE  CalmInv'
<1>1. Spared /\ ~Holding(task[r]) /\ Sound(task[r]) /\ task[r].op \in {"ensure", "terminate", "attach"}
  BY Untouched DEF CalmInv, AllSound, Sound, Resolve, Holding, Recording, Undecided, At
<1>2. CASE ~Live(inv.record)
  <2>1. CASE Replies(r)
    BY <1>1, <2>1, ReplyInv
  <2>2. CASE Moves(r, [tries |-> task[r].tries + 1])
    BY <1>1, <2>2, StayInv DEF Names
  <2> QED
    BY <1>2, <2>1, <2>2 DEF Resolve
<1>3. CASE Live(inv.record)
  <2> DEFINE s == inv.record.session
  <2>1. s \in {Absent, inv.session}
    BY <1>3 DEF CalmInv, Shape, NamesKey, Live
  <2>2. CASE Op(r) = "attach"
    <3>1. Moves(r, [pc |-> "admit"])
      BY <1>3, <2>2 DEF Resolve
    <3> QED
      BY <1>1, <3>1, PlainInv DEF Names, Plain
  <2>3. CASE Op(r) = "terminate"
    <3>1. Replies(r) \/ Moves(r, [pc |-> "kill", sess |-> s])
      BY <1>3, <2>3 DEF Resolve
    <3>2. CASE Replies(r)
      BY <1>1, <3>2, ReplyInv
    <3>3. CASE Moves(r, [pc |-> "kill", sess |-> s])
      <4> DEFINE f == [pc |-> "kill", sess |-> s]
      <4>1. DOMAIN f = {"pc", "sess"} /\ f.pc = "kill" /\ Moves(r, f)
        BY <3>3
      <4> HIDE DEF f
      <4>2. DOMAIN f \subseteq Names \ {"op", "made"}
        BY <4>1 DEF Names
      <4> QED
        BY <1>1, <4>1, <4>2, PlainInv DEF Plain
    <3> QED
      BY <3>1, <3>2, <3>3
  <2>4. CASE Op(r) = "ensure"
    <3> DEFINE f == [pc |-> IF s = Absent THEN "make" ELSE "probe", sess |-> s]
               t == Updated(task[r], f)
    <3>1. Moves(r, f)
      BY <1>3, <2>4 DEF Resolve
    <3>2. DOMAIN f = {"pc", "sess"} /\ f.pc = (IF s = Absent THEN "make" ELSE "probe") /\ f.sess = s
      OBVIOUS
    <3> HIDE DEF f
    <3>3. DOMAIN f \subseteq Names \ {"made"}
      BY <3>2 DEF Names
    <3>4. /\ t = [x \in Names |-> t[x]] /\ t.op = task[r].op /\ t.pc = f.pc /\ t.then = task[r].then
          /\ t.seen = task[r].seen /\ t.sess = s /\ t.made = task[r].made
      BY <3>2, <3>3, Fields
    <3> HIDE DEF t, s
    <3>5. Sound(t)
      BY <1>1, <2>1, <2>4, <3>2, <3>4 DEF Sound, Holding, Undecided, Recording, AfterTrouble, Op
    <3> QED
      BY <1>1, <3>1, <3>3, <3>5, FieldsInv DEF t
  <2> QED
    BY <1>1, <2>2, <2>3, <2>4 DEF Op
<1>. QED
  BY <1>2, <1>3

\* So the session an ensure finds is always there.
LEMMA ProbeInv ==
    ASSUME CalmInv, NEW r \in Requests, Probe(r)
    PROVE  CalmInv'
<1>1. Spared /\ ~Holding(task[r])
  BY Untouched DEF Probe, Holding, Recording, Undecided, At
<1>2. tty.sess[task[r].sess] = "live"
  BY DEF CalmInv, AllSound, Sound, KeyLives, Probe, At
<1>3. Replies(r)
  BY <1>2 DEF Probe
<1>. QED
  BY <1>1, <1>3, ReplyInv

\* attachSession, before the key is set.
LEMMA BindInv ==
    ASSUME CalmInv, NEW r \in Requests, Bind(r) \/ Lookup(r) \/ (Claim(r) /\ inv.session # Absent)
    PROVE  CalmInv'
<1>1. Spared /\ task[r].pc \in Undecided /\ Sound(task[r])
  BY Untouched DEF Bind, Lookup, Claim, Undecided, At, CalmInv, AllSound
<1>2. /\ NamesKey(inv.record)
      /\ (task[r].pc \in {"claim", "lookup"} => task[r].seen # Absent)
  BY <1>1 DEF CalmInv, Shape, Sound
<1>3. ASSUME NEW pc \in {"discard", "bound", "keep"}, NEW sess, Moves(r, [pc |-> pc, sess |-> sess]),
             pc # "discard" => sess = inv.session /\ sess # Absent,
             pc = "keep" => task[r].seen # Absent
      PROVE  CalmInv'
  <2> DEFINE f == [pc |-> pc, sess |-> sess]
             t == Updated(task[r], f)
  <2>1. DOMAIN f = {"pc", "sess"} /\ f.pc = pc /\ f.sess = sess /\ Moves(r, f)
    BY <1>3
  <2> HIDE DEF f
  <2>2. DOMAIN f \subseteq Names \ {"made"}
    BY <2>1 DEF Names
  <2>3. /\ t = [x \in Names |-> t[x]] /\ t.op = task[r].op /\ t.pc = pc /\ t.then = task[r].then
        /\ t.seen = task[r].seen /\ t.sess = sess /\ t.made = task[r].made
    BY <2>1, <2>2, Fields
  <2> HIDE DEF t
  <2>4. Sound(t)
    BY <1>1, <1>3, <2>3 DEF Sound, Holding, Undecided, Recording, AfterTrouble
  <2> QED
    BY <1>1, <2>1, <2>2, <2>4, FieldsInv DEF t
<1>4. CASE Live(inv.record) /\ Moves(r, [pc |-> "claim", seen |-> inv.record])
  <2> DEFINE f == [pc |-> "claim", seen |-> inv.record]
             t == Updated(task[r], f)
  <2>1. DOMAIN f = {"pc", "seen"} /\ f.pc = "claim" /\ f.seen = inv.record /\ Moves(r, f)
    BY <1>4
  <2> HIDE DEF f
  <2>2. DOMAIN f \subseteq Names \ {"made"}
    BY <2>1 DEF Names
  <2>3. /\ t = [x \in Names |-> t[x]] /\ t.op = task[r].op /\ t.pc = "claim" /\ t.then = task[r].then
        /\ t.seen = inv.record /\ t.sess = task[r].sess /\ t.made = task[r].made
    BY <2>1, <2>2, Fields
  <2> HIDE DEF t
  <2>4. Sound(t)
    BY <1>1, <1>2, <1>4, <2>3 DEF Sound, Holding, Undecided, Recording, AfterTrouble, Live
  <2> QED
    BY <1>1, <2>1, <2>2, <2>4, FieldsInv DEF t
<1>5. CASE Claim(r) /\ inv.session # Absent
  <2> DEFINE t == Updated(task[r], [pc |-> "lookup"])
  <2>1. task[r].pc = "claim" /\ Moves(r, [pc |-> "lookup"])
    BY <1>5 DEF Claim, At
  <2>2. /\ t = [x \in Names |-> t[x]] /\ t.op = task[r].op /\ t.pc = "lookup" /\ t.then = task[r].then
        /\ t.seen = task[r].seen /\ t.sess = task[r].sess /\ t.made = task[r].made
    BY Fields DEF Names
  <2> HIDE DEF t
  <2>3. Sound(t)
    BY <1>1, <1>2, <2>1, <2>2 DEF Sound, Holding, Undecided, Recording, AfterTrouble
  <2> QED
    BY <1>1, <2>1, <2>3, FieldsInv DEF t, Names
<1>6. CASE Lookup(r)
  <2> DEFINE pc == IF inv.session = Absent THEN "discard" ELSE "keep"
  <2>1. task[r].pc = "lookup" /\ Moves(r, [pc |-> pc, sess |-> inv.session])
    BY <1>6 DEF Lookup, At
  <2> QED
    BY <1>2, <1>3, <2>1
<1>7. CASE Bind(r)
  <2>1. CASE ~Live(inv.record)
    BY <1>3, <1>7, <2>1 DEF Bind
  <2>2. CASE Live(inv.record) /\ inv.record.session # Absent
    <3>1. inv.record.session = inv.session
      BY <1>2, <2>2 DEF NamesKey, Live
    <3> QED
      BY <1>3, <1>7, <2>2, <3>1 DEF Bind
  <2>3. CASE Live(inv.record) /\ inv.record.session = Absent
    BY <1>4, <1>7, <2>3 DEF Bind
  <2> QED
    BY <2>1, <2>2, <2>3
<1>. QED
  BY <1>5, <1>6, <1>7

\* The record names the session of the key, whether the request created that one or not.
LEMMA KeepInv ==
    ASSUME CalmInv, NEW r \in Requests, Keep(r)
    PROVE  CalmInv'
<1> DEFINE e == Emits(<<"attached", task[r].sess>>, "bound")
           f == Updated(e, [seen |-> Absent])
           t == Updated(task[r], f)
<1>1. /\ Sound(task[r]) /\ task[r].pc = "keep" /\ Moves(r, f)
      /\ inv' = [inv EXCEPT !.record = [task[r].seen EXCEPT !.session = task[r].sess]] /\ tty' = tty
  BY DEF Keep, At, CalmInv, AllSound
<1>2. Spared
  <2>1. task[r].sess = inv.session /\ NamesKey(task[r].seen) /\ task[r].seen # Absent
    BY <1>1 DEF Sound, Recording
  <2>2. NamesKey([task[r].seen EXCEPT !.session = task[r].sess])
    BY <2>1 DEF NamesKey
  <2> QED
    BY <1>1, <2>2 DEF Spared, CalmInv, Shape, Keys
<1>3. DOMAIN e = {"pc", "key", "then"} /\ e.pc = "mark" /\ e.then = "bound"
  BY DEF Emits
<1> HIDE DEF e
<1>4. DOMAIN f = {"pc", "key", "then", "seen"} /\ f.pc = "mark" /\ f.then = "bound" /\ f.seen = Absent
  BY <1>3 DEF Updated
<1> HIDE DEF f
<1>5. DOMAIN f \subseteq Names \ {"made"}
  BY <1>4 DEF Names
<1>6. /\ t = [x \in Names |-> t[x]] /\ t.op = task[r].op /\ t.pc = "mark" /\ t.then = "bound"
      /\ t.seen = Absent /\ t.sess = task[r].sess /\ t.made = task[r].made
  BY <1>4, <1>5, Fields
<1> HIDE DEF t
<1>7. Sound(t)
  BY <1>1, <1>6 DEF Sound, Holding, Undecided, Recording, AfterTrouble, NamesKey
<1>. QED
  BY <1>1, <1>2, <1>5, <1>7, FieldsInv DEF t

\* A request lets go of its session: the key names it, or it has ended.
LEMMA LetGoInv ==
    ASSUME CalmInv, NEW r \in Requests, Replies(r), inv' = inv,
           task[r].made \in Sessions,
           \/ tty' = tty /\ task[r].made = inv.session
           \/ tty' = [tty EXCEPT !.sess[task[r].made] = "gone"] /\ task[r].made # inv.session
    PROVE  CalmInv'
<1> DEFINE m == task[r].made
<1>1. Idle.made = Absent
  BY DEF Idle
<1>2. \A q \in Requests : task'[q] = IF q = r THEN Idle ELSE task[q]
  BY DEF Replies, CalmInv, Shape
<1>3. \A s \in Sessions : s # m \/ m = inv.session => tty'.sess[s] = tty.sess[s]
  BY DEF CalmInv, Shape, Services, KeyLives
<1>4. m # inv.session => tty'.sess[m] = "gone"
  BY DEF CalmInv, Shape, Services, KeyLives
<1>5. Shape'
  BY DEF CalmInv, Shape, Services, NamesKey, Replies
<1>6. KeyLives'
  <2>1. tty'.sess \in [Sessions -> {"none", "live", "gone"}]
    BY DEF CalmInv, Shape, Services, KeyLives
  <2> QED
    BY <1>3, <2>1 DEF CalmInv, KeyLives
<1>7. AllSound'
  <2> SUFFICES ASSUME NEW q \in Requests PROVE Sound(task[q])'
    BY DEF AllSound
  <2>1. Sound(Idle)'
    BY DEF Idle, Sound, Names, AfterTrouble, NamesKey, Recording, Holding, Undecided
  <2>2. ASSUME q # r PROVE Sound(task[q])'
    <3>1. Sound(task[q]) /\ task'[q] = task[q]
      BY <1>2, <2>2 DEF CalmInv, AllSound
    <3>2. task[q].made \in Sessions => task[q].made # m
      BY <2>2, InvestigationsAssumption DEF CalmInv, HeldOnce
    <3>3. task[q].made # Absent => tty'.sess[task[q].made] = "live"
      BY <1>3, <3>1, <3>2 DEF Sound
    <3> DEFINE u == task[q]
    <3> HIDE DEF m
    <3> QED
      BY <3>1, <3>3 DEF Sound, NamesKey
  <2> QED
    BY <1>2, <2>1, <2>2
<1>8. HeldOnce'
  BY <1>1, <1>2 DEF CalmInv, HeldOnce
<1>9. LiveIsHeld'
  <2> SUFFICES ASSUME NEW s \in Sessions, tty'.sess[s] = "live", s # inv.session
               PROVE  \E q \in Requests : task'[q].made = s
    BY DEF LiveIsHeld
  <2>1. s # m /\ tty.sess[s] = "live"
    BY <1>3, <1>4
  <2>2. PICK q \in Requests : task[q].made = s
    BY <2>1 DEF CalmInv, LiveIsHeld
  <2> QED
    BY <1>2, <2>1, <2>2
<1>. QED
  BY <1>5, <1>6, <1>7, <1>8, <1>9 DEF CalmInv

LEMMA BoundInv ==
    ASSUME CalmInv, NEW r \in Requests, ~Fails, Bound(r) \/ Discard(r)
    PROVE  CalmInv'
<1>1. Sound(task[r]) /\ task[r].pc \in {"bound", "discard"} /\ task[r].made \in Sessions
  BY DEF CalmInv, AllSound, Sound, Holding, Recording, Bound, Discard, At
<1>2. CASE Discard(r)
  BY <1>1, <1>2, LetGoInv DEF Discard, Sound, At
<1>3. CASE Bound(r) /\ task[r].sess = task[r].made
  BY <1>1, <1>3, LetGoInv DEF Bound, Sound, Recording, At
<1>4. CASE Bound(r) /\ task[r].sess # task[r].made
  <2> DEFINE t == Updated(task[r], [pc |-> "discard"])
  <2>1. task[r].pc = "bound" /\ Spared /\ Moves(r, [pc |-> "discard"])
    BY <1>4, Untouched DEF Bound, At
  <2>2. /\ t = [x \in Names |-> t[x]] /\ t.op = task[r].op /\ t.pc = "discard" /\ t.then = task[r].then
        /\ t.seen = task[r].seen /\ t.sess = task[r].sess /\ t.made = task[r].made
    BY Fields DEF Names
  <2> HIDE DEF t
  <2>3. Sound(t)
    BY <1>1, <1>4, <2>1, <2>2 DEF Sound, Holding, Undecided, Recording, AfterTrouble
  <2> QED
    BY <2>1, <2>3, FieldsInv DEF t, Names
<1>. QED
  BY <1>2, <1>3, <1>4

\* A session is created: no request holds it, and the key does not name it.
LEMMA MakeInv ==
    ASSUME CalmInv, NEW r \in Requests, Make(r)
    PROVE  CalmInv'
<1>1. Sound(task[r]) /\ task[r].pc = "make" /\ ~Holding(task[r]) /\ task[r].made = Absent
  BY DEF Make, At, CalmInv, AllSound, Sound, Holding, Undecided, Recording
<1>2. CASE Fresh = {}
  BY <1>1, <1>2, ReplyInv, Untouched DEF Make
<1>3. CASE Fresh # {}
  <2>1. PICK s \in Fresh : /\ tty' = [tty EXCEPT !.sess[s] = "live"] /\ inv' = inv
                           /\ Moves(r, [pc |-> "bind", made |-> s])
    BY <1>3 DEF Make
  <2>2. s \in Sessions /\ tty.sess[s] = "none" /\ s # Absent /\ s # inv.session
    BY InvestigationsAssumption DEF Fresh, CalmInv, KeyLives
  <2>3. \A q \in Requests : task[q].made # s
    BY <2>2 DEF CalmInv, AllSound, Sound
  <2>4. /\ \A u \in Sessions : tty'.sess[u] = IF u = s THEN "live" ELSE tty.sess[u]
        /\ tty'.sess \in [Sessions -> {"none", "live", "gone"}]
        /\ tty' = [x \in Services |-> tty'[x]]
    BY <2>1, <2>2 DEF CalmInv, Shape, Services, KeyLives
  <2> DEFINE f == [pc |-> "bind", made |-> s]
             t == Updated(task[r], f)
  <2>5. DOMAIN f = {"pc", "made"} /\ f.pc = "bind" /\ f.made = s /\ Moves(r, f)
    BY <2>1
  <2> HIDE DEF f
  <2>6. DOMAIN f \subseteq Names
    BY <2>5 DEF Names
  <2>7. /\ t = [x \in Names |-> t[x]] /\ t.op = task[r].op /\ t.pc = "bind" /\ t.then = task[r].then
        /\ t.seen = task[r].seen /\ t.sess = task[r].sess /\ t.made = s
    BY <2>5, <2>6, Fields
  <2>8. task' = [task EXCEPT ![r] = t]
    BY <2>5 DEF Moves
  <2> HIDE DEF t
  <2>9. \A q \in Requests : task'[q] = IF q = r THEN t ELSE task[q]
    BY <2>8 DEF CalmInv, Shape
  <2>10. Shape'
    BY <2>1, <2>4, <2>8 DEF CalmInv, Shape, NamesKey
  <2>11. KeyLives'
    BY <2>1, <2>2, <2>4 DEF CalmInv, KeyLives
  <2>12. AllSound'
    <3> SUFFICES ASSUME NEW q \in Requests PROVE Sound(task[q])'
      BY DEF AllSound
    <3>1. tty'.sess[s] = "live" /\ inv'.session = inv.session
      BY <2>1, <2>2, <2>4
    <3>2. Sound(task[r])'
      <4>1. /\ task'[r] = [x \in Names |-> task'[r][x]] /\ task'[r].op = task[r].op /\ task'[r].pc = "bind"
            /\ task'[r].then = task[r].then /\ task'[r].seen = task[r].seen /\ task'[r].made = s
        BY <2>7, <2>9
      <4>2. NamesKey(task[r].seen)'
        BY <1>1, <3>1, <4>1 DEF Sound, NamesKey
      <4> QED
        BY <1>1, <2>2, <3>1, <4>1, <4>2 DEF Sound, Holding, Undecided, Recording, AfterTrouble
    <3>3. ASSUME q # r PROVE Sound(task[q])'
      <4>1. Sound(task[q]) /\ task'[q] = task[q]
        BY <2>9, <3>3 DEF CalmInv, AllSound
      <4>2. task[q].made # Absent => tty'.sess[task[q].made] = "live"
        BY <2>3, <2>4, <4>1 DEF Sound
      <4> QED
        BY <3>1, <4>1, <4>2 DEF Sound, NamesKey
    <3> QED
      BY <3>2, <3>3
  <2>13. HeldOnce'
    BY <2>3, <2>7, <2>9 DEF CalmInv, HeldOnce
  <2>14. LiveIsHeld'
    <3> SUFFICES ASSUME NEW u \in Sessions, tty'.sess[u] = "live", u # inv.session
                 PROVE  \E q \in Requests : task'[q].made = u
      BY <2>1 DEF LiveIsHeld
    <3>1. CASE u = s
      BY <2>7, <2>9, <3>1
    <3>2. CASE u # s
      <4>1. PICK q \in Requests : task[q].made = u
        BY <2>4, <3>2 DEF CalmInv, LiveIsHeld
      <4>2. q # r
        BY <1>1, <4>1, InvestigationsAssumption
      <4> QED
        BY <2>9, <4>1, <4>2
    <3> QED
      BY <3>1, <3>2
  <2> QED
    BY <2>10, <2>11, <2>12, <2>13, <2>14 DEF CalmInv
<1>. QED
  BY <1>2, <1>3

\* The key is set where it is absent: no record names a session then, and no other request has
\* got as far as recording one.
LEMMA ClaimInv ==
    ASSUME CalmInv, NEW r \in Requests, Claim(r)
    PROVE  CalmInv'
<1>1. Sound(task[r]) /\ task[r].pc = "claim"
  BY DEF Claim, At, CalmInv, AllSound
<1>2. CASE inv.session # Absent
  BY <1>2, BindInv
<1>3. CASE inv.session = Absent
  <2> DEFINE m == task[r].made
             f == [pc |-> "keep", sess |-> m]
             t == Updated(task[r], f)
  <2>1. inv' = [inv EXCEPT !.session = m] /\ tty' = tty /\ Moves(r, f)
    BY <1>3 DEF Claim
  <2>2. m \in Sessions /\ m # Absent /\ tty.sess[m] = "live"
    BY <1>1 DEF Sound, Holding, Undecided
  <2>3. DOMAIN f = {"pc", "sess"} /\ f.pc = "keep" /\ f.sess = m
    OBVIOUS
  <2> HIDE DEF f
  <2>4. DOMAIN f \subseteq Names
    BY <2>3 DEF Names
  <2>5. /\ t = [x \in Names |-> t[x]] /\ t.op = task[r].op /\ t.pc = "keep" /\ t.then = task[r].then
        /\ t.seen = task[r].seen /\ t.sess = m /\ t.made = m
    BY <2>3, <2>4, Fields
  <2>6. task' = [task EXCEPT ![r] = t]
    BY <2>1 DEF Moves
  <2>7. inv' = [x \in Keys |-> inv'[x]] /\ inv'.session = m /\ inv'.record = inv.record
    BY <2>1 DEF CalmInv, Shape, Keys
  <2> HIDE DEF t, m
  <2>8. \A q \in Requests : task'[q] = IF q = r THEN t ELSE task[q]
    BY <2>6 DEF CalmInv, Shape
  <2>9. \A v : NamesKey(v) => NamesKey(v)'
    BY <1>3, <2>7 DEF NamesKey
  <2>10. Shape'
    BY <2>1, <2>6, <2>7, <2>9 DEF CalmInv, Shape
  <2>11. KeyLives'
    BY <2>1, <2>2, <2>7 DEF CalmInv, KeyLives
  <2>12. AllSound'
    <3> SUFFICES ASSUME NEW q \in Requests PROVE Sound(task[q])'
      BY DEF AllSound
    <3>1. Sound(task[r])'
      <4>1. /\ task'[r] = [x \in Names |-> task'[r][x]] /\ task'[r].op = task[r].op /\ task'[r].pc = "keep"
            /\ task'[r].then = task[r].then /\ task'[r].seen = task[r].seen /\ task'[r].sess = m /\ task'[r].made = m
        BY <2>5, <2>8
      <4>2. NamesKey(task[r].seen)' /\ task'[r].seen # Absent
        BY <1>1, <2>9, <4>1 DEF Sound
      <4> QED
        BY <1>1, <2>1, <2>2, <2>7, <4>1, <4>2 DEF Sound, Holding, Undecided, Recording, AfterTrouble
    <3>2. ASSUME q # r PROVE Sound(task[q])'
      <4>1. Sound(task[q]) /\ task'[q] = task[q]
        BY <2>8, <3>2 DEF CalmInv, AllSound
      <4>2. task[q].pc # "probe" /\ ~Recording(task[q])
        BY <1>3, <4>1 DEF Sound
      <4>3. task[q].made # m
        BY <2>2, <3>2 DEF CalmInv, HeldOnce, m
      <4> QED
        BY <2>1, <2>7, <2>9, <4>1, <4>2, <4>3 DEF Sound, Holding, Recording
    <3> QED
      BY <3>1, <3>2
  <2>13. HeldOnce'
    BY <2>5, <2>8 DEF CalmInv, HeldOnce, m
  <2>14. LiveIsHeld'
    BY <1>3, <2>1, <2>2, <2>5, <2>7, <2>8, InvestigationsAssumption DEF CalmInv, LiveIsHeld, m
  <2> QED
    BY <2>10, <2>11, <2>12, <2>13, <2>14 DEF CalmInv
<1>. QED
  BY <1>2, <1>3

-----------------------------------------------------------------------------
\* What goes wrong is remembered.
LEMMA TroubleShows ==
    ASSUME Remembers, NEW r \in Requests,
           Fails \/ WriteDelete(r) \/ Kill(r) \/ Cut(r)
    PROVE  ~left'.calm
BY DEF Remembers, Fails, WriteDelete, Kill, Cut

\* Steps that are taken after trouble only.
LEMMA NoTrouble ==
    ASSUME CalmInv, NEW r \in Requests
    PROVE  ~(Unmark(r) \/ Undo(r) \/ Unbind(r) \/ Clear(r) \/ Forget(r) \/ ForgetRest(r) \/ Cleared(r))
BY DEF CalmInv, AllSound, Sound, AfterTrouble, Unmark, Undo, Unbind, Clear, Forget, ForgetRest, Cleared, At

LEMMA StepInv ==
    ASSUME CalmInv, Remembers, left'.calm, NEW r \in Requests, Step(r)
    PROVE  CalmInv'
<1>1. ~Fails /\ ~WriteDelete(r) /\ ~Kill(r)
  BY TroubleShows
<1>2. ~AppendRefused(r) /\ ~ProbeFails(r)
  BY <1>1 DEF AppendRefused, ProbeFails
<1>3. CASE Mark(r) \/ AppendEvent(r) \/ InsertRecord(r) \/ IndexRecord(r) \/ ReadRecord(r) \/ WritePatch(r) \/ Peek(r)
           \/ Unlist(r) \/ Scan(r) \/ Resolve(r) \/ Probe(r)
  BY <1>1, <1>3, MarkInv, CreateInv, ReadRecordInv, WritePatchInv, ListInv, ResolveInv, ProbeInv
<1>4. CASE Make(r) \/ Bind(r) \/ Claim(r) \/ Lookup(r) \/ Keep(r) \/ Bound(r) \/ Discard(r)
  BY <1>1, <1>4, MakeInv, BindInv, ClaimInv, KeepInv, BoundInv
<1>5. CASE Admit(r) \/ Hold(r) \/ Enter(r) \/ Count(r) \/ Recount(r) \/ Rewrite(r) \/ Note(r) \/ Pin(r) \/ Tally(r)
  BY <1>5, AttachInv, RewriteInv, NoteInv
<1>6. CASE Load(r) \/ NextExecution(r) \/ ReadMirror(r) \/ WriteMirror(r) \/ ReadOutput(r) \/ Replay(r)
  BY <1>6, OpenInv
<1>. QED
  BY <1>1, <1>2, <1>3, <1>4, <1>5, <1>6, NoTrouble DEF Step

\* The world around the requests: executions go on.
LEMMA AroundInv ==
    ASSUME CalmInv, NEW e \in Executions, ExecutionRuns(e) \/ ExecutionWrites(e)
    PROVE  CalmInv'
<1>1. inv' = inv /\ task' = task /\ tty'.sess = tty.sess /\ tty' = [x \in Services |-> tty'[x]]
  BY DEF ExecutionRuns, ExecutionWrites, CalmInv, Shape, Services
<1>2. AllSound'
  <2> SUFFICES ASSUME NEW r \in Requests PROVE Sound(task[r])'
    BY DEF AllSound
  <2>1. Sound(task[r])
    BY DEF CalmInv, AllSound
  <2> QED
    BY <1>1, <2>1 DEF Sound, NamesKey
<1>. QED
  BY <1>1, <1>2 DEF CalmInv, Shape, NamesKey, KeyLives, HeldOnce, LiveIsHeld

\* Nothing takes trouble back.
LEMMA RemembersStep ==
    ASSUME Remembers, [InvestigationNext]_invVars
    PROVE  Remembers' /\ (left'.calm => left.calm)
<1>1. ASSUME NEW what \in {"create", "patch", "delete", "list", "ensure", "terminate", "attach", "open", "bookmark", "note"},
             Spend(what)
      PROVE  Remembers' /\ (left'.calm => left.calm)
  BY <1>1 DEF Remembers, Spend
<1>2. ASSUME NEW r \in Requests, Start(r)
      PROVE  Remembers' /\ (left'.calm => left.calm)
  BY <1>1, <1>2 DEF Start, StartCreate, StartPatch, StartDelete, StartList, StartEnsure, StartTerminate, StartAttach,
                    StartOpen, StartBookmark, StartNote, Begin
<1>3. CASE UNCHANGED left
  BY <1>3 DEF Remembers
<1>4. ASSUME Fails PROVE Remembers' /\ (left'.calm => left.calm)
  BY <1>4 DEF Remembers, Fails
<1>5. ASSUME left' = [left EXCEPT !.calm = FALSE]
      PROVE  Remembers' /\ (left'.calm => left.calm)
  BY <1>5 DEF Remembers
<1>6. ASSUME NEW r \in Requests, Step(r)
      PROVE  UNCHANGED left \/ Fails \/ left' = [left EXCEPT !.calm = FALSE]
  BY <1>6 DEF Step, Mark, AppendEvent, AppendRefused, Unmark, InsertRecord, IndexRecord, Undo, ReadRecord, WritePatch, Peek,
       WriteDelete, Unlist, Unbind, Scan, Resolve, Probe, ProbeFails, Clear, Forget, ForgetRest, Cleared, Make, Bind, Claim,
       Lookup, Keep, Bound, Discard, Kill, Admit, Hold, Enter, Count, Recount, Rewrite, Note, Pin, Tally, Load,
       NextExecution, ReadMirror, WriteMirror, ReadOutput, Replay
<1>7. ASSUME NEW r \in Requests, Cut(r) PROVE Remembers' /\ (left'.calm => left.calm)
  BY <1>7 DEF Remembers, Cut
<1>8. ASSUME NEW s \in Sessions, SessionDies(s) PROVE Remembers' /\ (left'.calm => left.calm)
  BY <1>8 DEF Remembers, SessionDies
<1>. QED
  BY <1>2, <1>3, <1>4, <1>5, <1>6, <1>7, <1>8
  DEF InvestigationNext, ExecutionRuns, ExecutionWrites, invVars

\* A step of the application is one of each part, or leaves the part alone.
LEMMA WorkSteps ==
    ASSUME [Next]_webVars
    PROVE  /\ [InvestigationNext]_invVars /\ [ClientNext]_clientVars /\ [EngineeringNext]_engineeringVars
BY DEF Next, webVars, InvestigationsWork, EvidenceWork, ClientWork, EngineeringWork

LEMMA StartsCalm ==
    ASSUME InvestigationInit
    PROVE  SessionInv
<1>1. Remembers
  BY DEF InvestigationInit, Beginning, Budgets, Remembers
<1>2. /\ inv = [x \in Keys |-> inv[x]] /\ inv.session \in Sessions \cup {Absent} /\ NamesKey(inv.record)
  <2>1. CASE inv = NoInvestigation
    BY <2>1 DEF NoInvestigation, Keys, NamesKey
  <2>2. ASSUME NEW s \in Sessions \cup {Absent}
        PROVE  /\ Begun(s) = [x \in Keys |-> Begun(s)[x]] /\ Begun(s).session = s
               /\ Begun(s).record = [status |-> "active", title |-> "first", session |-> s]
    <3>1. NoInvestigation = [x \in Keys |-> NoInvestigation[x]]
      BY DEF NoInvestigation, Keys
    <3> QED
      BY <3>1 DEF Begun, Keys
  <2>3. ASSUME NEW s \in Sessions \cup {Absent}, NEW e \in Executions
        PROVE  /\ BegunWith(s, e) = [x \in Keys |-> BegunWith(s, e)[x]]
               /\ BegunWith(s, e).session = Begun(s).session /\ BegunWith(s, e).record = Begun(s).record
    <3> DEFINE b == Begun(s)
    <3>1. b = [x \in Keys |-> b[x]]
      BY <2>2
    <3> HIDE DEF b
    <3>2. BegunWith(s, e) = [b EXCEPT !.execs[e] = "queued", !.index = {e}, !.count = 1,
                                      !.marks = @ \cup {<<"queued", e>>},
                                      !.timeline = @ (+) SetToBag({<<"queued", e>>})]
      BY DEF BegunWith, b
    <3> DEFINE w == BegunWith(s, e)
    <3> HIDE DEF w
    <3>3. w = [x \in Keys |-> w[x]] /\ w.session = b.session /\ w.record = b.record
      BY <3>1, <3>2 DEF Keys, w
    <3> QED
      BY <3>3 DEF w, b
  <2>4. ASSUME NEW s \in Sessions \cup {Absent}, inv.session = s,
               inv.record = [status |-> "active", title |-> "first", session |-> s]
        PROVE  NamesKey(inv.record)
    BY <2>4 DEF NamesKey
  <2>5. CASE \E s \in Sessions \cup {Absent} : inv = Begun(s) \/ \E e \in Executions : inv = BegunWith(s, e)
    <3>1. PICK s \in Sessions \cup {Absent} : inv = Begun(s) \/ \E e \in Executions : inv = BegunWith(s, e)
      BY <2>5
    <3>2. /\ inv = [x \in Keys |-> inv[x]] /\ inv.session = s
          /\ inv.record = [status |-> "active", title |-> "first", session |-> s]
      BY <2>2, <2>3, <3>1
    <3> QED
      BY <2>4, <3>2
  <2> QED
    BY <2>1, <2>5 DEF InvestigationInit, Beginning
<1>3. \A r \in Requests : Sound(task[r]) /\ task[r].made = Absent
  BY DEF InvestigationInit, Nobody, Idle, Sound, Names, AfterTrouble, NamesKey, Recording, Holding, Undecided
<1>4. /\ tty = [x \in Services |-> tty[x]] /\ tty.sess \in [Sessions -> {"none", "live", "gone"}]
      /\ \A s \in Sessions : tty.sess[s] = "live" <=> s = inv.session
  BY DEF InvestigationInit, Beginning, Services
<1>5. task = [r \in Requests |-> task[r]]
  BY DEF InvestigationInit, Nobody
<1>. QED
  BY <1>1, <1>2, <1>3, <1>4, <1>5 DEF SessionInv, CalmInv, Shape, KeyLives, AllSound, HeldOnce, LiveIsHeld

\* While nothing has failed or ended, no session is left over when the requests are done: each one
\* that lives is named by the key, however many requests created a session at the same time.
THEOREM SessionAccountedAlways == Spec => []SessionAccounted
<1>1. Init => SessionInv
  BY StartsCalm, ScenariosAssumption DEF Init, InvestigationInit
<1>2. SessionInv /\ [Next]_webVars => SessionInv'
  <2>. SUFFICES ASSUME SessionInv, [InvestigationNext]_invVars, left'.calm
               PROVE  CalmInv'
    BY RemembersStep, WorkSteps DEF SessionInv
  <2>1. Remembers /\ CalmInv
    BY RemembersStep DEF SessionInv
  <2>2. ASSUME NEW r \in Requests, Start(r) \/ Step(r) \/ Cut(r) PROVE CalmInv'
    BY <2>1, <2>2, StartInv, StepInv, TroubleShows
  <2>3. ASSUME NEW s \in Sessions, SessionDies(s) PROVE CalmInv'
    BY <2>1, <2>3 DEF SessionDies, Remembers
  <2>4. ASSUME UNCHANGED invVars PROVE CalmInv'
    <3>1. AllSound'
      <4> SUFFICES ASSUME NEW r \in Requests PROVE Sound(task[r])'
        BY DEF AllSound
      <4>1. Sound(task[r]) /\ UNCHANGED <<inv, task, tty>>
        BY <2>1, <2>4 DEF CalmInv, AllSound, invVars
      <4> QED
        BY <4>1 DEF Sound, NamesKey
    <3> QED
      BY <2>1, <2>4, <3>1 DEF invVars, CalmInv, Shape, NamesKey, KeyLives, HeldOnce, LiveIsHeld
  <2> QED
    BY <2>1, <2>2, <2>3, <2>4, AroundInv DEF InvestigationNext
<1>3. SessionInv => SessionAccounted
  <2> SUFFICES ASSUME SessionInv, Quiet, left.calm, NEW s \in Sessions, tty.sess[s] = "live"
               PROVE  s = inv.session
    BY DEF SessionAccounted
  <2>1. \A r \in Requests : task[r].made = Absent
    BY DEF Quiet, Nobody, Idle
  <2> QED
    BY <2>1, InvestigationsAssumption DEF SessionInv, CalmInv, LiveIsHeld
<1>. QED
  BY <1>1, <1>2, <1>3, PTL DEF Spec

-----------------------------------------------------------------------------
(* Engineering runs.  A verification writes its verdict last, so what a    *)
(* request has still to write tells what it has written.                   *)

RunStatuses == {"PLANNING", "VERIFYING", "COMPLETED", "FAILED"}
AnalystRoles == {"REPOSITORY_ANALYST", "ARCHITECT", "SECURITY_ENGINEER", "TEST_ENGINEER"}
FactTitles == {"snapshot", "graph", "reconciliation"} \cup AnalystRoles

\* The writes that give no verdict.
Unjudging ==
    [table : {"contexts", "nodes", "edges"}]
    \cup [table : {"new"}, snapshot : DOMAIN Snapshots]
    \cup [table : {"runs"}, status : RunStatuses, verdict : {Unset}]
    \cup [table : {"tasks"}, role : AnalystRoles, status : RunStatuses]
    \cup [table : {"evidence"}, title : FactTitles, verdict : {Unset}]

TaskStored(run, verdict, stored) == <<run, "VERIFICATION_ENGINEER", AsTask(verdict)>> \in stored.tasks
EvidenceStored(run, verdict, stored) == <<run, "verification", verdict>> \in stored.evidence

\* A verification on its way: what it has not still to write is stored.
Judging(q, stored) ==
    \E verdict :
        \/ q.todo = VerifyWrites(verdict)
        \/ q.todo = Tail(VerifyWrites(verdict))
        \/ q.todo = Tail(Tail(VerifyWrites(verdict))) /\ TaskStored(q.run, verdict, stored)
        \/ q.todo = <<Status(AsTask(verdict), verdict)>> /\ TaskStored(q.run, verdict, stored) /\ EvidenceStored(q.run, verdict, stored)

RequestNames == {"op", "run", "todo", "failed"}

\* A request may write what it has still to write.
Grounded(q, stored) ==
    \/ q = Unset
    \/ q = [x \in RequestNames |-> q[x]] /\ (q.todo \in Seq(Unjudging) \/ Judging(q, stored))

\* The tables, and that a run in them is whole.
Tabled == /\ tables = [x \in {"runs", "tasks", "evidence"} |-> tables[x]]
          /\ tables.runs = [run \in DOMAIN tables.runs |-> tables.runs[run]]
          /\ \A run \in DOMAIN tables.runs :
                tables.runs[run] = [x \in {"status", "verdict", "snapshot"} |-> tables.runs[run][x]]

PanelHolds == panel = [x \in {"files", "busy", "saved", "run", "shown"} |-> panel[x]] /\ panel.files \in DOMAIN Snapshots \cup {Unset}

GroundedInv == /\ Tabled /\ PanelHolds /\ VerdictIsGrounded
               /\ request = [r \in Routes |-> request[r]] /\ \A r \in Routes : Grounded(request[r], tables)

\* Tasks and evidence stay stored.
LEMMA StoredStays ==
    ASSUME Tabled, tables.tasks \subseteq tables'.tasks, tables.evidence \subseteq tables'.evidence, NEW q, Grounded(q, tables)
    PROVE  Grounded(q, tables')
BY DEF Grounded, Judging, TaskStored, EvidenceStored

\* The request after a step, when the others are as they were.
LEMMA RequestsGrounded ==
    ASSUME GroundedInv, tables.tasks \subseteq tables'.tasks, tables.evidence \subseteq tables'.evidence,
           NEW r \in Routes, NEW q, Grounded(q, tables'), request' = [request EXCEPT ![r] = q]
    PROVE  /\ request' = [i \in Routes |-> request'[i]]
           /\ \A i \in Routes : Grounded(request'[i], tables')
<1>1. ASSUME NEW i \in Routes PROVE Grounded(request'[i], tables')
  <2>1. CASE i = r
    BY <2>1 DEF GroundedInv
  <2>2. CASE i # r
    <3> DEFINE k == request[i]
    <3>1. Grounded(k, tables)
      BY DEF GroundedInv
    <3>2. request'[i] = k
      BY <2>2 DEF GroundedInv
    <3> HIDE DEF k
    <3> QED
      BY <3>1, <3>2, StoredStays DEF GroundedInv
  <2> QED
    BY <2>1, <2>2
<1> QED
  BY <1>1 DEF GroundedInv

\* What a write makes of the tables.
LEMMA WrittenIs ==
    ASSUME Tabled, VerdictIsGrounded, NEW run, NEW w, w \in Unjudging \/
              \E verdict : \/ w = Task("VERIFICATION_ENGINEER", AsTask(verdict))
                           \/ w = Fact("verification", verdict)
                           \/ w = Status(AsTask(verdict), verdict) /\ TaskStored(run, verdict, tables) /\ EvidenceStored(run, verdict, tables),
           tables' = Written(w, run)
    PROVE  /\ Tabled' /\ VerdictIsGrounded'
           /\ tables.tasks \subseteq tables'.tasks /\ tables.evidence \subseteq tables'.evidence
<1>1. CASE w.table = "new"
  <2>1. tables' = [tables EXCEPT !.runs = WithRun(@, run, w.snapshot)]
    BY <1>1 DEF Written
  <2>2. /\ tables'.tasks = tables.tasks /\ tables'.evidence = tables.evidence
        /\ tables'.runs = WithRun(tables.runs, run, w.snapshot)
        /\ tables' = [x \in {"runs", "tasks", "evidence"} |-> tables'[x]]
    BY <2>1 DEF Tabled
  <2> QED
    BY <2>2 DEF WithRun, Tabled, VerdictIsGrounded
<1>2. CASE w.table = "runs"
  <2>1. w.verdict # Unset => TaskStored(run, w.verdict, tables) /\ EvidenceStored(run, w.verdict, tables)
    BY <1>2 DEF Unjudging, Task, Fact, Status
  <2>2. tables' = [tables EXCEPT !.runs[run].status = w.status,
                                 !.runs[run].verdict = IF w.verdict = Unset THEN @ ELSE w.verdict]
    BY <1>2 DEF Written
  <2>3. /\ tables'.tasks = tables.tasks /\ tables'.evidence = tables.evidence
        /\ tables' = [x \in {"runs", "tasks", "evidence"} |-> tables'[x]]
        /\ DOMAIN tables'.runs = DOMAIN tables.runs
        /\ tables'.runs = [i \in DOMAIN tables'.runs |-> tables'.runs[i]]
    <3>1. /\ tables'.tasks = tables.tasks /\ tables'.evidence = tables.evidence
          /\ tables' = [x \in {"runs", "tasks", "evidence"} |-> tables'[x]]
      BY <2>2 DEF Tabled
    <3>2. DOMAIN tables'.runs = DOMAIN tables.runs
      BY <2>2 DEF Tabled
    <3>3. tables'.runs = [i \in DOMAIN tables'.runs |-> tables'.runs[i]]
      BY <2>2 DEF Tabled
    <3> QED
      BY <3>1, <3>2, <3>3
  <2>4. ASSUME NEW i \in DOMAIN tables.runs
        PROVE  /\ tables'.runs[i] = [x \in {"status", "verdict", "snapshot"} |-> tables'.runs[i][x]]
               /\ tables'.runs[i].verdict = IF i = run /\ w.verdict # Unset THEN w.verdict ELSE tables.runs[i].verdict
    BY <2>2 DEF Tabled
  <2> QED
    BY <2>1, <2>3, <2>4 DEF Tabled, VerdictIsGrounded, TaskStored, EvidenceStored
<1>3. CASE w.table = "tasks"
  <2>1. tables' = [tables EXCEPT !.tasks = @ \cup {<<run, w.role, w.status>>}]
    BY <1>3 DEF Written
  <2>2. /\ tables' = [x \in {"runs", "tasks", "evidence"} |-> tables'[x]]
        /\ tables'.runs = tables.runs /\ tables.tasks \subseteq tables'.tasks /\ tables'.evidence = tables.evidence
    BY <2>1 DEF Tabled
  <2> QED
    BY <2>2 DEF Tabled, VerdictIsGrounded
<1>4. CASE w.table = "evidence"
  <2>1. tables' = [tables EXCEPT !.evidence = @ \cup {<<run, w.title, w.verdict>>}]
    BY <1>4 DEF Written
  <2>2. /\ tables' = [x \in {"runs", "tasks", "evidence"} |-> tables'[x]]
        /\ tables'.runs = tables.runs /\ tables'.tasks = tables.tasks /\ tables.evidence \subseteq tables'.evidence
    BY <2>1 DEF Tabled
  <2> QED
    BY <2>2 DEF Tabled, VerdictIsGrounded
<1>5. CASE w.table \notin {"new", "runs", "tasks", "evidence"}
  BY <1>5 DEF Written, Tabled, VerdictIsGrounded
<1> QED
  BY <1>1, <1>2, <1>3, <1>4, <1>5

\* The writes that give no verdict, and the lists of them.
LEMMA UnjudgingWrites ==
    /\ \A status \in RunStatuses : Status(status, Unset) \in Unjudging
    /\ \A role \in AnalystRoles, status \in RunStatuses : Task(role, status) \in Unjudging
    /\ \A title \in FactTitles : Fact(title, Unset) \in Unjudging
    /\ \A table \in {"contexts", "nodes", "edges"} : [table |-> table] \in Unjudging
    /\ \A files \in DOMAIN Snapshots : [table |-> "new", snapshot |-> files] \in Unjudging
<1>1. \A status \in RunStatuses : Status(status, Unset) \in Unjudging
  BY DEF Status, Unjudging
<1>2. \A role \in AnalystRoles, status \in RunStatuses : Task(role, status) \in Unjudging
  BY DEF Task, Unjudging
<1>3. \A title \in FactTitles : Fact(title, Unset) \in Unjudging
  BY DEF Fact, Unjudging
<1>4. \A table \in {"contexts", "nodes", "edges"} : [table |-> table] \in Unjudging
  BY DEF Unjudging
<1>5. \A files \in DOMAIN Snapshots : [table |-> "new", snapshot |-> files] \in Unjudging
  BY DEF Unjudging
<1> QED
  BY <1>1, <1>2, <1>3, <1>4, <1>5

LEMMA UnjudgingLists ==
    /\ <<>> \in Seq(Unjudging) /\ <<Status("FAILED", Unset)>> \in Seq(Unjudging)
    /\ RoleWrites \in Seq(Unjudging)
    /\ \A files \in DOMAIN Snapshots : IngestWrites(files) \in Seq(Unjudging)
<1> USE UnjudgingWrites DEF RunStatuses, AnalystRoles, FactTitles
<1>1. <<>> \in Seq(Unjudging) /\ <<Status("FAILED", Unset)>> \in Seq(Unjudging)
  OBVIOUS
<1>2. RoleWrites \in Seq(Unjudging)
  BY DEF RoleWrites
<1>3. ASSUME NEW files \in DOMAIN Snapshots PROVE IngestWrites(files) \in Seq(Unjudging)
  BY <1>3 DEF IngestWrites
<1> QED
  BY <1>1, <1>2, <1>3

LEMMA WriteGrounded ==
    ASSUME GroundedInv, NEW r \in Routes, Write(r)
    PROVE  GroundedInv'
<1> DEFINE q == request[r]
           w == Head(q.todo)
           p == [q EXCEPT !.todo = Tail(@)]
<1>1. /\ q = [x \in RequestNames |-> q[x]] /\ (q.todo \in Seq(Unjudging) \/ Judging(q, tables))
      /\ q.todo # <<>> /\ tables' = Written(w, q.run)
      /\ request' = [request EXCEPT ![r] = p] /\ UNCHANGED panel
  BY DEF Write, Free, GroundedInv, Grounded
<1>2. p.todo = Tail(q.todo) /\ p.run = q.run /\ p = [x \in RequestNames |-> p[x]]
  BY <1>1 DEF RequestNames
<1> HIDE DEF p, q
<1>3. CASE q.todo \in Seq(Unjudging)
  <2>1. w \in Unjudging /\ p.todo \in Seq(Unjudging)
    BY <1>1, <1>2, <1>3
  <2>2. Tabled' /\ VerdictIsGrounded' /\ tables.tasks \subseteq tables'.tasks /\ tables.evidence \subseteq tables'.evidence
    BY <1>1, <2>1, WrittenIs DEF GroundedInv
  <2>3. Grounded(p, tables')
    BY <1>2, <2>1 DEF Grounded
  <2> QED
    BY <1>1, <2>2, <2>3, RequestsGrounded DEF GroundedInv, PanelHolds
<1>4. CASE Judging(q, tables)
  <2>1. PICK verdict :
          \/ q.todo = VerifyWrites(verdict)
          \/ q.todo = Tail(VerifyWrites(verdict))
          \/ q.todo = Tail(Tail(VerifyWrites(verdict))) /\ TaskStored(q.run, verdict, tables)
          \/ q.todo = <<Status(AsTask(verdict), verdict)>> /\ TaskStored(q.run, verdict, tables) /\ EvidenceStored(q.run, verdict, tables)
    BY <1>4 DEF Judging
  <2> DEFINE a == Status("VERIFYING", Unset)
             b == Task("VERIFICATION_ENGINEER", AsTask(verdict))
             c == Fact("verification", verdict)
             d == Status(AsTask(verdict), verdict)
  <2>2. /\ a \in Unjudging
        /\ b.table = "tasks" /\ b.role = "VERIFICATION_ENGINEER" /\ b.status = AsTask(verdict)
        /\ c.table = "evidence" /\ c.title = "verification" /\ c.verdict = verdict
    <3>1. a \in Unjudging
      BY UnjudgingWrites DEF RunStatuses
    <3> QED
      BY <3>1 DEF Task, Fact
  <2>3. VerifyWrites(verdict) = <<a, b, c, d>>
    BY DEF VerifyWrites
  <2>4. \/ w = a /\ p.todo = <<b, c, d>>
        \/ w = b /\ p.todo = <<c, d>>
        \/ w = c /\ p.todo = <<d>> /\ TaskStored(q.run, verdict, tables)
        \/ w = d /\ p.todo = <<>> /\ TaskStored(q.run, verdict, tables) /\ EvidenceStored(q.run, verdict, tables)
    <3> HIDE DEF a, b, c, d
    <3>1. CASE q.todo = VerifyWrites(verdict)
      BY <1>2, <2>3, <3>1
    <3>2. CASE q.todo = Tail(VerifyWrites(verdict))
      <4>1. q.todo = <<b, c, d>>
        BY <2>3, <3>2
      <4> QED
        BY <1>2, <4>1
    <3>3. CASE q.todo = Tail(Tail(VerifyWrites(verdict))) /\ TaskStored(q.run, verdict, tables)
      <4>1. q.todo = <<c, d>>
        BY <2>3, <3>3
      <4>2. Head(<<c, d>>) = c /\ Tail(<<c, d>>) = <<d>>
        OBVIOUS
      <4> QED
        BY <1>2, <3>3, <4>1, <4>2
    <3>4. CASE q.todo = <<Status(AsTask(verdict), verdict)>> /\ TaskStored(q.run, verdict, tables) /\ EvidenceStored(q.run, verdict, tables)
      <4>1. q.todo = <<d>>
        BY <3>4 DEF d
      <4> QED
        BY <1>2, <3>4, <4>1
    <3> QED
      BY <2>1, <3>1, <3>2, <3>3, <3>4
  <2>5. Tabled' /\ VerdictIsGrounded' /\ tables.tasks \subseteq tables'.tasks /\ tables.evidence \subseteq tables'.evidence
    <3>1. w \in Unjudging \/ w = b \/ w = c \/ (w = d /\ TaskStored(q.run, verdict, tables) /\ EvidenceStored(q.run, verdict, tables))
      BY <2>2, <2>4
    <3> QED
      BY <1>1, <3>1, WrittenIs DEF GroundedInv
  <2>6. Grounded(p, tables')
    <3>1. CASE w = a /\ p.todo = <<b, c, d>>
      <4>1. p.todo = Tail(VerifyWrites(verdict))
        <5> HIDE DEF a, b, c, d
        <5> QED
          BY <2>3, <3>1
      <4> QED
        BY <1>2, <4>1 DEF Grounded, Judging
    <3>2. CASE w = b /\ p.todo = <<c, d>>
      <4>1. p.todo = Tail(Tail(VerifyWrites(verdict)))
        <5> HIDE DEF a, b, c, d
        <5>1. Tail(<<a, b, c, d>>) = <<b, c, d>> /\ Tail(<<b, c, d>>) = <<c, d>>
          OBVIOUS
        <5> QED
          BY <2>3, <3>2, <5>1
      <4>2. TaskStored(p.run, verdict, tables')
        BY <1>1, <1>2, <2>2, <3>2 DEF Written, TaskStored, GroundedInv, Tabled
      <4> QED
        BY <1>2, <4>1, <4>2 DEF Grounded, Judging
    <3>3. CASE w = c /\ p.todo = <<d>> /\ TaskStored(q.run, verdict, tables)
      <4>1. TaskStored(p.run, verdict, tables') /\ EvidenceStored(p.run, verdict, tables')
        BY <1>1, <1>2, <2>2, <3>3 DEF Written, TaskStored, EvidenceStored, GroundedInv, Tabled
      <4> QED
        BY <1>2, <3>3, <4>1 DEF Grounded, Judging
    <3>4. CASE p.todo = <<>>
      BY <1>2, <3>4, UnjudgingLists DEF Grounded
    <3> QED
      BY <2>4, <3>1, <3>2, <3>3, <3>4
  <2> QED
    BY <1>1, <2>5, <2>6, RequestsGrounded DEF GroundedInv, PanelHolds
<1> QED
  BY <1>1, <1>3, <1>4

\* A request goes on with a list that gives no verdict, or with what it has still to write; nothing is written.
LEMMA ListGrounded ==
    ASSUME GroundedInv, UNCHANGED tables, NEW r \in Routes, NEW q, Grounded(q, tables), PanelHolds',
           request' = [request EXCEPT ![r] = q]
    PROVE  GroundedInv'
<1>1. Grounded(q, tables')
  BY StoredStays DEF GroundedInv
<1> QED
  BY <1>1, RequestsGrounded DEF GroundedInv, Tabled, VerdictIsGrounded

LEMMA RefusedGrounded ==
    ASSUME GroundedInv, NEW r \in Routes, WriteRefused(r) \/ Gone(r)
    PROVE  GroundedInv'
<1> DEFINE q == request[r]
<1>1. /\ q = [x \in RequestNames |-> q[x]] /\ (q.todo \in Seq(Unjudging) \/ Judging(q, tables))
      /\ UNCHANGED <<tables, panel>> /\ PanelHolds'
  BY DEF WriteRefused, Gone, Free, GroundedInv, Grounded, PanelHolds
<1>2. ASSUME NEW list \in Seq(Unjudging) PROVE Grounded([q EXCEPT !.todo = list, !.failed = TRUE], tables)
  BY <1>1, <1>2 DEF Grounded, RequestNames
<1>3. CASE Gone(r)
  <2>1. Grounded([q EXCEPT !.todo = <<>>, !.failed = TRUE], tables)
    BY <1>2, UnjudgingLists
  <2>2. request' = [request EXCEPT ![r] = [q EXCEPT !.todo = <<>>, !.failed = TRUE]]
    BY <1>3 DEF Gone
  <2> QED
    BY <1>1, <2>1, <2>2, ListGrounded
<1>4. CASE WriteRefused(r) /\ Head(q.todo).table = "runs"
  <2> DEFINE p == [q EXCEPT !.todo = Tail(@)]
  <2>1. q.todo # <<>> /\ request' = [request EXCEPT ![r] = p]
    BY <1>4 DEF WriteRefused
  <2>2. p.todo = Tail(q.todo) /\ p.run = q.run /\ p = [x \in RequestNames |-> p[x]]
    BY <1>1 DEF RequestNames
  <2> HIDE DEF p
  <2>3. Grounded(p, tables)
    <3>1. CASE q.todo \in Seq(Unjudging)
      <4>1. p.todo \in Seq(Unjudging)
        BY <2>1, <2>2, <3>1
      <4> QED
        BY <2>2, <4>1 DEF Grounded
    <3>2. CASE Judging(q, tables)
      <4>1. PICK verdict :
          \/ q.todo = VerifyWrites(verdict)
          \/ q.todo = Tail(VerifyWrites(verdict))
          \/ q.todo = Tail(Tail(VerifyWrites(verdict))) /\ TaskStored(q.run, verdict, tables)
          \/ q.todo = <<Status(AsTask(verdict), verdict)>> /\ TaskStored(q.run, verdict, tables) /\ EvidenceStored(q.run, verdict, tables)
        BY <3>2 DEF Judging
      <4> DEFINE a == Status("VERIFYING", Unset)
                 b == Task("VERIFICATION_ENGINEER", AsTask(verdict))
                 c == Fact("verification", verdict)
                 d == Status(AsTask(verdict), verdict)
      <4>2. b.table = "tasks" /\ c.table = "evidence"
        BY DEF Task, Fact
      <4>3. VerifyWrites(verdict) = <<a, b, c, d>>
        BY DEF VerifyWrites
      <4>4. Head(Tail(VerifyWrites(verdict))) = b /\ Head(Tail(Tail(VerifyWrites(verdict)))) = c
        <5> HIDE DEF a, b, c, d
        <5>1. Tail(<<a, b, c, d>>) = <<b, c, d>> /\ Tail(<<b, c, d>>) = <<c, d>>
          OBVIOUS
        <5>2. Head(<<b, c, d>>) = b /\ Head(<<c, d>>) = c
          OBVIOUS
        <5> QED
          BY <4>3, <5>1, <5>2
      <4>5. q.todo = VerifyWrites(verdict) \/ q.todo = <<d>>
        BY <1>4, <4>1, <4>2, <4>4
      <4>6. CASE q.todo = VerifyWrites(verdict)
        BY <2>2, <4>6 DEF Grounded, Judging
      <4>7. CASE q.todo = <<d>>
        <5>1. p.todo = <<>>
          <6> HIDE DEF d
          <6> QED
            BY <2>2, <4>7
        <5> QED
          BY <2>2, <5>1, UnjudgingLists DEF Grounded
      <4> QED
        BY <4>5, <4>6, <4>7
    <3> QED
      BY <1>1, <3>1, <3>2
  <2> QED
    BY <1>1, <2>1, <2>3, ListGrounded
<1>5. CASE WriteRefused(r) /\ Head(q.todo).table # "runs"
  <2>1. PICK list \in Seq(Unjudging) : request' = [request EXCEPT ![r].todo = list, ![r].failed = TRUE]
    BY <1>5, UnjudgingLists DEF WriteRefused
  <2>2. PICK p : p = [q EXCEPT !.todo = list, !.failed = TRUE]
    OBVIOUS
  <2>3. Grounded(p, tables)
    BY <1>2, <2>2
  <2>4. request' = [request EXCEPT ![r] = p]
    BY <2>1, <2>2
  <2> QED
    BY <1>1, <2>3, <2>4, ListGrounded
<1> QED
  BY <1>3, <1>4, <1>5

\* What the panel does writes nothing itself.
LEMMA PanelGrounded ==
    ASSUME GroundedInv,
           Choose \/ Restore \/ Restored \/ \E r \in Routes : Finish(r) \/ Ingest(r) \/ Verify(r) \/ Roles(r)
    PROVE  GroundedInv'
<1>1. ASSUME Choose \/ Restore \/ Restored PROVE GroundedInv'
  <2>1. UNCHANGED <<tables, request>> /\ PanelHolds'
    <3>1. CASE Choose
      BY <3>1 DEF Choose, GroundedInv, PanelHolds
    <3>2. CASE Restore
      BY <3>2 DEF Restore, GroundedInv, PanelHolds
    <3>3. CASE Restored
      BY <3>3 DEF Restored, Remembered, GroundedInv, PanelHolds
    <3> QED
      BY <1>1, <3>1, <3>2, <3>3
  <2>2. ASSUME NEW r \in Routes PROVE Grounded(request[r], tables')
    <3> DEFINE q == request[r]
    <3>1. Grounded(q, tables) /\ request' = request
      BY <2>1 DEF GroundedInv
    <3> HIDE DEF q
    <3>2. Grounded(q, tables')
      BY <2>1, <3>1, StoredStays DEF GroundedInv
    <3> QED
      BY <3>1, <3>2 DEF q
  <2> QED
    BY <2>1, <2>2 DEF GroundedInv, Tabled, VerdictIsGrounded
<1>2. ASSUME NEW r \in Routes, Finish(r) PROVE GroundedInv'
  <2>1. Grounded(Unset, tables)
    BY DEF Grounded
  <2>2. PanelHolds'
    <3>1. panel = [x \in {"files", "busy", "saved", "run", "shown"} |-> panel[x]] /\ panel.files \in DOMAIN Snapshots \cup {Unset}
      BY DEF GroundedInv, PanelHolds
    <3>2. \/ panel' = panel
          \/ panel' = [panel EXCEPT !.busy = Unset]
          \/ panel' = [panel EXCEPT !.busy = Unset, !.run = request[r].run, !.saved = request[r].run]
          \/ panel' = [panel EXCEPT !.busy = Unset, !.shown = tables.runs[panel.run].verdict]
      BY <1>2 DEF Finish, Remembered
    <3> QED
      BY <3>1, <3>2 DEF PanelHolds
  <2> QED
    BY <1>2, <2>1, <2>2, ListGrounded DEF Finish
<1>3. ASSUME NEW r \in Routes, Ingest(r) \/ Verify(r) \/ Roles(r) PROVE GroundedInv'
  <2>1. PanelHolds' /\ UNCHANGED tables
    <3>1. panel.files \in DOMAIN Snapshots \cup {Unset} /\ panel = [x \in {"files", "busy", "saved", "run", "shown"} |-> panel[x]]
      BY DEF GroundedInv, PanelHolds
    <3> QED
      BY <1>3, <3>1 DEF Ingest, Verify, Roles, PanelHolds
  <2>2. ASSUME NEW op, NEW run, NEW list, NEW failed,
               list \in Seq(Unjudging) \/ \E verdict : list = VerifyWrites(verdict)
        PROVE  Grounded([op |-> op, run |-> run, todo |-> list, failed |-> failed], tables)
    <3> DEFINE q == [op |-> op, run |-> run, todo |-> list, failed |-> failed]
    <3>1. q = [x \in RequestNames |-> q[x]] /\ q.todo = list
      BY DEF RequestNames
    <3> HIDE DEF q
    <3>2. Grounded(q, tables)
      BY <2>2, <3>1 DEF Grounded, Judging
    <3> QED
      BY <3>2 DEF q
  <2>3. CASE Ingest(r)
    <3>1. panel.files \in DOMAIN Snapshots
      BY <2>3 DEF Ingest, GroundedInv, PanelHolds
    <3> DEFINE run == CHOOSE i \in RunIds : i \notin DOMAIN tables.runs /\ \A k \in Routes : Free(k) \/ request[k].run # i
               Begins(list, failed) ==
                   request' = [request EXCEPT ![r] = [op |-> "ingest", run |-> run, todo |-> list, failed |-> failed]]
    <3>2. Begins(IngestWrites(panel.files), FALSE) \/ Begins(<<>>, TRUE)
      BY <2>3 DEF Ingest, Started
    <3>3. PICK list \in Seq(Unjudging), failed \in BOOLEAN : Begins(list, failed)
      <4> HIDE DEF Begins
      <4> QED
        BY <3>1, <3>2, UnjudgingLists
    <3> HIDE DEF run
    <3>4. request' = [request EXCEPT ![r] = [op |-> "ingest", run |-> run, todo |-> list, failed |-> failed]]
      BY <3>3
    <3> QED
      BY <2>1, <2>2, <3>4, ListGrounded
  <2>4. CASE Verify(r)
    BY <2>1, <2>2, <2>4, ListGrounded DEF Verify, Started
  <2>5. CASE Roles(r)
    BY <2>1, <2>2, <2>5, UnjudgingLists, ListGrounded DEF Roles, Started
  <2> QED
    BY <1>3, <2>3, <2>4, <2>5
<1> QED
  BY <1>1, <1>2, <1>3

\* A verdict rests on what is stored, whatever overtakes or interrupts a verification.
THEOREM VerdictIsGroundedAlways == Spec => []VerdictIsGrounded
<1>1. Init => GroundedInv
  BY DEF Init, EngineeringInit, GroundedInv, Tabled, PanelHolds, VerdictIsGrounded, Grounded
<1>2. GroundedInv /\ [Next]_webVars => GroundedInv'
  <2> SUFFICES ASSUME GroundedInv, [EngineeringNext]_engineeringVars
               PROVE  GroundedInv'
    BY WorkSteps
  <2>1. CASE UNCHANGED engineeringVars
    <3>1. ASSUME NEW r \in Routes PROVE Grounded(request[r], tables')
      BY <2>1 DEF engineeringVars, GroundedInv, Grounded, Judging, TaskStored, EvidenceStored
    <3> QED
      BY <2>1, <3>1 DEF engineeringVars, GroundedInv, Tabled, PanelHolds, VerdictIsGrounded
  <2> QED
    BY <2>1, WriteGrounded, RefusedGrounded, PanelGrounded DEF EngineeringNext, EngineeringStep
<1>3. GroundedInv => VerdictIsGrounded
  BY DEF GroundedInv
<1> QED
  BY <1>1, <1>2, <1>3, PTL DEF Spec

-----------------------------------------------------------------------------
(* The browser.  The mutations of an investigation go to the server one at *)
(* a time and in order, so what is on its way and what waits tell what the *)
(* record will be.                                                         *)

IdsOf(rows) == {rows[i].id : i \in 1..Len(rows)}
OnServer == IdsOf(server.rows)

RowIn(rows, id) == LET i == Found(rows, id) IN IF i = 0 THEN Void ELSE rows[i]

\* A record for each id at most.
Distinct(rows) == \A i, j \in 1..Len(rows) : rows[i].id = rows[j].id => i = j

ServerHolds ==
    /\ server = [x \in {"rows", "clock"} |-> server[x]] /\ server.clock \in Nat
    /\ server.rows \in Seq(Rows(Ids)) /\ Distinct(server.rows)

Wishes == [op : {"patch"}, arg : {"second", "third", "archived"}] \cup [op : {"remove"}, arg : {Void}]
ViewNames == {"list", "cursor", "request", "version", "paging", "waits", "wanted"}

\* What is shown or announced is on the server, and only what is there is changed.
ViewHolds ==
    /\ view = [x \in ViewNames |-> view[x]]
    /\ view.list \in Seq(Rows(OnServer)) /\ view.cursor \in Nat \cup {Void} /\ feed \in Seq(Rows(OnServer))
    /\ view.waits \in [Ids -> Seq(Wishes)] /\ view.wanted \in [Ids -> RowTitles \cup {Void}]
    /\ \A id \in Ids \ OnServer : view.waits[id] = <<>> /\ view.wanted[id] = "first"

CallNames == {"no", "op", "id", "arg", "from", "request", "version", "previous", "place", "reply"}
Mutations == {"patch", "remove"}

\* A call, while the server has records of some ids.
CallHolds(c, ids) ==
    /\ c = [x \in CallNames |-> c[x]]
    /\ c.op \in {"refresh", "more", "create", "patch", "remove", "load", "post", "summary"}
    /\ c.from \in Nat /\ c.place \in Nat
    /\ c.op \in Mutations => [op |-> c.op, arg |-> c.arg] \in Wishes /\ c.id \in ids
    /\ c.previous \in Rows(ids) \cup {Void} /\ (c.previous # Void => c.place # 0)
    /\ c.op = "create" => c.id \in Ids /\ (Pending(c) => c.id \notin ids)
    /\ c.op \in {"refresh", "more"} /\ ~Pending(c) /\ c.reply.ok =>
         c.reply.rows \in Seq(Rows(ids)) /\ c.reply.cursor \in Nat \cup {Void}
    /\ c.op \in {"create", "patch"} /\ ~Pending(c) /\ c.reply.ok => c.reply.row \in Rows(ids)

OneCreation(sent) == \A c, d \in sent : c.op = "create" /\ d.op = "create" => c = d
OneMutation(sent) == \A c, d \in sent : c.op \in Mutations /\ d.op \in Mutations /\ c.id = d.id => c = d

CallsHold == (\A c \in calls : CallHolds(c, OnServer)) /\ OneCreation(calls) /\ OneMutation(calls)

\* The mutation of an investigation that is on its way to the server.
Coming(id, sent) == {c \in sent : c.op \in Mutations /\ c.id = id /\ Pending(c)}

\* What is wanted, what waits, the record and what is coming fit together.
Undeleted(wanted, waits, row, coming) ==
    wanted # Void => /\ row # Void => row.status # "deleted"
                     /\ \A k \in 1..Len(waits) : waits[k].op = "patch"
                     /\ \A c \in coming : c.op = "patch"

Deleted(wanted, waits, row, coming) ==
    wanted = Void => \/ row # Void /\ row.status = "deleted"
                     \/ \E k \in 1..Len(waits) : waits[k].op = "remove"
                     \/ \E c \in coming : c.op = "remove"

\* The last title that waits is the one that is wanted; if none waits, it is coming or given.
Titled(wanted, waits, row, coming) ==
    wanted \in {"second", "third"} =>
        \/ \E k \in 1..Len(waits) : /\ waits[k].arg = wanted
                                    /\ \A j \in 1..Len(waits) : k < j => waits[j].arg = "archived"
        \/ /\ \A k \in 1..Len(waits) : waits[k].arg = "archived"
           /\ \/ \E c \in coming : c.arg = wanted
              \/ row # Void /\ row.title = wanted /\ \A c \in coming : c.arg = "archived"

Promise(wanted, waits, row, coming) ==
    Undeleted(wanted, waits, row, coming) /\ Deleted(wanted, waits, row, coming) /\ Titled(wanted, waits, row, coming)

Promised == \A id \in Ids : Promise(view.wanted[id], view.waits[id], RowIn(server.rows, id), Coming(id, calls))

CalmClient == ServerHolds /\ ViewHolds /\ CallsHold /\ Promised

WishInv == asks \in Asks /\ (asks.calm => asks.fail = 0 /\ asks.edit = 0 /\ asks.discard = 0 /\ CalmClient)

-----------------------------------------------------------------------------
(* Lists *)

LEMMA FoundIs ==
    ASSUME NEW S, NEW rows \in Seq(S), NEW id
    PROVE  \/ Found(rows, id) \in 1..Len(rows) /\ rows[Found(rows, id)].id = id
           \/ Found(rows, id) = 0 /\ \A i \in 1..Len(rows) : rows[i].id # id
<1> DEFINE I == {i \in 1..Len(rows) : rows[i].id = id}
           least == CHOOSE x \in I : \A y \in I : x <= y
<1>1. Found(rows, id) = IF I # {} THEN least ELSE 0
  BY DEF Found, SelectInSeq, Min
<1>2. I # {} => least \in I
  <2>1. I \subseteq Nat
    OBVIOUS
  <2> HIDE DEF I
  <2> QED
    BY <2>1, LeastMember
<1> QED
  BY <1>1, <1>2

LEMMA SeqGrows ==
    ASSUME NEW S, NEW T, S \subseteq T, NEW s \in Seq(S)
    PROVE  s \in Seq(T)
OBVIOUS

LEMMA RowsGrow ==
    ASSUME NEW S, NEW T, S \subseteq T
    PROVE  Rows(S) \subseteq Rows(T)
BY DEF Rows

\* The members of a list at some of its places are members of the list.
LEMMA ThoseIn ==
    ASSUME NEW S, NEW list \in Seq(S), NEW places
    PROVE  Those(list, places) \in Seq(S)
<1> DEFINE N == Len(list)
           grown == [n \in 1..N |-> [s \in Seq(S) |-> IF n \in places THEN Append(s, list[n]) ELSE s]]
           Is(u) == u = [n \in 0..N |-> IF n = 0 THEN <<>>
                                        ELSE IF n \in places THEN Append(u[n - 1], list[n])
                                        ELSE u[n - 1]]
           upto == CHOOSE u : Is(u)
<1>1. N \in Nat
  OBVIOUS
<1>2. <<>> \in Seq(S) /\ grown \in [1..N -> [Seq(S) -> Seq(S)]]
  OBVIOUS
<1>3. PICK g \in [0..N -> Seq(S)] : Computes(g, N, <<>>, grown)
  <2> HIDE DEF N, grown
  <2> QED
    BY <1>1, <1>2, Recursion
<1>4. Is(g)
  <2>1. \A n \in 1..N : g[n] = IF n \in places THEN Append(g[n - 1], list[n]) ELSE g[n - 1]
    <3> SUFFICES ASSUME NEW n \in 1..N
                 PROVE  g[n] = IF n \in places THEN Append(g[n - 1], list[n]) ELSE g[n - 1]
      OBVIOUS
    <3>1. g[n] = grown[n][g[n - 1]]
      <4> HIDE DEF N, grown
      <4> QED
        BY <1>3 DEF Computes
    <3>2. g[n - 1] \in Seq(S)
      <4> HIDE DEF N
      <4>1. n - 1 \in 0..N
        BY <1>1
      <4> QED
        BY <1>3, <4>1
    <3> QED
      BY <3>1, <3>2
  <2>2. g[0] = <<>> /\ g = [n \in 0..N |-> g[n]]
    BY <1>3 DEF Computes
  <2>3. ASSUME NEW n \in 0..N PROVE g[n] = IF n = 0 THEN <<>> ELSE IF n \in places THEN Append(g[n - 1], list[n]) ELSE g[n - 1]
    <3> HIDE DEF N
    <3>1. CASE n = 0
      BY <2>2, <3>1
    <3>2. CASE n \in 1..N
      <4>1. n # 0
        BY <1>1, <3>2
      <4>2. g[n] = IF n \in places THEN Append(g[n - 1], list[n]) ELSE g[n - 1]
        BY <2>1, <3>2
      <4> QED
        BY <4>1, <4>2
    <3> QED
      BY <1>1, <3>1, <3>2
  <2> QED
    BY <2>2, <2>3
<1>5. Is(upto)
  <2> HIDE DEF Is
  <2> QED
    BY <1>4
<1>6. Those(list, places) = upto[N]
  BY DEF Those
<1> HIDE DEF upto
<1>7. \A n \in 0..N : n \in {k \in 0..N : upto[k] \in Seq(S)}
  <2> DEFINE T == {k \in 0..N : upto[k] \in Seq(S)}
  <2>1. 0 \in T
    BY <1>5
  <2>2. ASSUME NEW n \in 0..N - 1, n \in T PROVE n + 1 \in T
    <3>1. upto[n + 1] = IF n + 1 \in places THEN Append(upto[n], list[n + 1]) ELSE upto[n]
      <4> HIDE DEF N
      <4>1. n + 1 \in 0..N /\ n + 1 # 0 /\ (n + 1) - 1 = n
        BY <1>1
      <4> QED
        BY <1>5, <4>1
    <3>2. list[n + 1] \in S /\ n + 1 \in 0..N
      OBVIOUS
    <3>3. upto[n] \in Seq(S)
      BY <2>2
    <3>4. Append(upto[n], list[n + 1]) \in Seq(S)
      BY <3>2, <3>3
    <3>5. upto[n + 1] \in Seq(S)
      <4> HIDE DEF T, N
      <4> QED
        BY <3>1, <3>3, <3>4
    <3> QED
      BY <3>2, <3>5
  <2> HIDE DEF T
  <2>3. \A n \in 0..N : n \in T
    BY <1>1, <2>1, <2>2, Induct
  <2> QED
    BY <2>3 DEF T
<1> QED
  BY <1>1, <1>6, <1>7

LEMMA WithoutIn ==
    ASSUME NEW S, NEW list \in Seq(S), NEW id
    PROVE  Without(list, id) \in Seq(S)
BY ThoseIn DEF Without

LEMMA ReplacedIn ==
    ASSUME NEW S, NEW list \in Seq(S), NEW row \in S
    PROVE  Replaced(list, row) \in Seq(S)
BY DEF Replaced

LEMMA UptoIn ==
    ASSUME NEW S, NEW list \in Seq(S), NEW from \in Nat, NEW to \in Nat
    PROVE  Upto(list, from, to) \in Seq(S)
BY DEF Upto

LEMMA PutBackIn ==
    ASSUME NEW S, NEW list \in Seq(S), NEW row \in S, NEW place \in Nat \ {0}
    PROVE  PutBack(list, row, place) \in Seq(S)
<1> DEFINE i == IF place > Len(list) + 1 THEN Len(list) + 1 ELSE place
<1>1. i \in 1..Len(list) + 1
  OBVIOUS
<1> HIDE DEF i
<1>2. InsertAt(list, i, row) \in Seq(S)
  <2>1. SubSeq(list, 1, i - 1) \in Seq(S) /\ SubSeq(list, i, Len(list)) \in Seq(S) /\ <<row>> \in Seq(S)
    BY <1>1
  <2> QED
    BY <2>1 DEF InsertAt
<1> QED
  BY <1>2 DEF PutBack, i

-----------------------------------------------------------------------------
(* The server's records *)

LEMMA RowInIs ==
    ASSUME NEW rows \in Seq(Rows(Ids)), Distinct(rows), NEW id
    PROVE  /\ id \in IdsOf(rows) <=> RowIn(rows, id) # Void
           /\ id \in IdsOf(rows) => RowIn(rows, id) \in Rows(Ids) /\ RowIn(rows, id).id = id
           /\ \A k \in 1..Len(rows) : rows[k].id = id => RowIn(rows, id) = rows[k]
<1> DEFINE i == Found(rows, id)
<1>1. \/ i \in 1..Len(rows) /\ rows[i].id = id
      \/ i = 0 /\ \A k \in 1..Len(rows) : rows[k].id # id
  BY FoundIs
<1>2. \A k \in 1..Len(rows) : rows[k] \in Rows(Ids) /\ rows[k] # Void
  BY ClientAssumption
<1>3. 0 \notin 1..Len(rows)
  OBVIOUS
<1>4. RowIn(rows, id) = IF i = 0 THEN Void ELSE rows[i]
  BY DEF RowIn
<1> HIDE DEF i
<1>5. \A k \in 1..Len(rows) : rows[k].id = id => k = i
  BY <1>1 DEF Distinct
<1> QED
  BY <1>1, <1>2, <1>3, <1>4, <1>5 DEF IdsOf

LEMMA RowsIn ==
    ASSUME NEW rows \in Seq(Rows(Ids))
    PROVE  rows \in Seq(Rows(IdsOf(rows))) /\ IdsOf(rows) \subseteq Ids
<1>1. \A i \in 1..Len(rows) : rows[i] \in Rows(Ids) /\ rows[i].id \in IdsOf(rows)
  BY DEF IdsOf
<1>2. \A i \in 1..Len(rows) : rows[i] \in Rows(IdsOf(rows))
  BY <1>1 DEF Rows
<1>3. \A i \in 1..Len(rows) : rows[i].id \in Ids
  BY <1>1 DEF Rows
<1> QED
  BY <1>2, <1>3 DEF IdsOf

LEMMA PageIn ==
    ASSUME ServerHolds, NEW from \in Nat
    PROVE  Page(from) \in Seq(Rows(OnServer)) /\ CursorAfter(from) \in Nat \cup {Void}
<1>1. LiveRows \in Seq(Rows(OnServer))
  BY RowsIn, ThoseIn DEF LiveRows, ServerHolds, OnServer
<1>2. from + PageSize \in Nat
  BY ClientAssumption
<1> QED
  BY <1>1, <1>2, UptoIn DEF Page, CursorAfter

\* The records with a row put on top of the others.
LEMMA OnTop ==
    ASSUME NEW rows \in Seq(Rows(Ids)), Distinct(rows), NEW row \in Rows(Ids), row.id \notin IdsOf(rows),
           NEW more, more = <<row>> \o rows
    PROVE  /\ more \in Seq(Rows(Ids)) /\ Distinct(more) /\ IdsOf(more) = IdsOf(rows) \cup {row.id}
           /\ more[1] = row /\ 1 \in 1..Len(more)
           /\ \A k \in 1..Len(rows) : more[k + 1] = rows[k] /\ k + 1 \in 1..Len(more)
<1>1. \A k \in 1..Len(rows) : rows[k].id # row.id
  BY DEF IdsOf
<1>2. /\ more \in Seq(Rows(Ids)) /\ 1..Len(more) = 1..Len(rows) + 1 /\ more[1] = row
      /\ \A k \in 1..Len(rows) : more[k + 1] = rows[k]
      /\ \A k \in 2..Len(rows) + 1 : more[k] = rows[k - 1] /\ k - 1 \in 1..Len(rows)
      /\ \A k \in 1..Len(more) : k = 1 \/ k \in 2..Len(rows) + 1
  OBVIOUS
<1>3. \A n \in 2..Len(rows) + 1 : more[n].id # row.id
  BY <1>1, <1>2
<1>4. ASSUME NEW j \in 1..Len(more), NEW k \in 1..Len(more), more[j].id = more[k].id PROVE j = k
  <2>1. CASE j = 1 \/ k = 1
    BY <1>2, <1>3, <1>4, <2>1
  <2>2. CASE j \in 2..Len(rows) + 1 /\ k \in 2..Len(rows) + 1
    <3>1. /\ j - 1 \in 1..Len(rows) /\ k - 1 \in 1..Len(rows)
          /\ rows[j - 1].id = rows[k - 1].id
      BY <1>2, <1>4, <2>2
    <3>2. j - 1 = k - 1
      BY <3>1 DEF Distinct
    <3> QED
      BY <2>2, <3>2
  <2> QED
    BY <1>2, <2>1, <2>2
<1>5. \A n \in 1..Len(more) : more[n].id \in IdsOf(rows) \cup {row.id}
  BY <1>2 DEF IdsOf
<1>6. \A k \in 1..Len(rows) : k + 1 \in 1..Len(more) /\ more[k + 1].id = rows[k].id
  BY <1>2
<1>7. 1 \in 1..Len(more) /\ more[1].id = row.id
  BY <1>2
<1>8. Distinct(more)
  BY <1>4 DEF Distinct
<1>9. IdsOf(more) = IdsOf(rows) \cup {row.id}
  <2>1. ASSUME NEW id \in IdsOf(more) PROVE id \in IdsOf(rows) \cup {row.id}
    BY <1>5, <2>1 DEF IdsOf
  <2>2. ASSUME NEW id \in IdsOf(rows) PROVE id \in IdsOf(more)
    BY <1>6, <2>2 DEF IdsOf
  <2>3. row.id \in IdsOf(more)
    BY <1>7 DEF IdsOf
  <2> QED
    BY <2>1, <2>2, <2>3
<1> QED
  BY <1>2, <1>6, <1>7, <1>8, <1>9

\* The records with one replaced.
Placed(rows, i, row) == [rows EXCEPT ![i] = row]

LEMMA InPlace ==
    ASSUME NEW rows \in Seq(Rows(Ids)), Distinct(rows), NEW row \in Rows(Ids), NEW i \in 1..Len(rows), rows[i].id = row.id
    PROVE  LET more == Placed(rows, i, row)
           IN  /\ more \in Seq(Rows(Ids)) /\ Distinct(more) /\ IdsOf(more) = IdsOf(rows) \cup {row.id}
               /\ Len(more) = Len(rows) /\ more[i] = row /\ \A k \in 1..Len(rows) : k # i => more[k] = rows[k]
<1> DEFINE more == Placed(rows, i, row)
<1>1. /\ more \in Seq(Rows(Ids)) /\ Len(more) = Len(rows)
      /\ more[i] = row /\ \A k \in 1..Len(rows) : k # i => more[k] = rows[k]
  BY DEF Placed
<1> HIDE DEF more
<1>2. \A k \in 1..Len(rows) : more[k].id = rows[k].id
  BY <1>1
<1> QED
  BY <1>1, <1>2 DEF Distinct, IdsOf, more

\* What storing a record changes.
WithRow(rows, row) ==
    IF Found(rows, row.id) = 0 THEN <<row>> \o rows ELSE [rows EXCEPT ![Found(rows, row.id)] = row]

OthersStay(more, rows, row) == \A id \in Ids \ {row.id} : RowIn(more, id) = RowIn(rows, id)

LEMMA StoredIs ==
    ASSUME NEW rows \in Seq(Rows(Ids)), Distinct(rows), NEW row \in Rows(Ids), NEW more,
           more = WithRow(rows, row)
    PROVE  /\ more \in Seq(Rows(Ids)) /\ Distinct(more) /\ IdsOf(more) = IdsOf(rows) \cup {row.id}
           /\ RowIn(more, row.id) = row
           /\ OthersStay(more, rows, row)
<1> DEFINE i == Found(rows, row.id)
<1>1. \/ i \in 1..Len(rows) /\ rows[i].id = row.id
      \/ i = 0 /\ \A k \in 1..Len(rows) : rows[k].id # row.id
  BY FoundIs
<1>2. more = IF i = 0 THEN <<row>> \o rows ELSE [rows EXCEPT ![i] = row]
  BY DEF WithRow
<1> HIDE DEF i
<1>3. /\ more \in Seq(Rows(Ids)) /\ Distinct(more) /\ IdsOf(more) = IdsOf(rows) \cup {row.id}
      /\ \E n \in 1..Len(more) : more[n] = row
      /\ \A k \in 1..Len(rows) : rows[k].id # row.id => \E n \in 1..Len(more) : more[n] = rows[k]
  <2>1. CASE i = 0
    <3>1. row.id \notin IdsOf(rows)
      BY <1>1, <2>1 DEF IdsOf
    <3>2. more = <<row>> \o rows
      BY <1>2, <2>1
    <3>3. /\ more \in Seq(Rows(Ids)) /\ Distinct(more) /\ IdsOf(more) = IdsOf(rows) \cup {row.id}
          /\ more[1] = row /\ 1 \in 1..Len(more)
          /\ \A k \in 1..Len(rows) : more[k + 1] = rows[k] /\ k + 1 \in 1..Len(more)
      BY <3>1, <3>2, OnTop
    <3> QED
      BY <3>3
  <2>2. CASE i # 0
    <3>1. more = Placed(rows, i, row) /\ i \in 1..Len(rows) /\ rows[i].id = row.id
      BY <1>1, <1>2, <2>2 DEF Placed
    <3>2. PICK k \in 1..Len(rows) : k = i
      BY <3>1
    <3>3. more = Placed(rows, k, row) /\ rows[k].id = row.id
      BY <3>1, <3>2
    <3>4. /\ more \in Seq(Rows(Ids)) /\ Distinct(more) /\ IdsOf(more) = IdsOf(rows) \cup {row.id}
          /\ Len(more) = Len(rows) /\ more[k] = row /\ \A n \in 1..Len(rows) : n # k => more[n] = rows[n]
      <4>1. LET longer == Placed(rows, k, row)
            IN /\ longer \in Seq(Rows(Ids)) /\ Distinct(longer) /\ IdsOf(longer) = IdsOf(rows) \cup {row.id}
               /\ Len(longer) = Len(rows) /\ longer[k] = row /\ \A n \in 1..Len(rows) : n # k => longer[n] = rows[n]
        BY <3>3, InPlace
      <4> QED
        BY <3>3, <4>1
    <3> QED
      BY <3>3, <3>4
  <2> QED
    BY <2>1, <2>2
<1>4. RowIn(more, row.id) = row
  <2>1. PICK n \in 1..Len(more) : more[n] = row
    BY <1>3
  <2>2. \A k \in 1..Len(more) : more[k].id = row.id => RowIn(more, row.id) = more[k]
    <3>1. more \in Seq(Rows(Ids)) /\ Distinct(more)
      BY <1>3
    <3> DEFINE id == row.id
    <3> HIDE DEF id
    <3>2. \A k \in 1..Len(more) : more[k].id = id => RowIn(more, id) = more[k]
      BY <3>1, RowInIs
    <3> QED
      BY <3>2 DEF id
  <2> QED
    BY <2>1, <2>2
<1>5. ASSUME NEW id \in Ids \ {row.id} PROVE RowIn(more, id) = RowIn(rows, id)
  <2>1. CASE id \in IdsOf(rows)
    <3>1. PICK k \in 1..Len(rows) : rows[k].id = id
      BY <2>1 DEF IdsOf
    <3>2. PICK n \in 1..Len(more) : more[n] = rows[k]
      BY <1>3, <3>1
    <3>3. RowIn(more, id) = more[n]
      BY <1>3, <3>1, <3>2, RowInIs
    <3>4. RowIn(rows, id) = rows[k]
      BY <3>1, RowInIs
    <3> QED
      BY <3>2, <3>3, <3>4
  <2>2. CASE id \notin IdsOf(rows)
    <3>1. id \notin IdsOf(more)
      BY <1>3, <2>2
    <3>2. RowIn(more, id) = Void
      BY <1>3, <3>1, RowInIs
    <3>3. RowIn(rows, id) = Void
      BY <2>2, RowInIs
    <3> QED
      BY <3>2, <3>3
  <2> QED
    BY <2>1, <2>2
<1> QED
  BY <1>3, <1>4, <1>5 DEF OthersStay

-----------------------------------------------------------------------------
(* What is promised of an investigation, as it is asked for, sent and served. *)

\* A wish is put at the end of what waits.
LEMMA PromiseAsked ==
    ASSUME NEW wanted \in RowTitles \cup {Void}, NEW waits \in Seq(Wishes), NEW row \in Rows(Ids), NEW coming,
           Promise(wanted, waits, row, coming), NEW wish \in Wishes, NEW more, more = Append(waits, wish),
           NEW now, now = IF wanted = Void \/ wish.arg = "archived" THEN wanted ELSE wish.arg
    PROVE  Promise(now, more, row, coming)
<1>1. /\ Len(more) = Len(waits) + 1 /\ more[Len(waits) + 1] = wish /\ Len(waits) \in Nat
      /\ \A k \in 1..Len(waits) : more[k] = waits[k]
      /\ \A k \in 1..Len(more) : k = Len(waits) + 1 \/ k \in 1..Len(waits)
  OBVIOUS
<1>2. /\ row # Void /\ Void \notin {"first", "second", "third", "archived"}
      /\ \/ wish.op = "patch" /\ wish.arg \in {"second", "third", "archived"}
         \/ wish.op = "remove" /\ wish.arg = Void
  BY ClientAssumption DEF Wishes, RowTitles, RowStates
<1>3. Undeleted(now, more, row, coming)
  <2> SUFFICES ASSUME now # Void PROVE Undeleted(now, more, row, coming)
    BY DEF Undeleted
  <2>1. wanted # Void /\ wish.op = "patch"
    BY <1>2
  <2>2. \A k \in 1..Len(more) : more[k].op = "patch"
    BY <1>1, <2>1 DEF Promise, Undeleted
  <2> QED
    BY <2>1, <2>2 DEF Promise, Undeleted
<1>4. Deleted(now, more, row, coming)
  <2>1. CASE wanted = Void
    BY <1>1, <1>2, <2>1 DEF Promise, Deleted
  <2>2. CASE wanted # Void /\ now = Void
    <3>1. more[Len(waits) + 1].op = "remove" /\ Len(waits) + 1 \in 1..Len(more)
      BY <1>1, <1>2, <2>2
    <3> QED
      BY <3>1 DEF Deleted
  <2> QED
    BY <2>1, <2>2 DEF Deleted
<1>5. Titled(now, more, row, coming)
  <2>1. CASE wish.arg \in {"second", "third"} /\ wanted # Void
    <3>1. now = wish.arg /\ more[Len(waits) + 1].arg = now /\ Len(waits) + 1 \in 1..Len(more)
      BY <1>1, <2>1
    <3>2. \A j \in 1..Len(more) : ~(Len(waits) + 1 < j)
      BY <1>1
    <3> QED
      BY <3>1, <3>2 DEF Titled
  <2>2. CASE now = wanted /\ wanted \in {"second", "third"} /\ wish.arg = "archived"
    <3>1. CASE \E k \in 1..Len(waits) : waits[k].arg = wanted /\ \A j \in 1..Len(waits) : k < j => waits[j].arg = "archived"
      <4>1. PICK k \in 1..Len(waits) : waits[k].arg = wanted /\ \A j \in 1..Len(waits) : k < j => waits[j].arg = "archived"
        BY <3>1
      <4>2. k \in 1..Len(more) /\ more[k].arg = now /\ \A j \in 1..Len(more) : k < j => more[j].arg = "archived"
        BY <1>1, <2>2, <4>1
      <4> QED
        BY <4>2 DEF Titled
    <3>2. CASE /\ \A k \in 1..Len(waits) : waits[k].arg = "archived"
               /\ \/ \E c \in coming : c.arg = wanted
                  \/ row # Void /\ row.title = wanted /\ \A c \in coming : c.arg = "archived"
      <4>1. \A k \in 1..Len(more) : more[k].arg = "archived"
        BY <1>1, <2>2, <3>2
      <4> QED
        BY <2>2, <3>2, <4>1 DEF Titled
    <3> QED
      BY <2>2, <3>1, <3>2 DEF Promise, Titled
  <2>3. CASE now \notin {"second", "third"}
    BY <2>3 DEF Titled
  <2> QED
    BY <1>2, <2>1, <2>2, <2>3
<1> QED
  BY <1>3, <1>4, <1>5 DEF Promise

\* What waits first is sent when nothing else is coming.
LEMMA PromiseSent ==
    ASSUME NEW wanted \in RowTitles \cup {Void}, NEW waits \in Seq(Wishes), waits # <<>>, NEW row,
           Promise(wanted, waits, row, {}), NEW c, c.op = Head(waits).op, c.arg = Head(waits).arg
    PROVE  Promise(wanted, Tail(waits), row, {c})
<1> DEFINE rest == Tail(waits)
<1>1. /\ Len(waits) = Len(rest) + 1 /\ Len(rest) \in Nat /\ 1 \in 1..Len(waits)
      /\ Head(waits) = waits[1]
      /\ \A k \in 1..Len(rest) : rest[k] = waits[k + 1] /\ k + 1 \in 1..Len(waits)
      /\ \A k \in 1..Len(waits) : k = 1 \/ (k - 1 \in 1..Len(rest) /\ rest[k - 1] = waits[k])
  OBVIOUS
<1> HIDE DEF rest
<1>2. Undeleted(wanted, rest, row, {c})
  BY <1>1 DEF Promise, Undeleted
<1>3. Deleted(wanted, rest, row, {c})
  <2>1. CASE \E k \in 1..Len(waits) : waits[k].op = "remove"
    <3>1. PICK k \in 1..Len(waits) : waits[k].op = "remove"
      BY <2>1
    <3>2. c.op = "remove" \/ (k - 1 \in 1..Len(rest) /\ rest[k - 1].op = "remove")
      BY <1>1, <3>1
    <3> QED
      BY <3>2 DEF Deleted
  <2> QED
    BY <2>1 DEF Promise, Deleted
<1>4. Titled(wanted, rest, row, {c})
  <2> SUFFICES ASSUME wanted \in {"second", "third"} PROVE Titled(wanted, rest, row, {c})
    BY DEF Titled
  <2>1. CASE \E k \in 1..Len(waits) : waits[k].arg = wanted /\ \A j \in 1..Len(waits) : k < j => waits[j].arg = "archived"
    <3>1. PICK k \in 1..Len(waits) : waits[k].arg = wanted /\ \A j \in 1..Len(waits) : k < j => waits[j].arg = "archived"
      BY <2>1
    <3>2. CASE k = 1
      <4>1. c.arg = wanted
        BY <1>1, <3>1, <3>2
      <4>2. \A j \in 1..Len(rest) : rest[j].arg = "archived"
        BY <1>1, <3>1, <3>2
      <4> QED
        BY <4>1, <4>2 DEF Titled
    <3>3. CASE k # 1
      <4>1. k - 1 \in 1..Len(rest) /\ rest[k - 1].arg = wanted
        BY <1>1, <3>1, <3>3
      <4>2. \A j \in 1..Len(rest) : k - 1 < j => rest[j].arg = "archived"
        BY <1>1, <3>1, <3>3
      <4> QED
        BY <4>1, <4>2 DEF Titled
    <3> QED
      BY <3>2, <3>3
  <2>2. CASE (\A k \in 1..Len(waits) : waits[k].arg = "archived") /\ row # Void /\ row.title = wanted
    <3>1. c.arg = "archived" /\ \A k \in 1..Len(rest) : rest[k].arg = "archived"
      BY <1>1, <2>2
    <3> QED
      BY <2>2, <3>1 DEF Titled
  <2> QED
    BY <2>1, <2>2 DEF Promise, Titled
<1> QED
  BY <1>2, <1>3, <1>4 DEF Promise, rest

\* The mutation that was coming is served, and changes the record as it says, or the record was
\* deleted and stays so.  It may be asked for again.
LEMMA PromiseServed ==
    ASSUME NEW wanted \in RowTitles \cup {Void}, NEW waits, NEW row \in Rows(Ids), NEW c, Promise(wanted, waits, row, {c}),
           [op |-> c.op, arg |-> c.arg] \in Wishes,
           NEW next, next \in Rows(Ids), NEW coming, \A d \in coming : d.op = c.op /\ d.arg = c.arg,
           \/ row.status = "deleted" /\ next = row
           \/ /\ row.status # "deleted" /\ c.op = "patch"
              /\ next.status = (IF c.arg = "archived" THEN "archived" ELSE row.status)
              /\ next.title = (IF c.arg = "archived" THEN row.title ELSE c.arg)
           \/ row.status # "deleted" /\ c.op = "remove" /\ next.status = "deleted"
    PROVE  Promise(wanted, waits, next, coming)
<1>1. /\ row # Void /\ next # Void /\ Void \notin {"first", "second", "third", "archived"}
      /\ \/ c.op = "patch" /\ c.arg \in {"second", "third", "archived"}
         \/ c.op = "remove" /\ c.arg = Void
  BY ClientAssumption DEF Wishes, RowTitles, RowStates
<1>2. Undeleted(wanted, waits, next, coming)
  BY <1>1 DEF Promise, Undeleted
<1>3. Deleted(wanted, waits, next, coming)
  BY <1>1 DEF Promise, Deleted
<1>4. Titled(wanted, waits, next, coming)
  BY <1>1 DEF Promise, Titled, Undeleted
<1> QED
  BY <1>2, <1>3, <1>4 DEF Promise

-----------------------------------------------------------------------------
(* Calls *)

LEMMA CallIs ==
    ASSUME NEW op, NEW id, NEW fields, DOMAIN fields \subseteq {"arg", "from", "request", "version", "previous", "place"}
    PROVE  LET c == Call(op, id, fields)
           IN  /\ c = [x \in CallNames |-> c[x]] /\ c.op = op /\ c.id = id /\ Pending(c)
               /\ c.arg = (IF "arg" \in DOMAIN fields THEN fields.arg ELSE Void)
               /\ c.from = (IF "from" \in DOMAIN fields THEN fields.from ELSE 0)
               /\ c.previous = (IF "previous" \in DOMAIN fields THEN fields.previous ELSE Void)
               /\ c.place = (IF "place" \in DOMAIN fields THEN fields.place ELSE 0)
<1> DEFINE blank == [no |-> FreeNumber, op |-> op, id |-> id, arg |-> Void, from |-> 0, request |-> 0, version |-> 0,
                     previous |-> Void, place |-> 0, reply |-> Void]
           c == Call(op, id, fields)
<1>1. DOMAIN blank = CallNames
  BY DEF CallNames
<1>2. /\ blank.op = op /\ blank.id = id /\ blank.arg = Void /\ blank.from = 0 /\ blank.previous = Void /\ blank.place = 0
      /\ blank.reply = Void
  OBVIOUS
<1> HIDE DEF blank
<1>3. c = [x \in CallNames |-> IF x \in DOMAIN fields THEN fields[x] ELSE blank[x]]
  BY <1>1 DEF Call, blank
<1> HIDE DEF c
<1>4. c = [x \in CallNames |-> c[x]] /\ \A x \in CallNames : c[x] = IF x \in DOMAIN fields THEN fields[x] ELSE blank[x]
  BY <1>3
<1> QED
  BY <1>2, <1>4 DEF CallNames, Pending, c

\* A call holds while the server gets more records, but not the one it creates.
LEMMA CallStays ==
    ASSUME NEW c, NEW ids, CallHolds(c, ids), NEW more, ids \subseteq more,
           c.op = "create" /\ Pending(c) => c.id \notin more
    PROVE  CallHolds(c, more)
<1>1. Rows(ids) \subseteq Rows(more)
  BY RowsGrow
<1>2. \A list \in Seq(Rows(ids)) : list \in Seq(Rows(more))
  BY <1>1, SeqGrows
<1> QED
  BY <1>1, <1>2 DEF CallHolds

\* A step that leaves the server and what waits alone, ends no mutation before it is answered and
\* sends none.
LEMMA AsideInv ==
    ASSUME CalmClient, UNCHANGED server, feed' \in Seq(Rows(OnServer)),
           view' = [x \in ViewNames |-> view'[x]], view'.list \in Seq(Rows(OnServer)), view'.cursor \in Nat \cup {Void},
           view'.waits = view.waits, view'.wanted = view.wanted,
           \A c \in calls : c.op \in Mutations /\ Pending(c) => c \in calls',
           \A c \in calls' : c \in calls \/ (CallHolds(c, OnServer) /\ c.op \notin Mutations),
           OneCreation(calls')
    PROVE  CalmClient'
<1>1. OnServer' = OnServer /\ ServerHolds'
  BY DEF CalmClient, ServerHolds, OnServer
<1>2. ViewHolds'
  BY <1>1 DEF CalmClient, ViewHolds
<1>3. ASSUME NEW id PROVE Coming(id, calls') = Coming(id, calls)
  BY <1>3 DEF Coming
<1>4. Promised'
  BY <1>3 DEF CalmClient, Promised
<1>5. OneMutation(calls')
  BY DEF CalmClient, CallsHold, OneMutation
<1>6. \A c \in calls' : CallHolds(c, OnServer)
  BY DEF CalmClient, CallsHold
<1>7. CallsHold'
  BY <1>1, <1>5, <1>6 DEF CallsHold
<1> QED
  BY <1>1, <1>2, <1>4, <1>7 DEF CalmClient

\* A step that sends a call and changes nothing of the list that matters.
LEMMA SentInv ==
    ASSUME CalmClient, UNCHANGED <<server, feed>>, view' = [x \in ViewNames |-> view'[x]], view'.list = view.list,
           view'.cursor = view.cursor, view'.waits = view.waits, view'.wanted = view.wanted,
           NEW c, calls' = calls \cup {c}, CallHolds(c, OnServer), c.op \notin Mutations,
           c.op = "create" => \A d \in calls : d.op # "create"
    PROVE  CalmClient'
<1>1. OneCreation(calls')
  BY DEF CalmClient, CallsHold, OneCreation
<1>2. /\ view'.list \in Seq(Rows(OnServer)) /\ view'.cursor \in Nat \cup {Void} /\ feed' \in Seq(Rows(OnServer))
  BY DEF CalmClient, ViewHolds
<1> QED
  BY <1>1, <1>2, AsideInv

\* The call of a step that sends one that changes nothing.
LEMMA ReadCall ==
    ASSUME NEW op \in {"refresh", "more", "load", "post", "summary"}, NEW id, NEW fields,
           DOMAIN fields \subseteq {"from", "request", "version", "place"},
           "from" \in DOMAIN fields => fields.from \in Nat, "place" \in DOMAIN fields => fields.place \in Nat,
           NEW c, c = Call(op, id, fields)
    PROVE  c.op = op /\ \A ids : CallHolds(c, ids)
<1>1. /\ c = [x \in CallNames |-> c[x]] /\ c.op = op /\ c.id = id /\ Pending(c)
      /\ c.from \in Nat /\ c.previous = Void /\ c.place \in Nat
  BY CallIs
<1> QED
  BY <1>1 DEF CallHolds, Mutations

\* A read is sent.
LEMMA ReadSent ==
    ASSUME CalmClient, UNCHANGED <<server, feed>>, view' = [x \in ViewNames |-> view'[x]], view'.list = view.list,
           view'.cursor = view.cursor, view'.waits = view.waits, view'.wanted = view.wanted,
           NEW op \in {"refresh", "more", "load", "post", "summary"}, NEW id, NEW fields,
           DOMAIN fields \subseteq {"from", "request", "version", "place"},
           "from" \in DOMAIN fields => fields.from \in Nat, "place" \in DOMAIN fields => fields.place \in Nat,
           Send(Call(op, id, fields))
    PROVE  CalmClient'
<1>1. PICK c : c = Call(op, id, fields)
  OBVIOUS
<1>2. CallHolds(c, OnServer) /\ c.op = op
  BY <1>1, ReadCall
<1>3. calls' = calls \cup {c}
  BY <1>1 DEF Send
<1> QED
  BY <1>2, <1>3, SentInv DEF Mutations

LEMMA ReadInv ==
    ASSUME CalmClient, Refresh \/ LoadMore \/ (\E id \in Ids : Select(id)) \/ Reload \/ PostNext \/ Explore \/ Post
    PROVE  CalmClient'
<1>1. view = [x \in ViewNames |-> view[x]]
  BY DEF CalmClient, ViewHolds
<1>2. CASE Refresh
  <2>1. /\ view' = [x \in ViewNames |-> view'[x]] /\ view'.list = view.list /\ view'.cursor = view.cursor
        /\ view'.waits = view.waits /\ view'.wanted = view.wanted
    BY <1>1, <1>2 DEF Refresh, ViewNames
  <2>2. PICK fields : fields = [request |-> view.request + 1, version |-> view.version]
    OBVIOUS
  <2>3. DOMAIN fields = {"request", "version"} /\ Send(Call("refresh", Void, fields)) /\ UNCHANGED <<server, feed>>
    BY <1>2, <2>2 DEF Refresh
  <2> QED
    BY <2>1, <2>3, ReadSent
<1>3. CASE LoadMore
  <2>1. /\ view' = [x \in ViewNames |-> view'[x]] /\ view'.list = view.list /\ view'.cursor = view.cursor
        /\ view'.waits = view.waits /\ view'.wanted = view.wanted
    BY <1>1, <1>3 DEF LoadMore, ViewNames
  <2>2. PICK fields : fields = [from |-> view.cursor, request |-> view.request + 1, version |-> view.version]
    OBVIOUS
  <2>3. DOMAIN fields = {"from", "request", "version"} /\ fields.from \in Nat
    BY <1>3, <2>2 DEF LoadMore, CalmClient, ViewHolds
  <2>4. Send(Call("more", Void, fields)) /\ UNCHANGED <<server, feed>>
    BY <1>3, <2>2 DEF LoadMore
  <2> QED
    BY <2>1, <2>3, <2>4, ReadSent
<1>4. ASSUME NEW id, NEW n, UNCHANGED <<server, feed, view>>,
             NEW op \in {"load", "summary"}, Send(Call(op, id, [request |-> n]))
      PROVE  CalmClient'
  <2>1. PICK fields : fields = [request |-> n]
    OBVIOUS
  <2>2. DOMAIN fields = {"request"} /\ Send(Call(op, id, fields))
    BY <1>4, <2>1
  <2> QED
    BY <1>1, <1>4, <2>2, ReadSent
<1>5. CASE PostNext
  <2>1. PICK fields : fields = [place |-> 1]
    OBVIOUS
  <2>2. DOMAIN fields = {"place"} /\ fields.place = 1 /\ Send(Call("post", Head(desk.queue), fields)) /\ UNCHANGED <<server, feed, view>>
    BY <1>5, <2>1 DEF PostNext
  <2> QED
    BY <1>1, <2>2, ReadSent
<1>6. CASE Post
  <2>1. CallsHold /\ UNCHANGED <<server, feed, view, calls>>
    BY <1>6 DEF Post, CalmClient
  <2>2. OneCreation(calls')
    BY <2>1 DEF CallsHold
  <2>3. /\ view' = [x \in ViewNames |-> view'[x]] /\ view'.list \in Seq(Rows(OnServer)) /\ view'.cursor \in Nat \cup {Void}
        /\ view'.waits = view.waits /\ view'.wanted = view.wanted /\ feed' \in Seq(Rows(OnServer))
    BY <2>1 DEF CalmClient, ViewHolds
  <2> QED
    BY <2>1, <2>2, <2>3, AsideInv
<1>7. CASE (\E id \in Ids : Select(id)) \/ Reload \/ Explore
  BY <1>4, <1>7 DEF Select, Reload, DeskLoad, Explore
<1> QED
  BY <1>2, <1>3, <1>5, <1>6, <1>7

LEMMA CreateCallInv ==
    ASSUME CalmClient, Create
    PROVE  CalmClient'
<1> DEFINE fields == [place |-> 1]
<1>1. PICK id \in Ids : RowOf(id) = Void /\ Send(Call("create", id, fields))
  BY DEF Create
<1> DEFINE c == Call("create", id, fields)
<1>2. DOMAIN fields = {"place"} /\ fields.place = 1
  OBVIOUS
<1>3. /\ c = [x \in CallNames |-> c[x]] /\ c.op = "create" /\ c.id = id /\ Pending(c)
      /\ c.from = 0 /\ c.previous = Void /\ c.place = 1
  <2> HIDE DEF fields
  <2> QED
    BY <1>2, CallIs
<1>4. calls' = calls \cup {c} /\ UNCHANGED <<server, feed, view>> /\ \A d \in calls : d.op # "create"
  BY <1>1 DEF Create, Send
<1>5. id \notin OnServer
  BY <1>1, RowInIs DEF RowOf, RowIn, OnServer, CalmClient, ServerHolds
<1> HIDE DEF c, fields
<1>6. CallHolds(c, OnServer)
  BY <1>3, <1>5 DEF CallHolds, Mutations
<1>7. view' = [x \in ViewNames |-> view'[x]]
  BY <1>4 DEF CalmClient, ViewHolds
<1> QED
  BY <1>3, <1>4, <1>6, <1>7, SentInv DEF Mutations

\* A call that was answered goes.
LEMMA AnswerInv ==
    ASSUME CalmClient, UNCHANGED <<server, feed>>,
           view' = [x \in ViewNames |-> view'[x]], view'.list \in Seq(Rows(OnServer)), view'.cursor \in Nat \cup {Void},
           view'.waits = view.waits, view'.wanted = view.wanted,
           NEW c \in calls, ~Pending(c), calls' = calls \ {c}
    PROVE  CalmClient'
<1>1. feed' \in Seq(Rows(OnServer))
  BY DEF CalmClient, ViewHolds
<1>2. OneCreation(calls')
  BY DEF CalmClient, CallsHold, OneCreation
<1> QED
  BY <1>1, <1>2, AsideInv

LEMMA ListSet ==
    ASSUME NEW v, v = [x \in ViewNames |-> v[x]], NEW list, NEW w, w = [v EXCEPT !.list = list]
    PROVE  /\ w = [x \in ViewNames |-> w[x]] /\ w.list = list /\ w.cursor = v.cursor /\ w.waits = v.waits
           /\ w.wanted = v.wanted
BY DEF ViewNames

LEMMA AnswerList ==
    ASSUME CalmClient, UNCHANGED <<server, feed>>, NEW list \in Seq(Rows(OnServer)),
           view' = [view EXCEPT !.list = list], NEW c \in calls, ~Pending(c), calls' = calls \ {c}
    PROVE  CalmClient'
<1>1. view = [x \in ViewNames |-> view[x]] /\ view.cursor \in Nat \cup {Void}
  BY DEF CalmClient, ViewHolds
<1>2. PICK w : w = [view EXCEPT !.list = list]
  OBVIOUS
<1>3. /\ w = [x \in ViewNames |-> w[x]] /\ w.list = list /\ w.cursor = view.cursor /\ w.waits = view.waits
      /\ w.wanted = view.wanted
  BY <1>1, <1>2, ListSet
<1>4. view' = w
  BY <1>2
<1> QED
  BY <1>1, <1>3, <1>4, AnswerInv

LEMMA AnswerSame ==
    ASSUME CalmClient, UNCHANGED <<server, feed, view>>, NEW c \in calls, ~Pending(c), calls' = calls \ {c}
    PROVE  CalmClient'
<1>1. /\ view = [x \in ViewNames |-> view[x]] /\ view.list \in Seq(Rows(OnServer)) /\ view.cursor \in Nat \cup {Void}
  BY DEF CalmClient, ViewHolds
<1> QED
  BY <1>1, AnswerInv

LEMMA ListedInv ==
    ASSUME CalmClient, NEW c \in calls, Listed(c)
    PROVE  CalmClient'
<1> DEFINE paged == IF c.op = "more" THEN [view EXCEPT !.paging = FALSE] ELSE view
           list == IF c.op = "more" THEN view.list \o c.reply.rows ELSE c.reply.rows
<1>1. /\ view = [x \in ViewNames |-> view[x]] /\ view.list \in Seq(Rows(OnServer)) /\ view.cursor \in Nat \cup {Void}
  BY DEF CalmClient, ViewHolds
<1>2. /\ ~Pending(c) /\ c.op \in {"refresh", "more"} /\ calls' = calls \ {c} /\ UNCHANGED <<server, feed>>
      /\ (c.reply.ok => c.reply.rows \in Seq(Rows(OnServer)) /\ c.reply.cursor \in Nat \cup {Void})
  BY DEF Listed, Answered, CalmClient, CallsHold, CallHolds
<1>3. /\ paged = [x \in ViewNames |-> paged[x]] /\ paged.list = view.list /\ paged.cursor = view.cursor
      /\ paged.waits = view.waits /\ paged.wanted = view.wanted
  BY <1>1 DEF ViewNames
<1>4. c.reply.ok => list \in Seq(Rows(OnServer))
  BY <1>1, <1>2
<1>5. \/ view' = paged
      \/ c.reply.ok /\ view' = [paged EXCEPT !.cursor = c.reply.cursor, !.list = list]
  <2>1. /\ view.list = paged.list
    BY <1>3
  <2>2. view' = IF ~c.reply.ok \/ ~Current(c) THEN paged
                   ELSE [paged EXCEPT !.cursor = c.reply.cursor,
                                      !.list = IF c.op = "more" THEN @ \o c.reply.rows ELSE c.reply.rows]
    BY DEF Listed
  <2> HIDE DEF paged
  <2> QED
    BY <2>1, <2>2
<1> HIDE DEF paged, list
<1>6. CASE view' = paged
  BY <1>1, <1>2, <1>3, <1>6, AnswerInv
<1>7. CASE c.reply.ok /\ view' = [paged EXCEPT !.cursor = c.reply.cursor, !.list = list]
  <2>1. /\ view' = [x \in ViewNames |-> view'[x]] /\ view'.list = list /\ view'.cursor = c.reply.cursor
        /\ view'.waits = view.waits /\ view'.wanted = view.wanted
    BY <1>3, <1>7 DEF ViewNames
  <2> QED
    BY <1>2, <1>4, <1>7, <2>1, AnswerInv
<1> QED
  BY <1>5, <1>6, <1>7

LEMMA CreatedInv ==
    ASSUME CalmClient, NEW c \in calls, Created(c)
    PROVE  CalmClient'
<1> DEFINE list == <<c.reply.row>> \o Without(view.list, c.id)
<1>1. /\ view = [x \in ViewNames |-> view[x]] /\ view.list \in Seq(Rows(OnServer)) /\ view.cursor \in Nat \cup {Void}
  BY DEF CalmClient, ViewHolds
<1>2. /\ ~Pending(c) /\ c.op = "create" /\ calls' = calls \ {c} /\ UNCHANGED <<server, feed>>
      /\ (c.reply.ok => c.reply.row \in Rows(OnServer))
      /\ view' = IF ~c.reply.ok THEN view ELSE [view EXCEPT !.version = @ + 1, !.list = list]
  BY DEF Created, Answered, CalmClient, CallsHold, CallHolds
<1>3. c.reply.ok => list \in Seq(Rows(OnServer))
  BY <1>1, <1>2, WithoutIn
<1> HIDE DEF list
<1>4. CASE ~c.reply.ok
  BY <1>2, <1>4, AnswerSame
<1>5. CASE c.reply.ok
  <2>1. /\ view' = [x \in ViewNames |-> view'[x]] /\ view'.list = list /\ view'.cursor = view.cursor
        /\ view'.waits = view.waits /\ view'.wanted = view.wanted
    BY <1>1, <1>2, <1>5 DEF ViewNames
  <2> QED
    BY <1>1, <1>2, <1>3, <1>5, <2>1, AnswerInv
<1> QED
  BY <1>4, <1>5

LEMMA MutatedInv ==
    ASSUME CalmClient, NEW c \in calls, Mutated(c)
    PROVE  CalmClient'
<1>1. view.list \in Seq(Rows(OnServer))
  BY DEF CalmClient, ViewHolds
<1>2. /\ ~Pending(c) /\ calls' = calls \ {c} /\ UNCHANGED <<server, feed>>
      /\ (c.op = "patch" /\ c.reply.ok => c.reply.row \in Rows(OnServer))
      /\ (c.previous # Void => c.previous \in Rows(OnServer) /\ c.place \in Nat \ {0})
  BY DEF Mutated, Answered, CalmClient, CallsHold, CallHolds
<1>3. \/ view' = view
      \/ c.op = "patch" /\ c.reply.ok /\ view' = [view EXCEPT !.list = Replaced(view.list, c.reply.row)]
      \/ c.previous # Void /\ view' = [view EXCEPT !.list = Replaced(view.list, c.previous)]
      \/ c.previous # Void /\ view' = [view EXCEPT !.list = PutBack(view.list, c.previous, c.place)]
  BY DEF Mutated
<1>4. CASE view' = view
  BY <1>2, <1>4, AnswerSame
<1>5. CASE c.op = "patch" /\ c.reply.ok /\ view' = [view EXCEPT !.list = Replaced(view.list, c.reply.row)]
  <2>1. Replaced(view.list, c.reply.row) \in Seq(Rows(OnServer))
    BY <1>1, <1>2, <1>5, ReplacedIn
  <2> QED
    BY <1>2, <1>5, <2>1, AnswerList
<1>6. CASE c.previous # Void /\ view' = [view EXCEPT !.list = Replaced(view.list, c.previous)]
  <2>1. Replaced(view.list, c.previous) \in Seq(Rows(OnServer))
    BY <1>1, <1>2, <1>6, ReplacedIn
  <2> QED
    BY <1>2, <1>6, <2>1, AnswerList
<1>7. CASE c.previous # Void /\ view' = [view EXCEPT !.list = PutBack(view.list, c.previous, c.place)]
  <2>1. PutBack(view.list, c.previous, c.place) \in Seq(Rows(OnServer))
    BY <1>1, <1>2, <1>7, PutBackIn
  <2> QED
    BY <1>2, <1>7, <2>1, AnswerList
<1> QED
  BY <1>3, <1>4, <1>5, <1>6, <1>7

LEMMA PostedInv ==
    ASSUME CalmClient, NEW c \in calls, Posted(c)
    PROVE  CalmClient'
<1>1. c.op = "post" /\ ~Pending(c) /\ UNCHANGED <<server, feed, view>>
  BY DEF Posted
<1>2. CASE c.reply.ok
  <2> DEFINE d == [c EXCEPT !.op = "load", !.request = desk.request + 1, !.reply = Void]
  <2>1. calls' = (calls \ {c}) \cup {d}
    BY <1>2 DEF Posted
  <2>2. CallHolds(c, OnServer)
    BY DEF CalmClient, CallsHold
  <2>3. /\ d = [x \in CallNames |-> d[x]] /\ d.op = "load" /\ d.from = c.from /\ d.place = c.place /\ d.previous = c.previous
        /\ Pending(d)
    BY <2>2 DEF CallHolds, CallNames, Pending
  <2> HIDE DEF d
  <2>4. CallHolds(d, OnServer) /\ d.op \notin Mutations /\ d.op # "create"
    BY <2>2, <2>3 DEF CallHolds, Mutations
  <2>5. OneCreation(calls')
    BY <2>1, <2>4 DEF CalmClient, CallsHold, OneCreation
  <2>6. /\ view' = [x \in ViewNames |-> view'[x]] /\ view'.list \in Seq(Rows(OnServer)) /\ view'.cursor \in Nat \cup {Void}
        /\ view'.waits = view.waits /\ view'.wanted = view.wanted /\ feed' \in Seq(Rows(OnServer))
    BY <1>1 DEF CalmClient, ViewHolds
  <2> QED
    BY <1>1, <2>1, <2>4, <2>5, <2>6, AsideInv
<1>3. CASE ~c.reply.ok
  BY <1>1, <1>3, AnswerSame DEF Posted, Answered
<1> QED
  BY <1>2, <1>3

LEMMA DeskInv ==
    ASSUME CalmClient, NEW c \in calls, Loaded(c) \/ Edited(c) \/ Explored(c)
    PROVE  CalmClient'
BY AnswerSame DEF Loaded, Edited, Explored, Answered

LEMMA DeliverInv ==
    ASSUME CalmClient, Deliver
    PROVE  CalmClient'
<1> DEFINE row == Head(feed)
<1>1. /\ view = [x \in ViewNames |-> view[x]] /\ view.list \in Seq(Rows(OnServer)) /\ view.cursor \in Nat \cup {Void}
      /\ feed \in Seq(Rows(OnServer)) /\ OneCreation(calls)
  BY DEF CalmClient, ViewHolds, CallsHold
<1>2. feed # <<>> /\ feed' = Tail(feed) /\ UNCHANGED <<server, calls>>
  BY DEF Deliver
<1>3. row \in Rows(OnServer) /\ feed' \in Seq(Rows(OnServer))
  BY <1>1, <1>2
<1>4. \/ view' = view
      \/ \E list \in {Without(view.list, row.id), <<row>> \o view.list, Replaced(view.list, row)} :
            view' = [view EXCEPT !.list = list]
  BY DEF Deliver
<1> HIDE DEF row
<1>5. Without(view.list, row.id) \in Seq(Rows(OnServer)) /\ Replaced(view.list, row) \in Seq(Rows(OnServer))
  BY <1>1, <1>3, WithoutIn, ReplacedIn
<1>6. <<row>> \o view.list \in Seq(Rows(OnServer))
  BY <1>1, <1>3
<1>7. view' = view \/ \E list \in Seq(Rows(OnServer)) : view' = [view EXCEPT !.list = list]
  BY <1>4, <1>5, <1>6
<1>8. /\ view' = [x \in ViewNames |-> view'[x]] /\ view'.list \in Seq(Rows(OnServer)) /\ view'.cursor \in Nat \cup {Void}
      /\ view'.waits = view.waits /\ view'.wanted = view.wanted
  <2>1. CASE view' = view
    BY <1>1, <2>1
  <2>2. CASE \E list \in Seq(Rows(OnServer)) : view' = [view EXCEPT !.list = list]
    <3>1. PICK list \in Seq(Rows(OnServer)) : view' = [view EXCEPT !.list = list]
      BY <2>2
    <3>2. PICK w : w = [view EXCEPT !.list = list]
      OBVIOUS
    <3>3. /\ w = [x \in ViewNames |-> w[x]] /\ w.list = list /\ w.cursor = view.cursor /\ w.waits = view.waits
          /\ w.wanted = view.wanted
      BY <1>1, <3>2, ListSet
    <3> QED
      BY <1>1, <3>1, <3>2, <3>3
  <2> QED
    BY <1>7, <2>1, <2>2
<1> QED
  BY <1>1, <1>2, <1>3, <1>8, AsideInv

-----------------------------------------------------------------------------
(* Mutations *)

\* A record that is changed as it is asked for.
PatchedAt(row, arg, n) == [Patched(row, arg) EXCEPT !.at = n]

LEMMA PatchedIn ==
    ASSUME NEW S, NEW row \in Rows(S), NEW arg \in {"second", "third", "archived"}, NEW n, NEW next,
           next = PatchedAt(row, arg, n), next.at \in Nat
    PROVE  /\ next \in Rows(S) /\ next.id = row.id
           /\ next.status = (IF arg = "archived" THEN "archived" ELSE row.status)
           /\ next.title = (IF arg = "archived" THEN row.title ELSE arg)
<1>1. row = [x \in {"id", "title", "status", "at"} |-> row[x]]
  BY DEF Rows
<1>2. next.at = n
  BY <1>1 DEF PatchedAt, Patched
<1> QED
  BY <1>2 DEF PatchedAt, Patched, Rows, RowTitles, RowStates

LEMMA ShownIn ==
    ASSUME NEW S, NEW list \in Seq(Rows(S)), NEW id, Found(list, id) # 0
    PROVE  id \in S
<1>1. \A i \in 1..Len(list) : list[i] \in Rows(S)
  OBVIOUS
<1>2. \A i \in 1..Len(list) : list[i].id \in S
  BY <1>1 DEF Rows
<1> QED
  BY <1>2, FoundIs

LEMMA WantInv ==
    ASSUME CalmClient, NEW id \in Ids, NEW wish \in Wishes, Want(id, wish.op, wish.arg)
    PROVE  CalmClient'
<1> DEFINE asked == IF view.wanted[id] = Void \/ wish.arg = "archived" THEN view.wanted[id] ELSE wish.arg
           waits == [view.waits EXCEPT ![id] = Append(view.waits[id], wish)]
           wanted == [view.wanted EXCEPT ![id] = asked]
<1>1. /\ view = [x \in ViewNames |-> view[x]] /\ view.list \in Seq(Rows(OnServer)) /\ view.cursor \in Nat \cup {Void}
      /\ view.waits \in [Ids -> Seq(Wishes)] /\ view.wanted \in [Ids -> RowTitles \cup {Void}]
  BY DEF CalmClient, ViewHolds
<1>2. Found(view.list, id) # 0 /\ UNCHANGED <<server, feed, calls>>
  BY DEF Want
<1>3. wish = [op |-> wish.op, arg |-> wish.arg] /\ wish.arg \in RowTitles \cup {"archived", Void}
  BY DEF Wishes, RowTitles
<1>4. view' = [view EXCEPT !.waits = waits, !.wanted = wanted]
  BY <1>1, <1>3 DEF Want, ViewNames
<1>5. asked \in RowTitles \cup {Void}
  BY <1>1, <1>3
<1>6. waits \in [Ids -> Seq(Wishes)] /\ wanted \in [Ids -> RowTitles \cup {Void}]
  BY <1>1, <1>5
<1>7. /\ waits[id] = Append(view.waits[id], wish) /\ wanted[id] = asked
      /\ \A other \in Ids \ {id} : waits[other] = view.waits[other] /\ wanted[other] = view.wanted[other]
  BY <1>1
<1>8. id \in OnServer
  BY <1>1, <1>2, ShownIn
<1>9. RowIn(server.rows, id) \in Rows(Ids)
  BY <1>8, RowInIs DEF CalmClient, ServerHolds, OnServer
<1>10. Promise(asked, waits[id], RowIn(server.rows, id), Coming(id, calls))
  <2>1. Promise(view.wanted[id], view.waits[id], RowIn(server.rows, id), Coming(id, calls))
    BY DEF CalmClient, Promised
  <2>2. PICK now : now = asked
    OBVIOUS
  <2>3. view.wanted[id] \in RowTitles \cup {Void} /\ view.waits[id] \in Seq(Wishes)
    BY <1>1
  <2>4. PICK row, coming : row = RowIn(server.rows, id) /\ coming = Coming(id, calls)
    OBVIOUS
  <2>5. PICK before, more : before = view.waits[id] /\ more = waits[id]
    OBVIOUS
  <2>6. /\ row \in Rows(Ids) /\ before \in Seq(Wishes) /\ more = Append(before, wish)
        /\ Promise(view.wanted[id], before, row, coming)
    BY <1>7, <1>9, <2>1, <2>3, <2>4, <2>5
  <2>7. Promise(now, more, row, coming)
    BY <2>2, <2>3, <2>6, PromiseAsked
  <2> QED
    BY <2>2, <2>4, <2>5, <2>7
<1> HIDE DEF asked, waits, wanted
<1>11. /\ view' = [x \in ViewNames |-> view'[x]] /\ view'.list = view.list /\ view'.cursor = view.cursor
       /\ view'.waits = waits /\ view'.wanted = wanted
  BY <1>1, <1>4 DEF ViewNames
<1>12. OnServer' = OnServer /\ ServerHolds' /\ CallsHold'
  BY <1>2 DEF CalmClient, ServerHolds, CallsHold, OnServer
<1>13. ViewHolds'
  BY <1>2, <1>6, <1>7, <1>8, <1>11, <1>12 DEF CalmClient, ViewHolds
<1>14. Promised'
  <2> SUFFICES ASSUME NEW one \in Ids
               PROVE  Promise(wanted[one], waits[one], RowIn(server.rows, one), Coming(one, calls))
    BY <1>2, <1>11 DEF Promised
  <2>1. CASE one = id
    BY <1>7, <1>10, <2>1
  <2>2. CASE one # id
    BY <1>7, <2>2 DEF CalmClient, Promised
  <2> QED
    BY <2>1, <2>2
<1> QED
  BY <1>12, <1>13, <1>14 DEF CalmClient

LEMMA MutateInv ==
    ASSUME CalmClient, NEW id \in Ids, Mutate(id)
    PROVE  CalmClient'
<1> DEFINE want == Head(view.waits[id])
           i == Found(view.list, id)
           previous == IF i = 0 THEN Void ELSE view.list[i]
           fields == [arg |-> want.arg, previous |-> previous, place |-> i]
           waits == [view.waits EXCEPT ![id] = Tail(view.waits[id])]
<1>1. /\ view = [x \in ViewNames |-> view[x]] /\ view.list \in Seq(Rows(OnServer)) /\ view.cursor \in Nat \cup {Void}
      /\ view.waits \in [Ids -> Seq(Wishes)] /\ view.wanted \in [Ids -> RowTitles \cup {Void}]
  BY DEF CalmClient, ViewHolds
<1>2. /\ view.waits[id] # <<>> /\ UNCHANGED <<server, feed>>
      /\ \A d \in calls : ~(d.op \in Mutations /\ d.id = id)
  BY DEF Mutate, InTurn, Mutations
<1>3. id \in OnServer
  BY <1>2 DEF CalmClient, ViewHolds
<1>4. /\ want \in Wishes /\ waits \in [Ids -> Seq(Wishes)] /\ waits[id] = Tail(view.waits[id])
      /\ \A other \in Ids \ {id} : waits[other] = view.waits[other]
  BY <1>1, <1>2
<1>5. /\ i \in Nat /\ previous \in Rows(OnServer) \cup {Void}
      /\ i # 0 => previous \in Rows(OnServer)
      /\ previous # Void => i # 0
  BY <1>1, FoundIs
<1>6. PICK c : c = Call(want.op, id, fields)
  OBVIOUS
<1>7. /\ c = [x \in CallNames |-> c[x]] /\ c.op = want.op /\ c.id = id /\ Pending(c)
      /\ c.arg = want.arg /\ c.from = 0 /\ c.previous = previous /\ c.place = i
  <2>1. DOMAIN fields = {"arg", "previous", "place"} /\ fields.arg = want.arg /\ fields.previous = previous /\ fields.place = i
    OBVIOUS
  <2> HIDE DEF fields, want, i, previous
  <2> QED
    BY <1>6, <2>1, CallIs
<1>8. calls' = calls \cup {c}
  BY <1>6 DEF Mutate, Send
<1>9. \E list \in Seq(Rows(OnServer)) : view' = [view EXCEPT !.version = @ + 1, !.list = list, !.waits = waits]
  <2> DEFINE shown == CASE i = 0 -> view.list
                        [] i # 0 /\ want.op = "patch" -> Replaced(view.list, Optimistic(previous, want.arg))
                        [] OTHER -> Without(view.list, id)
  <2>1. view' = [view EXCEPT !.version = @ + 1, !.list = shown, !.waits = waits]
    BY <1>1 DEF Mutate, ViewNames
  <2>2. shown \in Seq(Rows(OnServer))
    <3>1. CASE i = 0
      BY <1>1, <3>1
    <3>2. CASE i # 0 /\ want.op = "patch"
      <4>1. Optimistic(previous, want.arg) \in Rows(OnServer)
        <5>1. PICK row : row = PatchedAt(previous, want.arg, server.clock)
          OBVIOUS
        <5>2. row = Optimistic(previous, want.arg)
          BY <5>1 DEF Optimistic, PatchedAt
        <5>3. want.arg \in {"second", "third", "archived"} /\ previous \in Rows(OnServer) /\ row.at \in Nat
          BY <1>4, <1>5, <3>2, <5>1 DEF Wishes, CalmClient, ServerHolds, PatchedAt, Patched, Rows
        <5> HIDE DEF previous, want
        <5>4. row \in Rows(OnServer)
          BY <5>1, <5>3, PatchedIn
        <5> QED
          BY <5>2, <5>4
      <4>2. Replaced(view.list, Optimistic(previous, want.arg)) \in Seq(Rows(OnServer))
        BY <1>1, <4>1, ReplacedIn
      <4> HIDE DEF i, want, previous
      <4> QED
        BY <3>2, <4>2
    <3>3. CASE i # 0 /\ want.op # "patch"
      <4>1. Without(view.list, id) \in Seq(Rows(OnServer))
        BY <1>1, WithoutIn
      <4> HIDE DEF i, want, previous
      <4> QED
        BY <3>3, <4>1
    <3> QED
      BY <3>1, <3>2, <3>3
  <2> QED
    BY <2>1, <2>2
<1>10. c.op \in Mutations /\ want = [op |-> c.op, arg |-> c.arg]
  BY <1>4, <1>7 DEF Wishes, Mutations
<1>11. Promise(view.wanted[id], view.waits[id], RowIn(server.rows, id), {})
  <2>1. Coming(id, calls) = {}
    BY <1>2 DEF Coming
  <2> QED
    BY <2>1 DEF CalmClient, Promised
<1>12. Promise(view.wanted[id], waits[id], RowIn(server.rows, id), {c})
  BY <1>1, <1>2, <1>4, <1>7, <1>11, PromiseSent
<1> HIDE DEF want, i, previous, fields, waits
<1>13. PICK list \in Seq(Rows(OnServer)) : view' = [view EXCEPT !.version = @ + 1, !.list = list, !.waits = waits]
  BY <1>9
<1>14. /\ view' = [x \in ViewNames |-> view'[x]] /\ view'.list = list /\ view'.cursor = view.cursor
       /\ view'.waits = waits /\ view'.wanted = view.wanted
  BY <1>1, <1>13 DEF ViewNames
<1>15. OnServer' = OnServer /\ ServerHolds'
  BY <1>2 DEF CalmClient, ServerHolds, OnServer
<1>16. ViewHolds'
  BY <1>1, <1>2, <1>3, <1>4, <1>14, <1>15 DEF CalmClient, ViewHolds
<1>17. CallHolds(c, OnServer)
  BY <1>3, <1>4, <1>5, <1>7, <1>10 DEF CallHolds, Mutations
<1>18. OneCreation(calls') /\ OneMutation(calls')
  BY <1>2, <1>7, <1>8, <1>10 DEF CalmClient, CallsHold, OneCreation, OneMutation, Mutations
<1>19. CallsHold'
  BY <1>8, <1>15, <1>17, <1>18 DEF CalmClient, CallsHold
<1>20. Promised'
  <2> SUFFICES ASSUME NEW one \in Ids
               PROVE  Promise(view.wanted[one], waits[one], RowIn(server.rows, one), Coming(one, calls'))
    BY <1>2, <1>14 DEF Promised
  <2>1. CASE one = id
    <3>1. Coming(id, calls') = {c}
      BY <1>2, <1>7, <1>8, <1>10 DEF Coming
    <3> QED
      BY <1>12, <2>1, <3>1
  <2>2. CASE one # id
    <3>1. Coming(one, calls') = Coming(one, calls)
      BY <1>7, <1>8, <2>2 DEF Coming
    <3> QED
      BY <1>4, <2>2, <3>1 DEF CalmClient, Promised
  <2> QED
    BY <2>1, <2>2
<1> QED
  BY <1>15, <1>16, <1>19, <1>20 DEF CalmClient

-----------------------------------------------------------------------------
(* The server *)

AnsweredWith(c, reply) == [c EXCEPT !.reply = reply]

LEMMA AnsweredIs ==
    ASSUME NEW ids, NEW c, CallHolds(c, ids), NEW reply, NEW d, d = AnsweredWith(c, reply)
    PROVE  /\ d = [x \in CallNames |-> d[x]] /\ d.op = c.op /\ d.arg = c.arg /\ d.id = c.id /\ d.from = c.from
           /\ d.place = c.place /\ d.previous = c.previous /\ d.reply = reply
BY DEF CallHolds, CallNames, AnsweredWith

\* A call that is answered, of a server that may have got another record with it.
LEMMA Replied ==
    ASSUME NEW ids, NEW more, ids \subseteq more, NEW c, CallHolds(c, ids),
           NEW d, d = [x \in CallNames |-> d[x]], d.op = c.op, d.arg = c.arg, d.id = c.id, d.from = c.from,
           d.place = c.place, d.previous = c.previous,
           c.op # "create" \/ d.reply # Void,
           c.op \in {"refresh", "more"} /\ d.reply.ok => d.reply.rows \in Seq(Rows(more)) /\ d.reply.cursor \in Nat \cup {Void},
           c.op \in {"create", "patch"} /\ d.reply.ok => d.reply.row \in Rows(more)
    PROVE  CallHolds(d, more)
<1>1. Rows(ids) \subseteq Rows(more)
  BY RowsGrow
<1> QED
  BY <1>1 DEF CallHolds, Pending

LEMMA RepliedCalls ==
    ASSUME CallsHold, NEW c \in calls, NEW d, d.op = c.op, d.id = c.id, calls' = (calls \ {c}) \cup {d},
           NEW more, OnServer \subseteq more, CallHolds(d, more),
           \A e \in calls : e # c /\ e.op = "create" /\ Pending(e) => e.id \notin more
    PROVE  (\A e \in calls' : CallHolds(e, more)) /\ OneCreation(calls') /\ OneMutation(calls')
<1>1. ASSUME NEW e \in calls, e # c PROVE CallHolds(e, more)
  <2>1. CallHolds(e, OnServer)
    BY DEF CallsHold
  <2>2. e.op = "create" /\ Pending(e) => e.id \notin more
    BY <1>1
  <2>3. PICK ids : ids = OnServer
    OBVIOUS
  <2> QED
    BY <2>1, <2>2, <2>3, CallStays
<1> QED
  BY <1>1 DEF CallsHold, OneCreation, OneMutation

\* The reply of a call that changed nothing.
LEMMA UntouchedInv ==
    ASSUME CalmClient, NEW c \in calls, Pending(c), NEW reply, Serves(c, reply), UNCHANGED view, c.op # "create",
           c.op \in {"refresh", "more"} /\ reply.ok => reply.rows \in Seq(Rows(OnServer)) /\ reply.cursor \in Nat \cup {Void},
           c.op = "patch" /\ reply.ok => reply.row \in Rows(OnServer),
           c.op \in Mutations => RowIn(server.rows, c.id).status = "deleted"
    PROVE  CalmClient'
<1>1. PICK d : d = AnsweredWith(c, reply)
  OBVIOUS
<1>2. calls' = (calls \ {c}) \cup {d} /\ UNCHANGED <<server, feed, view>>
  BY <1>1 DEF Serves, Reply, AnsweredWith
<1>3. CallHolds(d, OnServer) /\ d.op = c.op /\ d.arg = c.arg /\ d.id = c.id
  <2>1. PICK ids : ids = OnServer
    OBVIOUS
  <2>2. CallHolds(c, ids)
    BY <2>1 DEF CalmClient, CallsHold
  <2>3. /\ d = [x \in CallNames |-> d[x]] /\ d.op = c.op /\ d.arg = c.arg /\ d.id = c.id /\ d.from = c.from
        /\ d.place = c.place /\ d.previous = c.previous /\ d.reply = reply
    BY <1>1, <2>2, AnsweredIs
  <2>4. /\ ids \subseteq ids /\ c.op # "create"
        /\ c.op \in {"refresh", "more"} /\ d.reply.ok => d.reply.rows \in Seq(Rows(ids)) /\ d.reply.cursor \in Nat \cup {Void}
        /\ c.op \in {"create", "patch"} /\ d.reply.ok => d.reply.row \in Rows(ids)
    BY <2>1, <2>3
  <2>5. CallHolds(d, ids)
    BY <2>2, <2>3, <2>4, Replied
  <2> QED
    BY <2>1, <2>3, <2>5
<1>4. OnServer' = OnServer /\ ServerHolds' /\ ViewHolds'
  BY <1>2 DEF CalmClient, ServerHolds, ViewHolds, OnServer
<1>5. (\A e \in calls' : CallHolds(e, OnServer)) /\ OneCreation(calls') /\ OneMutation(calls')
  <2>1. PICK more : more = OnServer
    OBVIOUS
  <2>2. \A e \in calls : e # c /\ e.op = "create" /\ Pending(e) => e.id \notin more
    BY <2>1 DEF CalmClient, CallsHold, CallHolds
  <2>3. (\A e \in calls' : CallHolds(e, more)) /\ OneCreation(calls') /\ OneMutation(calls')
    BY <1>2, <1>3, <2>1, <2>2, RepliedCalls DEF CalmClient
  <2> QED
    BY <2>1, <2>3
<1>6. CallsHold'
  BY <1>4, <1>5 DEF CallsHold
<1>7. Promised'
  <2> SUFFICES ASSUME NEW id \in Ids
               PROVE  Promise(view.wanted[id], view.waits[id], RowIn(server.rows, id), Coming(id, calls'))
    BY <1>2 DEF Promised
  <2>1. Promise(view.wanted[id], view.waits[id], RowIn(server.rows, id), Coming(id, calls))
    BY DEF CalmClient, Promised
  <2>2. CASE c.op \in Mutations /\ c.id = id
    <3>1. Coming(id, calls) = {c} /\ \A e \in Coming(id, calls') : e.op = c.op /\ e.arg = c.arg
      BY <1>2, <1>3, <2>2 DEF CalmClient, CallsHold, OneMutation, Coming
    <3>2. id \in OnServer /\ [op |-> c.op, arg |-> c.arg] \in Wishes
      BY <2>2 DEF CalmClient, CallsHold, CallHolds
    <3>3. PICK row \in Rows(Ids) : row = RowIn(server.rows, id)
      BY <3>2, RowInIs DEF CalmClient, ServerHolds, OnServer
    <3>4. row.status = "deleted"
      BY <2>2, <3>3
    <3>5. view.wanted[id] \in RowTitles \cup {Void}
      BY DEF CalmClient, ViewHolds
    <3>6. Promise(view.wanted[id], view.waits[id], row, {c})
      BY <2>1, <3>1, <3>3
    <3>7. Promise(view.wanted[id], view.waits[id], row, Coming(id, calls'))
      BY <3>1, <3>2, <3>4, <3>5, <3>6, PromiseServed
    <3> QED
      BY <3>3, <3>7
  <2>3. CASE ~(c.op \in Mutations /\ c.id = id)
    <3>1. Coming(id, calls') = Coming(id, calls)
      BY <1>2, <1>3, <2>3 DEF Coming
    <3> QED
      BY <2>1, <3>1
  <2> QED
    BY <2>2, <2>3
<1> QED
  BY <1>4, <1>6, <1>7 DEF CalmClient

\* The reply of a call that stored a record.
LEMMA StoringInv ==
    ASSUME CalmClient, NEW c \in calls, Pending(c), NEW row \in Rows(Ids), row.id = c.id, Stored(row),
           NEW reply, Reply(c, reply), UNCHANGED view,
           (c.op = "create" /\ reply # Void /\ row.status # "deleted") \/ c.op \in Mutations,
           reply.ok /\ c.op # "remove" => reply.row \in Rows({c.id}),
           NEW old, old = RowIn(server.rows, c.id),
           c.op \in Mutations =>
               /\ old.status # "deleted"
               /\ c.op = "patch" => /\ row.status = (IF c.arg = "archived" THEN "archived" ELSE old.status)
                                    /\ row.title = (IF c.arg = "archived" THEN old.title ELSE c.arg)
               /\ c.op = "remove" => row.status = "deleted"
    PROVE  CalmClient'
<1> DEFINE more == OnServer \cup {c.id}
<1>1. PICK d : d = AnsweredWith(c, reply)
  OBVIOUS
<1>2. calls' = (calls \ {c}) \cup {d} /\ UNCHANGED view
  BY <1>1 DEF Reply, AnsweredWith
<1>3. PICK next \in Rows(Ids) : /\ next.id = c.id /\ next.status = row.status /\ next.title = row.title
                                /\ next = [row EXCEPT !.at = server.clock + 1]
  <2>1. PICK w : w = [row EXCEPT !.at = server.clock + 1]
    OBVIOUS
  <2>2. server.clock + 1 \in Nat
    BY DEF CalmClient, ServerHolds
  <2>3. w \in Rows(Ids) /\ w.id = row.id /\ w.status = row.status /\ w.title = row.title
    BY <2>1, <2>2 DEF Rows
  <2> QED
    BY <2>1, <2>3
<1>4. PICK rows : rows = server'.rows
  OBVIOUS
<1>5. /\ server' = [clock |-> server.clock + 1, rows |-> rows]
      /\ rows = WithRow(server.rows, next)
      /\ feed' = feed \/ feed' = Append(feed, next)
  BY <1>3, <1>4 DEF Stored, WithRow
<1>6. server.rows \in Seq(Rows(Ids)) /\ Distinct(server.rows) /\ server.clock \in Nat
  BY DEF CalmClient, ServerHolds
<1>7. /\ rows \in Seq(Rows(Ids)) /\ Distinct(rows) /\ IdsOf(rows) = IdsOf(server.rows) \cup {next.id}
      /\ RowIn(rows, next.id) = next
      /\ \A id \in Ids \ {next.id} : RowIn(rows, id) = RowIn(server.rows, id)
  <2>1. PICK before : before = server.rows
    OBVIOUS
  <2>2. before \in Seq(Rows(Ids)) /\ Distinct(before) /\ rows = WithRow(before, next)
    BY <1>5, <1>6, <2>1
  <2>3. rows \in Seq(Rows(Ids)) /\ Distinct(rows)
    BY <2>2, StoredIs
  <2>4. IdsOf(rows) = IdsOf(before) \cup {next.id}
    BY <2>2, StoredIs
  <2>5. RowIn(rows, next.id) = next
    BY <2>2, StoredIs
  <2>6. OthersStay(rows, before, next)
    BY <2>2, StoredIs
  <2> QED
    BY <2>1, <2>3, <2>4, <2>5, <2>6 DEF OthersStay
<1>8. OnServer' = more /\ c.id \in Ids
  BY <1>3, <1>4, <1>7 DEF OnServer, Rows
<1>9. ServerHolds'
  <2>1. server' = [x \in {"rows", "clock"} |-> server'[x]] /\ server'.clock = server.clock + 1 /\ server'.rows = rows
    BY <1>5
  <2> QED
    BY <1>6, <1>7, <2>1 DEF ServerHolds
<1>10. ViewHolds'
  <2>1. Rows(OnServer) \subseteq Rows(more) /\ next \in Rows(more)
    BY <1>3, RowsGrow DEF Rows
  <2> HIDE DEF more
  <2>2. view.list \in Seq(Rows(more)) /\ feed \in Seq(Rows(more))
    <3>1. view.list \in Seq(Rows(OnServer)) /\ feed \in Seq(Rows(OnServer))
      BY DEF CalmClient, ViewHolds
    <3> QED
      BY <2>1, <3>1, SeqGrows
  <2>3. feed' \in Seq(Rows(more))
    BY <1>5, <2>1, <2>2
  <2>4. OnServer \subseteq more
    BY DEF more
  <2> QED
    BY <1>2, <1>8, <2>2, <2>3, <2>4 DEF CalmClient, ViewHolds
<1>11. CallHolds(c, OnServer)
  BY DEF CalmClient, CallsHold
<1>12. CallHolds(d, more) /\ d.op = c.op /\ d.arg = c.arg /\ d.id = c.id
  <2>1. PICK ids : ids = OnServer
    OBVIOUS
  <2>2. CallHolds(c, ids)
    BY <1>11, <2>1
  <2>3. /\ d = [x \in CallNames |-> d[x]] /\ d.op = c.op /\ d.arg = c.arg /\ d.id = c.id /\ d.from = c.from
        /\ d.place = c.place /\ d.previous = c.previous /\ d.reply = reply
    BY <1>1, <2>2, AnsweredIs
  <2>4. Rows({c.id}) \subseteq Rows(more)
    BY RowsGrow
  <2>5. /\ ids \subseteq more /\ c.op \notin {"refresh", "more"} /\ (c.op # "create" \/ d.reply # Void)
        /\ c.op \in {"create", "patch"} /\ d.reply.ok => d.reply.row \in Rows(more)
    BY <2>1, <2>3, <2>4 DEF Mutations
  <2>6. CallHolds(d, more)
    <3> HIDE DEF more
    <3> QED
      BY <2>2, <2>3, <2>5, Replied
  <2> QED
    BY <2>3, <2>6
<1>13. \A e \in calls : e # c /\ e.op = "create" /\ Pending(e) => e.id \notin more
  <2> SUFFICES ASSUME NEW e \in calls, e # c, e.op = "create", Pending(e) PROVE e.id \notin more
    OBVIOUS
  <2>1. c.op \in Mutations /\ c.id \in OnServer
    BY <1>11 DEF CalmClient, CallsHold, OneCreation, CallHolds
  <2>2. e.id \notin OnServer
    BY DEF CalmClient, CallsHold, CallHolds
  <2> QED
    BY <2>1, <2>2
<1>14. (\A e \in calls' : CallHolds(e, more)) /\ OneCreation(calls') /\ OneMutation(calls')
  <2>1. OnServer \subseteq more
    OBVIOUS
  <2> HIDE DEF more
  <2> QED
    BY <1>2, <1>12, <1>13, <2>1, RepliedCalls DEF CalmClient
<1>15. CallsHold'
  BY <1>8, <1>14 DEF CallsHold
<1>16. Promised'
  <2> SUFFICES ASSUME NEW id \in Ids
               PROVE  Promise(view.wanted[id], view.waits[id], RowIn(rows, id), Coming(id, calls'))
    BY <1>2, <1>4 DEF Promised
  <2>1. Promise(view.wanted[id], view.waits[id], RowIn(server.rows, id), Coming(id, calls))
    BY DEF CalmClient, Promised
  <2>2. view.wanted[id] \in RowTitles \cup {Void}
    BY DEF CalmClient, ViewHolds
  <2>3. CASE c.op \in Mutations /\ c.id = id
    <3>1. Coming(id, calls) = {c} /\ \A e \in Coming(id, calls') : e.op = c.op /\ e.arg = c.arg
      BY <1>2, <1>12, <2>3 DEF CalmClient, CallsHold, OneMutation, Coming
    <3>2. id \in OnServer /\ [op |-> c.op, arg |-> c.arg] \in Wishes
      BY <1>11, <2>3 DEF CallHolds
    <3>3. old \in Rows(Ids) /\ old = RowIn(server.rows, id)
      BY <2>3, <3>2, RowInIs DEF CalmClient, ServerHolds, OnServer
    <3>4. Promise(view.wanted[id], view.waits[id], old, {c})
      BY <2>1, <3>1, <3>3
    <3>5. \/ /\ old.status # "deleted" /\ c.op = "patch"
             /\ next.status = (IF c.arg = "archived" THEN "archived" ELSE old.status)
             /\ next.title = (IF c.arg = "archived" THEN old.title ELSE c.arg)
          \/ old.status # "deleted" /\ c.op = "remove" /\ next.status = "deleted"
      BY <1>3, <2>3 DEF Mutations
    <3>6. Promise(view.wanted[id], view.waits[id], next, Coming(id, calls'))
      BY <2>2, <3>1, <3>2, <3>3, <3>4, <3>5, PromiseServed
    <3> QED
      BY <1>3, <1>7, <2>3, <3>6
  <2>4. CASE c.op \notin Mutations /\ c.id = id
    <3>1. c.op = "create" /\ id \notin OnServer /\ next.status # "deleted"
      BY <1>3, <1>11, <2>4 DEF CallHolds
    <3>2. view.waits[id] = <<>> /\ view.wanted[id] = "first"
      BY <3>1 DEF CalmClient, ViewHolds
    <3>3. Coming(id, calls') = {}
      <4>1. \A e \in calls : e.op \in Mutations => e.id # id
        BY <3>1 DEF CalmClient, CallsHold, CallHolds
      <4> QED
        BY <1>2, <1>12, <2>4, <4>1 DEF Coming
    <3>4. Void # "first"
      BY ClientAssumption DEF RowTitles
    <3>5. RowIn(rows, id) = next
      BY <1>3, <1>7, <2>4
    <3>6. 1..Len(<<>>) = {}
      OBVIOUS
    <3> QED
      BY <3>1, <3>2, <3>3, <3>4, <3>5, <3>6 DEF Promise, Undeleted, Deleted, Titled
  <2>5. CASE c.id # id
    <3>1. Coming(id, calls') = Coming(id, calls)
      BY <1>2, <1>12, <2>5 DEF Coming
    <3>2. RowIn(rows, id) = RowIn(server.rows, id)
      BY <1>3, <1>7, <2>5
    <3> QED
      BY <2>1, <3>1, <3>2
  <2> QED
    BY <2>3, <2>4, <2>5
<1> QED
  BY <1>9, <1>10, <1>15, <1>16 DEF CalmClient

LEMMA ServeInv ==
    ASSUME CalmClient, NEW c \in calls, Serve(c)
    PROVE  CalmClient'
<1>1. PICK row : row = RowIn(server.rows, c.id)
  OBVIOUS
<1> DEFINE live == row # Void /\ row.status # "deleted"
           next == [Patched(row, c.arg) EXCEPT !.at = server.clock + 1]
           first == [id |-> c.id, title |-> "first", status |-> "active", at |-> 0]
           created == [id |-> c.id, title |-> "first", status |-> "active", at |-> server.clock + 1]
           removed == [row EXCEPT !.status = "deleted"]
<1>2. Pending(c) /\ UNCHANGED view /\ CallHolds(c, OnServer) /\ server.clock \in Nat
  BY DEF Serve, CalmClient, CallsHold, ServerHolds
<1>3. CASE c.op \in {"refresh", "more"} /\ Serves(c, [ok |-> TRUE, rows |-> Page(c.from), cursor |-> CursorAfter(c.from)])
  <2>1. PICK reply : reply = [ok |-> TRUE, rows |-> Page(c.from), cursor |-> CursorAfter(c.from)]
    OBVIOUS
  <2>2. Page(c.from) \in Seq(Rows(OnServer)) /\ CursorAfter(c.from) \in Nat \cup {Void}
    BY <1>2, PageIn DEF CalmClient, CallHolds
  <2>3. reply.rows \in Seq(Rows(OnServer)) /\ reply.cursor \in Nat \cup {Void}
    BY <2>1, <2>2
  <2>4. c.op \notin Mutations /\ c.op # "create" /\ c.op # "patch"
    BY <1>3 DEF Mutations
  <2> QED
    BY <1>2, <1>3, <2>1, <2>3, <2>4, UntouchedInv
<1>4. CASE c.op = "create" /\ Stored(first) /\ Reply(c, [ok |-> TRUE, row |-> created])
  <2>1. PICK reply : reply = [ok |-> TRUE, row |-> created]
    OBVIOUS
  <2>2. PICK made : made = first
    OBVIOUS
  <2>3. c.id \in Ids
    BY <1>2, <1>4 DEF CallHolds
  <2>4. made \in Rows(Ids) /\ made.id = c.id /\ made.status # "deleted"
    BY <2>2, <2>3 DEF Rows, RowTitles, RowStates
  <2>5. created \in Rows(Ids) /\ created \in Rows({c.id})
    BY <1>2, <2>3 DEF Rows, RowTitles, RowStates
  <2> HIDE DEF first, created
  <2>6. reply # Void /\ reply.row \in Rows({c.id})
    <3>1. reply \in [ok : {TRUE}, row : Rows(Ids)] /\ reply.row = created
      BY <2>1, <2>5
    <3> QED
      BY <2>5, <3>1, ClientAssumption
  <2>7. c.op \notin Mutations
    BY <1>4 DEF Mutations
  <2>8. Stored(made) /\ Reply(c, reply)
    BY <1>4, <2>1, <2>2
  <2> QED
    BY <1>1, <1>2, <1>4, <2>4, <2>6, <2>7, <2>8, StoringInv
<1>5. c.op \in Mutations => row \in Rows(Ids) /\ row.id = c.id
  BY <1>1, <1>2, RowInIs DEF CallHolds, CalmClient, ServerHolds, OnServer
<1>6. CASE c.op = "patch" /\ live /\ Stored(next) /\ Reply(c, [ok |-> TRUE, row |-> next])
  <2>1. PICK changed : changed = next
    OBVIOUS
  <2>2. c.arg \in {"second", "third", "archived"}
    BY <1>2, <1>6 DEF CallHolds, Wishes, Mutations
  <2>3. row \in Rows(Ids) /\ row.id = c.id /\ c.op \in Mutations /\ row.status # "deleted"
    BY <1>5, <1>6 DEF Mutations
  <2>4. row \in Rows({c.id})
    BY <2>3 DEF Rows
  <2>5. changed = PatchedAt(row, c.arg, server.clock + 1)
    BY <2>1 DEF PatchedAt
  <2>6. changed.at \in Nat
    BY <1>2, <2>1, <2>4 DEF Patched, Rows
  <2>7. /\ changed \in Rows(Ids) /\ changed.id = row.id
        /\ changed.status = (IF c.arg = "archived" THEN "archived" ELSE row.status)
        /\ changed.title = (IF c.arg = "archived" THEN row.title ELSE c.arg)
    BY <2>2, <2>3, <2>5, <2>6, PatchedIn
  <2>8. changed \in Rows({c.id})
    BY <2>2, <2>4, <2>5, <2>6, PatchedIn
  <2> HIDE DEF next
  <2>9. PICK reply : reply = [ok |-> TRUE, row |-> changed]
    OBVIOUS
  <2>10. reply.row \in Rows({c.id})
    BY <2>8, <2>9
  <2>11. Stored(changed) /\ Reply(c, reply)
    BY <1>6, <2>1, <2>9
  <2> QED
    BY <1>1, <1>2, <1>6, <2>3, <2>7, <2>10, <2>11, StoringInv
<1>7. CASE c.op = "remove" /\ live /\ Stored(removed) /\ Reply(c, [ok |-> TRUE])
  <2>1. PICK gone : gone = removed
    OBVIOUS
  <2>2. PICK reply : reply = [ok |-> TRUE]
    OBVIOUS
  <2>3. row \in Rows(Ids) /\ row.id = c.id /\ c.op \in Mutations /\ row.status # "deleted"
    BY <1>5, <1>7 DEF Mutations
  <2>4. gone \in Rows(Ids) /\ gone.id = c.id /\ gone.status = "deleted"
    BY <2>1, <2>3 DEF Rows, RowStates
  <2> HIDE DEF removed
  <2>5. Stored(gone) /\ Reply(c, reply)
    BY <1>7, <2>1, <2>2
  <2> QED
    BY <1>1, <1>2, <1>7, <2>3, <2>4, <2>5, StoringInv
<1>8. CASE c.op \in {"load", "post", "summary"} /\ Serves(c, [ok |-> TRUE, row |-> row])
  <2>1. c.op \notin Mutations /\ c.op # "create" /\ c.op \notin {"refresh", "more"} /\ c.op # "patch"
    BY <1>8 DEF Mutations
  <2> QED
    BY <1>2, <1>8, <2>1, UntouchedInv
<1>9. CASE c.op \notin {"refresh", "more", "create"} /\ ~(c.op \in Mutations /\ live) /\ Serves(c, NotFound)
  <2>1. PICK reply : reply = NotFound
    OBVIOUS
  <2>2. reply.ok = FALSE
    BY <2>1 DEF NotFound
  <2>3. c.op \in Mutations => RowIn(server.rows, c.id).status = "deleted"
    BY <1>1, <1>5, <1>9, ClientAssumption
  <2> QED
    BY <1>2, <1>9, <2>1, <2>2, <2>3, UntouchedInv
<1>10. row = RowOf(c.id)
  BY <1>1 DEF RowOf, RowIn
<1> HIDE DEF live, next, first, created, removed
<1>11. CASE c.op \in {"refresh", "more"}
  BY <1>3, <1>11 DEF Serve
<1>12. CASE c.op = "create"
  BY <1>4, <1>12 DEF Serve, first, created
<1>13. CASE c.op = "patch"
  <2>1. CASE live
    BY <1>6, <1>10, <1>13, <2>1 DEF Serve, live, next
  <2>2. CASE ~live
    BY <1>9, <1>10, <1>13, <2>2 DEF Serve, live
  <2> QED
    BY <2>1, <2>2
<1>14. CASE c.op = "remove"
  <2>1. CASE live
    BY <1>7, <1>10, <1>14, <2>1 DEF Serve, live, removed
  <2>2. CASE ~live
    BY <1>9, <1>10, <1>14, <2>2 DEF Serve, live
  <2> QED
    BY <2>1, <2>2
<1>15. CASE c.op \in {"load", "post", "summary"}
  <2>1. CASE live
    BY <1>8, <1>10, <1>15, <2>1 DEF Serve, live
  <2>2. CASE ~live
    BY <1>9, <1>10, <1>15, <2>2 DEF Serve, live
  <2> QED
    BY <2>1, <2>2
<1> QED
  BY <1>2, <1>11, <1>12, <1>13, <1>14, <1>15 DEF CallHolds

-----------------------------------------------------------------------------
(* Where no call fails and the workspace changes nothing, the last wish of *)
(* the user wins.                                                          *)

LEMMA CalmStep ==
    ASSUME CalmClient, ClientNext, asks.fail = 0, asks.edit = 0, asks.discard = 0
    PROVE  CalmClient'
<1>1. CASE Refresh \/ LoadMore \/ (\E id \in Ids : Select(id)) \/ Reload \/ PostNext \/ Explore \/ Post
  BY <1>1, ReadInv
<1>2. CASE Create \/ Deliver
  BY <1>2, CreateCallInv, DeliverInv
<1>3. CASE \E id \in Ids : Mutate(id)
  BY <1>3, MutateInv
<1>4. CASE \E id \in Ids : (\E arg \in {"second", "third", "archived"} : Want(id, "patch", arg)) \/ Want(id, "remove", Void)
  <2>1. PICK id \in Ids : \E wish \in Wishes : Want(id, wish.op, wish.arg)
    <3>1. PICK id \in Ids : (\E arg \in {"second", "third", "archived"} : Want(id, "patch", arg)) \/ Want(id, "remove", Void)
      BY <1>4
    <3>2. ASSUME NEW arg \in {"second", "third", "archived"}, Want(id, "patch", arg)
          PROVE  \E wish \in Wishes : Want(id, wish.op, wish.arg)
      <4>1. PICK wish : wish = [op |-> "patch", arg |-> arg]
        OBVIOUS
      <4>2. wish \in Wishes /\ wish.op = "patch" /\ wish.arg = arg
        BY <3>2, <4>1 DEF Wishes
      <4> QED
        BY <3>2, <4>2
    <3>3. ASSUME Want(id, "remove", Void)
          PROVE  \E wish \in Wishes : Want(id, wish.op, wish.arg)
      <4>1. PICK wish : wish = [op |-> "remove", arg |-> Void]
        OBVIOUS
      <4>2. wish \in Wishes /\ wish.op = "remove" /\ wish.arg = Void
        BY <4>1 DEF Wishes
      <4> QED
        BY <3>3, <4>2
    <3> QED
      BY <3>1, <3>2, <3>3
  <2> QED
    BY <2>1, WantInv
<1>5. CASE (\E arg \in {"second", "archived"} : Edit("edit", arg)) \/ Edit("discard", Void)
  BY <1>5 DEF Edit, Ask
<1>6. CASE \E c \in calls : \/ Serve(c) \/ Refuse(c) \/ Listed(c) \/ Created(c) \/ Mutated(c)
                            \/ Loaded(c) \/ Edited(c) \/ Posted(c) \/ Explored(c)
  <2>1. PICK c \in calls : \/ Serve(c) \/ Refuse(c) \/ Listed(c) \/ Created(c) \/ Mutated(c)
                           \/ Loaded(c) \/ Edited(c) \/ Posted(c) \/ Explored(c)
    BY <1>6
  <2>2. CASE Serve(c)
    BY <2>2, ServeInv
  <2>3. CASE Refuse(c)
    BY <2>3 DEF Refuse, Ask
  <2>4. CASE Listed(c) \/ Created(c) \/ Mutated(c)
    BY <2>4, ListedInv, CreatedInv, MutatedInv
  <2>5. CASE Loaded(c) \/ Edited(c) \/ Explored(c)
    BY <2>5, DeskInv
  <2>6. CASE Posted(c)
    BY <2>6, PostedInv
  <2> QED
    BY <2>1, <2>2, <2>3, <2>4, <2>5, <2>6
<1> QED
  BY <1>1, <1>2, <1>3, <1>4, <1>5, <1>6 DEF ClientNext

\* What may be asked gets less only, and whether the behaviour is calm stays.
Allowances == {"fail", "refresh", "more", "create", "patch", "remove", "select", "reload", "edit", "discard", "post", "explore"}

LEMMA AskIs ==
    ASSUME asks \in Asks, ClientNext
    PROVE  /\ asks' \in Asks /\ asks'.calm = asks.calm
           /\ asks.fail = 0 => asks'.fail = 0
           /\ asks.edit = 0 => asks'.edit = 0
           /\ asks.discard = 0 => asks'.discard = 0
<1>1. ASSUME NEW what \in Allowances, Ask(what)
      PROVE  /\ asks' \in Asks /\ asks'.calm = asks.calm
             /\ asks.fail = 0 => asks'.fail = 0
             /\ asks.edit = 0 => asks'.edit = 0
             /\ asks.discard = 0 => asks'.discard = 0
  <2>1. asks[what] \in Nat /\ asks[what] > 0 /\ asks[what] - 1 \in Nat /\ asks' = [asks EXCEPT ![what] = asks[what] - 1]
    BY <1>1 DEF Ask, Asks, Allowances
  <2>2. PICK n \in Nat : n = asks[what] - 1
    BY <2>1
  <2>3. asks' = [asks EXCEPT ![what] = n]
    BY <2>1, <2>2
  <2> QED
    BY <1>1, <2>1, <2>3 DEF Asks, Allowances
<1>2. (\E what \in Allowances : Ask(what)) \/ UNCHANGED asks
  <2>1. CASE Refresh \/ LoadMore \/ Create \/ Deliver \/ Reload \/ Post \/ PostNext \/ Explore
    BY <2>1 DEF Refresh, LoadMore, Create, Deliver, Reload, Post, PostNext, Explore, Allowances
  <2>2. CASE \E id \in Ids : Mutate(id) \/ Select(id)
    BY <2>2 DEF Mutate, Select, Allowances
  <2>3. CASE \E id \in Ids : (\E arg \in {"second", "third", "archived"} : Want(id, "patch", arg)) \/ Want(id, "remove", Void)
    BY <2>3 DEF Want, Allowances
  <2>4. CASE (\E arg \in {"second", "archived"} : Edit("edit", arg)) \/ Edit("discard", Void)
    BY <2>4 DEF Edit, Allowances
  <2>5. CASE \E c \in calls : \/ Serve(c) \/ Refuse(c) \/ Listed(c) \/ Created(c) \/ Mutated(c)
                              \/ Loaded(c) \/ Edited(c) \/ Posted(c) \/ Explored(c)
    BY <2>5 DEF Serve, Refuse, Listed, Created, Mutated, Loaded, Edited, Posted, Explored, Allowances
  <2> QED
    BY <2>1, <2>2, <2>3, <2>4, <2>5 DEF ClientNext
<1> QED
  BY <1>1, <1>2

LEMMA WishStart ==
    ASSUME Init
    PROVE  WishInv
<1>1. PICK s \in Scenarios : ClientInit(s.rows) /\ asks = s.asks
  BY DEF Init
<1>2. PICK rows : rows = s.rows
  OBVIOUS
<1>3. ClientInit(rows) /\ Opening(rows, asks)
  BY <1>1, <1>2, ScenariosAssumption
<1>4. /\ asks \in Asks /\ (asks.calm => asks.fail = 0 /\ asks.edit = 0 /\ asks.discard = 0)
      /\ rows \in Seq(Rows(Ids)) /\ Distinct(rows) /\ \A i \in 1..Len(rows) : rows[i].status # "deleted"
  BY <1>3 DEF Opening, Distinct
<1>5. server = [rows |-> rows, clock |-> 1] /\ feed = <<>> /\ calls = {}
  BY <1>3 DEF ClientInit
<1>6. PageSize \in Nat
  BY ClientAssumption
<1>7. /\ view = [x \in ViewNames |-> view[x]] /\ view.list = Upto(rows, 0, PageSize) /\ view.cursor \in Nat \cup {Void}
      /\ view.waits = [id \in Ids |-> <<>>] /\ view.wanted = [id \in Ids |-> "first"]
  BY <1>3, <1>6 DEF ClientInit, ViewNames
<1>8. rows \in Seq(Rows(IdsOf(rows))) /\ OnServer = IdsOf(rows)
  BY <1>4, <1>5, RowsIn DEF OnServer
<1>9. ServerHolds
  BY <1>4, <1>5 DEF ServerHolds
<1>10. ViewHolds
  <2>1. view.list \in Seq(Rows(OnServer))
    <3>1. PICK T : T = Rows(OnServer)
      OBVIOUS
    <3>2. rows \in Seq(T) /\ 0 \in Nat
      BY <1>8, <3>1
    <3>3. Upto(rows, 0, PageSize) \in Seq(T)
      BY <1>6, <3>2, UptoIn
    <3> QED
      BY <1>7, <3>1, <3>3
  <2>2. feed \in Seq(Rows(OnServer))
    BY <1>5
  <2>3. view.waits \in [Ids -> Seq(Wishes)] /\ view.wanted \in [Ids -> RowTitles \cup {Void}]
    <3>1. <<>> \in Seq(Wishes) /\ "first" \in RowTitles \cup {Void}
      BY DEF RowTitles
    <3> QED
      BY <1>7, <3>1
  <2> QED
    BY <1>7, <2>1, <2>2, <2>3 DEF ViewHolds
<1>11. CallsHold
  BY <1>5 DEF CallsHold, OneCreation, OneMutation
<1>12. Promised
  <2> SUFFICES ASSUME NEW id \in Ids PROVE Promise("first", <<>>, RowIn(rows, id), {})
    BY <1>5, <1>7 DEF Promised, Coming
  <2>1. RowIn(rows, id) # Void => RowIn(rows, id).status # "deleted"
    <3>1. CASE id \in IdsOf(rows)
      <4>1. PICK k \in 1..Len(rows) : rows[k].id = id
        BY <3>1 DEF IdsOf
      <4> QED
        BY <1>4, <4>1, RowInIs
    <3>2. CASE id \notin IdsOf(rows)
      BY <1>4, <3>2, RowInIs
    <3> QED
      BY <3>1, <3>2
  <2>2. Void # "first" /\ 1..Len(<<>>) = {}
    BY ClientAssumption DEF RowTitles
  <2> QED
    BY <2>1, <2>2 DEF Promise, Undeleted, Deleted, Titled
<1> QED
  BY <1>4, <1>9, <1>10, <1>11, <1>12 DEF WishInv, CalmClient

LEMMA WishStep ==
    ASSUME WishInv, [ClientNext]_clientVars
    PROVE  WishInv'
<1>1. CASE ClientNext
  <2>1. /\ asks' \in Asks /\ asks'.calm = asks.calm
        /\ asks.fail = 0 => asks'.fail = 0
        /\ asks.edit = 0 => asks'.edit = 0
        /\ asks.discard = 0 => asks'.discard = 0
    BY <1>1, AskIs DEF WishInv
  <2>2. asks.calm => CalmClient'
    BY <1>1, CalmStep DEF WishInv
  <2> QED
    BY <2>1, <2>2 DEF WishInv
<1>2. CASE UNCHANGED clientVars
  <2>1. UNCHANGED <<server, feed, view, calls, asks>>
    BY <1>2 DEF clientVars
  <2>2. CalmClient => CalmClient'
    BY <2>1 DEF CalmClient, ServerHolds, ViewHolds, CallsHold, Promised, OnServer
  <2> QED
    BY <2>1, <2>2 DEF WishInv
<1> QED
  BY <1>1, <1>2

LEMMA WishKept ==
    ASSUME WishInv
    PROVE  LastWishWins
<1> SUFFICES ASSUME calls = {}, asks.calm, NEW id \in Ids, view.waits[id] = <<>>
             PROVE  /\ view.wanted[id] = Void => RowOf(id).status = "deleted"
                    /\ view.wanted[id] \in {"second", "third"} => RowOf(id).title = view.wanted[id]
  BY DEF LastWishWins, Settled
<1>1. Promise(view.wanted[id], <<>>, RowIn(server.rows, id), {})
  <2>1. Coming(id, calls) = {}
    BY DEF Coming
  <2> QED
    BY <2>1 DEF WishInv, CalmClient, Promised
<1>2. RowOf(id) = RowIn(server.rows, id) /\ 1..Len(<<>>) = {}
  BY DEF RowOf, RowIn
<1> QED
  BY <1>1, <1>2 DEF Promise, Deleted, Titled

\* Once nothing is on its way, an investigation is as its user last wanted it in the list: deleted, or
\* under the last title that was given (patch and remove of useInvestigations).
THEOREM LastWishWinsAlways == Spec => []LastWishWins
<1>1. Init => WishInv
  BY WishStart
<1>2. WishInv /\ [Next]_webVars => WishInv'
  BY WorkSteps, WishStep
<1>3. WishInv => LastWishWins
  BY WishKept
<1> QED
  BY <1>1, <1>2, <1>3, PTL DEF Spec
=============================================================================
