--------------------------- MODULE Platform_proofs ---------------------------
(***************************************************************************)
(* What holds of the services around the executions for any number of      *)
(* requests, sessions, visits and clients: the month's budget, the index   *)
(* of sessions, the idempotency of commands, the rows of the store and the *)
(* ledgers of the verification route.                                      *)
(* Each part has an inductive invariant of its own; a step of another part *)
(* leaves its variables alone.                                             *)
(***************************************************************************)
EXTENDS Platform, Iteration, FiniteSetTheorems, FunctionTheorems, TLAPS

\* A step of one part leaves the others alone.
LEMMA OthersWork ==
    ASSUME [Next]_platformVars
    PROVE  /\ ChatsWork \/ UNCHANGED chatVars
           /\ RequestsWork \/ UNCHANGED requestVars
           /\ AdmissionWorks \/ UNCHANGED admissionVars
           /\ StoreWorks \/ UNCHANGED storeVars
BY DEF Next, platformVars, WorkersWork, RequestsWork, ChatsWork, BillingWorks, AdmissionWorks, StoreWorks, Alone,
       OutsideWorkers, OutsideRequests, OutsideChats, OutsideBilling, OutsideAdmission, OutsideStore

(***************************************************************************)
(* The chat gateway: requests whose cost is not in the month yet are       *)
(* covered by their reservations.                                          *)
(***************************************************************************)
Uncommitted == {c \in Chats : chat[c].step \in {"models", "commit"}}
Promised == {c \in Chats : reservation[c] = "reserved"}
Overrun == (Most - Estimated) * usage.messages

ChatShape ==
    /\ DOMAIN chat = Chats /\ \A c \in Chats : {"step", "cost"} \subseteq DOMAIN chat[c]
    /\ usage \in [messages : Nat, cost : Nat]
    /\ DOMAIN reservation = Chats
    /\ \A c \in Chats : chat[c].step = "commit" => chat[c].cost \in {Estimated, Most}
Covered == Uncommitted \subseteq Promised
Affordable == usage.cost + Estimated * Cardinality(Uncommitted) <= Budget + Overrun
BudgetInv == ChatShape /\ Covered /\ Affordable

\* The invariant holds where a behaviour begins, if the month is within its budget there.
LEMMA BudgetInit ==
    ASSUME NEW s \in Scenarios, ChatInit(s.chains, s.used, s.faults)
    PROVE  BudgetInv
<1>1. ChatShape
  BY ScenariosAssumption DEF ChatInit, ChatShape
<1>2. Uncommitted = {}
  BY DEF ChatInit, Uncommitted
<1>3. Estimated * Cardinality(Uncommitted) = 0
  BY <1>2, FS_EmptySet, ChatAssumption
<1>4. s.used.cost <= Budget + (Most - Estimated) * s.used.messages /\ s.used = usage
  BY ScenariosAssumption DEF ChatInit
<1>5. Affordable
  BY <1>1, <1>3, <1>4 DEF Affordable, Overrun, ChatShape
<1> QED BY <1>1, <1>2, <1>5 DEF BudgetInv, Covered

\* What a smaller set of requests may still cost is no more.
LEMMA FewerCostLess ==
    ASSUME NEW S, NEW T, T \subseteq S, S \subseteq Chats
    PROVE  /\ Cardinality(S) \in Nat /\ Cardinality(T) \in Nat
           /\ Estimated * Cardinality(T) <= Estimated * Cardinality(S)
           /\ Estimated * Cardinality(S) \in Nat
           /\ Estimated * Cardinality(T) \in Nat
<1>1. IsFiniteSet(S) /\ IsFiniteSet(T)
  BY FS_Subset, ChatAssumption
<1>2. Cardinality(S) \in Nat /\ Cardinality(T) \in Nat /\ Cardinality(T) <= Cardinality(S)
  BY <1>1, FS_CardinalityType, FS_Subset
<1>3. \A e, m, n \in Nat : m <= n => e * m <= e * n /\ e * m \in Nat /\ e * n \in Nat
  OBVIOUS
<1> QED BY <1>2, <1>3, ChatAssumption

\* A request that turns to a step of which no more is uncommitted changes nothing about the month.
Turned(c) ==
    /\ DOMAIN chat' = Chats /\ \A d \in Chats \ {c} : chat'[d] = chat[d]
    /\ {"step", "cost"} \subseteq DOMAIN chat'[c]

LEMMA BudgetKept ==
    ASSUME BudgetInv, NEW c \in Chats, Turned(c), usage' = usage,
           chat'[c].step = "commit" => chat'[c].cost \in {Estimated, Most},
           chat'[c].step \in {"models", "commit"} => c \in Uncommitted,
           DOMAIN reservation' = Chats,
           \A d \in Uncommitted : reservation'[d] = reservation[d] \/ (d = c /\ chat'[c].step \notin {"models", "commit"})
    PROVE  BudgetInv'
<1> USE DEF BudgetInv
<1>1. ChatShape'
  BY DEF ChatShape, Turned
<1>2. Uncommitted' \subseteq Uncommitted
  BY DEF Uncommitted, Turned, ChatShape
<1>3. Covered'
  BY <1>2 DEF Covered, Promised, Uncommitted, Turned, ChatShape
<1>4. Estimated * Cardinality(Uncommitted') <= Estimated * Cardinality(Uncommitted)
  BY <1>2, FewerCostLess DEF Uncommitted
<1>5. Affordable'
  <2>1. /\ Estimated * Cardinality(Uncommitted) \in Nat
        /\ Estimated * Cardinality(Uncommitted') \in Nat
    BY <1>2, FewerCostLess DEF Uncommitted
  <2>2. Overrun \in Int
    BY ChatAssumption DEF ChatShape, Overrun
  <2> QED BY <2>1, <2>2, <1>4, ChatAssumption DEF Affordable, Overrun, ChatShape
<1> QED BY <1>1, <1>3, <1>5

\* The steps that leave a request in no such step.
LEMMA BudgetUntouched ==
    ASSUME BudgetInv, NEW c \in Chats, Turned(c), usage' = usage, DOMAIN reservation' = Chats,
           \A d \in Chats \ {c} : reservation'[d] = reservation[d],
           chat'[c].step \notin {"models", "commit"}
    PROVE  BudgetInv'
BY BudgetKept DEF Uncommitted

\* A reservation is made against what is committed and what is reserved.
LEMMA BudgetReserved ==
    ASSUME BudgetInv, NEW c \in Chats, ReserveBudget(c)
    PROVE  BudgetInv'
<1> USE DEF BudgetInv
<1>1. CASE Spoken + Estimated > Budget
  <2>1. Turned(c) /\ chat'[c].step = "over" /\ reservation' = reservation /\ usage' = usage
    BY <1>1 DEF ReserveBudget, Blocked, ChatShape, Turn, Turned
  <2> QED BY <2>1, BudgetUntouched DEF ChatShape
<1>2. CASE ~(Spoken + Estimated > Budget)
  <2> DEFINE q == [chat[c] EXCEPT !.step = "models"]
  <2>1. /\ Turn(c, q) /\ reservation' = [reservation EXCEPT ![c] = "reserved"] /\ usage' = usage
        /\ chat[c].step = "reserve"
    BY <1>2 DEF ReserveBudget, Proceed, In
  <2>2. ChatShape'
    BY <2>1 DEF ChatShape, Turn
  <2>3. Uncommitted' = Uncommitted \cup {c} /\ c \notin Uncommitted
    BY <2>1 DEF Uncommitted, Turn, ChatShape
  <2>4. Covered'
    BY <2>1, <2>3 DEF Covered, Promised, ChatShape, Uncommitted
  <2>5. /\ Estimated * Cardinality(Uncommitted) <= Estimated * Cardinality(Promised)
        /\ Cardinality(Uncommitted) \in Nat
        /\ Estimated * Cardinality(Uncommitted) \in Nat /\ Estimated * Cardinality(Promised) \in Nat
    BY FewerCostLess DEF Covered, Promised
  <2>6. Cardinality(Uncommitted') = Cardinality(Uncommitted) + 1
    <3>1. IsFiniteSet(Uncommitted)
      BY FS_Subset, ChatAssumption DEF Uncommitted
    <3> QED BY <3>1, <2>3, FS_AddElement
  <2>7. Estimated * Cardinality(Uncommitted') = Estimated * Cardinality(Uncommitted) + Estimated
    BY <2>5, <2>6, ChatAssumption
  <2>8. usage.cost + Estimated * Cardinality(Promised) + Estimated <= Budget
    BY <1>2, <2>5, ChatAssumption DEF Spoken, Promised, ChatShape
  <2>9. Overrun \in Nat /\ Overrun' = Overrun
    BY <2>1, ChatAssumption DEF ChatShape, Overrun
  <2> QED BY <2>1, <2>2, <2>4, <2>5, <2>7, <2>8, <2>9, ChatAssumption DEF Affordable, ChatShape
<1> QED BY <1>1, <1>2

\* What an answer cost takes the place of what was reserved for it, and may run over it.
LEMMA BudgetCommitted ==
    ASSUME BudgetInv, NEW c \in Chats, IncrementUsage(c)
    PROVE  BudgetInv'
<1> USE DEF BudgetInv
<1> DEFINE q == [chat[c] EXCEPT !.step = "release"]
<1>1. Turn(c, q) /\ reservation' = reservation /\ chat[c].step = "commit"
  BY DEF IncrementUsage, Proceed, In
<1>2. CASE usage' = usage
  <2>1. Turned(c) /\ chat'[c].step = "release"
    BY <1>1 DEF ChatShape, Turn, Turned
  <2> QED BY <1>1, <1>2, <2>1, BudgetUntouched DEF ChatShape
<1>3. CASE usage' = [messages |-> usage.messages + 1, cost |-> usage.cost + chat[c].cost]
  <2>1. chat[c].cost \in {Estimated, Most}
    BY <1>1 DEF ChatShape
  <2>2. ChatShape'
    BY <1>1, <1>3, <2>1, ChatAssumption DEF ChatShape, Turn
  <2>3. Uncommitted' = Uncommitted \ {c} /\ c \in Uncommitted
    BY <1>1 DEF Uncommitted, Turn, ChatShape
  <2>4. Covered'
    BY <1>1, <2>3 DEF Covered, Promised
  <2>5. Cardinality(Uncommitted') = Cardinality(Uncommitted) - 1 /\ Cardinality(Uncommitted) \in Nat
    <3>1. IsFiniteSet(Uncommitted)
      BY FS_Subset, ChatAssumption DEF Uncommitted
    <3> QED BY <3>1, <2>3, FS_RemoveElement, FS_CardinalityType
  <2>6. Estimated * Cardinality(Uncommitted') = Estimated * Cardinality(Uncommitted) - Estimated
    BY <2>5, ChatAssumption
  <2>7. Estimated * Cardinality(Uncommitted) \in Nat
    BY <2>5, ChatAssumption
  <2>8. Overrun' = Overrun + (Most - Estimated) /\ Overrun \in Nat
    <3>1. usage'.messages = usage.messages + 1 /\ usage.messages \in Nat
      BY <1>3 DEF ChatShape
    <3>2. \A d, n \in Nat : d * (n + 1) = d * n + d /\ d * n \in Nat
      OBVIOUS
    <3>3. Most - Estimated \in Nat
      BY ChatAssumption
    <3> QED BY <3>1, <3>2, <3>3 DEF Overrun
  <2>9. usage'.cost = usage.cost + chat[c].cost /\ usage.cost \in Nat
    BY <1>3 DEF ChatShape
  <2> QED BY <2>1, <2>2, <2>4, <2>6, <2>7, <2>8, <2>9, ChatAssumption DEF Affordable
<1> QED BY <1>2, <1>3 DEF IncrementUsage

\* Every other step of a request.
LEMMA BudgetStep ==
    ASSUME BudgetInv, ChatNext
    PROVE  BudgetInv'
<1> USE DEF BudgetInv
<1>1. CASE \E m \in benched : CooldownEnds(m)
  BY <1>1 DEF CooldownEnds, ChatShape, Covered, Affordable, Uncommitted, Promised, Overrun
<1>2. SUFFICES ASSUME NEW c \in Chats, ChatStep(c) \/ Dies(c) \/ Lapses(c) PROVE BudgetInv'
  BY <1>1 DEF ChatNext
<1>3. ASSUME NEW w \in Windows, AskWindow(c, w) PROVE BudgetInv'
  <2>1. Turned(c) /\ chat'[c].step \in {"rate", "over", "limit"}
    BY <1>3 DEF AskWindow, ChatShape, Turn, Turned
  <2>2. usage' = usage /\ reservation' = reservation
    BY <1>3 DEF AskWindow
  <2> QED BY <2>1, <2>2, BudgetUntouched DEF ChatShape
<1>4. CASE CheckMessages(c)
  <2>1. Turned(c) /\ chat'[c].step \in {"over", "reserve"}
    BY <1>4 DEF CheckMessages, Blocked, Proceed, ChatShape, Turn, Turned
  <2>2. usage' = usage /\ reservation' = reservation
    BY <1>4 DEF CheckMessages, Blocked, Proceed
  <2> QED BY <2>1, <2>2, BudgetUntouched DEF ChatShape
<1>5. CASE ReserveBudget(c)
  BY <1>5, BudgetReserved
<1>6. CASE PassOver(c) \/ ModelFails(c)
  <2>1. Turned(c) /\ chat'[c].step = "models" /\ chat[c].step = "models"
    BY <1>6 DEF PassOver, ModelFails, In, ChatShape, Turn, Turned
  <2>2. usage' = usage /\ reservation' = reservation
    BY <1>6 DEF PassOver, ModelFails, In
  <2> QED BY <2>1, <2>2, BudgetKept DEF ChatShape, Uncommitted
<1>7. CASE ModelAnswers(c)
  <2>1. Turned(c) /\ chat'[c].step = "commit" /\ chat'[c].cost \in {Estimated, Most} /\ chat[c].step = "models"
    BY <1>7 DEF ModelAnswers, In, ChatShape, Turn, Turned
  <2>2. usage' = usage /\ reservation' = reservation
    BY <1>7 DEF ModelAnswers, In
  <2> QED BY <2>1, <2>2, BudgetKept DEF ChatShape, Uncommitted
<1>8. CASE NoModel(c)
  <2>1. Turned(c) /\ chat'[c].step = "release"
    BY <1>8 DEF NoModel, ChatShape, Turn, Turned
  <2>2. usage' = usage /\ reservation' = reservation
    BY <1>8 DEF NoModel
  <2> QED BY <2>1, <2>2, BudgetUntouched DEF ChatShape
<1>9. CASE IncrementUsage(c)
  BY <1>9, BudgetCommitted
<1>10. CASE ReleaseReservation(c)
  <2>1. Turned(c) /\ chat'[c].step = "over"
    BY <1>10 DEF ReleaseReservation, ChatShape, Turn, Turned
  <2>2. usage' = usage /\ (reservation' = [reservation EXCEPT ![c] = "released"] \/ reservation' = reservation)
    BY <1>10 DEF ReleaseReservation
  <2> QED BY <2>1, <2>2, BudgetUntouched DEF ChatShape
<1>11. CASE Dies(c)
  <2>1. Turned(c) /\ chat'[c].step = "over"
    BY <1>11 DEF Dies, Blocked, ChatShape, Turn, Turned
  <2>2. usage' = usage /\ reservation' = reservation
    BY <1>11 DEF Dies, Blocked
  <2> QED BY <2>1, <2>2, BudgetUntouched DEF ChatShape
<1>12. CASE Lapses(c)
  <2>1. chat' = chat /\ usage' = usage /\ reservation' = [reservation EXCEPT ![c] = "lapsed"] /\ c \notin Uncommitted
    BY <1>12 DEF Lapses, In, Uncommitted
  <2> QED BY <2>1 DEF ChatShape, Covered, Affordable, Uncommitted, Promised, Overrun
<1> QED BY <1>2, <1>3, <1>4, <1>5, <1>6, <1>7, <1>8, <1>9, <1>10, <1>11, <1>12 DEF ChatStep

\* The month costs no more than its budget and what the answers ran over their estimates, however
\* many requests reserve, answer, commit, fail and lapse at the same time, and whatever is reserved
\* for requests that are gone.
THEOREM BudgetHoldsAlways == Spec => []BudgetHolds
<1>1. Init => BudgetInv
  BY BudgetInit DEF Init
<1>2. BudgetInv /\ [Next]_platformVars => BudgetInv'
  <2> SUFFICES ASSUME BudgetInv, [Next]_platformVars PROVE BudgetInv'
    OBVIOUS
  <2>1. CASE ChatsWork
    BY <2>1, BudgetStep DEF ChatsWork
  <2>2. CASE UNCHANGED chatVars
    BY <2>2 DEF chatVars, BudgetInv, ChatShape, Covered, Affordable, Uncommitted, Promised, Overrun
  <2> QED BY <2>1, <2>2, OthersWork
<1>3. BudgetInv => BudgetHolds
  <2> SUFFICES ASSUME BudgetInv PROVE BudgetHolds
    OBVIOUS
  <2>1. Estimated * Cardinality(Uncommitted) \in Nat
    BY FewerCostLess DEF Uncommitted
  <2>2. Overrun \in Nat
    BY ChatAssumption DEF Overrun, BudgetInv, ChatShape
  <2> QED BY <2>1, <2>2, ChatAssumption DEF BudgetInv, Affordable, BudgetHolds, Overrun, ChatShape
<1> QED BY <1>1, <1>2, <1>3, PTL DEF Spec

(***************************************************************************)
(* The runtime store: who is in the middle of a call on a row that is      *)
(* there has it locked and has read what it holds; and, as long as its     *)
(* numbering has not begun again, a stream is numbered without a gap.      *)
(***************************************************************************)
Pcs == {"idle", "row", "purge", "append", "trim"}
OnKey(c, k) == calls[c].pc = "row" /\ OnRow[Op(c)] = k

StoreShape ==
    /\ DOMAIN rows = Keys /\ DOMAIN locks = Keys \cup {"stream"} /\ old \subseteq {"lease"}
    /\ DOMAIN calls = Clients
    /\ \A c \in Clients :
          /\ {"pc", "todo", "seen"} \subseteq DOMAIN calls[c]
          /\ calls[c].pc \in Pcs /\ calls[c].todo \in Seq(Operations)
          /\ calls[c].pc # "idle" => calls[c].todo # <<>>
          /\ calls[c].pc = "row" => Op(c) \in DOMAIN OnRow
JobHeld ==
    /\ \A c \in Clients : OnKey(c, "job") =>
          calls[c].seen = rows["job"] /\ (rows["job"] # Absent => locks["job"] = c)
    /\ \A c \in Clients : <<c, "job">> \in told => rows["job"] = c
Counting ==
    warm => /\ rows["count"] = counted /\ counted \in Nat
            /\ \A c \in Clients : OnKey(c, "count") => calls[c].seen = rows["count"] /\ locks["count"] = c
Numbered ==
    /\ appended \in Seq(Nat \ {0})
    /\ \A c \in Clients : calls[c].pc = "append" => locks["stream"] = c
    /\ Life = 1 =>
          /\ ebbed \in Nat /\ ebbed <= Len(appended)
          /\ \A e \in stream : e.id \in 1 .. Len(appended) /\ e.seq = e.id /\ (e.gone <=> e.id <= ebbed) /\ e.gone \in BOOLEAN
          /\ \A e \in stream : e = [seq |-> e.seq, id |-> e.id, life |-> e.life, gone |-> e.gone]
          /\ \A e, f \in stream : e.id = f.id => e = f
          /\ \A c \in Clients : calls[c].pc = "append" => calls[c].seen = Len(appended) + 1 \/ (calls[c].seen = 1 /\ appended # <<>>)
          /\ \A c \in Clients : calls[c].pc = "trim" => \A q \in calls[c].seen : q \in Nat /\ q <= Len(appended) - KeptRows
RowInv == StoreShape /\ JobHeld /\ Counting /\ Numbered /\ TrimKeepsNewest

LEMMA StoreInitRows ==
    ASSUME NEW s \in Scenarios, StoreInit(s.initial, s.todo, s.mishaps)
    PROVE  RowInv
<1>1. s.initial \in [Keys -> {Absent, Unheld, 0} \cup Clients] /\ s.initial["count"] \in {Absent, 0} /\ s.todo \in [Clients -> Seq(Operations)]
  BY ScenariosAssumption
<1>2. StoreShape
  BY <1>1 DEF StoreInit, StoreShape, Pcs
<1>3. JobHeld
  BY DEF StoreInit, JobHeld, OnKey
<1>4. Counting
  BY <1>1 DEF StoreInit, Counting, OnKey
<1>5. Numbered /\ TrimKeepsNewest
  BY DEF StoreInit, Numbered, TrimKeepsNewest, Life
<1> QED BY <1>2, <1>3, <1>4, <1>5 DEF RowInv

\* What the beginning and the end of a call make of the calls.
Entered(c, pc, seen) ==
    /\ DOMAIN calls' = Clients /\ \A d \in Clients \ {c} : calls'[d] = calls[d]
    /\ {"pc", "todo", "seen"} \subseteq DOMAIN calls'[c]
    /\ calls'[c].pc = pc /\ calls'[c].seen = seen /\ calls'[c].todo = calls[c].todo
Returned(c) ==
    /\ DOMAIN calls' = Clients /\ \A d \in Clients \ {c} : calls'[d] = calls[d]
    /\ {"pc", "todo", "seen"} \subseteq DOMAIN calls'[c]
    /\ calls'[c].pc = "idle" /\ calls'[c].todo = Tail(calls[c].todo)

LEMMA EnterCall ==
    ASSUME StoreShape, NEW c \in Clients, NEW pc, NEW seen, Enter(c, pc, seen)
    PROVE  Entered(c, pc, seen)
BY DEF StoreShape, Enter, Entered
LEMMA ReturnCall ==
    ASSUME StoreShape, NEW c \in Clients, Return(c)
    PROVE  Returned(c)
BY DEF StoreShape, Return, Returned

LEMMA ShapeEnters ==
    ASSUME StoreShape, NEW c \in Clients, NEW pc \in Pcs, NEW seen, Entered(c, pc, seen),
           pc # "idle" => calls[c].todo # <<>>, pc = "row" => Op(c) \in DOMAIN OnRow,
           DOMAIN rows' = Keys, DOMAIN locks' = Keys \cup {"stream"}, old' \subseteq {"lease"}
    PROVE  StoreShape'
BY DEF StoreShape, Entered, Op
LEMMA ShapeReturns ==
    ASSUME StoreShape, NEW c \in Clients, Returned(c), calls[c].todo # <<>>,
           DOMAIN rows' = Keys, DOMAIN locks' = Keys \cup {"stream"}, old' \subseteq {"lease"}
    PROVE  StoreShape'
<1>1. Tail(calls[c].todo) \in Seq(Operations)
  BY DEF StoreShape
<1> QED BY <1>1 DEF StoreShape, Returned, Op, Pcs

\* A step that leaves the stream alone, and the calls that are working on it.
LEMMA StreamAside ==
    ASSUME RowInv, NEW c \in Clients, Entered(c, calls'[c].pc, calls'[c].seen) \/ Returned(c),
           calls'[c].pc \notin {"append", "trim"}, UNCHANGED <<stream, appended, ebbed>>,
           calls[c].pc = "append" \/ locks'["stream"] = locks["stream"]
    PROVE  Numbered' /\ TrimKeepsNewest'
<1>1. \A d \in Clients : d = c \/ calls'[d] = calls[d]
  BY DEF Entered, Returned
<1>2. calls[c].pc = "append" => \A d \in Clients \ {c} : calls[d].pc # "append"
  BY DEF RowInv, Numbered
<1>3. \A d \in Clients : calls'[d].pc = "append" => locks'["stream"] = d
  BY <1>1, <1>2 DEF RowInv, Numbered
<1>4. TrimKeepsNewest'
  BY DEF RowInv, TrimKeepsNewest, Life
<1> QED BY <1>1, <1>3, <1>4 DEF RowInv, Numbered, Life

\* A step that leaves the rows of the job and of the counter alone.
LEMMA RowsAside ==
    ASSUME RowInv, NEW c \in Clients, Entered(c, calls'[c].pc, calls'[c].seen) \/ Returned(c),
           calls'[c].pc # "row" \/ OnRow[Op(c)'] = "lease",
           rows'["job"] = rows["job"], rows'["count"] = rows["count"], UNCHANGED <<counted, warm>>,
           \A k \in {"job", "count"} : locks'[k] = locks[k],
           \A d \in Clients : <<d, "job">> \in told' => <<d, "job">> \in told
    PROVE  JobHeld' /\ Counting'
<1>1. \A d \in Clients, k \in {"job", "count"} : OnKey(d, k)' => OnKey(d, k) /\ calls'[d] = calls[d]
  BY DEF OnKey, Entered, Returned, Op
<1> QED BY <1>1 DEF RowInv, JobHeld, Counting

LEMMA RowBegins ==
    ASSUME RowInv, NEW c \in Clients, BeginRow(c)
    PROVE  RowInv'
<1> DEFINE k == OnRow[Op(c)]
<1>1. /\ calls[c].pc = "idle" /\ calls[c].todo # <<>> /\ Op(c) \in DOMAIN OnRow /\ k \in Keys
      /\ UNCHANGED <<rows, old, stream, appended, ebbed, told, counted, warm>>
  BY DEF BeginRow, Idle, OnRow, Keys
<1>2. Entered(c, "row", Seen(Op(c), k))
  BY EnterCall DEF BeginRow, RowInv
<1>3. /\ rows[k] # Absent => locks[k] = Nobody /\ locks' = [locks EXCEPT ![k] = c]
      /\ rows[k] = Absent => locks' = locks
  BY DEF BeginRow, Lockable
<1>4. StoreShape'
  BY <1>1, <1>2, <1>3, ShapeEnters DEF RowInv, StoreShape, Pcs
<1>5. Numbered' /\ TrimKeepsNewest'
  <2>1. locks'["stream"] = locks["stream"]
    BY <1>1, <1>3 DEF RowInv, StoreShape, Keys
  <2> QED BY <1>1, <1>2, <2>1, StreamAside DEF Entered
<1>6. OnKey(c, k)' /\ \A d \in Clients, q \in Keys : OnKey(d, q)' => (d = c /\ q = k) \/ (d # c /\ OnKey(d, q) /\ calls'[d] = calls[d])
  BY <1>1, <1>2 DEF OnKey, Entered, Op
<1>7. \A q \in {"job", "count"} : k = q => calls'[c].seen = rows[q]
  BY <1>2 DEF Seen, RowInv, StoreShape, Entered, OnRow
<1>8. \A q \in Keys, d \in Clients : locks[q] = d => q # k \/ rows[k] = Absent
  BY <1>3, StoreAssumption
<1>9. JobHeld'
  <2>1. ASSUME NEW d \in Clients, OnKey(d, "job")', rows["job"] # Absent PROVE locks'["job"] = d
    BY <1>1, <1>3, <1>6, <1>8, <2>1 DEF RowInv, JobHeld, Keys, StoreShape
  <2>2. ASSUME NEW d \in Clients, OnKey(d, "job")' PROVE calls'[d].seen = rows["job"]
    BY <1>6, <1>7, <2>2 DEF RowInv, JobHeld, Keys
  <2> QED BY <1>1, <2>1, <2>2 DEF RowInv, JobHeld
<1>10. Counting'
  <2> SUFFICES ASSUME warm PROVE Counting'
    BY <1>1 DEF Counting
  <2>1. rows["count"] = counted /\ counted \in Nat /\ rows["count"] # Absent
    BY StoreAssumption DEF RowInv, Counting
  <2>2. ASSUME NEW d \in Clients, OnKey(d, "count")' PROVE calls'[d].seen = rows["count"] /\ locks'["count"] = d
    BY <1>1, <1>3, <1>6, <1>7, <1>8, <2>1, <2>2 DEF RowInv, Counting, Keys, StoreShape
  <2> QED BY <1>1, <2>1, <2>2 DEF Counting
<1> QED BY <1>4, <1>5, <1>9, <1>10 DEF RowInv

LEMMA RowCommits ==
    ASSUME RowInv, NEW c \in Clients, CommitRow(c)
    PROVE  RowInv'
<1> DEFINE op == Op(c)  k == OnRow[Op(c)]  seen == calls[c].seen  done == Applies(Op(c), c, calls[c].seen)
<1>1. /\ calls[c].pc = "row" /\ op \in DOMAIN OnRow /\ k \in Keys /\ calls[c].todo # <<>>
      /\ UNCHANGED <<stream, appended, ebbed, warm>>
      /\ OnKey(c, k)
  BY DEF CommitRow, RowInv, StoreShape, OnRow, Keys, OnKey
<1>2. Returned(c)
  BY ReturnCall DEF CommitRow, RowInv
<1>3. /\ done => locks[k] \in {Nobody, c}
      /\ locks' = [locks EXCEPT ![k] = IF @ = c THEN Nobody ELSE @]
      /\ rows' = IF done THEN [rows EXCEPT ![k] = Written(op, c, seen)] ELSE rows
      /\ old' = IF done THEN old \ {k} ELSE old
      /\ told' = Holders(op, c, k, done)
      /\ counted' = IF op = "incr" THEN counted + 1 ELSE counted
  BY DEF CommitRow
<1>4. StoreShape'
  BY <1>1, <1>2, <1>3, ShapeReturns DEF RowInv, StoreShape
<1>5. Numbered' /\ TrimKeepsNewest'
  <2>1. locks'["stream"] = locks["stream"]
    BY <1>1, <1>3 DEF RowInv, StoreShape, Keys
  <2> QED BY <1>1, <1>2, <2>1, StreamAside DEF Returned
<1>6. \A d \in Clients, q \in Keys : OnKey(d, q)' => d # c /\ OnKey(d, q) /\ calls'[d] = calls[d]
  BY <1>2 DEF OnKey, Returned, Op
<1>7. \A q \in Keys \ {k} : rows'[q] = rows[q] /\ locks'[q] = locks[q]
  BY <1>1, <1>3 DEF RowInv, StoreShape
<1>8. JobHeld'
  <2>1. CASE k # "job"
    <3>1. \A d \in Clients : <<d, "job">> \in told' => <<d, "job">> \in told
      BY <1>3, <2>1 DEF Holders
    <3> QED BY <1>6, <1>7, <2>1, <3>1 DEF RowInv, JobHeld, Keys
  <2>2. CASE k = "job"
    <3>1. op \in {"take", "requeue"} /\ seen = rows["job"] /\ (rows["job"] # Absent => locks["job"] = c)
      BY <1>1, <2>2 DEF RowInv, JobHeld, OnRow
    <3>2. rows["job"] # Absent => \A d \in Clients : ~OnKey(d, "job")'
      BY <1>6, <3>1 DEF RowInv, JobHeld, Keys
    <3>3. CASE op = "take"
      <4>1. done <=> seen = Unheld
        BY <3>3 DEF Applies
      <4>2. CASE seen = Unheld
        <5>1. rows'["job"] = c /\ told' = told \cup {<<c, "job">>}
          BY <1>1, <1>3, <2>2, <3>3, <4>1, <4>2 DEF Written, Holders, RowInv, StoreShape
        <5>2. \A d \in Clients : <<d, "job">> \notin told
          BY <3>1, <4>2, StoreAssumption DEF RowInv, JobHeld
        <5> QED BY <3>1, <3>2, <4>2, <5>1, <5>2, StoreAssumption DEF JobHeld
      <4>3. CASE seen # Unheld
        <5>1. rows' = rows /\ told' = told
          BY <1>3, <3>3, <4>1, <4>3 DEF Holders
        <5>2. CASE rows["job"] # Absent
          BY <3>2, <5>1, <5>2 DEF RowInv, JobHeld
        <5>3. CASE rows["job"] = Absent
          BY <1>6, <5>1, <5>3 DEF RowInv, JobHeld, Keys
        <5> QED BY <5>2, <5>3
      <4> QED BY <4>2, <4>3
    <3>4. CASE op = "requeue"
      <4>1. told' = told \ {<<c, "job">>} /\ (done <=> seen = c)
        BY <1>3, <2>2, <3>4 DEF Holders, Applies
      <4>2. CASE seen = c
        <5>1. \A d \in Clients : <<d, "job">> \notin told'
          BY <3>1, <4>1, <4>2 DEF RowInv, JobHeld
        <5> QED BY <3>1, <3>2, <4>2, <5>1, StoreAssumption DEF JobHeld
      <4>3. CASE seen # c
        <5>1. rows' = rows
          BY <1>3, <4>1, <4>3
        <5>2. CASE rows["job"] # Absent
          BY <3>2, <4>1, <5>1, <5>2 DEF RowInv, JobHeld
        <5>3. CASE rows["job"] = Absent
          BY <1>6, <4>1, <5>1, <5>3 DEF RowInv, JobHeld, Keys
        <5> QED BY <5>2, <5>3
      <4> QED BY <4>2, <4>3
    <3> QED BY <3>1, <3>3, <3>4
  <2> QED BY <2>1, <2>2
<1>9. Counting'
  <2> SUFFICES ASSUME warm PROVE Counting'
    BY <1>1 DEF Counting
  <2>1. rows["count"] = counted /\ counted \in Nat
    BY DEF RowInv, Counting
  <2>2. CASE k # "count"
    <3>1. op # "incr"
      BY <2>2 DEF OnRow
    <3> QED BY <1>1, <1>3, <1>6, <1>7, <2>1, <2>2, <3>1 DEF RowInv, Counting, Keys
  <2>3. CASE k = "count"
    <3>1. op = "incr" /\ seen = rows["count"] /\ locks["count"] = c
      BY <1>1, <2>3 DEF RowInv, Counting, OnRow
    <3>2. \A d \in Clients : ~OnKey(d, "count")'
      BY <1>6, <3>1 DEF RowInv, Counting, Keys
    <3>3. done /\ Written(op, c, seen) = counted + 1
      BY <2>1, <3>1, StoreAssumption DEF Applies, Written
    <3>4. rows'["count"] = counted + 1
      BY <1>1, <1>3, <2>3, <3>3 DEF RowInv, StoreShape
    <3> QED BY <1>3, <2>1, <3>1, <3>2, <3>4 DEF Counting
  <2> QED BY <2>2, <2>3
<1> QED BY <1>4, <1>5, <1>8, <1>9 DEF RowInv

LEMMA LeaseCalls ==
    ASSUME RowInv, NEW c \in Clients, GetRow(c) \/ Purge(c)
    PROVE  RowInv'
<1>1. calls[c].todo # <<>> /\ UNCHANGED <<locks, stream, appended, ebbed, told, counted, warm>>
  BY DEF GetRow, Purge, Idle, RowInv, StoreShape
<1>2. Entered(c, "purge", Absent) \/ Returned(c)
  BY EnterCall, ReturnCall DEF GetRow, Purge, RowInv
<1>3. DOMAIN rows' = Keys /\ old' \subseteq {"lease"} /\ rows'["job"] = rows["job"] /\ rows'["count"] = rows["count"]
  BY DEF GetRow, Purge, RowInv, StoreShape, Keys
<1>4. StoreShape'
  BY <1>1, <1>2, <1>3, ShapeEnters, ShapeReturns DEF RowInv, StoreShape, Pcs
<1>5. calls'[c].pc \in {"purge", "idle"} /\ (Entered(c, calls'[c].pc, calls'[c].seen) \/ Returned(c))
  BY <1>2 DEF Entered, Returned
<1>6. Numbered' /\ TrimKeepsNewest'
  BY <1>1, <1>5, StreamAside
<1>7. JobHeld' /\ Counting'
  BY <1>1, <1>3, <1>5, RowsAside
<1> QED BY <1>4, <1>6, <1>7 DEF RowInv

\* The greatest number of a stream that has not expired is that of the newest entry.
LEMMA LastIsNewest ==
    ASSUME RowInv, Life = 1
    PROVE  LastOf(Unexpired(stream)) \in {0, Len(appended)}
<1> DEFINE seqs == {0} \cup {e.seq : e \in Unexpired(stream)}
<1>1. Len(appended) \in Nat
  BY DEF RowInv, Numbered
<1>2. \A e \in Unexpired(stream) : e.seq \in 1 .. Len(appended) /\ e.seq > ebbed
  BY <1>1 DEF RowInv, Numbered, Unexpired
<1>3. CASE Unexpired(stream) = {}
  <2>1. seqs = {0}
    BY <1>3
  <2> QED BY <2>1 DEF LastOf, Max
<1>4. CASE Unexpired(stream) # {}
  <2>1. Len(appended) > ebbed
    BY <1>1, <1>2, <1>4 DEF RowInv, Numbered
  <2>2. PICK e \in stream : e.id = Len(appended)
    BY <1>1, <1>2, <1>4, <2>1, StoreAssumption DEF RowInv, TrimKeepsNewest
  <2>3. e \in Unexpired(stream) /\ e.seq = Len(appended)
    BY <2>1, <2>2, <1>1 DEF RowInv, Numbered, Unexpired
  <2>4. Len(appended) \in seqs /\ \A q \in seqs : q \in Nat /\ q <= Len(appended)
    BY <1>1, <1>2, <2>3
  <2>5. \A m \in seqs : (\A q \in seqs : m >= q) => m = Len(appended)
    BY <1>1, <2>4
  <2> QED BY <2>4, <2>5 DEF LastOf, Max
<1> QED BY <1>3, <1>4

LEMMA AppendBegins ==
    ASSUME RowInv, NEW c \in Clients, BeginAppend(c)
    PROVE  RowInv'
<1> DEFINE seen == LastOf(Unexpired(stream)) + 1
<1>1. /\ calls[c].todo # <<>> /\ calls[c].pc = "idle" /\ locks["stream"] = Nobody /\ locks' = [locks EXCEPT !["stream"] = c]
      /\ UNCHANGED <<rows, old, stream, appended, ebbed, told, counted, warm>>
  BY DEF BeginAppend, Idle
<1>2. Entered(c, "append", seen)
  BY EnterCall DEF BeginAppend, RowInv
<1>3. StoreShape'
  BY <1>1, <1>2, ShapeEnters DEF RowInv, StoreShape, Pcs
<1>4. JobHeld' /\ Counting'
  <2>1. \A k \in {"job", "count"} : locks'[k] = locks[k]
    BY <1>1 DEF RowInv, StoreShape, Keys
  <2> QED BY <1>1, <1>2, <2>1, RowsAside DEF Entered
<1>5. \A d \in Clients : calls[d].pc # "append"
  BY <1>1, StoreAssumption DEF RowInv, Numbered
<1>6. \A d \in Clients : (calls'[d].pc = "append" => d = c) /\ (calls'[d].pc = "trim" => calls'[d] = calls[d])
  BY <1>2, <1>5 DEF Entered
<1>7. locks'["stream"] = c
  BY <1>1 DEF RowInv, StoreShape
<1>8. Life = 1 => seen = Len(appended) + 1 \/ (seen = 1 /\ appended # <<>>)
  BY LastIsNewest DEF RowInv, Numbered
<1>9. Numbered'
  BY SMTT(30), <1>1, <1>2, <1>6, <1>7, <1>8 DEF RowInv, Numbered, Life, Entered
<1>10. TrimKeepsNewest'
  BY <1>1 DEF RowInv, TrimKeepsNewest, Life
<1> QED BY <1>3, <1>4, <1>9, <1>10 DEF RowInv

LEMMA AppendCommits ==
    ASSUME RowInv, NEW c \in Clients, CommitAppend(c)
    PROVE  RowInv'
<1> DEFINE n == Len(appended) + 1
           life == IF calls[c].seen = 1 /\ appended # <<>> THEN Life + 1 ELSE Life
           new == [seq |-> calls[c].seen, id |-> n, life |-> life, gone |-> FALSE]
<1>1. /\ calls[c].pc = "append" /\ calls[c].todo # <<>> /\ locks' = [locks EXCEPT !["stream"] = Nobody]
      /\ stream' = Unexpired(stream) \cup {new} /\ appended' = Append(appended, life)
      /\ UNCHANGED <<rows, old, ebbed, told, counted, warm>>
  BY DEF CommitAppend, RowInv, StoreShape
<1>2. Returned(c)
  BY ReturnCall DEF CommitAppend, RowInv
<1>3. StoreShape'
  BY <1>1, <1>2, ShapeReturns DEF RowInv, StoreShape
<1>4. JobHeld' /\ Counting'
  <2>1. \A k \in {"job", "count"} : locks'[k] = locks[k]
    BY <1>1 DEF RowInv, StoreShape, Keys
  <2> QED BY <1>1, <1>2, <2>1, RowsAside DEF Returned
<1>5. appended \in Seq(Nat \ {0}) /\ Life \in Nat \ {0}
  BY DEF RowInv, Numbered, Life
<1>6. /\ appended' \in Seq(Nat \ {0}) /\ Len(appended') = n /\ Life' = life /\ n \in Nat
  BY <1>1, <1>5 DEF Life
<1>7. \A d \in Clients : calls'[d].pc # "append" /\ (calls'[d].pc = "trim" => calls'[d] = calls[d])
  BY <1>1, <1>2 DEF Returned, RowInv, Numbered
<1>8. ASSUME life = 1
      PROVE  /\ Life = 1 /\ new.seq = n
             /\ \A e \in Unexpired(stream) : e.id \in 1 .. n - 1 /\ e.seq = e.id /\ e.gone = FALSE /\ e.id > ebbed
                                             /\ e = [seq |-> e.seq, id |-> e.id, life |-> e.life, gone |-> e.gone]
             /\ \A e, f \in Unexpired(stream) : e.id = f.id => e = f
             /\ n > ebbed /\ n \in Nat \ {0} /\ ebbed \in Nat
  <2>1. Life = 1 /\ ~(calls[c].seen = 1 /\ appended # <<>>)
    BY <1>5, <1>8
  <2>2. calls[c].seen = n
    BY <1>1, <2>1 DEF RowInv, Numbered
  <2>3. ebbed <= Len(appended) /\ ebbed \in Nat
    BY <2>1 DEF RowInv, Numbered
  <2> QED BY <1>5, <2>1, <2>2, <2>3 DEF RowInv, Numbered, Unexpired
<1>9. new \in stream' /\ new.id = n /\ new.gone = FALSE /\ new = [seq |-> new.seq, id |-> new.id, life |-> new.life, gone |-> new.gone]
  BY <1>1
<1>10. \A e \in stream' : e \in Unexpired(stream) \/ e = new
  BY <1>1
<1> HIDE DEF new, life
<1>11. Numbered'
  <2>1. SUFFICES ASSUME life = 1
                 PROVE  /\ ebbed \in Nat /\ ebbed <= n
                        /\ \A e \in stream' : e.id \in 1 .. n /\ e.seq = e.id /\ (e.gone <=> e.id <= ebbed) /\ e.gone \in BOOLEAN
                        /\ \A e \in stream' : e = [seq |-> e.seq, id |-> e.id, life |-> e.life, gone |-> e.gone]
                        /\ \A e, f \in stream' : e.id = f.id => e = f
                        /\ \A d \in Clients : calls'[d].pc = "trim" => \A q \in calls'[d].seen : q \in Nat /\ q <= n - KeptRows
    BY <1>1, <1>5, <1>6, <1>7 DEF Numbered
  <2>2. ebbed \in Nat /\ ebbed <= n
    BY <1>5, <1>6, <1>8, <2>1
  <2>3. \A e \in stream' : e.id \in 1 .. n /\ e.seq = e.id /\ (e.gone <=> e.id <= ebbed) /\ e.gone \in BOOLEAN
    <3> SUFFICES ASSUME NEW e \in stream' PROVE e.id \in 1 .. n /\ e.seq = e.id /\ (e.gone <=> e.id <= ebbed) /\ e.gone \in BOOLEAN
      OBVIOUS
    <3>1. CASE e = new
      <4>1. e.id = n /\ e.seq = n /\ e.gone = FALSE
        BY <1>8, <1>9, <2>1, <3>1
      <4>2. n \in 1 .. n /\ ~(n <= ebbed)
        BY <1>8, <2>1
      <4> QED BY <4>1, <4>2
    <3>2. CASE e \in Unexpired(stream)
      <4>1. e.id \in 1 .. n - 1 /\ e.seq = e.id /\ e.gone = FALSE /\ e.id > ebbed
        BY <1>8, <2>1, <3>2
      <4>2. e.id \in 1 .. n /\ ~(e.id <= ebbed)
        BY <1>8, <2>1, <4>1
      <4> QED BY <4>1, <4>2
    <3> QED BY <1>10, <3>1, <3>2
  <2>4. \A e \in stream' : e = [seq |-> e.seq, id |-> e.id, life |-> e.life, gone |-> e.gone]
    BY <1>8, <1>9, <1>10, <2>1
  <2>5. \A e, f \in stream' : e.id = f.id => e = f
    <3>1. ASSUME NEW e \in Unexpired(stream) PROVE e.id # n
      <4>1. e.id \in 1 .. n - 1 /\ n \in Nat
        BY <1>8, <2>1
      <4> HIDE DEF n
      <4> QED BY <4>1
    <3> QED BY <1>8, <1>9, <1>10, <2>1, <3>1
  <2>6. \A d \in Clients : calls'[d].pc = "trim" => \A q \in calls'[d].seen : q \in Nat /\ q <= n - KeptRows
    BY <1>5, <1>6, <1>7, <1>8, <2>1, StoreAssumption DEF RowInv, Numbered
  <2> QED BY <2>2, <2>3, <2>4, <2>5, <2>6
<1>12. TrimKeepsNewest'
  <2>1. SUFFICES ASSUME life = 1, NEW id \in 1 .. n, id > ebbed, id > n - KeptRows
                 PROVE  \E e \in stream' : e.id = id
    BY <1>1, <1>6 DEF TrimKeepsNewest
  <2>2. CASE id = n
    BY <1>9, <2>2
  <2>3. CASE id # n
    <3>1. id \in 1 .. Len(appended) /\ id > Len(appended) - KeptRows /\ Life = 1
      BY <1>5, <1>6, <1>8, <2>1, <2>3, StoreAssumption
    <3>2. PICK e \in stream : e.id = id
      BY <2>1, <3>1 DEF RowInv, TrimKeepsNewest
    <3>3. e \in Unexpired(stream)
      BY <1>5, <2>1, <3>1, <3>2 DEF RowInv, Numbered, Unexpired
    <3> QED BY <1>1, <3>2, <3>3
  <2> QED BY <2>2, <2>3
<1> QED BY <1>3, <1>4, <1>11, <1>12 DEF RowInv

\* The rows beyond the newest are older than the entries that are kept.
LEMMA BeyondIsOld ==
    ASSUME RowInv, Life = 1, NEW q \in Beyond
    PROVE  q \in Nat /\ q <= Len(appended) - KeptRows
<1>1. PICK e \in stream : q = e.seq /\ Cardinality(Newer(e)) >= KeptRows
  BY DEF Beyond
<1>2. e.seq \in 1 .. Len(appended) /\ Len(appended) \in Nat
  BY DEF RowInv, Numbered
<1> DEFINE later == e.seq + 1 .. Len(appended)
           number == [f \in Newer(e) |-> f.seq]
<1>3. \A f \in Newer(e) : f.seq \in later
  BY <1>2 DEF Newer, RowInv, Numbered
<1>4. \A f, g \in Newer(e) : f.seq = g.seq => f = g
  BY DEF Newer, RowInv, Numbered
<1>5. number \in Injection(Newer(e), later)
  BY <1>3, <1>4 DEF Injection, IsInjective
<1>6. IsFiniteSet(later) /\ Cardinality(later) <= Len(appended) - e.seq
  <2>1. e.seq + 1 \in Int /\ Len(appended) \in Int
    BY <1>2
  <2>2. /\ IsFiniteSet(later)
        /\ Cardinality(later) = IF e.seq + 1 > Len(appended) THEN 0 ELSE Len(appended) - (e.seq + 1) + 1
    BY <2>1, FS_Interval
  <2> QED BY <1>2, <2>2
<1>7. Cardinality(Newer(e)) <= Cardinality(later) /\ IsFiniteSet(Newer(e))
  BY <1>5, <1>6, FS_Injection
<1>8. Cardinality(Newer(e)) \in Nat /\ Cardinality(later) \in Nat
  BY <1>6, <1>7, FS_CardinalityType
<1> QED BY <1>1, <1>2, <1>6, <1>7, <1>8, StoreAssumption

LEMMA TrimSteps ==
    ASSUME RowInv, NEW c \in Clients, ReadBeyond(c) \/ DeleteRead(c)
    PROVE  RowInv'
<1>1. /\ calls[c].todo # <<>> /\ UNCHANGED <<rows, old, locks, appended, ebbed, told, counted, warm>>
      /\ Life' = Life
  BY DEF ReadBeyond, DeleteRead, Idle, RowInv, StoreShape, Life
<1>2. \/ Entered(c, "trim", Beyond) /\ stream' = stream
      \/ Returned(c) /\ calls[c].pc = "trim" /\ stream' = Trimmed(stream, calls[c].seen)
  <2>1. ReadBeyond(c) => Entered(c, "trim", Beyond) /\ stream' = stream
    BY EnterCall DEF ReadBeyond, RowInv
  <2>2. DeleteRead(c) => Returned(c) /\ calls[c].pc = "trim" /\ stream' = Trimmed(stream, calls[c].seen)
    BY ReturnCall DEF DeleteRead, RowInv
  <2> QED BY <2>1, <2>2
<1>3. StoreShape'
  BY <1>1, <1>2, ShapeEnters, ShapeReturns DEF RowInv, StoreShape, Pcs
<1>4. JobHeld' /\ Counting'
  BY <1>1, <1>2, RowsAside DEF Entered, Returned
<1>5. stream' \subseteq stream
  BY <1>2 DEF Trimmed
<1>6. \A d \in Clients : (calls'[d].pc = "append" => calls'[d] = calls[d])
                         /\ (calls'[d].pc = "trim" => calls'[d] = calls[d] \/ calls'[d].seen = Beyond)
  BY <1>2 DEF Entered, Returned
<1>7. Numbered'
  BY <1>1, <1>5, <1>6, BeyondIsOld DEF RowInv, Numbered
<1>8. TrimKeepsNewest'
  <2> SUFFICES ASSUME Life = 1, NEW id \in 1 .. Len(appended), id > ebbed, id > Len(appended) - KeptRows
               PROVE  \E e \in stream' : e.id = id
    BY <1>1 DEF TrimKeepsNewest
  <2>1. PICK e \in stream : e.id = id
    BY DEF RowInv, TrimKeepsNewest
  <2>2. CASE stream' = stream
    BY <2>1, <2>2
  <2>3. CASE calls[c].pc = "trim" /\ stream' = Trimmed(stream, calls[c].seen)
    <3>1. \A q \in calls[c].seen : q \in Nat /\ q <= Len(appended) - KeptRows
      BY <2>3 DEF RowInv, Numbered
    <3>2. e.seq = id /\ Len(appended) \in Nat
      BY <2>1 DEF RowInv, Numbered
    <3>3. e.seq \notin calls[c].seen
      BY <3>1, <3>2, StoreAssumption
    <3> QED BY <2>1, <2>3, <3>3 DEF Trimmed
  <2> QED BY <1>2, <2>2, <2>3
<1> QED BY <1>3, <1>4, <1>7, <1>8 DEF RowInv

\* What expires is the oldest of what is there.
LEMMA EntriesEbb ==
    ASSUME RowInv, Ebbs
    PROVE  RowInv'
<1>1. UNCHANGED <<rows, old, locks, appended, calls, told, counted, warm>> /\ Life' = Life
  BY DEF Ebbs, Life
<1>2. PICK oldest \in Unexpired(stream) :
         stream' = {[e EXCEPT !.gone = @ \/ e.id <= oldest.id] : e \in stream} /\ ebbed' = oldest.id
  BY DEF Ebbs
<1>3. StoreShape' /\ JobHeld' /\ Counting'
  BY <1>1 DEF RowInv, StoreShape, JobHeld, Counting, OnKey, Op
<1>4. ASSUME Life = 1
      PROVE  /\ oldest.id \in 1 .. Len(appended) /\ ebbed < oldest.id /\ Len(appended) \in Nat /\ ebbed \in Nat
             /\ \A f \in stream' : \E e \in stream :
                   f = [seq |-> e.seq, id |-> e.id, life |-> e.life, gone |-> e.id <= oldest.id]
             /\ \A e \in stream : \E f \in stream' : f.id = e.id
  <2>1. oldest.id \in 1 .. Len(appended) /\ ebbed < oldest.id /\ Len(appended) \in Nat /\ ebbed \in Nat
    BY <1>4 DEF RowInv, Numbered, Unexpired
  <2>2. ASSUME NEW e \in stream
        PROVE  [e EXCEPT !.gone = @ \/ e.id <= oldest.id] = [seq |-> e.seq, id |-> e.id, life |-> e.life, gone |-> e.id <= oldest.id]
    <3>1. e = [seq |-> e.seq, id |-> e.id, life |-> e.life, gone |-> e.gone] /\ (e.gone <=> e.id <= ebbed) /\ e.gone \in BOOLEAN /\ e.id \in Nat
      BY <1>4 DEF RowInv, Numbered
    <3>2. (e.gone \/ e.id <= oldest.id) = (e.id <= oldest.id)
      BY <2>1, <3>1
    <3> QED BY <3>1, <3>2
  <2>3. ASSUME NEW f \in stream'
        PROVE  \E e \in stream : f = [seq |-> e.seq, id |-> e.id, life |-> e.life, gone |-> e.id <= oldest.id]
    <3>1. PICK e \in stream : f = [e EXCEPT !.gone = @ \/ e.id <= oldest.id]
      BY <1>2
    <3> QED BY <2>2, <3>1
  <2>4. ASSUME NEW e \in stream PROVE \E f \in stream' : f.id = e.id
    <3>1. [e EXCEPT !.gone = @ \/ e.id <= oldest.id] \in stream'
      BY <1>2
    <3>2. [seq |-> e.seq, id |-> e.id, life |-> e.life, gone |-> e.id <= oldest.id] \in stream'
      BY <2>2, <3>1
    <3> QED BY <3>2
  <2> QED BY <2>1, <2>3, <2>4
<1>5. Numbered'
  <2> SUFFICES ASSUME Life = 1
               PROVE  /\ ebbed' \in Nat /\ ebbed' <= Len(appended)
                      /\ \A f \in stream' : f.id \in 1 .. Len(appended) /\ f.seq = f.id /\ (f.gone <=> f.id <= ebbed') /\ f.gone \in BOOLEAN
                      /\ \A f \in stream' : f = [seq |-> f.seq, id |-> f.id, life |-> f.life, gone |-> f.gone]
                      /\ \A f, g \in stream' : f.id = g.id => f = g
    BY <1>1 DEF RowInv, Numbered
  <2>1. ebbed' \in Nat /\ ebbed' <= Len(appended)
    BY <1>2, <1>4
  <2>2. \A f \in stream' : f.id \in 1 .. Len(appended) /\ f.seq = f.id /\ (f.gone <=> f.id <= ebbed') /\ f.gone \in BOOLEAN
    <3> SUFFICES ASSUME NEW f \in stream' PROVE f.id \in 1 .. Len(appended) /\ f.seq = f.id /\ (f.gone <=> f.id <= ebbed') /\ f.gone \in BOOLEAN
      OBVIOUS
    <3>1. PICK e \in stream : f = [seq |-> e.seq, id |-> e.id, life |-> e.life, gone |-> e.id <= oldest.id]
      BY <1>4
    <3>2. e.id \in 1 .. Len(appended) /\ e.seq = e.id
      BY DEF RowInv, Numbered
    <3> QED BY <1>2, <1>4, <3>1, <3>2
  <2>3. \A f \in stream' : f = [seq |-> f.seq, id |-> f.id, life |-> f.life, gone |-> f.gone]
    BY <1>4
  <2>4. \A f, g \in stream' : f.id = g.id => f = g
    <3> SUFFICES ASSUME NEW f \in stream', NEW g \in stream', f.id = g.id PROVE f = g
      OBVIOUS
    <3>1. PICK e \in stream : f = [seq |-> e.seq, id |-> e.id, life |-> e.life, gone |-> e.id <= oldest.id]
      BY <1>4
    <3>2. PICK h \in stream : g = [seq |-> h.seq, id |-> h.id, life |-> h.life, gone |-> h.id <= oldest.id]
      BY <1>4
    <3>3. e = h
      BY <3>1, <3>2 DEF RowInv, Numbered
    <3> QED BY <3>1, <3>2, <3>3
  <2> QED BY <2>1, <2>2, <2>3, <2>4
<1>6. TrimKeepsNewest'
  <2> SUFFICES ASSUME Life = 1, NEW id \in 1 .. Len(appended), id > ebbed', id > Len(appended) - KeptRows
               PROVE  \E f \in stream' : f.id = id
    BY <1>1 DEF TrimKeepsNewest
  <2>1. id > ebbed
    BY <1>2, <1>4
  <2>2. PICK e \in stream : e.id = id
    BY <2>1 DEF RowInv, TrimKeepsNewest
  <2> QED BY <1>4, <2>2
<1> QED BY <1>3, <1>5, <1>6 DEF RowInv

LEMMA StoreStep ==
    ASSUME RowInv, StoreNext
    PROVE  RowInv'
<1>1. ASSUME NEW c \in Clients, StoreCall(c) PROVE RowInv'
  BY <1>1, RowBegins, RowCommits, LeaseCalls, AppendBegins, AppendCommits, TrimSteps DEF StoreCall
<1>2. ASSUME NEW c \in Readers, ReadPage(c) PROVE RowInv'
  <2>1. UNCHANGED <<rows, old, locks, stream, appended, ebbed, calls, told, counted, warm>>
    BY <1>2 DEF ReadPage
  <2> QED BY <2>1 DEF RowInv, StoreShape, JobHeld, Counting, Numbered, TrimKeepsNewest, Life, OnKey, Op
<1>3. CASE LeaseLapses
  <2>1. UNCHANGED <<rows, locks, stream, appended, ebbed, calls, told, counted, warm>> /\ old' = old \cup {"lease"}
    BY <1>3 DEF LeaseLapses
  <2> QED BY <2>1 DEF RowInv, StoreShape, JobHeld, Counting, Numbered, TrimKeepsNewest, Life, OnKey, Op
<1> QED BY <1>1, <1>2, <1>3, EntriesEbb DEF StoreNext

\* However the calls of any number of clients overlap, a job that is there is held by at most one
\* client that was told so, a counter that is there has counted every increment, and a trim leaves the
\* newest entries of the stream.
THEOREM RowsAreExactAlways == Spec => []RowsAreExact
<1>1. Init => RowInv
  BY StoreInitRows DEF Init
<1>2. RowInv /\ [Next]_platformVars => RowInv'
  <2> SUFFICES ASSUME RowInv, [Next]_platformVars PROVE RowInv'
    OBVIOUS
  <2>1. CASE StoreWorks
    BY <2>1, StoreStep DEF StoreWorks
  <2>2. CASE UNCHANGED storeVars
    BY <2>2 DEF storeVars, RowInv, StoreShape, JobHeld, Counting, Numbered, TrimKeepsNewest, Life, OnKey, Op
  <2> QED BY <2>1, <2>2, OthersWork
<1>3. RowInv => RowsAreExact
  <2> SUFFICES ASSUME RowInv PROVE RowsAreExact
    OBVIOUS
  <2> DEFINE holders == {c \in Clients : <<c, "job">> \in told}
  <2>1. holders \subseteq {rows["job"]}
    BY DEF RowInv, JobHeld
  <2>2. IsFiniteSet({rows["job"]}) /\ Cardinality({rows["job"]}) = 1
    BY FS_Singleton
  <2>3. Cardinality(holders) <= 1
    BY <2>1, <2>2, FS_Subset
  <2> QED BY <2>3 DEF RowsAreExact, JobHasOneHolder, IncrementsAreCounted, RowInv, Counting
<1> QED BY <1>1, <1>2, <1>3, PTL DEF Spec

(***************************************************************************)
(* The front door of the terminals: what is about to leave the index is    *)
(* not in use, and what is remembered under a key is what was admitted     *)
(* under it.                                                               *)
(***************************************************************************)
VisitPcs == {"asked", "full", "cap", "open", "created", "shown", "gone", "clean", "touch", "refused", "authorize",
             "reserve", "insert", "activate", "told", "unstarted"}
Opening(v) == Asks(v, "create") /\ visit[v].pc \in {"asked", "cap", "open"}
Spent(s) == session[s].core /\ (session[s].terminal \/ s \in lapsed)
SameKey(u, v) == Terminal(u) = Terminal(v) /\ visit[u].asks.key = visit[v].asks.key

DoorShape ==
    /\ DOMAIN session = Terminals /\ \A s \in Terminals : session[s] \in [core : BOOLEAN, status : BOOLEAN, terminal : BOOLEAN]
    /\ DOMAIN visit = Visits
    /\ \A v \in Visits :
          /\ {"asks", "pc", "live", "dead", "job"} \subseteq DOMAIN visit[v]
          /\ visit[v].asks \in Requests /\ visit[v].pc \in VisitPcs /\ visit[v].dead \subseteq Terminals
    /\ index \subseteq Terminals /\ pruning \subseteq Terminals
    /\ \A u, v \in Visits : Asks(u, "create") /\ Asks(v, "create") /\ Terminal(u) = Terminal(v) => u = v
Listed ==
    /\ \A s \in Terminals : session[s].core /\ ~session[s].status => session[s].terminal \/ s \in lapsed
    /\ \A s \in index : session[s].core
    /\ \A s \in pruning : Spent(s)
    /\ \A v \in Visits : \A s \in visit[v].dead : Spent(s)
    /\ \A v \in Visits : visit[v].pc \in {"cap", "open"} => Asks(v, "create")
    /\ \A v \in Visits : Opening(v) => ~session[Terminal(v)].core
    /\ \A v \in Visits : visit[v].pc = "clean" => session[Terminal(v)].core /\ session[Terminal(v)].terminal
IndexInv == DoorShape /\ Listed /\ LiveIsListed

LEMMA DoorInit ==
    ASSUME NEW s \in Scenarios, AdmissionInit(s.asked, s.open, s.direct, s.turns)
    PROVE  IndexInv
<1>1. WithNewIds(s.asked, s.open)
  BY ScenariosAssumption
<1>2. /\ session = [t \in Terminals |-> IF t \in s.open THEN Opened ELSE Absence]
      /\ visit = [v \in Visits |-> [asks |-> s.asked[v], pc |-> "asked", live |-> {}, dead |-> {}, job |-> NoJob]]
      /\ index = s.open /\ pruning = {} /\ lapsed = {}
  BY DEF AdmissionInit
<1>3. DoorShape
  BY <1>1, <1>2 DEF DoorShape, WithNewIds, Opened, Absence, VisitPcs, Asks, Terminal
<1>4. Listed
  BY <1>1, <1>2 DEF Listed, WithNewIds, Opened, Absence, Asks, Opening, Spent, Terminal, Requests
<1>5. LiveIsListed
  BY <1>2 DEF LiveIsListed, Usable, Absence
<1> QED BY <1>3, <1>4, <1>5 DEF IndexInv

\* What a step of a visit makes of the visits.
Moved(v) ==
    /\ DOMAIN visit' = Visits /\ \A u \in Visits \ {v} : visit'[u] = visit[u]
    /\ {"asks", "pc", "live", "dead", "job"} \subseteq DOMAIN visit'[v]
    /\ visit'[v].asks = visit[v].asks
    /\ visit'[v].pc \in VisitPcs /\ visit'[v].pc # "asked"
Only(v, pc) == Moved(v) /\ visit'[v].pc = pc /\ visit'[v].dead = visit[v].dead /\ visit'[v].job = visit[v].job

LEMMA StepMoves ==
    ASSUME DoorShape, NEW v \in Visits, NEW pc \in VisitPcs \ {"asked"}, Step(v, pc)
    PROVE  Only(v, pc)
BY DEF DoorShape, Step, Moved, Only

LEMMA ShapeMoves ==
    ASSUME DoorShape, NEW v \in Visits, Moved(v), visit'[v].dead \subseteq Terminals,
           DOMAIN session' = Terminals, \A s \in Terminals : session'[s] \in [core : BOOLEAN, status : BOOLEAN, terminal : BOOLEAN],
           index' \subseteq Terminals, pruning' \subseteq Terminals
    PROVE  DoorShape'
<1>1. \A u \in Visits : visit'[u].asks = visit[u].asks
  BY DEF Moved
<1> QED BY <1>1 DEF DoorShape, Moved, Asks, Terminal

\* No session comes or goes, a latch stays, and a status is written only where it makes nothing usable
\* that had not been idle.
SessionsMove ==
    \A s \in Terminals :
        /\ session'[s].core = session[s].core
        /\ session[s].terminal => session'[s].terminal
        /\ session'[s].status \/ session'[s].status = session[s].status \/ session[s].terminal
        /\ session'[s].status => session[s].status \/ session[s].terminal \/ s \in lapsed \/ ~session[s].core

\* A step that opens no session, takes out of the index only what is spent and finds dead only what is spent.
LEMMA ListedMoves ==
    ASSUME IndexInv, NEW v \in Visits, Moved(v), DoorShape',
           SessionsMove,
           lapsed' = lapsed, index' \subseteq index, \A s \in index \ index' : Spent(s),
           \A s \in pruning' : Spent(s), \A s \in visit'[v].dead : Spent(s),
           visit'[v].pc \in {"cap", "open"} => Asks(v, "create") /\ visit[v].pc \in {"asked", "cap", "open"},
           visit'[v].pc = "clean" => session[Terminal(v)].core /\ session'[Terminal(v)].terminal
    PROVE  IndexInv'
<1> USE DEF SessionsMove
<1>1. \A u \in Visits : visit'[u].asks = visit[u].asks /\ visit[u].asks \in Requests /\ Terminal(u) \in Terminals
  BY DEF Moved, IndexInv, DoorShape, Terminal, Requests
<1>2. \A s \in Terminals : Spent(s) => Spent(s)'
  BY DEF Spent, IndexInv, DoorShape
<1>3. \A u \in Visits : Opening(u)' => Opening(u)
  BY <1>1 DEF Opening, Asks, Moved
<1>4. Listed'
  <2>1. \A s \in Terminals : (session[s].core /\ ~session[s].status => session[s].terminal \/ s \in lapsed)'
    BY DEF IndexInv, Listed, DoorShape
  <2>2. \A s \in index' : session'[s].core
    BY DEF IndexInv, Listed, DoorShape
  <2>3. \A s \in pruning' : Spent(s)'
    BY <1>2 DEF DoorShape
  <2>4. \A u \in Visits : \A s \in visit'[u].dead : Spent(s)'
    BY <1>2 DEF DoorShape, IndexInv, Listed, Moved
  <2>5. \A u \in Visits : visit'[u].pc \in {"cap", "open"} => Asks(u, "create")'
    BY <1>1 DEF IndexInv, Listed, Moved, Asks
  <2>6. \A u \in Visits : Opening(u)' => ~session'[Terminal(u)'].core
    BY <1>1, <1>3 DEF IndexInv, Listed, Terminal
  <2>7. \A u \in Visits : visit'[u].pc = "clean" => session'[Terminal(u)'].core /\ session'[Terminal(u)'].terminal
    BY <1>1 DEF IndexInv, Listed, Moved, Terminal
  <2> QED BY <2>1, <2>2, <2>3, <2>4, <2>5, <2>6, <2>7 DEF Listed
<1>5. LiveIsListed'
  <2> SUFFICES ASSUME NEW s \in Terminals, Usable(s)', s \notin lapsed PROVE s \in index'
    BY DEF LiveIsListed
  <2>1. session'[s].core /\ session'[s].status /\ ~session'[s].terminal
    BY DEF Usable
  <2>2. session[s].core /\ session[s].status /\ ~session[s].terminal
    BY <2>1 DEF IndexInv, Listed, DoorShape
  <2>3. s \in index
    BY <2>2 DEF IndexInv, LiveIsListed, Usable
  <2> QED BY <2>2, <2>3 DEF Spent
<1> QED BY <1>4, <1>5 DEF IndexInv

\* The steps that leave the sessions and the index as they are.
LEMMA ListedStays ==
    ASSUME IndexInv, NEW v \in Visits, Moved(v), UNCHANGED <<session, index, pruning, lapsed>>,
           visit'[v].dead = visit[v].dead, visit'[v].pc \notin {"cap", "open", "clean"}
    PROVE  IndexInv'
<1>1. visit[v].dead \subseteq Terminals
  BY DEF IndexInv, DoorShape
<1>2. DoorShape'
  BY <1>1, ShapeMoves DEF IndexInv, DoorShape
<1>3. SessionsMove
  BY DEF SessionsMove
<1> QED BY <1>2, <1>3, ListedMoves DEF IndexInv, Listed

LEMMA IndexStays ==
    ASSUME IndexInv, NEW v \in Visits,
           AuthorizeTarget(v) \/ ReadReserve(v) \/ CommitReserve(v) \/ Queued(v) \/ Pending(v) \/ Activated(v) \/ Touch(v)
    PROVE  IndexInv'
<1>1. UNCHANGED <<session, index, pruning, lapsed>>
  BY DEF AuthorizeTarget, ReadReserve, CommitReserve, Queued, Pending, Activated, Touch
<1>2. Moved(v) /\ visit'[v].dead = visit[v].dead /\ visit'[v].pc \notin {"cap", "open", "clean"}
  <2>1. \E pc, id :
           /\ pc \in VisitPcs \ {"asked", "cap", "open", "clean"}
           /\ visit' = [visit EXCEPT ![v].pc = pc] \/ visit' = [visit EXCEPT ![v].pc = pc, ![v].job = id]
    <3>1. CASE AuthorizeTarget(v) \/ Queued(v) \/ Pending(v) \/ Activated(v) \/ Touch(v)
      BY <3>1 DEF AuthorizeTarget, Queued, Pending, Activated, Touch, Step, VisitPcs
    <3>2. CASE ReadReserve(v)
      BY <3>2 DEF ReadReserve, Step, VisitPcs
    <3>3. CASE CommitReserve(v)
      BY <3>3 DEF CommitReserve, VisitPcs
    <3> QED BY <3>1, <3>2, <3>3
  <2>2. PICK pc, id :
           /\ pc \in VisitPcs \ {"asked", "cap", "open", "clean"}
           /\ visit' = [visit EXCEPT ![v].pc = pc] \/ visit' = [visit EXCEPT ![v].pc = pc, ![v].job = id]
    BY <2>1
  <2> QED BY <2>2 DEF IndexInv, DoorShape, Moved
<1> QED BY <1>1, <1>2, ListedStays

\* Counting finds dead what is spent.
LEMMA DeadIsSpent ==
    ASSUME IndexInv, NEW s \in index, ~Usable(s)
    PROVE  Spent(s)
BY DEF IndexInv, Listed, DoorShape, Usable, Spent

LEMMA Counts ==
    ASSUME IndexInv, NEW v \in Visits, Count(v) \/ ReadCap(v)
    PROVE  IndexInv'
<1>1. /\ UNCHANGED <<session, index, lapsed>> /\ pruning' \subseteq pruning \cup {s \in index : ~Usable(s)}
      /\ Moved(v) /\ visit'[v].pc \in {"full", "cap", "open"}
      /\ visit'[v].dead \subseteq visit[v].dead \cup {s \in index : ~Usable(s)}
      /\ Asks(v, "create") /\ visit[v].pc \in {"asked", "cap"}
  <2>1. CASE Count(v)
    <3>1. Stands(v, "asked") /\ Asks(v, "create") /\ UNCHANGED <<session, index, lapsed>>
          /\ pruning' \subseteq pruning \cup {s \in index : ~Usable(s)}
      BY <2>1 DEF Count
    <3>2. Step(v, "full") \/ Step(v, "cap")
      BY <2>1 DEF Count
    <3>3. Only(v, "full") \/ Only(v, "cap")
      BY <3>2, StepMoves DEF IndexInv, VisitPcs
    <3> QED BY <3>1, <3>3 DEF Only, Stands
  <2>2. CASE ReadCap(v)
    <3>1. Stands(v, "cap") /\ Asks(v, "create") /\ UNCHANGED <<session, index, lapsed, pruning>>
      BY <2>2 DEF ReadCap, IndexInv, Listed, Stands
    <3> DEFINE live == {s \in index : Usable(s)}
    <3>2. visit' = [visit EXCEPT ![v].pc = IF Full(live) THEN "full" ELSE "open", ![v].live = live, ![v].dead = index \ live]
      BY <2>2 DEF ReadCap
    <3>3. Moved(v) /\ visit'[v].pc \in {"full", "open"} /\ visit'[v].dead \subseteq {s \in index : ~Usable(s)}
      BY <3>2 DEF IndexInv, DoorShape, Moved, VisitPcs
    <3> QED BY <3>1, <3>3 DEF Stands
  <2> QED BY <2>1, <2>2
<1>2. DoorShape'
  BY <1>1, ShapeMoves DEF IndexInv, DoorShape
<1>3. \A s \in pruning' \cup visit'[v].dead : Spent(s)
  BY <1>1, DeadIsSpent DEF IndexInv, Listed
<1>4. SessionsMove
  BY <1>1 DEF SessionsMove
<1> QED BY <1>1, <1>2, <1>3, <1>4, ListedMoves

LEMMA Latches ==
    ASSUME IndexInv, NEW v \in Visits, Look(v) \/ End(v) \/ Check(v)
    PROVE  IndexInv'
<1> DEFINE t == Terminal(v)
<1>1. UNCHANGED <<index, pruning, lapsed>> /\ t \in Terminals
  BY DEF Look, End, Check, IndexInv, DoorShape, Requests, Terminal
<1>2. \/ session[t].core /\ session' = [session EXCEPT ![t].terminal = TRUE] /\ Step(v, "clean")
      \/ session' = session /\ \E pc \in {"shown", "gone", "refused", "authorize"} : Step(v, pc)
  <2>1. CASE Look(v)
    BY <2>1 DEF Look, Latch, Unchanged, Idled
  <2>2. CASE End(v)
    BY <2>2 DEF End, Latch, Unchanged
  <2>3. CASE Check(v)
    BY <2>3 DEF Check, Latch, Unchanged, Idled
  <2> QED BY <2>1, <2>2, <2>3
<1>3. CASE session' = session /\ \E pc \in {"shown", "gone", "refused", "authorize"} : Step(v, pc)
  <2>1. PICK pc \in {"shown", "gone", "refused", "authorize"} : Step(v, pc)
    BY <1>3
  <2>2. Only(v, pc)
    BY <2>1, StepMoves DEF IndexInv, VisitPcs
  <2> QED BY <1>1, <1>3, <2>2, ListedStays DEF Only
<1>4. CASE session[t].core /\ session' = [session EXCEPT ![t].terminal = TRUE] /\ Step(v, "clean")
  <2>1. Only(v, "clean")
    BY <1>4, StepMoves DEF IndexInv, VisitPcs
  <2>2. /\ DOMAIN session' = Terminals /\ \A s \in Terminals : session'[s] \in [core : BOOLEAN, status : BOOLEAN, terminal : BOOLEAN]
        /\ session'[t].terminal
        /\ \A s \in Terminals : session'[s].core = session[s].core /\ session'[s].status = session[s].status
                                 /\ (session[s].terminal => session'[s].terminal)
    BY <1>1, <1>4 DEF IndexInv, DoorShape
  <2>3. DoorShape'
    BY <1>1, <2>1, <2>2, ShapeMoves DEF IndexInv, DoorShape, Only
  <2>4. SessionsMove
    BY <2>2 DEF SessionsMove
  <2>5. Moved(v) /\ visit'[v].pc = "clean" /\ session[t].core /\ session'[t].terminal
    BY <1>4, <2>1, <2>2 DEF Only
  <2>6. \A s \in pruning' \cup visit'[v].dead : Spent(s)
    BY <1>1, <2>1 DEF IndexInv, Listed, Only
  <2> QED BY <1>1, <2>3, <2>4, <2>5, <2>6, ListedMoves
<1> QED BY <1>2, <1>3, <1>4

LEMMA Cleans ==
    ASSUME IndexInv, NEW v \in Visits, Clean(v)
    PROVE  IndexInv'
<1> DEFINE t == Terminal(v)
<1>1. /\ UNCHANGED <<pruning, lapsed>> /\ t \in Terminals /\ session[t].terminal
      /\ session' = [session EXCEPT ![t].status = FALSE] /\ index' = index \ {t} /\ Step(v, "gone")
  BY DEF Clean, IndexInv, DoorShape, Listed, Requests, Terminal, Stands
<1>2. Only(v, "gone")
  BY <1>1, StepMoves DEF IndexInv, VisitPcs
<1>3. /\ DOMAIN session' = Terminals /\ \A s \in Terminals : session'[s] \in [core : BOOLEAN, status : BOOLEAN, terminal : BOOLEAN]
      /\ \A s \in Terminals : session'[s].core = session[s].core /\ session'[s].terminal = session[s].terminal
                               /\ (s # t => session'[s].status = session[s].status)
  BY <1>1 DEF IndexInv, DoorShape
<1>4. DoorShape'
  BY <1>1, <1>2, <1>3, ShapeMoves DEF IndexInv, DoorShape, Only
<1>5. \A s \in index \ index' : Spent(s)
  BY <1>1 DEF IndexInv, Listed, Spent
<1>6. SessionsMove
  <2> SUFFICES ASSUME NEW s \in Terminals
               PROVE  /\ session'[s].core = session[s].core
                      /\ session[s].terminal => session'[s].terminal
                      /\ session'[s].status \/ session'[s].status = session[s].status \/ session[s].terminal
                      /\ session'[s].status => session[s].status \/ session[s].terminal \/ s \in lapsed \/ ~session[s].core
    BY DEF SessionsMove
  <2>1. CASE s = t
    BY ZenonT(40), <1>1, <1>3, <2>1
  <2>2. CASE s # t
    BY <1>3, <2>2
  <2> QED BY <2>1, <2>2
<1>7. \A s \in pruning' \cup visit'[v].dead : Spent(s)
  BY <1>1, <1>2 DEF IndexInv, Listed, Only
<1>8. Moved(v) /\ visit'[v].pc = "gone"
  BY <1>2 DEF Only
<1>9. index' \subseteq index /\ \A s \in index \ index' : Spent(s)
  BY <1>1, <1>5
<1> QED BY <1>1, <1>4, <1>6, <1>7, <1>8, <1>9, ListedMoves

LEMMA Refreshes ==
    ASSUME IndexInv, NEW v \in Visits, Refresh(v)
    PROVE  IndexInv'
<1> DEFINE t == Terminal(v)
<1>1. /\ UNCHANGED <<index, pruning, lapsed>> /\ t \in Terminals
      /\ session' = [session EXCEPT ![t].status = TRUE] /\ Step(v, "shown")
  BY DEF Refresh, IndexInv, DoorShape, Requests, Terminal
<1>2. Only(v, "shown")
  BY <1>1, StepMoves DEF IndexInv, VisitPcs
<1>3. /\ DOMAIN session' = Terminals /\ \A s \in Terminals : session'[s] \in [core : BOOLEAN, status : BOOLEAN, terminal : BOOLEAN]
      /\ \A s \in Terminals : session'[s].core = session[s].core /\ session'[s].terminal = session[s].terminal
                               /\ (s # t => session'[s].status = session[s].status)
      /\ session'[t].status
  BY <1>1 DEF IndexInv, DoorShape
<1>4. DoorShape'
  BY <1>1, <1>2, <1>3, ShapeMoves DEF IndexInv, DoorShape, Only
<1>5. session[t].status \/ session[t].terminal \/ t \in lapsed \/ ~session[t].core
  BY <1>1 DEF IndexInv, Listed
<1>6. SessionsMove
  BY ZenonT(40), <1>1, <1>3, <1>5 DEF SessionsMove
<1>7. \A s \in pruning' \cup visit'[v].dead : Spent(s)
  BY <1>1, <1>2 DEF IndexInv, Listed, Only
<1>8. Moved(v) /\ visit'[v].pc = "shown"
  BY <1>2 DEF Only
<1>9. index' \subseteq index /\ \A s \in index \ index' : Spent(s)
  BY <1>1, <1>5
<1> QED BY <1>1, <1>4, <1>6, <1>7, <1>8, <1>9, ListedMoves

\* Opening a session takes out of the index what was found dead, which is still spent.
LEMMA Opens ==
    ASSUME IndexInv, NEW v \in Visits, CommitCap(v)
    PROVE  IndexInv'
<1> DEFINE t == Terminal(v)
<1>1. /\ UNCHANGED <<pruning, lapsed>> /\ t \in Terminals /\ Asks(v, "create") /\ ~session[t].core /\ visit[v].pc = "open"
      /\ session' = [session EXCEPT ![t] = Opened] /\ index' = (index \ visit[v].dead) \cup {t} /\ Step(v, "created")
  BY DEF CommitCap, Indexed, IndexInv, DoorShape, Listed, Requests, Terminal, Stands, Opening
<1>2. Only(v, "created")
  BY <1>1, StepMoves DEF IndexInv, VisitPcs
<1>3. /\ DOMAIN session' = Terminals /\ session'[t] = Opened
      /\ \A s \in Terminals : session'[s] \in [core : BOOLEAN, status : BOOLEAN, terminal : BOOLEAN]
      /\ \A s \in Terminals \ {t} : session'[s] = session[s]
  BY <1>1 DEF IndexInv, DoorShape, Opened
<1>4. DoorShape'
  BY <1>1, <1>2, <1>3, ShapeMoves DEF IndexInv, DoorShape, Only
<1>5. \A u \in Visits : visit'[u].asks = visit[u].asks /\ visit[u].asks \in Requests /\ Terminal(u) \in Terminals /\ visit'[u].dead = visit[u].dead
  BY <1>2 DEF Only, Moved, IndexInv, DoorShape, Terminal, Requests
<1>6. \A s \in Terminals : Spent(s) => s # t /\ Spent(s)'
  BY <1>1, <1>3 DEF Spent
<1>7. Listed'
  <2>1. \A s \in Terminals : (session[s].core /\ ~session[s].status => session[s].terminal \/ s \in lapsed)'
    BY <1>1, <1>3 DEF IndexInv, Listed, Opened
  <2>2. \A s \in index' : session'[s].core
    BY <1>1, <1>3 DEF IndexInv, Listed, DoorShape, Opened
  <2>3. \A s \in pruning' : Spent(s)'
    BY <1>1, <1>6 DEF IndexInv, Listed, DoorShape
  <2>4. \A u \in Visits : \A s \in visit'[u].dead : Spent(s)'
    BY <1>5, <1>6 DEF IndexInv, Listed, DoorShape
  <2>5. \A u \in Visits : visit'[u].pc \in {"cap", "open"} => Asks(u, "create")'
    BY <1>2, <1>5 DEF IndexInv, Listed, Moved, Asks, Only
  <2>6. \A u \in Visits : Opening(u)' => ~session'[Terminal(u)'].core
    <3> SUFFICES ASSUME NEW u \in Visits, Opening(u)' PROVE ~session'[Terminal(u)].core
      BY <1>5 DEF Terminal
    <3>1. u # v /\ Opening(u)
      BY <1>2, <1>5 DEF Opening, Asks, Only, Moved
    <3>2. Terminal(u) # t
      BY <1>1, <3>1 DEF IndexInv, DoorShape, Opening
    <3> QED BY <1>3, <1>5, <3>1, <3>2 DEF IndexInv, Listed
  <2>7. \A u \in Visits : visit'[u].pc = "clean" => session'[Terminal(u)'].core /\ session'[Terminal(u)'].terminal
    <3> SUFFICES ASSUME NEW u \in Visits, visit'[u].pc = "clean" PROVE session'[Terminal(u)].core /\ session'[Terminal(u)].terminal
      BY <1>5 DEF Terminal
    <3>1. u # v /\ visit[u].pc = "clean"
      BY <1>2 DEF Only, Moved
    <3>2. session[Terminal(u)].core /\ session[Terminal(u)].terminal
      BY <3>1 DEF IndexInv, Listed
    <3>3. Terminal(u) # t
      BY <1>1, <3>2
    <3> QED BY <1>3, <1>5, <3>2, <3>3
  <2> QED BY <2>1, <2>2, <2>3, <2>4, <2>5, <2>6, <2>7 DEF Listed
<1>8. LiveIsListed'
  <2> SUFFICES ASSUME NEW s \in Terminals, Usable(s)', s \notin lapsed PROVE s \in index'
    BY <1>1 DEF LiveIsListed
  <2>1. CASE s = t
    BY <1>1, <2>1
  <2>2. CASE s # t
    <3>1. Usable(s) /\ s \in index
      BY <1>3, <2>2 DEF IndexInv, LiveIsListed, Usable
    <3>2. ~Spent(s)
      BY <3>1 DEF Spent, Usable
    <3> QED BY <1>1, <3>1, <3>2 DEF IndexInv, Listed
  <2> QED BY <2>1, <2>2
<1> QED BY <1>4, <1>7, <1>8 DEF IndexInv

LEMMA Prunes ==
    ASSUME IndexInv, NEW s \in Terminals, Prune(s)
    PROVE  IndexInv'
<1>1. /\ UNCHANGED <<session, visit, lapsed>> /\ pruning' = pruning \ {s} /\ index' = index \ {s} /\ s \in pruning
  BY DEF Prune
<1>2. Spent(s)
  BY <1>1 DEF IndexInv, Listed
<1>3. DoorShape'
  BY <1>1 DEF IndexInv, DoorShape, Asks, Terminal
<1>4. Listed'
  BY <1>1 DEF IndexInv, Listed, Opening, Asks, Terminal, Spent
<1>5. LiveIsListed'
  BY <1>1, <1>2 DEF IndexInv, LiveIsListed, Usable, Spent
<1> QED BY <1>3, <1>4, <1>5 DEF IndexInv

LEMMA Idles ==
    ASSUME IndexInv, NEW s \in Terminals, IdleEnds(s)
    PROVE  IndexInv'
<1>1. /\ UNCHANGED <<index, pruning, visit>> /\ lapsed' = lapsed \cup {s}
      /\ session' = [session EXCEPT ![s].status = FALSE]
  BY DEF IdleEnds
<1>2. /\ DOMAIN session' = Terminals /\ \A r \in Terminals : session'[r] \in [core : BOOLEAN, status : BOOLEAN, terminal : BOOLEAN]
      /\ \A r \in Terminals : session'[r].core = session[r].core /\ session'[r].terminal = session[r].terminal
                               /\ (r # s => session'[r].status = session[r].status)
      /\ ~session'[s].status
  BY <1>1 DEF IndexInv, DoorShape
<1>3. DoorShape'
  BY <1>1, <1>2 DEF IndexInv, DoorShape, Asks, Terminal
<1>4. \A v \in Visits : Terminal(v) \in Terminals /\ Terminal(v)' = Terminal(v)
  BY <1>1 DEF IndexInv, DoorShape, Terminal, Requests
<1>5. \A r \in Terminals : Spent(r) => Spent(r)'
  BY <1>1, <1>2 DEF Spent
<1>6. Listed'
  <2>1. \A r \in Terminals : (session[r].core /\ ~session[r].status => session[r].terminal \/ r \in lapsed)'
    BY <1>1, <1>2 DEF IndexInv, Listed
  <2>2. (\A r \in index : session[r].core)'
    BY <1>1, <1>2 DEF IndexInv, Listed, DoorShape
  <2>3. (\A r \in pruning : Spent(r))' /\ (\A v \in Visits : \A r \in visit[v].dead : Spent(r))'
    BY <1>1, <1>5 DEF IndexInv, Listed, DoorShape
  <2>4. (\A v \in Visits : visit[v].pc \in {"cap", "open"} => Asks(v, "create"))'
    BY <1>1 DEF IndexInv, Listed, Asks
  <2>5. (\A v \in Visits : Opening(v) => ~session[Terminal(v)].core)'
    BY <1>1, <1>2, <1>4 DEF IndexInv, Listed, Opening, Asks
  <2>6. (\A v \in Visits : visit[v].pc = "clean" => session[Terminal(v)].core /\ session[Terminal(v)].terminal)'
    BY <1>1, <1>2, <1>4 DEF IndexInv, Listed
  <2> QED BY <2>1, <2>2, <2>3, <2>4, <2>5, <2>6 DEF Listed
<1>7. LiveIsListed'
  BY <1>1, <1>2 DEF IndexInv, LiveIsListed, Usable
<1> QED BY <1>3, <1>6, <1>7 DEF IndexInv

LEMMA IndexStep ==
    ASSUME IndexInv, AdmissionNext
    PROVE  IndexInv'
<1>1. ASSUME NEW v \in Visits, Handling(v) \/ Activated(v) PROVE IndexInv'
  BY <1>1, Counts, Opens, Latches, Cleans, Refreshes, IndexStays DEF Handling
<1>2. ASSUME NEW s \in Terminals, NEW k \in Rows, Forget(s, k) PROVE IndexInv'
  <2>1. UNCHANGED <<session, index, pruning, visit, lapsed>>
    BY <1>2 DEF Forget
  <2> QED BY <2>1 DEF IndexInv, DoorShape, Listed, LiveIsListed, Usable, Opening, Spent, Asks, Terminal
<1> QED BY <1>1, <1>2, Prunes, Idles DEF AdmissionNext

\* A session that can be used is in its owner's index, unless it has been idle for too long at some
\* time: whatever is counted, pruned, opened, touched and ended at the same time, for any number of
\* sessions and visits.
THEOREM LiveIsListedAlways == Spec => []LiveIsListed
<1>1. Init => IndexInv
  BY DoorInit DEF Init
<1>2. IndexInv /\ [Next]_platformVars => IndexInv'
  <2> SUFFICES ASSUME IndexInv, [Next]_platformVars PROVE IndexInv'
    OBVIOUS
  <2>1. CASE AdmissionWorks
    BY <2>1, IndexStep DEF AdmissionWorks
  <2>2. CASE UNCHANGED admissionVars
    BY <2>2 DEF admissionVars, IndexInv, DoorShape, Listed, LiveIsListed, Usable, Opening, Spent, Asks, Terminal
  <2> QED BY <2>1, <2>2, OthersWork
<1>3. IndexInv => LiveIsListed
  BY DEF IndexInv
<1> QED BY <1>1, <1>2, <1>3, PTL DEF Spec

Answered == {"activate", "told", "unstarted"}
Inserting(v) == visit[v].pc = "insert"
RememberedWell ==
    /\ admitted \subseteq Visits
    /\ DOMAIN remembered = Terminals /\ \A s \in Terminals : DOMAIN remembered[s] = Rows
    /\ \A s \in Terminals, k \in Rows :
          remembered[s][k] # NoJob => remembered[s][k] \in Visits /\ Terminal(remembered[s][k]) = s
    /\ \A j \in admitted : visit[j].pc \in Answered
    /\ \A j \in admitted : j \in forgotten \/ remembered[Terminal(j)][visit[j].asks.key] # NoJob
    /\ \A v \in Visits : visit[v].pc \in Answered => visit[v].job \in Visits
Overlapped ==
    /\ \A u, v \in Visits : u # v /\ Inserting(u) /\ Inserting(v) => {u, v} \in together
    /\ \A j \in admitted, v \in Visits : Inserting(v) /\ SameKey(j, v) => {j, v} \in together \/ j \in forgotten
RetryInv == RememberedWell /\ Overlapped /\ RetryIsOnce

LEMMA RetryInit ==
    ASSUME NEW s \in Scenarios, AdmissionInit(s.asked, s.open, s.direct, s.turns)
    PROVE  RetryInv
BY AdmissionAssumption DEF AdmissionInit, RetryInv, RememberedWell, Overlapped, RetryIsOnce, Inserting, Answered

LEMMA AsksAre ==
    ASSUME IndexInv, NEW u \in Visits
    PROVE  Terminal(u) \in Terminals /\ visit[u].asks.key \in Rows
BY DEF Terminal, IndexInv, DoorShape, Requests

\* What a visit asks does not change, and is about a session and a key.
LEMMA AsksStay ==
    ASSUME IndexInv, NEW v \in Visits, Moved(v) \/ visit' = visit
    PROVE  /\ \A u \in Visits : Terminal(u)' = Terminal(u) /\ visit'[u].asks = visit[u].asks
                                /\ Terminal(u) \in Terminals /\ visit[u].asks.key \in Rows
           /\ \A t, u \in Visits : SameKey(t, u)' <=> SameKey(t, u)
<1>1. \A u \in Visits : visit'[u].asks = visit[u].asks
  BY DEF Moved
<1>2. \A u \in Visits : Terminal(u)' = Terminal(u) /\ Terminal(u) \in Terminals /\ visit[u].asks.key \in Rows
  BY <1>1 DEF Terminal, IndexInv, DoorShape, Requests
<1> QED BY <1>1, <1>2 DEF SameKey

\* A step that admits, remembers and forgets nothing, and tells nobody of another job.
LEMMA RetryAside ==
    ASSUME IndexInv, RetryInv, NEW v \in Visits, Moved(v), UNCHANGED <<admitted, remembered, together, forgotten>>,
           visit'[v].pc # "insert", visit'[v].pc \in Answered <=> visit[v].pc \in Answered, visit'[v].job = visit[v].job
    PROVE  RetryInv'
<1>1. \A u \in Visits : /\ visit'[u].job = visit[u].job
                        /\ visit'[u].pc \in Answered <=> visit[u].pc \in Answered
                        /\ Inserting(u)' => Inserting(u)
  BY DEF Moved, Inserting
<1>2. RememberedWell'
  BY <1>1, AsksStay DEF RetryInv, RememberedWell
<1>3. Overlapped'
  BY <1>1, AsksStay DEF RetryInv, Overlapped, RememberedWell
<1>4. RetryIsOnce'
  <2>1. \A i \in admitted, j \in admitted :
           i # j /\ Terminal(i)' = Terminal(j)' /\ visit'[i].asks.key = visit'[j].asks.key
           => {i, j} \in together \/ i \in forgotten \/ j \in forgotten
    BY AsksStay DEF RetryInv, RetryIsOnce, RememberedWell
  <2>2. ASSUME NEW u \in Visits, visit'[u].pc \in Answered
        PROVE  /\ visit'[visit'[u].job].asks.terminal = visit'[u].asks.terminal
               /\ visit'[visit'[u].job].asks.input = visit'[u].asks.input
    <3>1. visit[u].job \in Visits /\ Terminal(visit[u].job) = Terminal(u) /\ visit[visit[u].job].asks.input = visit[u].asks.input
      BY <1>1, <2>2 DEF RetryInv, RememberedWell, RetryIsOnce, Answered
    <3>2. visit'[u].job = visit[u].job /\ visit'[visit[u].job].asks = visit[visit[u].job].asks /\ visit'[u].asks = visit[u].asks
      BY <1>1, <3>1, AsksStay
    <3> QED BY <3>1, <3>2 DEF Terminal
  <2> QED BY <2>1, <2>2 DEF RetryIsOnce, Answered, Terminal
<1> QED BY <1>2, <1>3, <1>4 DEF RetryInv

LEMMA RetryElsewhere ==
    ASSUME IndexInv, RetryInv, NEW v \in Visits,
           Count(v) \/ ReadCap(v) \/ CommitCap(v) \/ Look(v) \/ End(v) \/ Touch(v) \/ Refresh(v) \/ Check(v)
           \/ AuthorizeTarget(v) \/ Queued(v) \/ Pending(v) \/ Activated(v)
    PROVE  RetryInv'
<1>1. UNCHANGED <<admitted, remembered, together, forgotten>>
  BY DEF Count, ReadCap, CommitCap, Look, End, Touch, Refresh, Check, AuthorizeTarget, Queued, Pending, Activated
<1>2. CASE Queued(v) \/ Pending(v) \/ Activated(v)
  <2>1. visit[v].pc = "activate" /\ (Step(v, "told") \/ Step(v, "unstarted"))
    BY <1>2 DEF Queued, Pending, Activated, Overdue, Stands
  <2>2. Only(v, "told") \/ Only(v, "unstarted")
    BY <2>1, StepMoves DEF IndexInv, VisitPcs
  <2> QED BY <1>1, <2>1, <2>2, RetryAside DEF Only, Answered
<1>3. CASE ReadCap(v)
  <2> DEFINE live == {s \in index : Usable(s)}
  <2>1. visit' = [visit EXCEPT ![v].pc = IF Full(live) THEN "full" ELSE "open", ![v].live = live, ![v].dead = index \ live]
    BY <1>3 DEF ReadCap
  <2>2. Moved(v) /\ visit'[v].pc \in {"full", "open"} /\ visit'[v].job = visit[v].job
    BY <2>1 DEF IndexInv, DoorShape, Moved, VisitPcs
  <2>3. visit[v].pc = "cap"
    BY <1>3 DEF ReadCap, Stands
  <2> QED BY <1>1, <2>2, <2>3, RetryAside DEF Answered
<1>4. CASE Count(v) \/ CommitCap(v) \/ Look(v) \/ End(v) \/ Touch(v) \/ Refresh(v) \/ Check(v) \/ AuthorizeTarget(v)
  <2>1. visit[v].pc \notin Answered
    BY <1>4 DEF Count, CommitCap, Look, End, Touch, Refresh, Check, AuthorizeTarget, Stands, Answered
  <2>2. \E pc \in VisitPcs \ ({"asked", "insert"} \cup Answered) : Step(v, pc)
    BY <1>4 DEF Count, CommitCap, Look, End, Touch, Refresh, Check, AuthorizeTarget, Latch, Unchanged, VisitPcs, Answered
  <2>3. PICK pc \in VisitPcs \ ({"asked", "insert"} \cup Answered) : Step(v, pc)
    BY <2>2
  <2>4. Only(v, pc)
    BY <2>3, StepMoves DEF IndexInv
  <2> QED BY <1>1, <2>1, <2>4, RetryAside DEF Only
<1> QED BY <1>2, <1>3, <1>4

\* A reservation that finds its key free finds no job of the key, but those whose row has expired.
LEMMA RetryReserves ==
    ASSUME IndexInv, RetryInv, NEW v \in Visits, ReadReserve(v)
    PROVE  RetryInv'
<1> DEFINE t == Terminal(v)
           id == remembered[t][visit[v].asks.key]
           open == {u \in Visits : Stands(u, "insert") /\ u # v}
<1>1. /\ visit[v].pc = "reserve" /\ t \in Terminals /\ visit[v].asks.key \in Rows
      /\ UNCHANGED <<admitted, remembered, forgotten>>
  BY AsksAre DEF ReadReserve, Stands
<1>2. CASE id # NoJob
  <2>1. together' = together
    BY <1>2 DEF ReadReserve
  <2>2. PICK pc \in {"activate", "refused"} :
           visit' = [visit EXCEPT ![v].pc = pc, ![v].job = id] /\ (pc = "activate" => Fingerprinted(v, id))
    BY <1>2 DEF ReadReserve
  <2>3. Moved(v) /\ visit'[v].pc = pc /\ visit'[v].job = id
    BY <2>2 DEF IndexInv, DoorShape, Moved, VisitPcs
  <2>4. id \in Visits /\ Terminal(id) = t
    BY <1>1, <1>2 DEF RetryInv, RememberedWell
  <2>5. \A u \in Visits : /\ visit'[u].pc \in Answered => (visit[u].pc \in Answered /\ visit'[u].job = visit[u].job) \/ (u = v /\ pc = "activate")
                          /\ visit[u].pc \in Answered => visit'[u].pc \in Answered
                          /\ Inserting(u)' => Inserting(u)
    BY <1>1, <2>3 DEF Moved, Inserting, Answered
  <2>6. RememberedWell'
    BY <1>1, <2>3, <2>4, <2>5, AsksStay DEF RetryInv, RememberedWell
  <2>7. Overlapped'
    BY <1>1, <2>1, <2>3, <2>5, AsksStay DEF RetryInv, Overlapped, RememberedWell
  <2>8. RetryIsOnce'
    <3>1. \A i \in admitted, j \in admitted :
             i # j /\ Terminal(i)' = Terminal(j)' /\ visit'[i].asks.key = visit'[j].asks.key
             => {i, j} \in together \/ i \in forgotten \/ j \in forgotten
      BY <2>3, AsksStay DEF RetryInv, RetryIsOnce, RememberedWell
    <3>2. ASSUME NEW u \in Visits, visit'[u].pc \in Answered
          PROVE  /\ visit'[visit'[u].job].asks.terminal = visit'[u].asks.terminal
                 /\ visit'[visit'[u].job].asks.input = visit'[u].asks.input
      <4>1. PICK j \in Visits : visit'[u].job = j /\ visit[j].asks.terminal = visit[u].asks.terminal /\ visit[j].asks.input = visit[u].asks.input
        <5>1. CASE u = v
          BY <2>2, <2>3, <2>4, <3>2, <5>1 DEF Answered, Fingerprinted, Terminal
        <5>2. CASE u # v
          BY <2>5, <3>2, <5>2 DEF RetryInv, RetryIsOnce, RememberedWell, Answered, Terminal
        <5> QED BY <5>1, <5>2
      <4> QED BY <2>3, <4>1, AsksStay
    <3> QED BY <1>1, <2>1, <3>1, <3>2 DEF RetryIsOnce, Answered, Terminal
  <2> QED BY <2>6, <2>7, <2>8 DEF RetryInv
<1>3. CASE id = NoJob
  <2>1. PICK room \in BOOLEAN :
           /\ Step(v, IF room THEN "insert" ELSE "refused")
           /\ together' = IF room THEN together \cup {{u, v} : u \in open} ELSE together
    BY <1>3 DEF ReadReserve
  <2>2. CASE ~room
    <3>1. Only(v, "refused") /\ together' = together
      BY <2>1, <2>2, StepMoves DEF IndexInv, VisitPcs
    <3> QED BY <1>1, <3>1, RetryAside DEF Only, Answered
  <2>3. CASE room
    <3>1. Only(v, "insert") /\ together' = together \cup {{u, v} : u \in open}
      BY <2>1, <2>3, StepMoves DEF IndexInv, VisitPcs
    <3>2. \A u \in Visits : /\ visit'[u].job = visit[u].job
                            /\ visit'[u].pc \in Answered <=> visit[u].pc \in Answered
                            /\ Inserting(u)' => Inserting(u) \/ u = v
      BY <1>1, <3>1 DEF Only, Moved, Inserting, Answered
    <3>3. RememberedWell'
      BY <1>1, <3>1, <3>2, AsksStay DEF RetryInv, RememberedWell, Only
    <3>4. \A u \in Visits : u # v /\ Inserting(u) => {u, v} \in together' /\ {v, u} \in together'
      BY <3>1 DEF Inserting, Stands
    <3>5. \A j \in admitted : SameKey(j, v) => j \in forgotten
      BY <1>1, <1>3 DEF RetryInv, RememberedWell, SameKey
    <3>6. Overlapped'
      <4>1. \A u, w \in Visits : u # w /\ Inserting(u)' /\ Inserting(w)' => {u, w} \in together'
        BY <3>1, <3>2, <3>4 DEF RetryInv, Overlapped
      <4>2. \A j \in admitted, w \in Visits : Inserting(w)' /\ SameKey(j, w) => {j, w} \in together' \/ j \in forgotten
        BY <3>1, <3>2, <3>5 DEF RetryInv, Overlapped
      <4> QED BY <1>1, <3>1, <4>1, <4>2, AsksStay DEF Overlapped, Only, RetryInv, RememberedWell
    <3>7. RetryIsOnce'
      <4>1. \A i \in admitted, j \in admitted :
               i # j /\ Terminal(i)' = Terminal(j)' /\ visit'[i].asks.key = visit'[j].asks.key
               => {i, j} \in together' \/ i \in forgotten \/ j \in forgotten
        BY <3>1, AsksStay DEF RetryInv, RetryIsOnce, RememberedWell, Only
      <4>2. ASSUME NEW u \in Visits, visit'[u].pc \in Answered
            PROVE  /\ visit'[visit'[u].job].asks.terminal = visit'[u].asks.terminal
                   /\ visit'[visit'[u].job].asks.input = visit'[u].asks.input
        <5>1. PICK j \in Visits : visit'[u].job = j /\ visit[j].asks.terminal = visit[u].asks.terminal /\ visit[j].asks.input = visit[u].asks.input
          BY <3>2, <4>2 DEF RetryInv, RetryIsOnce, RememberedWell, Answered, Terminal
        <5> QED BY <3>1, <5>1, AsksStay DEF Only
      <4> QED BY <1>1, <4>1, <4>2 DEF RetryIsOnce, Answered, Terminal
    <3> QED BY <3>3, <3>6, <3>7 DEF RetryInv
  <2> QED BY <2>2, <2>3
<1> QED BY <1>2, <1>3

\* A job is written under its key, over what others have written since the reservation was read.
LEMMA RetryCommits ==
    ASSUME IndexInv, RetryInv, NEW v \in Visits, CommitReserve(v)
    PROVE  RetryInv'
<1> DEFINE t == Terminal(v)  k == visit[v].asks.key
<1>1. /\ Inserting(v) /\ t \in Terminals /\ k \in Rows /\ UNCHANGED <<together, forgotten>>
      /\ admitted' = admitted \cup {v} /\ remembered' = [remembered EXCEPT ![t][k] = v]
      /\ visit' = [visit EXCEPT ![v].pc = "activate", ![v].job = v]
  BY AsksAre DEF CommitReserve, Stands, Inserting, Remembering
<1>2. Moved(v) /\ visit'[v].pc = "activate" /\ visit'[v].job = v
  BY <1>1 DEF IndexInv, DoorShape, Moved, VisitPcs
<1>3. \A u \in Visits : /\ visit'[u].pc \in Answered => (visit[u].pc \in Answered /\ visit'[u].job = visit[u].job) \/ u = v
                        /\ visit[u].pc \in Answered => visit'[u].pc \in Answered
                        /\ Inserting(u)' => Inserting(u) /\ u # v
  BY <1>2 DEF Moved, Inserting, Answered
<1>4. /\ DOMAIN remembered' = Terminals /\ \A s \in Terminals : DOMAIN remembered'[s] = Rows
      /\ remembered'[t][k] = v
      /\ \A s \in Terminals, q \in Rows : (s = t /\ q = k) \/ remembered'[s][q] = remembered[s][q]
  BY <1>1 DEF RetryInv, RememberedWell
<1>5. RememberedWell'
  <2>1. \A s \in Terminals, q \in Rows : remembered'[s][q] # NoJob => remembered'[s][q] \in Visits /\ Terminal(remembered'[s][q]) = s
    BY <1>4 DEF RetryInv, RememberedWell
  <2>2. \A s \in Terminals, q \in Rows : remembered'[s][q] # NoJob => remembered'[s][q] \in Visits /\ visit'[remembered'[s][q]].asks.terminal = s
    BY <1>2, <2>1, AsksStay DEF Terminal
  <2>3. \A j \in admitted' : visit'[j].pc \in Answered
    BY <1>1, <1>2, <1>3 DEF RetryInv, RememberedWell, Answered
  <2>4. \A j \in admitted' : j \in forgotten \/ remembered'[Terminal(j)][visit[j].asks.key] # NoJob
    BY <1>1, <1>2, <1>4, AsksStay, AdmissionAssumption DEF RetryInv, RememberedWell
  <2>5. \A u \in Visits : visit'[u].pc \in Answered => visit'[u].job \in Visits
    BY <1>2, <1>3 DEF RetryInv, RememberedWell
  <2>6. \A j \in admitted' : Terminal(j)' = Terminal(j) /\ visit'[j].asks = visit[j].asks
    BY <1>1, <1>2, AsksStay DEF RetryInv, RememberedWell
  <2>7. admitted' \subseteq Visits
    BY <1>1 DEF RetryInv, RememberedWell
  <2>8. \A j \in admitted' : j \in forgotten' \/ remembered'[Terminal(j)'][visit'[j].asks.key] # NoJob
    BY <1>1, <2>4, <2>6
  <2> QED BY <1>4, <2>2, <2>3, <2>5, <2>7, <2>8 DEF RememberedWell, Terminal
<1>6. \A u \in Visits : u # v /\ Inserting(u) => {u, v} \in together /\ {v, u} \in together
  BY <1>1 DEF RetryInv, Overlapped
<1>7. Overlapped'
  <2>1. \A u, w \in Visits : u # w /\ Inserting(u)' /\ Inserting(w)' => {u, w} \in together
    BY <1>3 DEF RetryInv, Overlapped
  <2>2. \A j \in admitted', w \in Visits : Inserting(w)' /\ SameKey(j, w) => {j, w} \in together \/ j \in forgotten
    BY <1>1, <1>3, <1>6 DEF RetryInv, Overlapped
  <2> QED BY <1>1, <1>2, <2>1, <2>2, AsksStay DEF Overlapped, RetryInv, RememberedWell
<1>8. RetryIsOnce'
  <2>1. \A i \in admitted', j \in admitted' : i # j /\ SameKey(i, j) => {i, j} \in together \/ i \in forgotten \/ j \in forgotten
    <3> SUFFICES ASSUME NEW i \in admitted', NEW j \in admitted', i # j, SameKey(i, j)
                 PROVE  {i, j} \in together \/ i \in forgotten \/ j \in forgotten
      OBVIOUS
    <3>1. CASE i # v /\ j # v
      BY <1>1, <3>1 DEF RetryInv, RetryIsOnce, SameKey
    <3>2. CASE j = v
      BY <1>1, <3>2 DEF RetryInv, Overlapped
    <3>3. CASE i = v
      <4>1. {j, i} = {i, j} /\ SameKey(j, i)
        BY DEF SameKey
      <4> QED BY <1>1, <3>3, <4>1 DEF RetryInv, Overlapped
    <3> QED BY <3>1, <3>2, <3>3
  <2>2. \A i \in admitted', j \in admitted' : Terminal(i)' = Terminal(j)' /\ visit'[i].asks.key = visit'[j].asks.key => SameKey(i, j)
    BY <1>1, <1>2, AsksStay DEF RetryInv, RememberedWell, SameKey
  <2>3. ASSUME NEW u \in Visits, visit'[u].pc \in Answered
        PROVE  /\ visit'[visit'[u].job].asks.terminal = visit'[u].asks.terminal
               /\ visit'[visit'[u].job].asks.input = visit'[u].asks.input
    <3>1. PICK j \in Visits : visit'[u].job = j /\ visit[j].asks.terminal = visit[u].asks.terminal /\ visit[j].asks.input = visit[u].asks.input
      BY <1>2, <1>3, <2>3 DEF RetryInv, RetryIsOnce, RememberedWell, Answered, Terminal
    <3> QED BY <1>2, <3>1, AsksStay
  <2> QED BY <1>1, <2>1, <2>2, <2>3 DEF RetryIsOnce, Answered, Terminal
<1> QED BY <1>5, <1>7, <1>8 DEF RetryInv

LEMMA RetryCleans ==
    ASSUME IndexInv, RetryInv, NEW v \in Visits, Clean(v)
    PROVE  RetryInv'
<1> DEFINE t == Terminal(v)
<1>1. /\ visit[v].pc = "clean" /\ t \in Terminals /\ UNCHANGED <<together, forgotten>> /\ Step(v, "gone")
      /\ admitted' = {j \in admitted : Terminal(j) # t} /\ remembered' = [remembered EXCEPT ![t] = [k \in Rows |-> NoJob]]
  BY AsksAre DEF Clean, Stands
<1>2. Only(v, "gone")
  BY <1>1, StepMoves DEF IndexInv, VisitPcs
<1>3. \A u \in Visits : /\ visit'[u].job = visit[u].job
                        /\ visit'[u].pc \in Answered <=> visit[u].pc \in Answered
                        /\ Inserting(u)' => Inserting(u)
  BY <1>1, <1>2 DEF Only, Moved, Inserting, Answered
<1>4. Moved(v)
  BY <1>2 DEF Only
<1>5. RememberedWell'
  BY <1>1, <1>3, <1>4, AsksStay DEF RetryInv, RememberedWell
<1>6. Overlapped'
  BY <1>1, <1>3, <1>4, AsksStay DEF RetryInv, Overlapped, RememberedWell
<1>7. RetryIsOnce'
  <2>1. \A i \in admitted', j \in admitted' :
           i # j /\ Terminal(i)' = Terminal(j)' /\ visit'[i].asks.key = visit'[j].asks.key
           => {i, j} \in together \/ i \in forgotten \/ j \in forgotten
    BY <1>1, <1>4, AsksStay DEF RetryInv, RetryIsOnce, RememberedWell
  <2>2. ASSUME NEW u \in Visits, visit'[u].pc \in Answered
        PROVE  /\ visit'[visit'[u].job].asks.terminal = visit'[u].asks.terminal
               /\ visit'[visit'[u].job].asks.input = visit'[u].asks.input
    <3>1. PICK j \in Visits : visit'[u].job = j /\ visit[j].asks.terminal = visit[u].asks.terminal /\ visit[j].asks.input = visit[u].asks.input
      BY <1>3, <2>2 DEF RetryInv, RetryIsOnce, RememberedWell, Answered, Terminal
    <3> QED BY <1>4, <3>1, AsksStay
  <2> QED BY <1>1, <2>1, <2>2 DEF RetryIsOnce, Answered, Terminal
<1> QED BY <1>5, <1>6, <1>7 DEF RetryInv

LEMMA RetryForgets ==
    ASSUME IndexInv, RetryInv, NEW s \in Terminals, NEW k \in Rows, Forget(s, k)
    PROVE  RetryInv'
<1>1. /\ UNCHANGED <<admitted, visit, together>> /\ remembered' = [remembered EXCEPT ![s][k] = NoJob]
      /\ forgotten' = forgotten \cup {j \in admitted : Terminal(j) = s /\ visit[j].asks.key = k}
  BY DEF Forget, Under
<1>2. /\ DOMAIN remembered' = Terminals /\ \A t \in Terminals : DOMAIN remembered'[t] = Rows
      /\ remembered'[s][k] = NoJob
      /\ \A t \in Terminals, q \in Rows : (t = s /\ q = k) \/ remembered'[t][q] = remembered[t][q]
  BY <1>1 DEF RetryInv, RememberedWell
<1>3. \A j \in admitted : Terminal(j) \in Terminals /\ visit[j].asks.key \in Rows
  BY AsksAre DEF RetryInv, RememberedWell
<1>4. RememberedWell'
  BY <1>1, <1>2, <1>3 DEF RetryInv, RememberedWell, Terminal
<1>5. Overlapped'
  BY <1>1 DEF RetryInv, Overlapped, Inserting, SameKey, Terminal
<1>6. RetryIsOnce'
  BY <1>1 DEF RetryInv, RetryIsOnce, Terminal
<1> QED BY <1>4, <1>5, <1>6 DEF RetryInv

LEMMA RetryStep ==
    ASSUME IndexInv, RetryInv, AdmissionNext
    PROVE  RetryInv'
<1>1. ASSUME NEW v \in Visits, Handling(v) \/ Activated(v) PROVE RetryInv'
  BY <1>1, RetryElsewhere, RetryReserves, RetryCommits, RetryCleans DEF Handling
<1>2. ASSUME NEW s \in Terminals, Prune(s) \/ IdleEnds(s) PROVE RetryInv'
  <2>1. UNCHANGED <<admitted, remembered, visit, together, forgotten>>
    BY <1>2 DEF Prune, IdleEnds
  <2> QED BY <2>1 DEF RetryInv, RememberedWell, Overlapped, RetryIsOnce, Inserting, SameKey, Terminal
<1> QED BY <1>1, <1>2, RetryForgets DEF AdmissionNext

\* A command sent again under its key runs once, for any number of visits, sessions and slots: two jobs
\* of a key come only of reservations that were open at the same time, or of a key whose row had
\* expired; and an answer names a job of the session and of the command that were asked for.
THEOREM RetryIsOnceAlways == Spec => []RetryIsOnce
<1>1. Init => IndexInv /\ RetryInv
  BY DoorInit, RetryInit DEF Init
<1>2. IndexInv /\ RetryInv /\ [Next]_platformVars => (IndexInv /\ RetryInv)'
  <2> SUFFICES ASSUME IndexInv, RetryInv, [Next]_platformVars PROVE IndexInv' /\ RetryInv'
    OBVIOUS
  <2>1. CASE AdmissionWorks
    BY <2>1, IndexStep, RetryStep DEF AdmissionWorks
  <2>2. CASE UNCHANGED admissionVars
    <3>1. IndexInv'
      BY <2>2 DEF admissionVars, IndexInv, DoorShape, Listed, LiveIsListed, Usable, Opening, Spent, Asks, Terminal
    <3>2. RetryInv'
      BY <2>2 DEF admissionVars, RetryInv, RememberedWell, Overlapped, RetryIsOnce, Inserting, SameKey, Terminal
    <3> QED BY <3>1, <3>2
  <2> QED BY <2>1, <2>2, OthersWork
<1>3. RetryInv => RetryIsOnce
  BY DEF RetryInv
<1> QED BY <1>1, <1>2, <1>3, PTL DEF Spec

(***************************************************************************)
(* Sums over the requests.                                                 *)
(***************************************************************************)
First(s) == CHOOSE x \in s : TRUE

\* `sum` maps every set of requests to the sum of what `f` says of its members.
Sums(sum, f, S) ==
    /\ sum[{}] = 0
    /\ \A s \in SUBSET S : s # {} => sum[s] = f[First(s)] + sum[s \ {First(s)}]

\* Induction over the sets of a finite set, by the member that is taken first.
LEMMA SetInduct ==
    ASSUME NEW S, IsFiniteSet(S), NEW T,
           {} \in T,
           \A s \in SUBSET S : s # {} /\ s \ {First(s)} \in T => s \in T
    PROVE  \A s \in SUBSET S : s \in T
<1> DEFINE N == Cardinality(S)
           D == {n \in 0 .. N : \A s \in SUBSET S : Cardinality(s) = n => s \in T}
<1>1. N \in Nat
  BY FS_CardinalityType
<1>2. 0 \in D
  <2>1. ASSUME NEW s \in SUBSET S, Cardinality(s) = 0 PROVE s = {}
    BY <2>1, FS_Subset, FS_EmptySet
  <2> QED
    BY <1>1, <2>1
<1>3. ASSUME NEW n \in 0 .. N - 1, n \in D
      PROVE  n + 1 \in D
  <2>0. n \in Nat
    OBVIOUS
  <2>1. ASSUME NEW s \in SUBSET S, Cardinality(s) = n + 1 PROVE s \in T
    <3>1. IsFiniteSet(s)
      BY FS_Subset
    <3>2. s # {}
      <4>1. Cardinality({}) = 0
        BY FS_EmptySet
      <4>2. n + 1 # 0
        BY <2>0
      <4> QED
        BY <2>1, <4>1, <4>2
    <3>3. First(s) \in s
      BY <3>2 DEF First
    <3>4. Cardinality(s \ {First(s)}) = n
      <4>1. Cardinality(s \ {First(s)}) = Cardinality(s) - 1
        BY <3>1, <3>3, FS_RemoveElement
      <4> QED
        BY <2>0, <2>1, <4>1
    <3>5. s \ {First(s)} \in T
      BY <3>4, <1>3
    <3> QED
      BY <3>2, <3>5
  <2> QED
    BY <1>1, <2>1
<1>4. \A n \in 0 .. N : n \in D
  <2> HIDE DEF D, N
  <2> QED
    BY <1>1, <1>2, <1>3, Induct
<1>5. SUFFICES ASSUME NEW s \in SUBSET S PROVE s \in T
  OBVIOUS
<1>6. Cardinality(s) \in 0 .. N
  BY FS_Subset, FS_CardinalityType
<1> QED
  BY <1>4, <1>6

\* There is such a function.
LEMMA SumExists ==
    ASSUME NEW S, IsFiniteSet(S), NEW f \in [S -> Int]
    PROVE  \E sum \in [SUBSET S -> Int] : Sums(sum, f, S)
<1> DEFINE N == Cardinality(S)
           Upto(sum, n) == \A s \in SUBSET S :
               Cardinality(s) <= n => sum[s] = IF s = {} THEN 0 ELSE f[First(s)] + sum[s \ {First(s)}]
           D == {n \in 0 .. N : \E sum \in [SUBSET S -> Int] : Upto(sum, n)}
<1>1. N \in Nat
  BY FS_CardinalityType
<1>0. \A s \in SUBSET S : IsFiniteSet(s) /\ Cardinality(s) \in 0 .. N /\ (Cardinality(s) = 0 <=> s = {})
  BY FS_Subset, FS_EmptySet, FS_CardinalityType
<1>2. 0 \in D
  <2> DEFINE zero == [s \in SUBSET S |-> 0]
  <2>1. zero \in [SUBSET S -> Int]
    OBVIOUS
  <2>2. Upto(zero, 0)
    BY <1>0
  <2>3. \E sum \in [SUBSET S -> Int] : Upto(sum, 0)
    <3> HIDE DEF Upto, zero
    <3> QED
      BY <2>1, <2>2
  <2> QED
    <3> HIDE DEF Upto, N
    <3> QED
      BY <1>1, <2>3
<1>3. ASSUME NEW n \in 0 .. N - 1, n \in D
      PROVE  n + 1 \in D
  <2>1. PICK sum \in [SUBSET S -> Int] : Upto(sum, n)
    BY <1>3
  <2> DEFINE more == [s \in SUBSET S |-> IF Cardinality(s) <= n THEN sum[s] ELSE IF s = {} THEN 0 ELSE f[First(s)] + sum[s \ {First(s)}]]
  <2>2. \A s \in SUBSET S : s # {} => First(s) \in S /\ f[First(s)] \in Int /\ s \ {First(s)} \in SUBSET S
    BY DEF First
  <2>3. more \in [SUBSET S -> Int]
    BY <2>2
  <2>4. ASSUME NEW s \in SUBSET S, Cardinality(s) <= n + 1
        PROVE  more[s] = IF s = {} THEN 0 ELSE f[First(s)] + more[s \ {First(s)}]
    <3>1. CASE s = {}
      <4>1. Cardinality(s) = 0
        BY <1>0, <3>1
      <4> QED
        BY <2>1, <3>1, <4>1
    <3>2. CASE s # {}
      <4>1. Cardinality(s \ {First(s)}) = Cardinality(s) - 1
        BY <3>2, <1>0, FS_RemoveElement DEF First
      <4>2. Cardinality(s) \in Nat
        BY <1>0
      <4>3. Cardinality(s \ {First(s)}) <= n
        BY <4>1, <4>2, <2>4
      <4>4. more[s \ {First(s)}] = sum[s \ {First(s)}]
        BY <4>3, <2>2
      <4>5. more[s] = f[First(s)] + sum[s \ {First(s)}]
        BY <2>1, <3>2
      <4> QED
        BY <3>2, <4>4, <4>5
    <3> QED
      BY <3>1, <3>2
  <2>5. Upto(more, n + 1)
    BY <2>4
  <2>6. \E sum2 \in [SUBSET S -> Int] : Upto(sum2, n + 1)
    <3> HIDE DEF Upto, more
    <3> QED
      BY <2>3, <2>5
  <2> QED
    <3> HIDE DEF Upto, N
    <3> QED
      BY <1>1, <2>6
<1>4. N \in D
  <2> HIDE DEF D, N
  <2>1. \A n \in 0 .. N : n \in D
    BY <1>1, <1>2, <1>3, Induct
  <2> QED
    BY <1>1, <2>1
<1>5. PICK sum \in [SUBSET S -> Int] : Upto(sum, N)
  BY <1>4
<1>6. ASSUME NEW s \in SUBSET S
      PROVE  sum[s] = IF s = {} THEN 0 ELSE f[First(s)] + sum[s \ {First(s)}]
  <2>1. Cardinality(s) \in 0 .. N
    BY <1>0
  <2>2. Cardinality(s) <= N
    <3> HIDE DEF N
    <3> QED
      BY <1>1, <2>1
  <2> QED
    BY <1>5, <2>2
<1>7. sum[{}] = 0
  BY <1>6
<1> QED
  BY <1>6, <1>7 DEF Sums

\* What the fold of the community modules computes.
Total(f) == MapThenSumSet(LAMBDA x : f[x], DOMAIN f)

\* The fold is such a sum.
LEMMA TotalIs ==
    ASSUME NEW S, IsFiniteSet(S), NEW f \in [S -> Int]
    PROVE  \E sum \in [SUBSET S -> Int] : Sums(sum, f, S) /\ Total(f) = sum[S]
<1> DEFINE Folded(sum) == sum = [s \in SUBSET S |-> IF s = {} THEN 0 ELSE f[First(s)] + sum[s \ {First(s)}]]
<1>1. PICK good \in [SUBSET S -> Int] : Sums(good, f, S)
  BY SumExists
<1>2. Folded(good)
  BY <1>1 DEF Sums
<1>3. PICK sum : sum = CHOOSE g : Folded(g)
  OBVIOUS
<1>4. Total(f) = sum[S]
  BY <1>3 DEF Total, MapThenSumSet, MapThenFoldSet, First
<1>5. Folded(sum)
  <2> HIDE DEF Folded
  <2> QED
    BY <1>2, <1>3
<1>6. sum[{}] = 0 /\ DOMAIN sum = SUBSET S
  BY <1>5
<1>7. \A s \in SUBSET S : s # {} => sum[s] = f[First(s)] + sum[s \ {First(s)}]
  BY <1>5
<1>8. \A s \in SUBSET S : s \in {t \in SUBSET S : sum[t] \in Int}
  <2> DEFINE T == {t \in SUBSET S : sum[t] \in Int}
  <2>1. {} \in T
    BY <1>6
  <2>2. ASSUME NEW s \in SUBSET S, s # {}, s \ {First(s)} \in T PROVE s \in T
    <3>1. First(s) \in S /\ f[First(s)] \in Int
      BY <2>2 DEF First
    <3>2. sum[s] = f[First(s)] + sum[s \ {First(s)}] /\ sum[s \ {First(s)}] \in Int
      BY <1>7, <2>2
    <3> QED
      BY <3>1, <3>2
  <2> HIDE DEF T
  <2>3. \A s \in SUBSET S : s \in T
    BY <2>1, <2>2, SetInduct
  <2> QED
    BY <2>3 DEF T
<1>9. sum \in [SUBSET S -> Int]
  <2>1. sum = [s \in SUBSET S |-> sum[s]]
    BY <1>5
  <2> QED
    BY <1>8, <2>1
<1> QED
  BY <1>4, <1>6, <1>7, <1>9 DEF Sums

\* The sum of functions that are ordered, and of those that differ at one place.
LEMMA TotalOrder ==
    ASSUME NEW S, IsFiniteSet(S), NEW f \in [S -> Int], NEW g \in [S -> Int],
           \A x \in S : f[x] <= g[x]
    PROVE  Total(f) <= Total(g)
<1>1. PICK F \in [SUBSET S -> Int] : Sums(F, f, S) /\ Total(f) = F[S]
  BY TotalIs
<1>2. PICK G \in [SUBSET S -> Int] : Sums(G, g, S) /\ Total(g) = G[S]
  BY TotalIs
<1> DEFINE T == {s \in SUBSET S : F[s] <= G[s]}
<1>3. {} \in T
  BY <1>1, <1>2 DEF Sums
<1>4. ASSUME NEW s \in SUBSET S, s # {}, s \ {First(s)} \in T PROVE s \in T
  <2>1. First(s) \in S
    BY <1>4 DEF First
  <2>2. F[s] = f[First(s)] + F[s \ {First(s)}] /\ G[s] = g[First(s)] + G[s \ {First(s)}]
    BY <1>1, <1>2, <1>4 DEF Sums
  <2>3. F[s \ {First(s)}] <= G[s \ {First(s)}] /\ F[s \ {First(s)}] \in Int /\ G[s \ {First(s)}] \in Int
    BY <1>4
  <2>4. f[First(s)] <= g[First(s)] /\ f[First(s)] \in Int /\ g[First(s)] \in Int
    BY <2>1
  <2> QED
    BY <2>2, <2>3, <2>4
<1>5. \A s \in SUBSET S : s \in T
  <2> HIDE DEF T
  <2> QED
    BY <1>3, <1>4, SetInduct
<1> QED
  BY <1>1, <1>2, <1>5

LEMMA TotalMove ==
    ASSUME NEW S, IsFiniteSet(S), NEW f \in [S -> Int], NEW g \in [S -> Int], NEW r \in S,
           \A x \in S \ {r} : f[x] = g[x]
    PROVE  Total(g) = Total(f) + (g[r] - f[r])
<1>1. PICK F \in [SUBSET S -> Int] : Sums(F, f, S) /\ Total(f) = F[S]
  BY TotalIs
<1>2. PICK G \in [SUBSET S -> Int] : Sums(G, g, S) /\ Total(g) = G[S]
  BY TotalIs
<1> DEFINE T == {s \in SUBSET S : G[s] = F[s] + IF r \in s THEN g[r] - f[r] ELSE 0}
<1>3. {} \in T
  BY <1>1, <1>2 DEF Sums
<1>4. ASSUME NEW s \in SUBSET S, s # {}, s \ {First(s)} \in T PROVE s \in T
  <2>1. First(s) \in s
    BY <1>4 DEF First
  <2>2. F[s] = f[First(s)] + F[s \ {First(s)}] /\ G[s] = g[First(s)] + G[s \ {First(s)}]
    BY <1>1, <1>2, <1>4 DEF Sums
  <2>3. F[s \ {First(s)}] \in Int /\ G[s \ {First(s)}] \in Int /\ F[s] \in Int /\ G[s] \in Int
    OBVIOUS
  <2>4. G[s \ {First(s)}] = F[s \ {First(s)}] + IF r \in s \ {First(s)} THEN g[r] - f[r] ELSE 0
    BY <1>4
  <2>5. CASE First(s) = r
    <3>1. r \in s /\ r \notin s \ {First(s)} /\ f[r] \in Int /\ g[r] \in Int
      BY <2>1, <2>5
    <3> QED
      BY <2>2, <2>3, <2>4, <2>5, <3>1
  <2>6. CASE First(s) # r
    <3>1. f[First(s)] = g[First(s)] /\ f[First(s)] \in Int /\ (r \in s <=> r \in s \ {First(s)}) /\ f[r] \in Int /\ g[r] \in Int
      BY <2>1, <2>6
    <3> QED
      BY <2>2, <2>3, <2>4, <2>6, <3>1
  <2> QED
    BY <2>5, <2>6
<1>5. \A s \in SUBSET S : s \in T
  <2> HIDE DEF T
  <2> QED
    BY <1>3, <1>4, SetInduct
<1> QED
  BY <1>1, <1>2, <1>5

\* The sum of a sum.
LEMMA TotalAdds ==
    ASSUME NEW S, IsFiniteSet(S), NEW f \in [S -> Int], NEW g \in [S -> Int], NEW h \in [S -> Int],
           \A x \in S : h[x] = f[x] + g[x]
    PROVE  Total(h) = Total(f) + Total(g)
<1>1. PICK F \in [SUBSET S -> Int] : Sums(F, f, S) /\ Total(f) = F[S]
  BY TotalIs
<1>2. PICK G \in [SUBSET S -> Int] : Sums(G, g, S) /\ Total(g) = G[S]
  BY TotalIs
<1>3. PICK H \in [SUBSET S -> Int] : Sums(H, h, S) /\ Total(h) = H[S]
  BY TotalIs
<1> DEFINE T == {s \in SUBSET S : H[s] = F[s] + G[s]}
<1>4. {} \in T
  BY <1>1, <1>2, <1>3 DEF Sums
<1>5. ASSUME NEW s \in SUBSET S, s # {}, s \ {First(s)} \in T PROVE s \in T
  <2>1. First(s) \in S
    BY <1>5 DEF First
  <2>2. /\ F[s] = f[First(s)] + F[s \ {First(s)}] /\ G[s] = g[First(s)] + G[s \ {First(s)}]
        /\ H[s] = h[First(s)] + H[s \ {First(s)}]
    BY <1>1, <1>2, <1>3, <1>5 DEF Sums
  <2>3. F[s \ {First(s)}] \in Int /\ G[s \ {First(s)}] \in Int /\ H[s \ {First(s)}] = F[s \ {First(s)}] + G[s \ {First(s)}]
    BY <1>5
  <2>4. h[First(s)] = f[First(s)] + g[First(s)] /\ f[First(s)] \in Int /\ g[First(s)] \in Int
    BY <2>1
  <2> QED
    BY <2>2, <2>3, <2>4
<1>6. \A s \in SUBSET S : s \in T
  <2> HIDE DEF T
  <2> QED
    BY <1>4, <1>5, SetInduct
<1> QED
  BY <1>1, <1>2, <1>3, <1>6

\* Natural numbers add up to one.
LEMMA TotalNat ==
    ASSUME NEW S, IsFiniteSet(S), NEW f \in [S -> Nat]
    PROVE  Total(f) \in Nat
<1>0. f \in [S -> Int]
  OBVIOUS
<1>1. PICK F \in [SUBSET S -> Int] : Sums(F, f, S) /\ Total(f) = F[S]
  BY <1>0, TotalIs
<1> DEFINE T == {s \in SUBSET S : F[s] >= 0}
<1>2. {} \in T
  BY <1>1 DEF Sums
<1>3. ASSUME NEW s \in SUBSET S, s # {}, s \ {First(s)} \in T PROVE s \in T
  <2>1. First(s) \in S
    BY <1>3 DEF First
  <2>2. F[s] = f[First(s)] + F[s \ {First(s)}]
    BY <1>1, <1>3 DEF Sums
  <2>3. F[s \ {First(s)}] >= 0 /\ F[s \ {First(s)}] \in Int /\ f[First(s)] \in Nat
    BY <1>3, <2>1
  <2> QED
    BY <2>2, <2>3
<1>4. \A s \in SUBSET S : s \in T
  <2> HIDE DEF T
  <2> QED
    BY <1>2, <1>3, SetInduct
<1> QED
  BY <1>1, <1>4

\* The sum is no less than any of what it adds up.
LEMMA TotalCovers ==
    ASSUME NEW S, IsFiniteSet(S), NEW f \in [S -> Nat], NEW r \in S
    PROVE  f[r] <= Total(f)
<1>1. PICK g : g = [x \in S |-> IF x = r THEN 0 ELSE f[x]]
  OBVIOUS
<1>2. f \in [S -> Int] /\ g \in [S -> Int] /\ g \in [S -> Nat] /\ g[r] = 0 /\ f[r] \in Nat
  BY <1>1
<1>3. \A x \in S \ {r} : f[x] = g[x]
  BY <1>1
<1>4. Total(g) = Total(f) + (g[r] - f[r])
  BY <1>2, <1>3, TotalMove
<1>5. Total(f) \in Nat /\ Total(g) \in Nat
  BY <1>2, TotalNat
<1> QED
  BY <1>2, <1>4, <1>5

\* A function that adds up what another one does.
LEMMA SumUnique ==
    ASSUME NEW S, IsFiniteSet(S), NEW f \in [S -> Int], NEW F, NEW G, Sums(F, f, S), Sums(G, f, S)
    PROVE  F[S] = G[S]
<1> DEFINE T == {s \in SUBSET S : F[s] = G[s]}
<1>1. {} \in T
  BY DEF Sums
<1>2. ASSUME NEW s \in SUBSET S, s # {}, s \ {First(s)} \in T PROVE s \in T
  BY <1>2 DEF Sums
<1>3. \A s \in SUBSET S : s \in T
  <2> HIDE DEF T
  <2> QED
    BY <1>1, <1>2, SetInduct
<1> QED
  BY <1>3

\* What the property adds up is the sum of a function with the same values.
LEMMA ChargedTotal ==
    ASSUME IsFiniteSet(Asked), NEW f \in [Asked -> Int], \A r \in Asked : f[r] = Charged(r)
    PROVE  MapThenSumSet(Charged, Asked) = Total(f)
<1> DEFINE Folded(sum) == sum = [s \in SUBSET Asked |-> IF s = {} THEN 0 ELSE Charged(First(s)) + sum[s \ {First(s)}]]
<1>1. PICK F \in [SUBSET Asked -> Int] : Sums(F, f, Asked) /\ Total(f) = F[Asked]
  BY TotalIs
<1>2. \A s \in SUBSET Asked : s # {} => f[First(s)] = Charged(First(s))
  BY DEF First
<1>3. Folded(F)
  BY <1>1, <1>2 DEF Sums
<1>4. PICK sum : sum = CHOOSE g : Folded(g)
  OBVIOUS
<1>5. MapThenSumSet(Charged, Asked) = sum[Asked]
  BY <1>4 DEF MapThenSumSet, MapThenFoldSet, First
<1>6. Folded(sum)
  <2> HIDE DEF Folded
  <2> QED
    BY <1>3, <1>4
<1>7. Sums(sum, f, Asked)
  BY <1>2, <1>6 DEF Sums
<1>8. sum[Asked] = F[Asked]
  BY <1>7, <1>1, SumUnique
<1> QED
  BY <1>1, <1>5, <1>8

(***************************************************************************)
(* The ledgers of the verification route: what every request has in each   *)
(* of them follows from the step it is at (Borne), and what it leaves from *)
(* its answer (Owed, Slack).  The ledger is between the sums of what the   *)
(* requests must have there (Low) and of what they may have (High).        *)
(***************************************************************************)
Fields == {"payload", "step", "aborted", "seen", "route", "cheap", "chain", "held", "used", "kept", "found", "answer"}
Unreserved == {"new", "rate", "quota", "scope", "swarm cap", "route", "cache", "tokens"}
Working == {"dispatch", "call", "swarm", "stream", "settle tokens"}
Extracting == {"find cost", "unfind", "extract", "charge find"}
AfterUse == {"settle tokens", "settle cost", "spend", "find tokens", "charge find cost", "log"} \cup Extracting
Steps == Unreserved \cup Working \cup AfterUse \cup {"cost", "give tokens", "give cost", "over"}
Asking(q) == IF q.payload.profile = "swarm" /\ ~q.cheap THEN 5 ELSE 2

TokensBorne(q) ==
    IF q.step \in {"cost", "give tokens"} \cup Working THEN Asking(q)
    ELSE IF q.step \in {"settle cost", "spend", "find tokens"} THEN q.used
    ELSE IF q.step \in Extracting THEN q.used + 3
    ELSE IF q.step \in {"charge find cost", "log"} THEN q.used + q.found
    ELSE 0
CostBorne(q) ==
    IF q.step \in {"settle cost", "give cost"} \cup Working \/ (q.step = "give tokens" /\ q.answer # "cost") THEN Asking(q)
    ELSE IF q.step \in {"spend", "find tokens", "find cost", "unfind"} THEN q.used
    ELSE IF q.step \in {"extract", "charge find", "charge find cost"} THEN q.used + 3
    ELSE IF q.step = "log" THEN q.used + q.found
    ELSE 0
Borne(book, q) == IF book = "tokens" THEN TokensBorne(q) ELSE CostBorne(q)
Owed(q) == IF q.answer \in {"ok", "streamed"} THEN q.used + q.found ELSE 0
Slack(q) == IF q.answer = "error" THEN Asking(q) + 3 ELSE IF q.answer = "late" THEN q.used ELSE 0
Low(book, q) == IF q.step = "over" THEN Owed(q) ELSE Borne(book, q)
High(book, q) == IF q.step = "over" THEN Owed(q) + Slack(q) ELSE Borne(book, q)

Shaped(q) ==
    /\ DOMAIN q = Fields /\ q.step \in Steps
    /\ q.used \in Nat /\ q.found \in {0, 1}
Counted(q) ==
    /\ q.step \in AfterUse => q.used \in 1 .. Asking(q)
    /\ q.step = "swarm" => q.used = 1 /\ Asking(q) = 5
    /\ q.step \in {"cost", "give tokens"} \cup Working => q.held = Asking(q)
    /\ q.step \in {"charge find cost"} \cup Extracting => q.kept = 3
    /\ q.step \notin {"charge find", "charge find cost", "log", "over"} \/ q.answer = "late" => q.found = 0
Replying(q) ==
    /\ q.step \in {"give tokens", "give cost"} => q.answer \in {"cost", "late", "failed", "cut"}
    /\ q.step = "give cost" => q.answer # "cost"
    /\ q.step \notin {"give tokens", "give cost", "over", "charge find", "charge find cost"} => q.answer \in {"none", "stream"}
    /\ q.step \in {"charge find", "charge find cost"} => q.answer \in {"none", "stream", "late"}
    /\ q.step = "stream" \/ q.answer = "stream" => q.payload.stream
Sound(q) == Shaped(q) /\ Counted(q) /\ Replying(q)

\* On its way, or over after having been: not turned away for its nonce.
Active(q) == q.step # "new" /\ ~(q.step = "over" /\ q.answer = "replayed")
\* A request that has read an absent row is about to write it, and nobody has in between.
SeenWell == \A r \in Asked : request[r].seen # None =>
    request[r].step = "over" \/ (request[r].seen = 0 /\ request[r].step \in Books /\ ledger[request[r].step] = None)
\* Of the requests with one nonce only one gets past the first door.
OneByOne ==
    \A r, t \in Asked :
        /\ request[r].payload.nonce = request[t].payload.nonce
        /\ Active(request[r]) => request[r].payload.nonce \in nonces
        /\ Active(request[r]) /\ Active(request[t]) => r = t
RowsWell == (\A book \in Books : ledger[book] # None) \/ OneByOne
\* A store that may fail is not asked for streams: after one it gives a reservation back twice.
StoreWell ==
    /\ odds \in [{"provider", "abort", "store", "time", "review"} -> Nat]
    /\ odds.store = 0 \/ \A r \in Asked : ~request[r].payload.stream
BooksWell ==
    /\ DOMAIN request = Asked /\ \A r \in Asked : Sound(request[r])
    /\ ledger \in [Books -> Nat \cup {None}]

LowOf(book) == [r \in Asked |-> Low(book, request[r])]
HighOf(book) == [r \in Asked |-> High(book, request[r])]
SumsWell == \A book \in Books : Total(LowOf(book)) <= Amount(book) /\ Amount(book) <= Total(HighOf(book))

LedgerInv == BooksWell /\ SumsWell /\ SeenWell /\ RowsWell /\ StoreWell

\* What a request has in a ledger is a number, and what it must have no more than what it may have.
LEMMA Amounts ==
    ASSUME NEW q, Sound(q), NEW book \in Books
    PROVE  /\ Low(book, q) \in Nat /\ High(book, q) \in Nat /\ Low(book, q) <= High(book, q)
           /\ Borne(book, q) \in Nat
<1>1. Asking(q) \in Nat
  BY DEF Asking
<1>2. q.used \in Nat /\ q.found \in {0, 1}
  BY Zenon DEF Sound, Shaped
<1>7. q.used + 3 \in Nat /\ q.used + q.found \in Nat /\ q.used \in Nat /\ 0 \in Nat
  BY <1>2
<1>3. TokensBorne(q) \in Nat
  BY <1>1, <1>7, Zenon DEF TokensBorne
<1>4. CostBorne(q) \in Nat
  BY <1>1, <1>7, Zenon DEF CostBorne
<1>5. Borne(book, q) \in Nat
  BY <1>3, <1>4 DEF Borne
<1>6. Owed(q) \in Nat /\ Slack(q) \in Nat
  BY <1>1, <1>2 DEF Owed, Slack
<1> QED
  BY <1>5, <1>6 DEF Low, High

LEMMA LedgerTypes ==
    ASSUME BooksWell, NEW book \in Books
    PROVE  /\ LowOf(book) \in [Asked -> Nat] /\ HighOf(book) \in [Asked -> Nat]
           /\ Amount(book) \in Nat
BY Amounts DEF BooksWell, LowOf, HighOf, Amount, Books

\* What a request has in a ledger is in it.
LEMMA InTheBook ==
    ASSUME BooksWell, SumsWell, NEW r \in Asked, NEW book \in Books, request[r].step # "over"
    PROVE  Borne(book, request[r]) <= Amount(book) /\ Borne(book, request[r]) \in Nat /\ Amount(book) \in Nat
<1>1. LowOf(book) \in [Asked -> Nat] /\ Amount(book) \in Nat
  BY LedgerTypes
<1>2. LowOf(book)[r] <= Total(LowOf(book)) /\ Total(LowOf(book)) \in Nat
  BY <1>1, TotalCovers, TotalNat, RequestAssumption
<1>3. LowOf(book)[r] = Borne(book, request[r])
  BY DEF LowOf, Low
<1>4. LowOf(book)[r] \in Nat
  BY <1>1
<1> QED
  BY <1>1, <1>2, <1>3, <1>4 DEF SumsWell

\* What a request's step does to one ledger is what the step does to its part of it.
Fair(was, q, book, d) == Low(book, q) <= Low(book, was) + d /\ High(book, was) + d <= High(book, q)

Takes(was, q, book, d) == \A b \in Books : Fair(was, q, b, IF b = book THEN d ELSE 0)

\* A request that moves changes the sums as it changes the ledgers.
LEMMA SumsKept ==
    ASSUME BooksWell, SumsWell, NEW r \in Asked, NEW q, Put(r, q), Sound(q),
           ledger' \in [Books -> Nat \cup {None}],
           \A book \in Books : \E d \in Int : Amount(book)' = Amount(book) + d /\ Fair(request[r], q, book, d)
    PROVE  BooksWell' /\ SumsWell'
<1>1. DOMAIN request' = Asked /\ request'[r] = q /\ \A t \in Asked \ {r} : request'[t] = request[t]
  BY DEF BooksWell, Put
<1>2. BooksWell'
  BY <1>1 DEF BooksWell
<1>3. ASSUME NEW book \in Books
      PROVE  Total(LowOf(book)') <= Amount(book)' /\ Amount(book)' <= Total(HighOf(book)')
  <2>1. PICK low, low2, high, high2 : low = LowOf(book) /\ low2 = LowOf(book)' /\ high = HighOf(book) /\ high2 = HighOf(book)'
    OBVIOUS
  <2>2. low \in [Asked -> Nat] /\ high \in [Asked -> Nat] /\ Amount(book) \in Nat
    BY <2>1, LedgerTypes
  <2>3. low2 = [t \in Asked |-> Low(book, request'[t])] /\ high2 = [t \in Asked |-> High(book, request'[t])]
    BY <2>1 DEF LowOf, HighOf, Low, High, Borne, TokensBorne, CostBorne, Asking, Owed, Slack
  <2>4. \A t \in Asked : Sound(request'[t])
    BY <1>2 DEF BooksWell, Sound, Asking
  <2>5. low2 \in [Asked -> Nat] /\ high2 \in [Asked -> Nat]
    BY <2>3, <2>4, Amounts
  <2>6. \A t \in Asked \ {r} : low[t] = low2[t] /\ high[t] = high2[t]
    BY <1>1, <2>1, <2>3 DEF LowOf, HighOf
  <2>7. low2[r] = Low(book, q) /\ high2[r] = High(book, q) /\ low[r] = Low(book, request[r]) /\ high[r] = High(book, request[r])
    BY <1>1, <2>1, <2>3 DEF LowOf, HighOf
  <2>8. /\ low \in [Asked -> Int] /\ high \in [Asked -> Int] /\ low2 \in [Asked -> Int] /\ high2 \in [Asked -> Int]
        /\ low[r] \in Nat /\ high[r] \in Nat /\ low2[r] \in Nat /\ high2[r] \in Nat
    BY <2>2, <2>5
  <2>9. Total(low2) = Total(low) + (low2[r] - low[r])
    BY <2>6, <2>8, TotalMove, RequestAssumption
  <2>10. Total(high2) = Total(high) + (high2[r] - high[r])
    BY <2>6, <2>8, TotalMove, RequestAssumption
  <2>11. Total(low) \in Nat /\ Total(high) \in Nat
    BY <2>2, TotalNat, RequestAssumption
  <2>12. PICK d \in Int : Amount(book)' = Amount(book) + d /\ Fair(request[r], q, book, d)
    OBVIOUS
  <2>13. Total(low) <= Amount(book) /\ Amount(book) <= Total(high)
    BY <2>1 DEF SumsWell
  <2>14. low2[r] <= low[r] + d /\ high[r] + d <= high2[r]
    BY <2>12, <2>7 DEF Fair
  <2>15. Total(low2) <= Amount(book)' /\ Amount(book)' <= Total(high2)
    BY <2>2, <2>8, <2>9, <2>10, <2>11, <2>12, <2>13, <2>14
  <2> QED
    BY <2>1, <2>15
<1> QED
  BY <1>2, <1>3 DEF SumsWell

\* A step of a request that is on its way, with what it does to the ledgers.
Booked(book, d) == Amount(book) + d >= 0 /\ ledger' = [ledger EXCEPT ![book] = Amount(book) + d]
Unread(q) == q.seen # None => q.step = "over" \/ (q.seen = 0 /\ q.step \in Books /\ ledger[q.step] = None)
Moves(r, q) ==
    /\ Put(r, q) /\ Sound(q) /\ q.payload = request[r].payload /\ Active(request[r])
    /\ \/ UNCHANGED ledger /\ Unread(q) /\ \A book \in Books : Fair(request[r], q, book, 0)
       \/ /\ q.seen = None
          /\ \E book \in Books : \E d \in Int :
                Booked(book, d) /\ Takes(request[r], q, book, d)

\* Such a step keeps what is said of the ledgers.
LEMMA MovesKeep ==
    ASSUME BooksWell, SumsWell, SeenWell, RowsWell, NEW r \in Asked, NEW q, Moves(r, q), nonces' = nonces
    PROVE  BooksWell' /\ SumsWell' /\ SeenWell' /\ RowsWell' /\ \A t \in Asked : request'[t].payload = request[t].payload
<1>1. DOMAIN request' = Asked /\ request'[r] = q /\ \A t \in Asked \ {r} : request'[t] = request[t]
  BY DEF BooksWell, Moves, Put
<1>2. Put(r, q) /\ Sound(q) /\ q.payload = request[r].payload /\ Active(request[r])
  BY DEF Moves
<1>3. /\ ledger' \in [Books -> Nat \cup {None}]
      /\ \A book \in Books : ledger[book] # None => ledger'[book] # None
      /\ \A book \in Books : \E d \in Int : Amount(book)' = Amount(book) + d /\ Fair(request[r], q, book, d)
  <2>0. \A book \in Books : Amount(book) \in Nat
    BY LedgerTypes
  <2>1. CASE UNCHANGED ledger /\ \A book \in Books : Fair(request[r], q, book, 0)
    <3>1. \A book \in Books : Amount(book)' = Amount(book) + 0
      BY <2>0, <2>1 DEF Amount
    <3> QED
      BY <2>1, <3>1 DEF BooksWell
  <2>2. ASSUME NEW book \in Books, NEW d \in Int, Booked(book, d), Takes(request[r], q, book, d)
        PROVE  /\ ledger' \in [Books -> Nat \cup {None}]
               /\ \A b \in Books : ledger[b] # None => ledger'[b] # None
               /\ \A b \in Books : \E e \in Int : Amount(b)' = Amount(b) + e /\ Fair(request[r], q, b, e)
    <3>1. ledger' \in [Books -> Nat \cup {None}] /\ ledger'[book] = Amount(book) + d /\ Amount(book) + d \in Nat
          /\ \A b \in Books \ {book} : ledger'[b] = ledger[b]
      BY <2>0, <2>2 DEF BooksWell, Booked
    <3>2. Amount(book)' = Amount(book) + d
      BY <3>1, RequestAssumption DEF Amount
    <3>3. \A b \in Books \ {book} : Amount(b)' = Amount(b) + 0
      BY <2>0, <3>1 DEF Amount
    <3>4. \A b \in Books : ledger[b] # None => ledger'[b] # None
      BY <3>1, RequestAssumption
    <3> QED
      BY <2>2, <3>1, <3>2, <3>3, <3>4 DEF Takes
  <2> QED
    BY <2>1, <2>2 DEF Moves
<1>4. BooksWell' /\ SumsWell'
  BY <1>2, <1>3, SumsKept
<1>5. RowsWell'
  BY <1>1, <1>2, <1>3 DEF RowsWell, OneByOne, Active
<1>6. SeenWell'
  <2>1. (Unread(q) /\ UNCHANGED ledger) \/ q.seen = None
    BY DEF Moves
  <2>2. q.seen # None => q.step = "over" \/ (q.seen = 0 /\ q.step \in Books /\ ledger'[q.step] = None)
    BY <2>1 DEF Unread
  <2>3. ASSUME NEW t \in Asked \ {r}, request[t].seen # None, request[t].step # "over"
        PROVE  request[t].seen = 0 /\ request[t].step \in Books /\ ledger'[request[t].step] = None
    <3>1. request[t].seen = 0 /\ request[t].step \in Books /\ ledger[request[t].step] = None
      BY <2>3 DEF SeenWell
    <3>2. Active(request[t])
      BY <3>1 DEF Active, Books
    <3>3. FALSE
      BY <1>2, <3>1, <3>2 DEF RowsWell, OneByOne
    <3> QED
      BY <3>3
  <2> QED
    BY <1>1, <2>2, <2>3 DEF SeenWell
<1> QED
  BY <1>1, <1>2, <1>4, <1>5, <1>6

LedgerWell == BooksWell /\ SumsWell /\ SeenWell /\ RowsWell

\* What a request is before it has reserved anything.
LEMMA Unreserving ==
    ASSUME LedgerWell, NEW r \in Asked, NEW was, was = request[r], was.step \in Unreserved \ {"new", "tokens"},
           NEW q, Put(r, q), UNCHANGED ledger,
           DOMAIN q = Fields, q.payload = was.payload, q.used = was.used, q.found = was.found, q.seen = was.seen,
           \/ q.step \in Unreserved /\ q.answer = was.answer
           \/ q.step = "over" /\ q.answer \notin {"ok", "streamed", "late", "error", "stream"}
    PROVE  Moves(r, q)
<1>1. Sound(was) /\ Unread(was)
  BY DEF LedgerWell, BooksWell, SeenWell, Unread
<1>2. was.seen = None
  BY <1>1 DEF Unread, Books, Unreserved
<1>3. was.answer \in {"none", "stream"} /\ was.found = 0 /\ was.used \in Nat /\ (was.answer = "stream" => was.payload.stream)
  BY <1>1 DEF Sound, Shaped, Counted, Replying, Unreserved
<1>8. /\ q.step \in Steps /\ q.step \notin AfterUse /\ q.step # "swarm" /\ q.step \notin {"cost", "give tokens"} \cup Working
      /\ q.step \notin {"charge find cost"} \cup Extracting /\ q.step \notin {"give tokens", "give cost"}
      /\ q.step # "give cost" /\ q.step \notin {"charge find", "charge find cost"} /\ q.step # "stream"
  BY DEF Unreserved, Steps, AfterUse, Working, Extracting
<1>9. q.answer # "stream" \/ q.payload.stream
  <2>1. CASE q.step \in Unreserved /\ q.answer = was.answer
    BY <1>3, <2>1
  <2>2. CASE q.step = "over" /\ q.answer # "stream"
    BY <1>3, <2>2
  <2> QED
    BY <2>1, <2>2
<1>10. q.step \notin {"give tokens", "give cost", "over", "charge find", "charge find cost"} => q.answer \in {"none", "stream"}
  BY <1>3
<1>4. Sound(q)
  BY <1>3, <1>8, <1>9, <1>10 DEF Sound, Shaped, Counted, Replying
<1>5. \A book \in Books : Low(book, was) = 0 /\ High(book, was) = 0
  BY DEF Low, High, Borne, TokensBorne, CostBorne, Unreserved, Working, Extracting
<1>6. \A book \in Books : Low(book, q) = 0 /\ High(book, q) = 0
  <2>1. CASE q.step \in Unreserved
    BY <2>1 DEF Low, High, Borne, TokensBorne, CostBorne, Unreserved, Working, Extracting
  <2>2. CASE q.step = "over" /\ q.answer \notin {"ok", "streamed", "late", "error"}
    BY <2>2 DEF Low, High, Owed, Slack
  <2> QED
    BY <2>1, <2>2
<1>7. Active(was)
  BY DEF Active, Unreserved
<1> QED
  BY <1>2, <1>4, <1>5, <1>6, <1>7 DEF Moves, Unread, Fair

\* The doors in front of the ledgers.
LEMMA DoorsMove ==
    ASSUME LedgerWell, NEW r \in Asked,
           CheckRate(r) \/ CheckQuota(r) \/ Authorize(r) \/ CheckSwarm(r) \/ ChooseRoute(r) \/ ReadCache(r)
    PROVE  \E q : Moves(r, q)
<1>1. PICK was : was = request[r]
  OBVIOUS
<1>2. Sound(was) /\ was.step \in Unreserved \ {"new", "tokens"} /\ DOMAIN was = Fields /\ UNCHANGED ledger
  BY <1>1 DEF LedgerWell, BooksWell, Sound, Shaped, CheckRate, CheckQuota, Authorize, CheckSwarm, ChooseRoute, ReadCache, At, Unreserved,
              Window, Shared
<1> DEFINE Refusals == {"user", "messages", "swarm", "scope", "cached"}
<1>3. ASSUME NEW w \in Refusals, NEW step \in Unreserved, Answer(r, w) \/ Go(r, step)
      PROVE  \E q : Moves(r, q)
  <2>1. CASE Answer(r, w)
    <3>1. PICK q : q = [was EXCEPT !.step = "over", !.answer = w]
      OBVIOUS
    <3>2. Put(r, q) /\ DOMAIN q = Fields /\ q.payload = was.payload /\ q.used = was.used /\ q.found = was.found /\ q.seen = was.seen
          /\ q.step = "over" /\ q.answer = w
      BY <1>1, <1>2, <2>1, <3>1 DEF Answer, Fields
    <3>3. w \notin {"ok", "streamed", "late", "error", "stream"}
      OBVIOUS
    <3> QED
      BY <1>1, <1>2, <3>2, <3>3, Unreserving
  <2>2. CASE Go(r, step)
    <3>1. PICK q : q = [was EXCEPT !.step = step]
      OBVIOUS
    <3>2. Put(r, q) /\ DOMAIN q = Fields /\ q.payload = was.payload /\ q.used = was.used /\ q.found = was.found /\ q.seen = was.seen
          /\ q.step = step /\ q.answer = was.answer
      BY <1>1, <1>2, <2>2, <3>1 DEF Go, Fields
    <3> QED
      BY <1>1, <1>2, <3>2, Unreserving
  <2> QED
    BY <1>3, <2>1, <2>2
<1>4. CASE CheckRate(r) \/ CheckQuota(r) \/ CheckSwarm(r)
  <2>1. \E w \in Refusals, step \in Unreserved : Answer(r, w) \/ Go(r, step)
    BY <1>4 DEF CheckRate, CheckQuota, CheckSwarm, Window, Unreserved
  <2> QED
    BY <2>1, <1>3
<1>5. CASE Authorize(r) \/ ReadCache(r)
  <2>1. \E w \in Refusals, step \in Unreserved : Answer(r, w) \/ Go(r, step)
    BY <1>5 DEF Authorize, ReadCache, Unreserved
  <2> QED
    BY <2>1, <1>3
<1>6. CASE ChooseRoute(r)
  <2>1. PICK cheap, primary, chain : Put(r, [was EXCEPT !.cheap = cheap, !.route = primary, !.chain = chain, !.step = "cache"])
    BY <1>1, <1>6 DEF ChooseRoute
  <2>2. PICK q : q = [was EXCEPT !.cheap = cheap, !.route = primary, !.chain = chain, !.step = "cache"]
    OBVIOUS
  <2>3. Put(r, q) /\ DOMAIN q = Fields /\ q.payload = was.payload /\ q.used = was.used /\ q.found = was.found /\ q.seen = was.seen
        /\ q.step = "cache" /\ q.answer = was.answer
    BY <1>2, <2>1, <2>2 DEF Fields
  <2>4. q.step \in Unreserved
    BY <2>3 DEF Unreserved
  <2> QED
    BY <1>1, <1>2, <2>3, <2>4, Unreserving
<1> QED
  BY <1>4, <1>5, <1>6

\* A reservation is counted from what the row holds, or from nothing where there is none.
Forgetting(q) == [q EXCEPT !.seen = None]
LEMMA DecideMoves ==
    ASSUME LedgerWell, NEW r \in Asked, NEW was, was = request[r], was.step \notin {"new", "over"}, NEW book \in Books,
           NEW read, read = Amount(book), NEW amount \in Nat, NEW yes, NEW no, Decide(r, book, read, amount, yes, no),
           NEW granted, granted = Forgetting(yes), NEW denied, denied = Forgetting(no),
           Sound(granted), granted.payload = was.payload, granted.seen = None,
           Sound(denied), denied.payload = was.payload, denied.seen = None,
           Takes(was, granted, book, amount), Takes(was, denied, book, 0)
    PROVE  \E q : Moves(r, q)
<1>1. Amount(book) \in Nat
  BY LedgerTypes DEF LedgerWell
<1>2. Active(was)
  BY DEF Active
<1>3. CASE Fits(book, read, amount)
  <2>1. Put(r, granted) /\ ledger' = [ledger EXCEPT ![book] = Amount(book) + amount]
    BY <1>3 DEF Decide, Reserved, Forgetting
  <2>2. Booked(book, amount) /\ amount \in Int
    BY <1>1, <2>1 DEF Booked
  <2> QED
    BY <1>2, <2>1, <2>2 DEF Moves
<1>4. CASE ~Fits(book, read, amount)
  <2>1. Put(r, denied) /\ UNCHANGED ledger
    BY <1>4 DEF Decide, Forgetting
  <2> QED
    BY <1>2, <2>1 DEF Moves, Unread, Takes
<1> QED
  BY <1>3, <1>4

\* On a row the reservation is one step; where there is no row, what was read is still so when it is written.
LEMMA ReserveMoves ==
    ASSUME LedgerWell, NEW r \in Asked, NEW was, was = request[r], NEW book \in Books, was.step = book,
           NEW amount \in Nat, NEW yes, NEW no, Reserve(r, book, amount, yes, no),
           NEW granted, granted = Forgetting(yes), NEW denied, denied = Forgetting(no),
           Sound(granted), granted.payload = was.payload, granted.seen = None,
           Sound(denied), denied.payload = was.payload, denied.seen = None,
           Takes(was, granted, book, amount), Takes(was, denied, book, 0)
    PROVE  \E q : Moves(r, q)
<1>1. Sound(was) /\ Unread(was) /\ DOMAIN was = Fields
  BY DEF LedgerWell, BooksWell, SeenWell, Unread, Sound, Shaped
<1>2. Amount(book) \in Nat
  BY LedgerTypes DEF LedgerWell
<1>3. Active(was)
  BY DEF Active, Books
<1>4. CASE ~Locks(book) /\ request[r].seen = None /\ Put(r, [request[r] EXCEPT !.seen = 0]) /\ UNCHANGED ledger
  <2>1. PICK q : q = [was EXCEPT !.seen = 0]
    OBVIOUS
  <2>2. DOMAIN q = Fields /\ q.seen = 0 /\ \A f \in Fields \ {"seen"} : q[f] = was[f]
    BY <1>1, <2>1 DEF Fields
  <2>3. /\ q.step = was.step /\ q.payload = was.payload /\ q.used = was.used /\ q.found = was.found /\ q.held = was.held
        /\ q.kept = was.kept /\ q.cheap = was.cheap /\ q.answer = was.answer
    BY <2>2 DEF Fields
  <2>4. Sound(q)
    <3>1. Asking(q) = Asking(was)
      BY <2>3 DEF Asking
    <3>2. Shaped(q)
      BY <1>1, <2>2, <2>3 DEF Sound, Shaped
    <3>3. Counted(q)
      BY <1>1, <2>3, <3>1 DEF Sound, Counted
    <3>4. Replying(q)
      BY <1>1, <2>3 DEF Sound, Replying
    <3> QED
      BY <3>2, <3>3, <3>4 DEF Sound
  <2>5. \A b \in Books : Low(b, q) = Low(b, was) /\ High(b, q) = High(b, was)
    BY <2>3 DEF Low, High, Borne, TokensBorne, CostBorne, Owed, Slack, Asking
  <2>6. \A b \in Books : Low(b, was) \in Nat /\ High(b, was) \in Nat
    BY <1>1, Amounts
  <2>7. \A b \in Books : Fair(was, q, b, 0)
    BY <2>5, <2>6 DEF Fair
  <2>8. Unread(q)
    BY <1>4, <2>2, <2>3 DEF Unread, Locks
  <2> QED
    BY <1>3, <1>4, <2>1, <2>3, <2>4, <2>7, <2>8 DEF Moves
<1>5. ASSUME NEW read, read = Amount(book), Decide(r, book, read, amount, yes, no)
      PROVE  \E q : Moves(r, q)
  <2>1. was.step \notin {"new", "over"}
    BY DEF Books
  <2> QED
    BY <1>5, <2>1, DecideMoves
<1>6. CASE request[r].seen # None /\ Decide(r, book, request[r].seen, amount, yes, no)
  <2>1. request[r].seen = 0 /\ ledger[book] = None
    BY <1>1, <1>6 DEF Unread, Books
  <2> QED
    BY <1>5, <1>6, <2>1 DEF Amount
<1>7. CASE Locks(book) /\ request[r].seen = None /\ Decide(r, book, ledger[book], amount, yes, no)
  BY <1>5, <1>7 DEF Amount, Locks
<1> QED
  BY <1>4, <1>6, <1>7 DEF Reserve

\* A step of a request that leaves the ledgers alone.
Passes(was, q) ==
    /\ Sound(q) /\ q.payload = was.payload /\ q.seen = was.seen
    /\ q.step \in {was.step, "over"} \/ was.step \notin Books
    /\ \A book \in Books : Low(book, q) <= Low(book, was) /\ High(book, was) <= High(book, q)

LEMMA PassingMoves ==
    ASSUME LedgerWell, NEW r \in Asked, NEW was, was = request[r], was.step \notin {"new", "over"},
           NEW q, Put(r, q), UNCHANGED ledger, Passes(was, q)
    PROVE  Moves(r, q)
<1>1. Sound(was) /\ Unread(was)
  BY DEF LedgerWell, BooksWell, SeenWell, Unread
<1>2. Active(was)
  BY DEF Active
<1>3. Unread(q)
  BY <1>1 DEF Unread, Passes
<1>4. \A book \in Books : Low(book, was) \in Nat /\ High(book, was) \in Nat
  BY <1>1, Amounts
<1>5. \A book \in Books : Fair(was, q, book, 0)
  BY <1>4 DEF Passes, Fair
<1> QED
  BY <1>2, <1>3, <1>5 DEF Moves, Passes

\* A step of a request that corrects one ledger, which holds at least what the request has in it.
LEMMA ReconciledMoves ==
    ASSUME LedgerWell, NEW r \in Asked, NEW was, was = request[r], was.step \notin Books \cup {"new", "over"},
           NEW q, Put(r, q), NEW book \in Books, NEW d \in Int, Reconciled(book, d),
           Sound(q), q.payload = was.payload, q.seen = was.seen,
           Takes(was, q, book, d)
    PROVE  Moves(r, q)
<1>1. Unread(was)
  BY DEF LedgerWell, SeenWell, Unread
<1>2. Active(was) /\ q.seen = None
  BY <1>1 DEF Active, Unread
<1>3. Borne(book, was) <= Amount(book) /\ Borne(book, was) \in Nat /\ Amount(book) \in Nat
  BY InTheBook DEF LedgerWell
<1>4. Low(book, q) <= Low(book, was) + d /\ Low(book, q) \in Nat
  BY Amounts DEF Fair, Takes
<1>5. Low(book, was) = Borne(book, was)
  BY DEF Low
<1>6. Amount(book) + d >= 0
  BY <1>3, <1>4, <1>5
<1>8. ~(Amount(book) + d < 0)
  BY <1>3, <1>6
<1>7. Booked(book, d)
  BY <1>6, <1>8, Zenon DEF Booked, Reconciled
<1> QED
  BY <1>2, <1>7 DEF Moves

\* What a request is whose reservation is given back.
LEMMA GivesBack ==
    ASSUME NEW was, Sound(was), was.step \in {"call", "swarm", "stream"}, NEW what \in {"late", "failed", "cut"},
           NEW q, q = GiveBack(was, what)
    PROVE  Passes(was, q)
<1>1. /\ DOMAIN q = Fields /\ q.step = "give tokens" /\ q.answer = what /\ q.used = 0 /\ q.found = was.found /\ q.held = was.held
      /\ q.kept = was.kept /\ q.payload = was.payload /\ q.seen = was.seen /\ q.cheap = was.cheap
  BY DEF GiveBack, Sound, Shaped, Fields
<1>2. Asking(q) = Asking(was)
  BY <1>1 DEF Asking
<1>3. was.found = 0 /\ was.held = Asking(was)
  BY DEF Sound, Counted, Working
<1>10. q.step \in Steps /\ q.found \in {0, 1} /\ q.used \in Nat
  <2>1. q.step \in Steps
    BY <1>1 DEF Steps
  <2>2. q.found \in {0, 1}
    BY <1>1, <1>3
  <2>3. q.used \in Nat
    <3>1. 0 \in Nat
      OBVIOUS
    <3> QED
      BY <1>1, <3>1, Zenon
  <2> QED
    BY <2>1, <2>2, <2>3
<1>4. Shaped(q)
  BY <1>1, <1>10 DEF Shaped
<1>5. Counted(q)
  BY <1>1, <1>2, <1>3 DEF Counted, AfterUse, Extracting, Working
<1>6. Replying(q)
  BY <1>1 DEF Replying
<1>7. \A book \in Books : Low(book, q) = Asking(was) /\ High(book, q) = Asking(was)
  BY <1>1, <1>2 DEF Low, High, Borne, TokensBorne, CostBorne
<1>8. \A book \in Books : Low(book, was) = Asking(was) /\ High(book, was) = Asking(was)
  BY DEF Low, High, Borne, TokensBorne, CostBorne, Working
<1>9. Asking(was) \in Nat
  BY DEF Asking
<1> QED
  <2>1. Sound(q)
    BY <1>4, <1>5, <1>6 DEF Sound
  <2>2. \A book \in Books : Low(book, q) <= Low(book, was) /\ High(book, was) <= High(book, q)
    BY <1>7, <1>8, <1>9
  <2>3. was.step \notin Books
    BY DEF Books
  <2> QED
    BY <1>1, <2>1, <2>2, <2>3 DEF Passes

\* The reservations.
LEMMA ReservationsMove ==
    ASSUME LedgerWell, NEW r \in Asked, ReserveTokens(r) \/ ReserveCost(r)
    PROVE  \E q : Moves(r, q)
<1>1. PICK was : was = request[r]
  OBVIOUS
<1>2. Sound(was) /\ Shaped(was) /\ Counted(was) /\ Replying(was) /\ Estimate(r) = Asking(was) /\ Asking(was) \in Nat
  BY <1>1 DEF LedgerWell, BooksWell, Sound, Estimate, HasGate, Gated, Asking
<1>3. CASE ReserveTokens(r)
  <2>1. was.step = "tokens" /\ was.found = 0 /\ was.answer \in {"none", "stream"}
    BY <1>1, <1>2, <1>3 DEF ReserveTokens, At, Counted, Replying
  <2>2. PICK yes, no : yes = [was EXCEPT !.held = Asking(was), !.step = "cost"] /\ no = Refused(was, "tokens")
    OBVIOUS
  <2>3. PICK granted, denied : granted = Forgetting(yes) /\ denied = Forgetting(no)
    OBVIOUS
  <2>4. /\ DOMAIN granted = Fields /\ granted.step = "cost" /\ granted.held = Asking(was) /\ granted.used = was.used
        /\ granted.found = was.found /\ granted.payload = was.payload /\ granted.cheap = was.cheap /\ granted.answer = was.answer
        /\ granted.seen = None
    BY <1>2, <2>2, <2>3 DEF Shaped, Fields, Forgetting
  <2>5. /\ DOMAIN denied = Fields /\ denied.step = "over" /\ denied.used = was.used /\ denied.found = was.found
        /\ denied.payload = was.payload /\ denied.answer = "tokens" /\ denied.seen = None
    BY <1>2, <2>2, <2>3 DEF Shaped, Fields, Forgetting, Refused
  <2>6. Asking(granted) = Asking(was)
    BY <2>4 DEF Asking
  <2>7. Sound(granted)
    <3>1. Shaped(granted) /\ Replying(granted)
      BY <1>2, <2>1, <2>4 DEF Shaped, Replying, Steps
    <3>2. Counted(granted)
      BY <2>1, <2>4, <2>6 DEF Counted, AfterUse, Extracting
    <3> QED
      BY <3>1, <3>2 DEF Sound
  <2>8. Sound(denied)
    BY <1>2, <2>1, <2>5 DEF Sound, Shaped, Counted, Replying, Steps, AfterUse, Extracting, Working
  <2>9. \A b \in Books : Low(b, was) = 0 /\ High(b, was) = 0 /\ Low(b, denied) = 0 /\ High(b, denied) = 0
    BY <2>1, <2>5 DEF Low, High, Borne, TokensBorne, CostBorne, Working, Extracting, Owed, Slack
  <2>10. \A b \in Books : /\ Low(b, granted) = (IF b = "tokens" THEN Asking(was) ELSE 0)
                          /\ High(b, granted) = (IF b = "tokens" THEN Asking(was) ELSE 0)
    BY <2>4, <2>6 DEF Low, High, Borne, TokensBorne, CostBorne, Working, Books
  <2>11. Takes(was, granted, "tokens", Asking(was)) /\ Takes(was, denied, "tokens", 0)
    BY <1>2, <2>9, <2>10 DEF Takes, Fair
  <2>12. Reserve(r, "tokens", Asking(was), yes, no)
    BY <1>1, <1>2, <1>3, <2>2 DEF ReserveTokens
  <2> QED
    BY <1>1, <1>2, <2>1, <2>3, <2>4, <2>5, <2>7, <2>8, <2>11, <2>12, ReserveMoves DEF Books
<1>4. CASE ReserveCost(r)
  <2>1. was.step = "cost" /\ was.found = 0 /\ was.answer \in {"none", "stream"} /\ was.held = Asking(was)
        /\ (was.answer = "stream" => was.payload.stream)
    BY <1>1, <1>2, <1>4 DEF ReserveCost, At, Counted, Replying
  <2>2. PICK yes, no : yes = [was EXCEPT !.step = "dispatch"] /\ no = CostRefused(was)
    OBVIOUS
  <2>3. PICK granted, denied : granted = Forgetting(yes) /\ denied = Forgetting(no)
    OBVIOUS
  <2>4. /\ DOMAIN granted = Fields /\ granted.step = "dispatch" /\ granted.held = Asking(was) /\ granted.used = was.used
        /\ granted.found = was.found /\ granted.payload = was.payload /\ granted.cheap = was.cheap /\ granted.answer = was.answer
        /\ granted.seen = None
    BY <1>2, <2>1, <2>2, <2>3 DEF Shaped, Fields, Forgetting
  <2>5. /\ DOMAIN denied = Fields /\ denied.step = "give tokens" /\ denied.used = was.used /\ denied.found = was.found
        /\ denied.held = Asking(was) /\ denied.cheap = was.cheap
        /\ denied.payload = was.payload /\ denied.answer = "cost" /\ denied.seen = None
    BY <1>2, <2>1, <2>2, <2>3 DEF Shaped, Fields, Forgetting, CostRefused
  <2>6. Asking(granted) = Asking(was) /\ Asking(denied) = Asking(was)
    BY <2>4, <2>5 DEF Asking
  <2>7. Sound(granted)
    <3>1. Shaped(granted) /\ Replying(granted)
      BY <1>2, <2>1, <2>4 DEF Shaped, Replying, Steps, Working
    <3>2. Counted(granted)
      BY <2>1, <2>4, <2>6 DEF Counted, AfterUse, Extracting
    <3> QED
      BY <3>1, <3>2 DEF Sound
  <2>8. Sound(denied)
    <3>1. Shaped(denied) /\ Replying(denied)
      BY <1>2, <2>1, <2>5 DEF Shaped, Replying, Steps
    <3>2. Counted(denied)
      BY <2>1, <2>5, <2>6 DEF Counted, AfterUse, Extracting
    <3> QED
      BY <3>1, <3>2 DEF Sound
  <2>9. \A b \in Books : /\ Low(b, was) = (IF b = "tokens" THEN Asking(was) ELSE 0)
                         /\ High(b, was) = (IF b = "tokens" THEN Asking(was) ELSE 0)
    BY <2>1 DEF Low, High, Borne, TokensBorne, CostBorne, Working, Books
  <2>13. \A b \in Books : /\ Low(b, denied) = (IF b = "tokens" THEN Asking(was) ELSE 0)
                          /\ High(b, denied) = (IF b = "tokens" THEN Asking(was) ELSE 0)
    BY <2>5, <2>6 DEF Low, High, Borne, TokensBorne, CostBorne, Working, Books
  <2>10. \A b \in Books : Low(b, granted) = Asking(was) /\ High(b, granted) = Asking(was)
    BY <2>4, <2>6 DEF Low, High, Borne, TokensBorne, CostBorne, Working, Books
  <2>11. Takes(was, granted, "cost", Asking(was)) /\ Takes(was, denied, "cost", 0)
    BY <1>2, <2>9, <2>10, <2>13 DEF Takes, Fair, Books
  <2>12. Reserve(r, "cost", Asking(was), yes, no)
    BY <1>1, <1>2, <1>4, <2>2 DEF ReserveCost
  <2> QED
    BY <1>1, <1>2, <2>1, <2>3, <2>4, <2>5, <2>7, <2>8, <2>11, <2>12, ReserveMoves DEF Books
<1> QED
  BY <1>3, <1>4

\* What a step of a request that was let in does not change.
Like(was, q) ==
    /\ DOMAIN q = Fields /\ q.payload = was.payload /\ q.seen = was.seen
    /\ q.cheap = was.cheap /\ q.held = was.held /\ q.kept = was.kept

Proceeds(was, q) ==
    /\ Like(was, q) /\ q.step \in Working
    /\ q.found = was.found /\ q.used \in Nat /\ (q.step = "settle tokens" => q.used \in 1 .. Asking(was))
    /\ q.step = "swarm" => q.used = 1 /\ Asking(was) = 5
    /\ q.answer \in {"none", "stream"} /\ (q.step = "stream" \/ q.answer = "stream" => q.payload.stream)

LEMMA WorkingPasses ==
    ASSUME NEW was, Sound(was), was.step \in Working, NEW q, Proceeds(was, q)
    PROVE  Passes(was, q)
<1>0. /\ Like(was, q) /\ q.step \in Working
      /\ q.found = was.found /\ q.used \in Nat /\ (q.step = "settle tokens" => q.used \in 1 .. Asking(was))
      /\ q.step = "swarm" => q.used = 1 /\ Asking(was) = 5
      /\ q.answer \in {"none", "stream"} /\ (q.step = "stream" \/ q.answer = "stream" => q.payload.stream)
  BY DEF Proceeds
<1>1. Asking(q) = Asking(was) /\ Asking(was) \in Nat
  BY <1>0 DEF Asking, Like
<1>2. was.found = 0 /\ was.held = Asking(was)
  BY DEF Sound, Counted, Working
<1>3. Shaped(q)
  BY <1>0, <1>2 DEF Shaped, Steps, Like
<1>4. Counted(q)
  BY <1>0, <1>1, <1>2 DEF Counted, AfterUse, Extracting, Working, Like
<1>5. Replying(q)
  BY <1>0 DEF Replying, Working
<1>6. \A book \in Books : Low(book, q) = Asking(was) /\ High(book, q) = Asking(was)
  BY <1>0, <1>1 DEF Low, High, Borne, TokensBorne, CostBorne, Working
<1>7. \A book \in Books : Low(book, was) = Asking(was) /\ High(book, was) = Asking(was)
  BY DEF Low, High, Borne, TokensBorne, CostBorne, Working
<1>8. was.step \notin Books
  BY DEF Books, Working
<1> QED
  <2>1. Sound(q)
    BY <1>3, <1>4, <1>5 DEF Sound
  <2>2. \A book \in Books : Low(book, q) <= Low(book, was) /\ High(book, was) <= High(book, q)
    <3>1. PICK n \in Nat : n = Asking(was)
      BY <1>1
    <3>2. \A book \in Books : Low(book, q) = n /\ High(book, was) = n /\ Low(book, was) = n /\ High(book, q) = n
      BY <1>6, <1>7, <3>1
    <3> QED
      BY <3>2
  <2> QED
    BY <1>0, <1>8, <2>1, <2>2 DEF Passes, Like

\* The providers.
LEMMA CallsMove ==
    ASSUME LedgerWell, NEW r \in Asked,
           Dispatch(r) \/ Skip(r) \/ CallAnswers(r) \/ CallFails(r) \/ CallGivesUp(r) \/ Swarm(r) \/ StreamEnds(r)
    PROVE  \E q : Moves(r, q)
<1>1. PICK was : was = request[r]
  OBVIOUS
<1>2. /\ Sound(was) /\ Shaped(was) /\ Counted(was) /\ Replying(was) /\ DOMAIN was = Fields /\ was.used \in Nat
      /\ was.step \in {"dispatch", "call", "swarm", "stream"} /\ UNCHANGED ledger
  BY <1>1 DEF LedgerWell, BooksWell, Sound, Shaped, Dispatch, Skip, CallAnswers, CallFails, CallGivesUp, Swarm, StreamEnds, At, Shared
<1>3. was.step \in Working /\ was.step \notin {"new", "over"} /\ was.answer \in {"none", "stream"}
      /\ (was.step = "stream" \/ was.answer = "stream" => was.payload.stream)
  BY <1>2 DEF Working, Replying
<1>12. 1 \in 1 .. Asking(was) /\ 1 \in Nat
  BY DEF Asking
<1>13. {"call", "swarm", "stream", "settle tokens"} \subseteq Working
  BY DEF Working
<1>4. ASSUME NEW q, Put(r, q), Proceeds(was, q)
      PROVE  Moves(r, q)
  BY <1>1, <1>2, <1>3, <1>4, WorkingPasses, PassingMoves
<1>5. ASSUME NEW what \in {"late", "failed", "cut"}, Put(r, GiveBack(was, what)), was.step # "dispatch"
      PROVE  \E q : Moves(r, q)
  <2>1. PICK q : q = GiveBack(was, what)
    OBVIOUS
  <2>2. Passes(was, q)
    BY <1>2, <1>5, <2>1, GivesBack
  <2> QED
    BY <1>1, <1>2, <1>3, <1>5, <2>1, <2>2, PassingMoves
<1>6. CASE Dispatch(r)
  <2>1. PICK step \in {"stream", "call"} : Go(r, step) /\ (step = "stream" => was.payload.stream)
    BY <1>1, <1>6 DEF Dispatch
  <2>2. PICK q : q = [was EXCEPT !.step = step]
    OBVIOUS
  <2>3. Like(was, q) /\ q.step = step /\ q.found = was.found /\ q.used = was.used /\ q.answer = was.answer
    BY <1>2, <2>2 DEF Like, Fields
  <2>4. Put(r, q)
    BY <1>1, <2>1, <2>2 DEF Go
  <2>5. q.step \in Working /\ q.step # "settle tokens" /\ q.step # "swarm"
    BY <2>3 DEF Working
  <2>6. Moves(r, q)
    BY <1>2, <1>3, <1>4, <1>12, <2>1, <2>3, <2>4, <2>5 DEF Like, Proceeds
  <2> QED
    BY <2>6
<1>7. CASE Skip(r) \/ CallFails(r)
  <2>1. was.step = "call" /\ Put(r, [was EXCEPT !.chain = Tail(@)])
    BY <1>1, <1>7 DEF Skip, CallFails, At
  <2>2. PICK q : q = [was EXCEPT !.chain = Tail(@)]
    OBVIOUS
  <2>3. Like(was, q) /\ q.step = "call" /\ q.found = was.found /\ q.used = was.used /\ q.answer = was.answer
    BY <1>2, <2>1, <2>2 DEF Like, Fields
  <2>4. q.step \in Working /\ q.step # "settle tokens" /\ q.step # "swarm"
    BY <2>3 DEF Working
  <2>5. Moves(r, q)
    BY <1>2, <1>3, <1>4, <1>12, <2>1, <2>2, <2>3, <2>4 DEF Like, Proceeds
  <2> QED
    BY <2>5
<1>8. CASE CallAnswers(r)
  <2>1. PICK step \in {"settle tokens", "swarm"} :
            Put(r, [was EXCEPT !.used = 1, !.step = step]) /\ (step = "swarm" => Asking(was) = 5)
    BY <1>1, <1>8 DEF CallAnswers, HasGate, Gated, Asking
  <2>2. PICK q : q = [was EXCEPT !.used = 1, !.step = step]
    OBVIOUS
  <2>3. Like(was, q) /\ q.step = step /\ q.found = was.found /\ q.used = 1 /\ q.answer = was.answer
    BY <1>2, <2>2 DEF Like, Fields
  <2>4. q.step \in Working /\ q.step # "stream"
    <3>1. q.step = step
      BY <2>3
    <3> QED
      BY <1>13, <3>1
  <2>5. Moves(r, q)
    BY <1>2, <1>3, <1>4, <1>12, <2>1, <2>2, <2>3, <2>4 DEF Like, Proceeds
  <2> QED
    BY <2>5
<1>9. CASE CallGivesUp(r)
  <2>1. Put(r, GiveBack(was, "late")) \/ Put(r, GiveBack(was, "failed"))
    BY <1>1, <1>9 DEF CallGivesUp
  <2>2. was.step # "dispatch"
    BY <1>1, <1>9 DEF CallGivesUp, At
  <2> QED
    BY <1>5, <2>1, <2>2
<1>10. CASE Swarm(r)
  <2>1. was.step = "swarm" /\ was.used = 1 /\ Asking(was) = 5
    BY <1>1, <1>2, <1>10 DEF Swarm, At, Counted
  <2>2. CASE Go(r, "settle tokens")
    <3>1. PICK q : q = [was EXCEPT !.step = "settle tokens"]
      OBVIOUS
    <3>2. Like(was, q) /\ q.step = "settle tokens" /\ q.found = was.found /\ q.used = 1 /\ q.answer = was.answer
      BY <1>2, <2>1, <3>1 DEF Like, Fields
    <3>3. q.step \in Working
      <4>1. q.step = "settle tokens"
        BY <3>2
      <4> QED
        BY <1>13, <4>1
    <3>4. Put(r, q)
      BY <1>1, <2>2, <3>1 DEF Go
    <3>5. Moves(r, q)
      BY <1>2, <1>3, <1>4, <1>12, <3>2, <3>3, <3>4 DEF Like, Proceeds
    <3> QED
      BY <3>5
  <2>3. CASE Put(r, [was EXCEPT !.used = @ + 2, !.step = "settle tokens"])
    <3>1. PICK q : q = [was EXCEPT !.used = @ + 2, !.step = "settle tokens"]
      OBVIOUS
    <3>2. Like(was, q) /\ q.step = "settle tokens" /\ q.found = was.found /\ q.used = 3 /\ q.answer = was.answer
      BY <1>2, <2>1, <3>1 DEF Like, Fields
    <3>3. q.step \in Working
      <4>1. q.step = "settle tokens"
        BY <3>2
      <4> QED
        BY <1>13, <4>1
    <3>5. 3 \in 1 .. Asking(was) /\ 3 \in Nat
      BY <2>1
    <3>4. Moves(r, q)
      BY <1>2, <1>3, <1>4, <2>3, <3>1, <3>2, <3>3, <3>5 DEF Like, Proceeds
    <3> QED
      BY <3>4
  <2>4. CASE Put(r, GiveBack(was, "failed"))
    BY <1>5, <2>1, <2>4
  <2> QED
    BY <1>1, <1>10, <2>2, <2>3, <2>4 DEF Swarm
<1>11. CASE StreamEnds(r)
  <2>1. was.step = "stream"
    BY <1>1, <1>11 DEF StreamEnds, At
  <2>2. CASE Put(r, [was EXCEPT !.used = 1, !.step = "settle tokens", !.answer = "stream"])
    <3>1. PICK q : q = [was EXCEPT !.used = 1, !.step = "settle tokens", !.answer = "stream"]
      OBVIOUS
    <3>2. Like(was, q) /\ q.step = "settle tokens" /\ q.found = was.found /\ q.used = 1 /\ q.answer = "stream"
      BY <1>2, <2>1, <3>1 DEF Like, Fields
    <3>3. q.step \in Working /\ was.payload.stream
      <4>1. q.step = "settle tokens"
        BY <3>2
      <4> QED
        BY <1>3, <1>13, <2>1, <4>1
    <3>4. Moves(r, q)
      BY <1>2, <1>3, <1>4, <1>12, <2>2, <3>1, <3>2, <3>3 DEF Like, Proceeds
    <3> QED
      BY <3>4
  <2>3. CASE Put(r, GiveBack(was, "cut"))
    BY <1>5, <2>1, <2>3
  <2> QED
    BY <1>1, <1>11, <2>2, <2>3 DEF StreamEnds
<1> QED
  BY <1>6, <1>7, <1>8, <1>9, <1>10, <1>11

\* What a request knows of itself, that is on its way.
LEMMA OnTheWay ==
    ASSUME LedgerWell, NEW r \in Asked, NEW was, was = request[r]
    PROVE  /\ Sound(was) /\ Shaped(was) /\ Counted(was) /\ Replying(was) /\ DOMAIN was = Fields
           /\ was.used \in Nat /\ was.found \in {0, 1} /\ Asking(was) \in Nat /\ Estimate(r) = Asking(was)
BY DEF LedgerWell, BooksWell, Sound, Shaped, Asking, Estimate, HasGate, Gated

\* What is given back.
LEMMA GivingMoves ==
    ASSUME LedgerWell, NEW r \in Asked, GiveTokens(r) \/ GiveCost(r)
    PROVE  \E q : Moves(r, q)
<1>1. PICK was : was = request[r]
  OBVIOUS
<1>2. /\ Sound(was) /\ Shaped(was) /\ Counted(was) /\ Replying(was) /\ DOMAIN was = Fields
      /\ was.used \in Nat /\ was.found \in {0, 1} /\ Asking(was) \in Nat /\ Estimate(r) = Asking(was)
  BY <1>1, OnTheWay
<1>3. CASE GiveTokens(r)
  <2>1. was.step = "give tokens" /\ was.held = Asking(was) /\ was.found = 0 /\ was.answer \in {"cost", "late", "failed", "cut"}
        /\ was.step \notin Books \cup {"new", "over"}
    BY <1>1, <1>2, <1>3 DEF GiveTokens, At, Counted, Replying, Books
  <2>2. PICK q : q = [was EXCEPT !.held = 0, !.step = IF was.answer = "cost" THEN "over" ELSE "give cost"]
    OBVIOUS
  <2>3. /\ DOMAIN q = Fields /\ q.payload = was.payload /\ q.seen = was.seen /\ q.cheap = was.cheap /\ q.answer = was.answer
        /\ q.used = was.used /\ q.found = was.found /\ q.step = (IF was.answer = "cost" THEN "over" ELSE "give cost")
    BY <1>2, <2>2 DEF Fields
  <2>13. PICK d \in Int : d = 0 - Asking(was)
    BY <1>2
  <2>4. Put(r, q) /\ Reconciled("tokens", d)
    BY <1>1, <1>3, <2>1, <2>2, <2>13 DEF GiveTokens
  <2>5. Asking(q) = Asking(was)
    BY <2>3 DEF Asking
  <2>6. Shaped(q)
    BY <1>2, <2>3 DEF Shaped, Steps
  <2>7. Counted(q) /\ Replying(q)
    BY <2>1, <2>3 DEF Counted, Replying, AfterUse, Extracting, Working
  <2>8. Low("tokens", was) = Asking(was) /\ High("tokens", was) = Asking(was)
    BY <2>1 DEF Low, High, Borne, TokensBorne
  <2>10. Takes(was, q, "tokens", d)
    <3>1. CASE was.answer = "cost"
      <4>1. q.step = "over" /\ q.answer = "cost"
        BY <2>3, <3>1
      <4>2. \A b \in Books : Low(b, q) = 0 /\ High(b, q) = 0
        BY <4>1 DEF Low, High, Owed, Slack
      <4>3. Low("cost", was) = 0 /\ High("cost", was) = 0
        BY <2>1, <3>1 DEF Low, High, Borne, CostBorne, Working
      <4> QED
        BY <1>2, <2>8, <2>13, <4>2, <4>3 DEF Takes, Fair, Books
    <3>2. CASE was.answer # "cost"
      <4>1. q.step = "give cost"
        BY <2>3, <3>2
      <4>2. Low("tokens", q) = 0 /\ High("tokens", q) = 0 /\ Low("cost", q) = Asking(was) /\ High("cost", q) = Asking(was)
        BY <2>5, <4>1 DEF Low, High, Borne, TokensBorne, CostBorne, Working, Extracting
      <4>3. Low("cost", was) = Asking(was) /\ High("cost", was) = Asking(was)
        BY <2>1, <3>2 DEF Low, High, Borne, CostBorne, Working
      <4> QED
        BY <1>2, <2>8, <2>13, <4>2, <4>3 DEF Takes, Fair, Books
    <3> QED
      BY <3>1, <3>2
  <2>11. Sound(q) /\ "tokens" \in Books
    BY <2>6, <2>7 DEF Sound, Books
  <2>12. Moves(r, q)
    BY <1>1, <2>1, <2>3, <2>4, <2>10, <2>11, ReconciledMoves
  <2> QED
    BY <2>12
<1>4. CASE GiveCost(r)
  <2>1. was.step = "give cost" /\ was.found = 0 /\ was.answer \in {"late", "failed", "cut"}
        /\ was.step \notin Books \cup {"new", "over"}
    BY <1>1, <1>2, <1>4 DEF GiveCost, At, Counted, Replying, Books
  <2>2. PICK q : q = [was EXCEPT !.step = "over"]
    OBVIOUS
  <2>3. /\ DOMAIN q = Fields /\ q.payload = was.payload /\ q.seen = was.seen /\ q.answer = was.answer
        /\ q.used = was.used /\ q.found = was.found /\ q.step = "over"
    BY <1>2, <2>2 DEF Fields
  <2>13. PICK d \in Int : d = 0 - Asking(was)
    BY <1>2
  <2>4. Put(r, q) /\ Reconciled("cost", d)
    BY <1>1, <1>2, <1>4, <2>2, <2>13 DEF GiveCost, Go
  <2>6. Shaped(q)
    BY <1>2, <2>3 DEF Shaped, Steps
  <2>7. Counted(q) /\ Replying(q)
    BY <2>1, <2>3 DEF Counted, Replying, AfterUse, Extracting, Working
  <2>8. Low("cost", was) = Asking(was) /\ High("cost", was) = Asking(was) /\ Low("tokens", was) = 0 /\ High("tokens", was) = 0
    BY <2>1 DEF Low, High, Borne, TokensBorne, CostBorne, Working, Extracting
  <2>14. q.step = "over" /\ q.answer \in {"late", "failed", "cut"}
    BY <2>1, <2>3
  <2>15. q.used \in Nat
    BY <1>2, <2>3
  <2>9. \A b \in Books : Low(b, q) = 0 /\ High(b, q) \in Nat
    BY <2>14, <2>15 DEF Low, High, Owed, Slack
  <2>10. Takes(was, q, "cost", d)
    BY <1>2, <2>13, <2>8, <2>9 DEF Takes, Fair, Books
  <2>11. Sound(q) /\ "cost" \in Books
    BY <2>6, <2>7 DEF Sound, Books
  <2>12. Moves(r, q)
    BY <1>1, <2>1, <2>3, <2>4, <2>10, <2>11, ReconciledMoves
  <2> QED
    BY <2>12
<1> QED
  BY <1>3, <1>4

\* What was used takes the place of what was reserved for it.
LEMMA SettlingMoves ==
    ASSUME LedgerWell, NEW r \in Asked, SettleTokens(r) \/ SettleCost(r)
    PROVE  \E q : Moves(r, q)
<1>1. PICK was : was = request[r]
  OBVIOUS
<1>2. /\ Sound(was) /\ Shaped(was) /\ Counted(was) /\ Replying(was) /\ DOMAIN was = Fields
      /\ was.used \in Nat /\ was.found \in {0, 1} /\ Asking(was) \in Nat /\ Estimate(r) = Asking(was)
  BY <1>1, OnTheWay
<1>3. CASE SettleTokens(r)
  <2>1. was.step = "settle tokens" /\ was.held = Asking(was) /\ was.found = 0 /\ was.used \in 1 .. Asking(was)
        /\ was.answer \in {"none", "stream"} /\ was.step \notin Books \cup {"new", "over"}
    BY <1>1, <1>2, <1>3 DEF SettleTokens, At, Counted, Replying, Working, AfterUse, Books
  <2>2. PICK q : q = [was EXCEPT !.step = "settle cost"]
    OBVIOUS
  <2>3. /\ DOMAIN q = Fields /\ q.payload = was.payload /\ q.seen = was.seen /\ q.cheap = was.cheap /\ q.answer = was.answer
        /\ q.used = was.used /\ q.found = was.found /\ q.step = "settle cost"
    BY <1>2, <2>2 DEF Fields
  <2>4. PICK d \in Int : d = was.used - Asking(was)
    BY <1>2
  <2>5. Put(r, q) /\ Reconciled("tokens", d)
    BY <1>1, <1>3, <2>1, <2>2, <2>4 DEF SettleTokens, Go
  <2>6. Asking(q) = Asking(was)
    BY <2>3 DEF Asking
  <2>7. Shaped(q) /\ Replying(q)
    BY <1>2, <2>1, <2>3 DEF Shaped, Replying, Steps, AfterUse
  <2>8. Counted(q)
    BY <2>1, <2>3, <2>6 DEF Counted, Extracting, Working
  <2>9. /\ Low("tokens", was) = Asking(was) /\ High("tokens", was) = Asking(was)
        /\ Low("tokens", q) = was.used /\ High("tokens", q) = was.used
        /\ Low("cost", was) = Asking(was) /\ High("cost", was) = Asking(was)
        /\ Low("cost", q) = Asking(was) /\ High("cost", q) = Asking(was)
    BY <2>1, <2>3, <2>6 DEF Low, High, Borne, TokensBorne, CostBorne, Working, Extracting
  <2>10. Takes(was, q, "tokens", d)
    BY <1>2, <2>4, <2>9 DEF Takes, Fair, Books
  <2>11. Sound(q) /\ "tokens" \in Books
    BY <2>7, <2>8 DEF Sound, Books
  <2>12. Moves(r, q)
    BY <1>1, <2>1, <2>3, <2>4, <2>5, <2>10, <2>11, ReconciledMoves
  <2> QED
    BY <2>12
<1>4. CASE SettleCost(r)
  <2>1. was.step = "settle cost" /\ was.found = 0 /\ was.used \in 1 .. Asking(was)
        /\ was.answer \in {"none", "stream"} /\ was.step \notin Books \cup {"new", "over"}
    BY <1>1, <1>2, <1>4 DEF SettleCost, At, Counted, Replying, Working, AfterUse, Books
  <2>2. PICK q : q = [was EXCEPT !.step = "spend"]
    OBVIOUS
  <2>3. /\ DOMAIN q = Fields /\ q.payload = was.payload /\ q.seen = was.seen /\ q.cheap = was.cheap /\ q.answer = was.answer
        /\ q.used = was.used /\ q.found = was.found /\ q.step = "spend"
    BY <1>2, <2>2 DEF Fields
  <2>4. PICK d \in Int : d = was.used - Asking(was)
    BY <1>2
  <2>5. Put(r, q) /\ Reconciled("cost", d)
    BY <1>1, <1>2, <1>4, <2>1, <2>2, <2>4 DEF SettleCost, Go
  <2>6. Asking(q) = Asking(was)
    BY <2>3 DEF Asking
  <2>7. Shaped(q) /\ Replying(q)
    BY <1>2, <2>1, <2>3 DEF Shaped, Replying, Steps, AfterUse
  <2>8. Counted(q)
    BY <2>1, <2>3, <2>6 DEF Counted, Extracting, Working
  <2>9. /\ Low("tokens", was) = was.used /\ High("tokens", was) = was.used /\ Low("tokens", q) = was.used /\ High("tokens", q) = was.used
        /\ Low("cost", was) = Asking(was) /\ High("cost", was) = Asking(was) /\ Low("cost", q) = was.used /\ High("cost", q) = was.used
    BY <2>1, <2>3, <2>6 DEF Low, High, Borne, TokensBorne, CostBorne, Working, Extracting
  <2>10. Takes(was, q, "cost", d)
    BY <1>2, <2>4, <2>9 DEF Takes, Fair, Books
  <2>11. Sound(q) /\ "cost" \in Books
    BY <2>7, <2>8 DEF Sound, Books
  <2>12. Moves(r, q)
    BY <1>1, <2>1, <2>3, <2>4, <2>5, <2>10, <2>11, ReconciledMoves
  <2> QED
    BY <2>12
<1> QED
  BY <1>3, <1>4

\* A step that changes where a request is, and what it found.
Turns(was, q, step) ==
    /\ DOMAIN q = Fields /\ q.payload = was.payload /\ q.seen = was.seen /\ q.cheap = was.cheap
    /\ q.used = was.used /\ q.step = step

\* What was used is added to the day's spend, a finding is extracted, the answer is sent.
LEMMA SpendingMoves ==
    ASSUME LedgerWell, NEW r \in Asked, RecordSpend(r) \/ Extract(r) \/ Log(r)
    PROVE  \E q : Moves(r, q)
<1>1. PICK was : was = request[r]
  OBVIOUS
<1>2. /\ Sound(was) /\ Shaped(was) /\ Counted(was) /\ Replying(was) /\ DOMAIN was = Fields
      /\ was.used \in Nat /\ was.found \in {0, 1} /\ Asking(was) \in Nat /\ Estimate(r) = Asking(was)
  BY <1>1, OnTheWay
<1>3. CASE RecordSpend(r)
  <2>1. was.step = "spend" /\ was.found = 0 /\ was.used \in 1 .. Asking(was)
        /\ was.answer \in {"none", "stream"} /\ (was.answer = "stream" => was.payload.stream)
    BY <1>1, <1>2, <1>3 DEF RecordSpend, At, Counted, Replying, AfterUse
  <2>2. PICK step : Go(r, step) /\ step \in {"find tokens", "log"}
    BY <1>3 DEF RecordSpend
  <2>3. PICK q : q = [was EXCEPT !.step = step]
    OBVIOUS
  <2>4. Turns(was, q, step) /\ q.found = was.found /\ q.answer = was.answer
    BY <1>2, <2>3 DEF Fields, Turns
  <2>5. Put(r, q) /\ UNCHANGED ledger
    BY <1>1, <1>3, <2>2, <2>3 DEF Go, RecordSpend
  <2>6. Asking(q) = Asking(was)
    BY <2>4 DEF Asking, Turns
  <2>7. Shaped(q) /\ Replying(q)
    BY <1>2, <2>1, <2>2, <2>4 DEF Shaped, Replying, Steps, AfterUse, Turns
  <2>8. Counted(q)
    BY <2>1, <2>2, <2>4, <2>6 DEF Counted, Extracting, Working, Turns
  <2>9. \A b \in Books : Low(b, was) = was.used /\ High(b, was) = was.used
    BY <2>1 DEF Low, High, Borne, TokensBorne, CostBorne, Working
  <2>16. was.used \in Nat /\ was.found = 0
    BY <1>2, <2>1
  <2>10. was.used + was.found = was.used
    BY <2>16
  <2>11. \A b \in Books : Low(b, q) = was.used /\ High(b, q) = was.used
    BY <2>2, <2>4, <2>10 DEF Low, High, Borne, TokensBorne, CostBorne, Working, Extracting, Turns
  <2>12. \A b \in Books : Low(b, q) <= Low(b, was) /\ High(b, was) <= High(b, q)
    BY <2>9, <2>11, <2>16
  <2>13. Passes(was, q) /\ was.step \notin {"new", "over"}
    BY <2>1, <2>4, <2>7, <2>8, <2>12 DEF Passes, Turns, Sound, Books
  <2> QED
    BY <1>1, <2>5, <2>13, PassingMoves
<1>4. CASE Extract(r)
  <2>1. was.step = "extract" /\ was.found = 0 /\ was.used \in 1 .. Asking(was) /\ was.kept = 3
        /\ was.answer \in {"none", "stream"} /\ (was.answer = "stream" => was.payload.stream)
    BY <1>1, <1>2, <1>4 DEF Extract, At, Counted, Replying, AfterUse, Extracting
  <2>2. \/ Put(r, [was EXCEPT !.step = "charge find", !.answer = "late"])
        \/ Put(r, [was EXCEPT !.step = "charge find"])
        \/ Put(r, [was EXCEPT !.found = 1, !.step = "charge find"])
    BY <1>1, <1>4 DEF Extract, Go
  <2>3. PICK q : /\ Put(r, q)
                 /\ \/ q = [was EXCEPT !.step = "charge find", !.answer = "late"]
                    \/ q = [was EXCEPT !.step = "charge find"]
                    \/ q = [was EXCEPT !.found = 1, !.step = "charge find"]
    BY <2>2
  <2>4. Turns(was, q, "charge find") /\ q.kept = was.kept
    BY <1>2, <2>3 DEF Fields, Turns
  <2>5. \/ q.answer = "late" /\ q.found = was.found
        \/ q.answer = was.answer /\ q.found = was.found
        \/ q.answer = was.answer /\ q.found = 1
    BY <1>2, <2>3 DEF Fields
  <2>6. Asking(q) = Asking(was)
    BY <2>4 DEF Asking, Turns
  <2>7. Shaped(q)
    BY <1>2, <2>1, <2>4, <2>5 DEF Shaped, Steps, AfterUse, Extracting, Turns
  <2>14. Replying(q)
    BY <2>1, <2>4, <2>5 DEF Replying, Turns
  <2>8. Counted(q)
    BY <2>1, <2>4, <2>5, <2>6 DEF Counted, Extracting, Working, Turns
  <2>9. \A b \in Books : Low(b, was) = was.used + 3 /\ High(b, was) = was.used + 3
    BY <2>1 DEF Low, High, Borne, TokensBorne, CostBorne, Working, Extracting
  <2>11. \A b \in Books : Low(b, q) = was.used + 3 /\ High(b, q) = was.used + 3
    BY <2>4 DEF Low, High, Borne, TokensBorne, CostBorne, Working, Extracting, Turns
  <2>12. \A b \in Books : Low(b, q) <= Low(b, was) /\ High(b, was) <= High(b, q)
    BY <1>2, <2>9, <2>11
  <2>13. Passes(was, q) /\ was.step \notin {"new", "over"}
    BY <2>1, <2>4, <2>7, <2>8, <2>12, <2>14 DEF Passes, Turns, Sound, Books
  <2>15. UNCHANGED ledger
    BY <1>4 DEF Extract
  <2> QED
    BY <1>1, <2>3, <2>13, <2>15, PassingMoves
<1>5. CASE Log(r)
  <2>1. was.step = "log" /\ was.used \in 1 .. Asking(was)
    BY <1>1, <1>2, <1>5 DEF Log, At, Counted, AfterUse
  <2>2. PICK what : Put(r, [was EXCEPT !.step = "over", !.answer = what]) /\ what \in {"streamed", "ok"}
    BY <1>1, <1>5 DEF Log
  <2>3. PICK q : q = [was EXCEPT !.step = "over", !.answer = what]
    OBVIOUS
  <2>4. Turns(was, q, "over") /\ q.found = was.found /\ q.answer = what
    BY <1>2, <2>3 DEF Fields, Turns
  <2>5. Put(r, q) /\ UNCHANGED ledger
    BY <1>5, <2>2, <2>3 DEF Log
  <2>7. Shaped(q) /\ Replying(q)
    BY <1>2, <2>1, <2>2, <2>4 DEF Shaped, Replying, Steps, Turns
  <2>8. Counted(q)
    BY <2>1, <2>2, <2>4 DEF Counted, Extracting, Working, AfterUse, Turns
  <2>16. PICK n \in Nat : n = was.used + was.found
    BY <1>2
  <2>9. \A b \in Books : Low(b, was) = n /\ High(b, was) = n
    BY <2>1, <2>16 DEF Low, High, Borne, TokensBorne, CostBorne, Working, Extracting
  <2>17. Owed(q) = n /\ Slack(q) = 0
    BY <2>2, <2>4, <2>16 DEF Owed, Slack, Turns
  <2>11. \A b \in Books : Low(b, q) = n /\ High(b, q) = n + 0
    BY <2>4, <2>17 DEF Low, High, Turns
  <2>12. \A b \in Books : Low(b, q) <= Low(b, was) /\ High(b, was) <= High(b, q)
    BY <2>9, <2>11
  <2>13. Passes(was, q) /\ was.step \notin {"new", "over"}
    BY <2>1, <2>4, <2>7, <2>8, <2>12 DEF Passes, Turns, Sound, Books
  <2> QED
    BY <1>1, <2>5, <2>13, PassingMoves
<1> QED
  BY <1>3, <1>4, <1>5

\* The reservation of a finding, which is made of a row that is there, as the request has something in it.
LEMMA FindingMoves ==
    ASSUME LedgerWell, NEW r \in Asked, FindTokens(r) \/ FindCost(r)
    PROVE  \E q : Moves(r, q)
<1>1. PICK was : was = request[r]
  OBVIOUS
<1>2. /\ Sound(was) /\ Shaped(was) /\ Counted(was) /\ Replying(was) /\ DOMAIN was = Fields
      /\ was.used \in Nat /\ was.found \in {0, 1} /\ Asking(was) \in Nat /\ Estimate(r) = Asking(was)
  BY <1>1, OnTheWay
<1>3. ASSUME NEW book \in Books, was.step # "over", Borne(book, was) \in Nat \ {0}
      PROVE  ledger[book] = Amount(book)
  <2>1. Borne(book, was) <= Amount(book) /\ Amount(book) \in Nat
    BY <1>1, <1>3, InTheBook DEF LedgerWell
  <2>2. Amount(book) # 0
    BY <1>3, <2>1
  <2> QED
    BY <2>2 DEF Amount
<1>4. CASE FindTokens(r)
  <2>1. was.step = "find tokens" /\ was.found = 0 /\ was.used \in 1 .. Asking(was)
        /\ was.answer \in {"none", "stream"} /\ (was.answer = "stream" => was.payload.stream)
    BY <1>1, <1>2, <1>4 DEF FindTokens, At, Counted, Replying, AfterUse
  <2>2. PICK yes, no : yes = [was EXCEPT !.kept = 3, !.step = "find cost"] /\ no = [was EXCEPT !.step = "log"]
    OBVIOUS
  <2>3. PICK granted, denied : granted = Forgetting(yes) /\ denied = Forgetting(no)
    OBVIOUS
  <2>4. /\ DOMAIN granted = Fields /\ granted.step = "find cost" /\ granted.kept = 3 /\ granted.used = was.used
        /\ granted.found = was.found /\ granted.payload = was.payload /\ granted.cheap = was.cheap /\ granted.answer = was.answer
        /\ granted.seen = None
    BY <1>2, <2>1, <2>2, <2>3 DEF Fields, Forgetting
  <2>5. /\ DOMAIN denied = Fields /\ denied.step = "log" /\ denied.used = was.used /\ denied.found = was.found
        /\ denied.payload = was.payload /\ denied.cheap = was.cheap /\ denied.answer = was.answer /\ denied.seen = None
    BY <1>2, <2>1, <2>2, <2>3 DEF Fields, Forgetting
  <2>6. Asking(granted) = Asking(was) /\ Asking(denied) = Asking(was)
    BY <2>4, <2>5 DEF Asking
  <2>7. Sound(granted)
    <3>1. Shaped(granted) /\ Replying(granted)
      BY <1>2, <2>1, <2>4 DEF Shaped, Replying, Steps, AfterUse, Extracting
    <3>2. Counted(granted)
      BY <2>1, <2>4, <2>6 DEF Counted, Working
    <3> QED
      BY <3>1, <3>2 DEF Sound
  <2>8. Sound(denied)
    <3>1. Shaped(denied) /\ Replying(denied)
      BY <1>2, <2>1, <2>5 DEF Shaped, Replying, Steps, AfterUse
    <3>2. Counted(denied)
      BY <2>1, <2>5, <2>6 DEF Counted, Working, Extracting
    <3> QED
      BY <3>1, <3>2 DEF Sound
  <2>21. was.used \in Nat \ {0}
    <3>1. was.used \in 1 .. Asking(was) /\ Asking(was) \in Nat
      BY <1>2, <2>1
    <3> QED
      BY <3>1
  <2>9. PICK n \in Nat \ {0} : n = was.used
    BY <2>21
  <2>10. \A b \in Books : Low(b, was) = n /\ High(b, was) = n /\ Borne(b, was) = n
    BY <2>1, <2>9 DEF Low, High, Borne, TokensBorne, CostBorne, Working
  <2>11. was.used + was.found = n
    <3>1. was.found = 0
      BY <2>1
    <3> QED
      BY <2>9, <3>1
  <2>12. \A b \in Books : Low(b, denied) = n /\ High(b, denied) = n
    BY <2>5, <2>11 DEF Low, High, Borne, TokensBorne, CostBorne, Working, Extracting
  <2>13. Low("tokens", granted) = n + 3 /\ High("tokens", granted) = n + 3 /\ Low("cost", granted) = n /\ High("cost", granted) = n
    BY <2>4, <2>9 DEF Low, High, Borne, TokensBorne, CostBorne, Working, Extracting
  <2>14. Takes(was, granted, "tokens", 3) /\ Takes(was, denied, "tokens", 0)
    BY <2>10, <2>12, <2>13 DEF Takes, Fair, Books
  <2>15. "tokens" \in Books /\ was.step \notin {"new", "over"}
    BY <2>1 DEF Books
  <2>16. ledger["tokens"] = Amount("tokens")
    BY <1>3, <2>10, <2>15
  <2>17. Decide(r, "tokens", Amount("tokens"), 3, yes, no)
    BY <1>1, <1>4, <2>2, <2>16 DEF FindTokens, FindingEstimate
  <2>18. PICK read : read = Amount("tokens")
    OBVIOUS
  <2>19. Decide(r, "tokens", read, 3, yes, no)
    BY <2>17, <2>18
  <2>20. 3 \in Nat
    OBVIOUS
  <2> QED
    BY <1>1, <2>3, <2>4, <2>5, <2>7, <2>8, <2>14, <2>15, <2>18, <2>19, <2>20, DecideMoves
<1>5. CASE FindCost(r)
  <2>1. was.step = "find cost" /\ was.found = 0 /\ was.used \in 1 .. Asking(was) /\ was.kept = 3
        /\ was.answer \in {"none", "stream"} /\ (was.answer = "stream" => was.payload.stream)
    BY <1>1, <1>2, <1>5 DEF FindCost, At, Counted, Replying, AfterUse, Extracting
  <2>2. PICK yes, no : yes = [was EXCEPT !.step = "extract"] /\ no = [was EXCEPT !.step = "unfind"]
    OBVIOUS
  <2>3. PICK granted, denied : granted = Forgetting(yes) /\ denied = Forgetting(no)
    OBVIOUS
  <2>4. /\ DOMAIN granted = Fields /\ granted.step = "extract" /\ granted.kept = 3 /\ granted.used = was.used
        /\ granted.found = was.found /\ granted.payload = was.payload /\ granted.cheap = was.cheap /\ granted.answer = was.answer
        /\ granted.seen = None
    BY <1>2, <2>1, <2>2, <2>3 DEF Fields, Forgetting
  <2>5. /\ DOMAIN denied = Fields /\ denied.step = "unfind" /\ denied.kept = 3 /\ denied.used = was.used /\ denied.found = was.found
        /\ denied.payload = was.payload /\ denied.cheap = was.cheap /\ denied.answer = was.answer /\ denied.seen = None
    BY <1>2, <2>1, <2>2, <2>3 DEF Fields, Forgetting
  <2>6. Asking(granted) = Asking(was) /\ Asking(denied) = Asking(was)
    BY <2>4, <2>5 DEF Asking
  <2>7. Sound(granted)
    <3>1. Shaped(granted) /\ Replying(granted)
      BY <1>2, <2>1, <2>4 DEF Shaped, Replying, Steps, AfterUse, Extracting
    <3>2. Counted(granted)
      BY <2>1, <2>4, <2>6 DEF Counted, Working
    <3> QED
      BY <3>1, <3>2 DEF Sound
  <2>8. Sound(denied)
    <3>1. Shaped(denied) /\ Replying(denied)
      BY <1>2, <2>1, <2>5 DEF Shaped, Replying, Steps, AfterUse, Extracting
    <3>2. Counted(denied)
      BY <2>1, <2>5, <2>6 DEF Counted, Working
    <3> QED
      BY <3>1, <3>2 DEF Sound
  <2>21. was.used \in Nat \ {0}
    <3>1. was.used \in 1 .. Asking(was) /\ Asking(was) \in Nat
      BY <1>2, <2>1
    <3> QED
      BY <3>1
  <2>9. PICK n \in Nat \ {0} : n = was.used
    BY <2>21
  <2>10. /\ Low("tokens", was) = n + 3 /\ High("tokens", was) = n + 3
         /\ Low("cost", was) = n /\ High("cost", was) = n /\ Borne("cost", was) = n
    BY <2>1, <2>9 DEF Low, High, Borne, TokensBorne, CostBorne, Working, Extracting
  <2>12. Low("tokens", denied) = n + 3 /\ High("tokens", denied) = n + 3 /\ Low("cost", denied) = n /\ High("cost", denied) = n
    BY <2>5, <2>9 DEF Low, High, Borne, TokensBorne, CostBorne, Working, Extracting
  <2>13. \A b \in Books : Low(b, granted) = n + 3 /\ High(b, granted) = n + 3
    BY <2>4, <2>9 DEF Low, High, Borne, TokensBorne, CostBorne, Working, Extracting
  <2>14. Takes(was, granted, "cost", 3) /\ Takes(was, denied, "cost", 0)
    BY <2>10, <2>12, <2>13 DEF Takes, Fair, Books
  <2>15. "cost" \in Books /\ was.step \notin {"new", "over"}
    BY <2>1 DEF Books
  <2>16. ledger["cost"] = Amount("cost")
    BY <1>3, <2>10, <2>15
  <2>17. Decide(r, "cost", Amount("cost"), 3, yes, no)
    BY <1>1, <1>5, <2>2, <2>16 DEF FindCost, FindingEstimate
  <2>18. PICK read : read = Amount("cost")
    OBVIOUS
  <2>19. Decide(r, "cost", read, 3, yes, no)
    BY <2>17, <2>18
  <2>20. 3 \in Nat
    OBVIOUS
  <2> QED
    BY <1>1, <2>3, <2>4, <2>5, <2>7, <2>8, <2>14, <2>15, <2>18, <2>19, <2>20, DecideMoves
<1> QED
  BY <1>4, <1>5

\* What a finding was charged, or not.
LEMMA ChargingMoves ==
    ASSUME LedgerWell, NEW r \in Asked, Unfind(r) \/ ChargeFindTokens(r) \/ ChargeFindCost(r)
    PROVE  \E q : Moves(r, q)
<1>1. PICK was : was = request[r]
  OBVIOUS
<1>2. /\ Sound(was) /\ Shaped(was) /\ Counted(was) /\ Replying(was) /\ DOMAIN was = Fields
      /\ was.used \in Nat /\ was.found \in {0, 1} /\ Asking(was) \in Nat /\ Estimate(r) = Asking(was)
  BY <1>1, OnTheWay
<1>6. "tokens" \in Books /\ "cost" \in Books
  BY DEF Books
<1>3. CASE Unfind(r)
  <2>1. was.step = "unfind" /\ was.kept = 3 /\ was.found = 0 /\ was.used \in 1 .. Asking(was)
        /\ was.answer \in {"none", "stream"} /\ (was.answer = "stream" => was.payload.stream)
        /\ was.step \notin Books \cup {"new", "over"}
    BY <1>1, <1>2, <1>3 DEF Unfind, At, Counted, Replying, AfterUse, Extracting, Books
  <2>2. PICK q : q = [was EXCEPT !.kept = 0, !.step = "log"]
    OBVIOUS
  <2>3. Turns(was, q, "log") /\ q.found = was.found /\ q.answer = was.answer
    BY <1>2, <2>2 DEF Fields, Turns
  <2>4. PICK d \in Int : d = 0 - 3
    OBVIOUS
  <2>5. Put(r, q) /\ Reconciled("tokens", d)
    BY <1>1, <1>3, <2>1, <2>2, <2>4 DEF Unfind
  <2>6. Asking(q) = Asking(was)
    BY <2>3 DEF Asking, Turns
  <2>7. Shaped(q) /\ Replying(q)
    BY <1>2, <2>1, <2>3 DEF Shaped, Replying, Steps, AfterUse, Turns
  <2>8. Counted(q)
    BY <2>1, <2>3, <2>6 DEF Counted, Working, Extracting, Turns
  <2>9. PICK n \in Nat : n = was.used
    BY <1>2
  <2>10. was.used + was.found = n
    <3>1. was.found = 0
      BY <2>1
    <3> QED
      BY <2>9, <3>1
  <2>11. /\ Low("tokens", was) = n + 3 /\ High("tokens", was) = n + 3 /\ Low("cost", was) = n /\ High("cost", was) = n
    BY <2>1, <2>9 DEF Low, High, Borne, TokensBorne, CostBorne, Working, Extracting
  <2>12. \A b \in Books : Low(b, q) = n /\ High(b, q) = n
    BY <2>3, <2>10 DEF Low, High, Borne, TokensBorne, CostBorne, Working, Extracting, Turns
  <2>13. Takes(was, q, "tokens", d)
    BY <2>4, <2>11, <2>12 DEF Takes, Fair, Books
  <2>14. Sound(q) /\ q.payload = was.payload /\ q.seen = was.seen
    BY <2>3, <2>7, <2>8 DEF Sound, Turns
  <2>15. Moves(r, q)
    BY <1>1, <1>6, <2>1, <2>5, <2>13, <2>14, ReconciledMoves
  <2> QED
    BY <2>15
<1>4. CASE ChargeFindTokens(r)
  <2>1. was.step = "charge find" /\ was.kept = 3 /\ was.used \in 1 .. Asking(was) /\ (was.answer = "late" => was.found = 0)
        /\ was.answer \in {"none", "stream", "late"} /\ (was.answer = "stream" => was.payload.stream)
        /\ was.step \notin Books \cup {"new", "over"}
    BY <1>1, <1>2, <1>4 DEF ChargeFindTokens, At, Counted, Replying, AfterUse, Extracting, Books
  <2>2. PICK q : q = [was EXCEPT !.step = "charge find cost"]
    OBVIOUS
  <2>3. Turns(was, q, "charge find cost") /\ q.found = was.found /\ q.answer = was.answer /\ q.kept = was.kept
    BY <1>2, <2>2 DEF Fields, Turns
  <2>9. PICK n \in Nat : n = was.used
    BY <1>2
  <2>10. PICK m \in Nat : m = was.found
    BY <1>2
  <2>4. PICK d \in Int : d = m - 3
    BY <2>10
  <2>5. Put(r, q) /\ Reconciled("tokens", d)
    BY <1>1, <1>4, <2>1, <2>2, <2>4, <2>10 DEF ChargeFindTokens, Go
  <2>6. Asking(q) = Asking(was)
    BY <2>3 DEF Asking, Turns
  <2>7. Shaped(q) /\ Replying(q)
    BY <1>2, <2>1, <2>3 DEF Shaped, Replying, Steps, AfterUse, Turns
  <2>8. Counted(q)
    BY <2>1, <2>3, <2>6 DEF Counted, Working, Turns
  <2>11. \A b \in Books : Low(b, was) = n + 3 /\ High(b, was) = n + 3
    BY <2>1, <2>9 DEF Low, High, Borne, TokensBorne, CostBorne, Working, Extracting
  <2>16. was.used + was.found = n + m
    BY <2>9, <2>10
  <2>12. /\ Low("tokens", q) = n + m /\ High("tokens", q) = n + m /\ Low("cost", q) = n + 3 /\ High("cost", q) = n + 3
    BY <2>3, <2>9, <2>16 DEF Low, High, Borne, TokensBorne, CostBorne, Working, Extracting, Turns
  <2>13. Takes(was, q, "tokens", d)
    BY <2>4, <2>11, <2>12 DEF Takes, Fair, Books
  <2>14. Sound(q) /\ q.payload = was.payload /\ q.seen = was.seen
    BY <2>3, <2>7, <2>8 DEF Sound, Turns
  <2>15. Moves(r, q)
    BY <1>1, <1>6, <2>1, <2>5, <2>13, <2>14, ReconciledMoves
  <2> QED
    BY <2>15
<1>5. CASE ChargeFindCost(r)
  <2>1. was.step = "charge find cost" /\ was.kept = 3 /\ was.used \in 1 .. Asking(was) /\ (was.answer = "late" => was.found = 0)
        /\ was.answer \in {"none", "stream", "late"} /\ (was.answer = "stream" => was.payload.stream)
        /\ was.step \notin Books \cup {"new", "over"}
    BY <1>1, <1>2, <1>5 DEF ChargeFindCost, At, Counted, Replying, AfterUse, Extracting, Books
  <2>9. PICK n \in Nat : n = was.used
    BY <1>2
  <2>10. PICK m \in Nat : m = was.found
    BY <1>2
  <2>16. was.used + was.found = n + m
    BY <2>9, <2>10
  <2>4. PICK d \in Int : d = m - 3
    BY <2>10
  <2>11. /\ Low("tokens", was) = n + m /\ High("tokens", was) = n + m /\ Low("cost", was) = n + 3 /\ High("cost", was) = n + 3
    BY <2>1, <2>9, <2>16 DEF Low, High, Borne, TokensBorne, CostBorne, Working, Extracting
  <2>17. Reconciled("cost", d)
    BY <1>1, <1>5, <2>1, <2>4, <2>10 DEF ChargeFindCost
  <2>18. CASE was.answer = "late"
    <3>1. PICK q : q = [was EXCEPT !.step = "over"]
      OBVIOUS
    <3>2. Turns(was, q, "over") /\ q.found = was.found /\ q.answer = was.answer
      BY <1>2, <3>1 DEF Fields, Turns
    <3>3. Put(r, q)
      BY <1>1, <1>5, <2>18, <3>1 DEF ChargeFindCost, Go
    <3>4. Shaped(q) /\ Replying(q)
      BY <1>2, <2>1, <2>18, <3>2 DEF Shaped, Replying, Steps, Turns
    <3>5. Counted(q)
      BY <2>1, <2>18, <3>2 DEF Counted, Working, AfterUse, Extracting, Turns
    <3>6. m = 0
      BY <2>1, <2>10, <2>18
    <3>7. Owed(q) = 0 /\ Slack(q) = n
      BY <2>9, <2>18, <3>2 DEF Owed, Slack, Turns
    <3>8. \A b \in Books : Low(b, q) = 0 /\ High(b, q) = 0 + n
      BY <3>2, <3>7 DEF Low, High, Turns
    <3>9. Takes(was, q, "cost", d)
      BY <2>4, <2>11, <3>6, <3>8 DEF Takes, Fair, Books
    <3>10. Sound(q) /\ q.payload = was.payload /\ q.seen = was.seen
      BY <3>2, <3>4, <3>5 DEF Sound, Turns
    <3>11. Moves(r, q)
      BY <1>1, <1>6, <2>1, <2>17, <3>3, <3>9, <3>10, ReconciledMoves
    <3> QED
      BY <3>11
  <2>19. CASE was.answer # "late"
    <3>1. PICK q : q = [was EXCEPT !.step = "log"]
      OBVIOUS
    <3>2. Turns(was, q, "log") /\ q.found = was.found /\ q.answer = was.answer
      BY <1>2, <3>1 DEF Fields, Turns
    <3>3. Put(r, q)
      BY <1>1, <1>5, <2>19, <3>1 DEF ChargeFindCost, Go
    <3>12. Asking(q) = Asking(was)
      BY <3>2 DEF Asking, Turns
    <3>4. Shaped(q) /\ Replying(q)
      BY <1>2, <2>1, <2>19, <3>2 DEF Shaped, Replying, Steps, AfterUse, Turns
    <3>5. Counted(q)
      BY <2>1, <2>19, <3>2, <3>12 DEF Counted, Working, Extracting, Turns
    <3>8. \A b \in Books : Low(b, q) = n + m /\ High(b, q) = n + m
      BY <2>16, <3>2 DEF Low, High, Borne, TokensBorne, CostBorne, Working, Extracting, Turns
    <3>9. Takes(was, q, "cost", d)
      BY <2>4, <2>11, <3>8 DEF Takes, Fair, Books
    <3>10. Sound(q) /\ q.payload = was.payload /\ q.seen = was.seen
      BY <3>2, <3>4, <3>5 DEF Sound, Turns
    <3>11. Moves(r, q)
      BY <1>1, <1>6, <2>1, <2>17, <3>3, <3>9, <3>10, ReconciledMoves
    <3> QED
      BY <3>11
  <2> QED
    BY <2>18, <2>19
<1> QED
  BY <1>3, <1>4, <1>5

\* What a request may have in the ledgers when it dies: no more than what it asked for, and a finding.
LEMMA BorneBounded ==
    ASSUME NEW was, Sound(was), was.step # "over", NEW b \in Books
    PROVE  Borne(b, was) \in Nat /\ Borne(b, was) <= Asking(was) + 3
<1>1. PICK n \in Nat, m \in Nat, k \in Nat : n = was.used /\ m = was.found /\ k = Asking(was)
  BY DEF Sound, Shaped, Asking
<1>2. m <= 1
  BY <1>1 DEF Sound, Shaped
<1>3. was.step \in AfterUse => n <= k
  <2>1. was.step \in AfterUse => was.used \in 1 .. Asking(was)
    BY Zenon DEF Sound, Counted
  <2>2. was.step \in AfterUse => n \in 1 .. k
    BY <1>1, <2>1, Zenon
  <2> QED
    BY <2>2
<1>4. was.step \in {"settle cost", "spend", "find tokens", "charge find cost", "log"} \cup Extracting => was.step \in AfterUse
  BY DEF AfterUse
<1>5. was.used + 3 = n + 3 /\ was.used + was.found = n + m
  BY <1>1
<1>6. TokensBorne(was) = 0 \/ TokensBorne(was) = k
         \/ (was.step \in AfterUse /\ (TokensBorne(was) = n \/ TokensBorne(was) = n + 3 \/ TokensBorne(was) = n + m))
  BY <1>1, <1>4, <1>5 DEF TokensBorne
<1>7. CostBorne(was) = 0 \/ CostBorne(was) = k
         \/ (was.step \in AfterUse /\ (CostBorne(was) = n \/ CostBorne(was) = n + 3 \/ CostBorne(was) = n + m))
  BY <1>1, <1>4, <1>5 DEF CostBorne, Extracting
<1>8. Borne(b, was) = TokensBorne(was) \/ Borne(b, was) = CostBorne(was)
  BY DEF Borne
<1>9. PICK x : x = Borne(b, was)
  OBVIOUS
<1>10. x = 0 \/ x = k \/ (n <= k /\ (x = n \/ x = n + 3 \/ x = n + m))
  BY <1>3, <1>6, <1>7, <1>8, <1>9
<1>11. x \in Nat /\ x <= k + 3
  BY <1>2, <1>10
<1> QED
  BY <1>1, <1>9, <1>11

\* The deadline, and a store that throws where no stream has been answered.
LEMMA EndsMove ==
    ASSUME LedgerWell, NEW r \in Asked, Abort(r) \/ (StoreThrows(r) /\ ~request[r].payload.stream)
    PROVE  \E q : Moves(r, q)
<1>1. PICK was : was = request[r]
  OBVIOUS
<1>2. /\ Sound(was) /\ Shaped(was) /\ Counted(was) /\ Replying(was) /\ DOMAIN was = Fields
      /\ was.used \in Nat /\ was.found \in {0, 1} /\ Asking(was) \in Nat /\ Estimate(r) = Asking(was)
  BY <1>1, OnTheWay
<1>3. was.step \notin {"new", "over"} /\ UNCHANGED ledger
  BY <1>1 DEF Abort, StoreThrows, At
<1>4. CASE Abort(r)
  <2>1. PICK q : q = [was EXCEPT !.aborted = TRUE]
    OBVIOUS
  <2>2. /\ DOMAIN q = Fields /\ q.payload = was.payload /\ q.seen = was.seen /\ q.cheap = was.cheap /\ q.step = was.step
        /\ q.used = was.used /\ q.found = was.found /\ q.held = was.held /\ q.kept = was.kept /\ q.answer = was.answer
    BY <1>2, <2>1 DEF Fields
  <2>3. Put(r, q)
    BY <1>1, <1>4, <2>1 DEF Abort
  <2>4. Asking(q) = Asking(was)
    BY <2>2 DEF Asking
  <2>5. Shaped(q)
    BY <1>2, <2>2 DEF Shaped
  <2>6. Counted(q)
    BY <1>2, <2>2, <2>4 DEF Counted
  <2>7. Replying(q)
    BY <1>2, <2>2 DEF Replying
  <2>8. \A b \in Books : Low(b, q) = Low(b, was) /\ High(b, q) = High(b, was)
    BY <2>2, <2>4 DEF Low, High, Borne, TokensBorne, CostBorne, Owed, Slack
  <2>9. \A b \in Books : Low(b, was) \in Nat /\ High(b, was) \in Nat
    BY <1>2, Amounts
  <2>10. \A b \in Books : Low(b, q) <= Low(b, was) /\ High(b, was) <= High(b, q)
    BY <2>8, <2>9
  <2>11. Passes(was, q)
    BY <2>2, <2>5, <2>6, <2>7, <2>10 DEF Passes, Sound
  <2> QED
    BY <1>1, <1>3, <2>3, <2>11, PassingMoves
<1>5. CASE StoreThrows(r) /\ ~request[r].payload.stream
  <2>1. ~was.payload.stream /\ was.answer # "stream"
    BY <1>1, <1>2, <1>5 DEF Replying
  <2>2. CASE was.step = "call"
    <3>1. PICK q : q = GiveBack(was, "failed")
      OBVIOUS
    <3>2. Put(r, q)
      BY <1>1, <1>5, <2>1, <2>2, <3>1 DEF StoreThrows, Caught, At
    <3>3. Passes(was, q)
      BY <1>2, <2>2, <3>1, GivesBack
    <3> QED
      BY <1>1, <1>3, <3>2, <3>3, PassingMoves
  <2>3. CASE was.step # "call"
    <3>1. PICK q : q = [was EXCEPT !.step = "over", !.answer = "error"]
      OBVIOUS
    <3>2. Put(r, q)
      BY <1>1, <1>5, <2>1, <2>3, <3>1 DEF StoreThrows, Caught, At, Answer
    <3>3. Turns(was, q, "over") /\ q.found = was.found /\ q.answer = "error"
      BY <1>2, <3>1 DEF Fields, Turns
    <3>4. Asking(q) = Asking(was)
      BY <3>3 DEF Asking, Turns
    <3>5. Shaped(q) /\ Replying(q)
      BY <1>2, <3>3 DEF Shaped, Replying, Steps, Turns
    <3>6. Counted(q)
      BY <3>3 DEF Counted, Working, AfterUse, Extracting, Turns
    <3>7. PICK k \in Nat : k = Asking(was)
      BY <1>2
    <3>8. Owed(q) = 0 /\ Slack(q) = k + 3
      BY <3>3, <3>4, <3>7 DEF Owed, Slack
    <3>9. \A b \in Books : Low(b, q) = 0 /\ High(b, q) = 0 + (k + 3)
      BY <3>3, <3>8 DEF Low, High, Turns
    <3>10. \A b \in Books : Low(b, was) = Borne(b, was) /\ High(b, was) = Borne(b, was)
      BY <1>3 DEF Low, High
    <3>11. \A b \in Books : Borne(b, was) \in Nat /\ Borne(b, was) <= k + 3
      BY <1>2, <1>3, <3>7, BorneBounded
    <3>12. \A b \in Books : Low(b, q) <= Low(b, was) /\ High(b, was) <= High(b, q)
      BY <3>7, <3>9, <3>10, <3>11
    <3>13. Passes(was, q)
      BY <3>3, <3>5, <3>6, <3>12 DEF Passes, Sound, Turns
    <3> QED
      BY <1>1, <1>3, <3>2, <3>13, PassingMoves
  <2> QED
    BY <2>2, <2>3
<1> QED
  BY <1>4, <1>5

\* A request that arrives has nothing in a ledger; one that arrives a second time is not on its way.
LEMMA ArrivalKeeps ==
    ASSUME LedgerWell, NEW r \in Asked, Arrive(r)
    PROVE  LedgerWell' /\ \A t \in Asked : request'[t].payload = request[t].payload
<1>1. PICK was : was = request[r]
  OBVIOUS
<1>2. /\ Sound(was) /\ Shaped(was) /\ Counted(was) /\ Replying(was) /\ DOMAIN was = Fields
      /\ was.used \in Nat /\ was.found \in {0, 1} /\ Asking(was) \in Nat
  BY <1>1, OnTheWay
<1>3. was.step = "new" /\ UNCHANGED ledger /\ nonces' = nonces \cup {was.payload.nonce}
  BY <1>1 DEF Arrive, At
<1>4. was.seen = None /\ was.answer \in {"none", "stream"} /\ (was.answer = "stream" => was.payload.stream) /\ was.found = 0
  BY <1>1, <1>2, <1>3 DEF LedgerWell, SeenWell, Books, Replying, Counted
<1>5. PICK q : /\ Put(r, q) /\ DOMAIN q = Fields /\ q.payload = was.payload /\ q.used = was.used /\ q.found = was.found /\ q.seen = was.seen
               /\ \/ was.payload.nonce \in nonces /\ q.step = "over" /\ q.answer = "replayed"
                  \/ was.payload.nonce \notin nonces /\ q.step = "rate" /\ q.answer = was.answer
  <2>1. CASE was.payload.nonce \in nonces
    <3>1. PICK q : q = [was EXCEPT !.step = "over", !.answer = "replayed"]
      OBVIOUS
    <3>2. Put(r, q)
      BY <1>1, <2>1, <3>1 DEF Arrive, Answer
    <3>3. /\ DOMAIN q = Fields /\ q.payload = was.payload /\ q.used = was.used /\ q.found = was.found /\ q.seen = was.seen
          /\ q.step = "over" /\ q.answer = "replayed"
      BY <1>2, <3>1 DEF Fields
    <3> QED
      BY <2>1, <3>2, <3>3
  <2>2. CASE was.payload.nonce \notin nonces
    <3>1. PICK q : q = [was EXCEPT !.step = "rate"]
      OBVIOUS
    <3> QED
      BY <1>1, <1>2, <2>2, <3>1 DEF Arrive, Go, Fields
  <2> QED
    BY <2>1, <2>2
<1>6. q.step \in {"over", "rate"} /\ q.answer \in {"none", "stream", "replayed"} /\ (q.answer = "stream" => q.payload.stream)
      /\ (q.step = "rate" => q.answer \in {"none", "stream"}) /\ (q.step = "over" => q.answer = "replayed")
  BY <1>4, <1>5
<1>7. Shaped(q) /\ Counted(q) /\ Replying(q)
  BY <1>2, <1>4, <1>5, <1>6 DEF Shaped, Counted, Replying, Steps, Unreserved, Working, AfterUse, Extracting
<1>8. \A b \in Books : Low(b, was) = 0 /\ High(b, was) = 0 /\ Low(b, q) = 0 /\ High(b, q) = 0
  <2>1. (Owed(q) = 0 /\ Slack(q) = 0) \/ q.step = "rate"
    BY <1>6 DEF Owed, Slack
  <2>2. \A b \in Books : Borne(b, was) = 0
    BY <1>3 DEF Borne, TokensBorne, CostBorne, Working, Extracting
  <2>3. \A b \in Books : q.step = "rate" => Borne(b, q) = 0
    BY DEF Borne, TokensBorne, CostBorne, Working, Extracting
  <2>4. \A b \in Books : Low(b, was) = 0 /\ High(b, was) = 0
    BY <1>3, <2>2 DEF Low, High
  <2>5. CASE q.step = "rate"
    BY <2>3, <2>4, <2>5 DEF Low, High
  <2>6. CASE q.step = "over"
    BY <2>1, <2>4, <2>6 DEF Low, High
  <2> QED
    BY <1>6, <2>5, <2>6
<1>9. \A b \in Books : Fair(was, q, b, 0)
  BY <1>8 DEF Fair
<1>10. \A b \in Books : Amount(b)' = Amount(b) + 0
  BY <1>3, LedgerTypes DEF LedgerWell, Amount
<1>11. BooksWell' /\ SumsWell'
  <2>1. BooksWell /\ SumsWell /\ ledger' \in [Books -> Nat \cup {None}]
    BY <1>3 DEF LedgerWell, BooksWell
  <2>2. Sound(q)
    BY <1>7 DEF Sound
  <2>3. \A b \in Books : \E d \in Int : Amount(b)' = Amount(b) + d /\ Fair(request[r], q, b, d)
    BY <1>1, <1>9, <1>10
  <2> QED
    BY <1>5, <2>1, <2>2, <2>3, SumsKept
<1>12. DOMAIN request = Asked /\ request'[r] = q /\ \A t \in Asked \ {r} : request'[t] = request[t]
  BY <1>5 DEF LedgerWell, BooksWell, Put
<1>13. SeenWell'
  BY <1>3, <1>4, <1>5, <1>12 DEF LedgerWell, SeenWell
<1>14. \A t \in Asked : request'[t].payload = request[t].payload
  BY <1>1, <1>5, <1>12
<1>15. RowsWell'
  <2>1. CASE \A book \in Books : ledger[book] # None
    BY <1>3, <2>1 DEF RowsWell
  <2>2. CASE OneByOne
    <3>1. CASE q.step = "over"
      <4>1. ~Active(q) /\ was.payload.nonce \in nonces
        BY <1>5, <1>6, <3>1 DEF Active
      <4> QED
        BY <1>3, <1>12, <1>14, <2>2, <4>1 DEF OneByOne, RowsWell
    <3>2. CASE q.step = "rate"
      <4>1. \A t \in Asked : ~Active(request[t])
        BY <1>1, <1>5, <2>2, <3>2 DEF OneByOne
      <4>2. was.payload.nonce \in nonces'
        BY <1>3
      <4> QED
        BY <1>1, <1>5, <1>12, <1>14, <2>2, <4>1, <4>2 DEF OneByOne, RowsWell
    <3> QED
      BY <1>6, <3>1, <3>2
  <2> QED
    BY <2>1, <2>2 DEF LedgerWell, RowsWell
<1> QED
  BY <1>11, <1>13, <1>14, <1>15 DEF LedgerWell

\* Where the store may fail nobody asks for a stream, and that stays so.
LEMMA StoreKept ==
    ASSUME StoreWell, \A t \in Asked : request'[t].payload = request[t].payload,
           UNCHANGED odds \/ \E what \in DOMAIN odds : Taking(what)
    PROVE  StoreWell'
<1>1. odds' \in [DOMAIN odds -> Nat]
  BY DEF StoreWell, Taking
<1>2. DOMAIN odds = {"provider", "abort", "store", "time", "review"}
  BY DEF StoreWell
<1>3. "store" \in DOMAIN odds
  BY <1>2
<1>4. odds.store = 0 => odds'.store = 0
  BY <1>2, <1>3 DEF StoreWell, Taking
<1> QED
  BY <1>1, <1>2, <1>4 DEF StoreWell

\* Every step but an arrival is a request's that is on its way.
LEMMA StepGoesOn ==
    ASSUME LedgerWell, StoreWell, NEW r \in Asked, RequestStep(r) \/ Abort(r) \/ StoreThrows(r), ~Arrive(r)
    PROVE  /\ \E q : Moves(r, q)
           /\ nonces' = nonces
           /\ UNCHANGED odds \/ \E what \in DOMAIN odds : Taking(what)
<1>0. {"provider", "abort", "store"} \subseteq DOMAIN odds
  BY DEF StoreWell
<1>1. CASE CheckRate(r) \/ CheckQuota(r) \/ Authorize(r) \/ CheckSwarm(r) \/ ChooseRoute(r) \/ ReadCache(r)
  <2>1. nonces' = nonces /\ odds' = odds
    BY <1>1 DEF CheckRate, CheckQuota, Authorize, CheckSwarm, ChooseRoute, ReadCache, Window, Shared
  <2> QED
    BY <1>1, <2>1, DoorsMove
<1>2. CASE ReserveTokens(r) \/ ReserveCost(r)
  <2>1. nonces' = nonces /\ odds' = odds
    BY <1>2 DEF ReserveTokens, ReserveCost, Reserve
  <2> QED
    BY <1>2, <2>1, ReservationsMove
<1>3. CASE GiveTokens(r) \/ GiveCost(r)
  <2>1. nonces' = nonces /\ odds' = odds
    BY <1>3 DEF GiveTokens, GiveCost
  <2> QED
    BY <1>3, <2>1, GivingMoves
<1>4. CASE Dispatch(r) \/ Skip(r) \/ CallAnswers(r) \/ CallFails(r) \/ CallGivesUp(r) \/ Swarm(r) \/ StreamEnds(r)
  <2>1. nonces' = nonces
    BY <1>4 DEF Dispatch, Skip, CallAnswers, CallFails, CallGivesUp, Swarm, StreamEnds, Shared
  <2>2. UNCHANGED odds \/ Taking("provider")
    BY <1>4 DEF Dispatch, Skip, CallAnswers, CallFails, CallGivesUp, Swarm, StreamEnds, Shared
  <2> QED
    BY <1>0, <1>4, <2>1, <2>2, CallsMove
<1>5. CASE SettleTokens(r) \/ SettleCost(r)
  <2>1. nonces' = nonces /\ odds' = odds
    BY <1>5 DEF SettleTokens, SettleCost
  <2> QED
    BY <1>5, <2>1, SettlingMoves
<1>6. CASE RecordSpend(r) \/ Extract(r) \/ Log(r)
  <2>1. nonces' = nonces
    BY <1>6 DEF RecordSpend, Extract, Log
  <2>2. UNCHANGED odds \/ Taking("provider")
    BY <1>6 DEF RecordSpend, Extract, Log
  <2> QED
    BY <1>0, <1>6, <2>1, <2>2, SpendingMoves
<1>7. CASE FindTokens(r) \/ FindCost(r)
  <2>1. nonces' = nonces /\ odds' = odds
    BY <1>7 DEF FindTokens, FindCost
  <2> QED
    BY <1>7, <2>1, FindingMoves
<1>8. CASE Unfind(r) \/ ChargeFindTokens(r) \/ ChargeFindCost(r)
  <2>1. nonces' = nonces /\ odds' = odds
    BY <1>8 DEF Unfind, ChargeFindTokens, ChargeFindCost
  <2> QED
    BY <1>8, <2>1, ChargingMoves
<1>9. CASE Abort(r)
  <2>1. nonces' = nonces /\ Taking("abort")
    BY <1>9 DEF Abort
  <2> QED
    BY <1>0, <1>9, <2>1, EndsMove
<1>10. CASE StoreThrows(r)
  <2>1. nonces' = nonces /\ Taking("store")
    BY <1>10 DEF StoreThrows
  <2>2. ~request[r].payload.stream
    BY <2>1 DEF Taking, StoreWell
  <2> QED
    BY <1>0, <1>10, <2>1, <2>2, EndsMove
<1> QED
  BY <1>1, <1>2, <1>3, <1>4, <1>5, <1>6, <1>7, <1>8, <1>9, <1>10 DEF RequestStep

\* The ledgers are read from these three variables only.
LEMMA LedgerStays ==
    ASSUME LedgerWell, UNCHANGED <<request, nonces, ledger>>
    PROVE  LedgerWell'
<1>1. BooksWell'
  BY DEF LedgerWell, BooksWell
<1>2. \A book \in Books : LowOf(book)' = LowOf(book) /\ HighOf(book)' = HighOf(book) /\ Amount(book)' = Amount(book)
  BY DEF LowOf, HighOf, Amount
<1>3. SumsWell'
  BY <1>2 DEF LedgerWell, SumsWell
<1>4. SeenWell'
  BY DEF LedgerWell, SeenWell
<1>5. RowsWell'
  BY DEF LedgerWell, RowsWell, OneByOne
<1> QED
  BY <1>1, <1>3, <1>4, <1>5 DEF LedgerWell

\* Every step of the route keeps the invariant.
LEMMA LedgerStep ==
    ASSUME LedgerInv, RequestNext
    PROVE  LedgerInv'
<1>1. LedgerWell /\ StoreWell
  BY DEF LedgerInv, LedgerWell
<1>2. ASSUME LedgerWell', StoreWell' PROVE LedgerInv'
  BY <1>2 DEF LedgerInv, LedgerWell
<1>3. ASSUME NEW r \in Asked, Arrive(r)
      PROVE  LedgerInv'
  <2>1. LedgerWell' /\ \A t \in Asked : request'[t].payload = request[t].payload
    BY <1>1, <1>3, ArrivalKeeps
  <2>2. UNCHANGED odds
    BY <1>3 DEF Arrive
  <2> QED
    BY <1>1, <1>2, <2>1, <2>2, StoreKept
<1>4. ASSUME NEW r \in Asked, RequestStep(r) \/ Abort(r) \/ StoreThrows(r), ~Arrive(r)
      PROVE  LedgerInv'
  <2>1. PICK q : Moves(r, q)
    BY <1>1, <1>4, StepGoesOn
  <2>2. nonces' = nonces /\ (UNCHANGED odds \/ \E what \in DOMAIN odds : Taking(what))
    BY <1>1, <1>4, StepGoesOn
  <2>3. LedgerWell' /\ \A t \in Asked : request'[t].payload = request[t].payload
    BY <1>1, <2>1, <2>2, MovesKeep DEF LedgerWell
  <2> QED
    BY <1>1, <1>2, <2>2, <2>3, StoreKept
<1>5. CASE TimePasses \/ Review
  <2>1. UNCHANGED <<request, nonces, ledger>> /\ (Taking("time") \/ Taking("review"))
    BY <1>5 DEF TimePasses, Review
  <2>2. {"time", "review"} \subseteq DOMAIN odds
    BY <1>1 DEF StoreWell
  <2>3. LedgerWell'
    BY <1>1, <2>1, LedgerStays
  <2> QED
    BY <1>1, <1>2, <2>1, <2>2, <2>3, StoreKept
<1> QED
  BY <1>3, <1>4, <1>5 DEF RequestNext

\* Nothing adds up to nothing.
LEMMA TotalZero ==
    ASSUME NEW S, IsFiniteSet(S), NEW f \in [S -> {0}]
    PROVE  Total(f) = 0
<1>1. f \in [S -> Nat] /\ f \in [S -> Int] /\ \A x \in S : f[x] = 0
  OBVIOUS
<1>2. \A x \in S : f[x] = f[x] + f[x]
  BY <1>1
<1>3. Total(f) = Total(f) + Total(f)
  BY <1>1, <1>2, TotalAdds
<1>4. Total(f) \in Nat
  BY <1>1, TotalNat
<1>5. PICK n \in Nat : n = Total(f)
  BY <1>4
<1>6. n = n + n
  BY <1>3, <1>5, Zenon
<1>7. n = 0
  BY <1>6
<1> QED
  BY <1>5, <1>7

\* It holds where a behaviour begins, with ledgers that are open.
LEMMA LedgerInit ==
    ASSUME NEW payloads, NEW initial, NEW verified, NEW entries, NEW budget,
           BooksOpen(payloads, initial, budget), RequestInit(payloads, initial, verified, entries, budget)
    PROVE  LedgerInv
<1>1. request = [r \in Asked |-> Waiting(payloads[r])] /\ nonces = {} /\ ledger = initial /\ odds = budget
  BY DEF RequestInit
<1>2. ASSUME NEW r \in Asked, NEW q, q = request[r]
      PROVE  /\ DOMAIN q = Fields /\ q.step = "new" /\ q.used = 0 /\ q.found = 0 /\ q.answer = "none" /\ q.seen = None
             /\ q.payload = payloads[r]
  BY <1>1, <1>2 DEF Waiting, Fields
<1>3. \A r \in Asked : Sound(request[r])
  <2> SUFFICES ASSUME NEW r \in Asked, NEW q, q = request[r] PROVE Sound(q)
    OBVIOUS
  <2>1. DOMAIN q = Fields /\ q.step = "new" /\ q.used = 0 /\ q.found = 0 /\ q.answer = "none"
    BY <1>2
  <2>2. 0 \in Nat
    OBVIOUS
  <2>3. Shaped(q)
    BY <2>1, <2>2, Zenon DEF Shaped, Steps, Unreserved
  <2> QED
    BY <2>1, <2>3 DEF Sound, Counted, Replying, Working, AfterUse, Extracting
<1>4. BooksWell
  <2>1. initial \in [Books -> Nat \cup {None}]
    BY DEF BooksOpen
  <2> QED
    BY <1>1, <1>3, <2>1 DEF BooksWell
<1>5. SumsWell
  <2> SUFFICES ASSUME NEW book \in Books
               PROVE  Total(LowOf(book)) <= Amount(book) /\ Amount(book) <= Total(HighOf(book))
    BY DEF SumsWell
  <2>1. \A r \in Asked : request[r].step = "new"
    BY <1>2
  <2>2. \A r \in Asked : Low(book, request[r]) = 0 /\ High(book, request[r]) = 0
    BY <2>1 DEF Low, High, Borne, TokensBorne, CostBorne, Working, Extracting
  <2>3. LowOf(book) \in [Asked -> {0}] /\ HighOf(book) \in [Asked -> {0}]
    BY <2>2 DEF LowOf, HighOf
  <2>4. Total(LowOf(book)) = 0 /\ Total(HighOf(book)) = 0
    BY <2>3, TotalZero, RequestAssumption
  <2>5. Amount(book) = 0
    BY <1>1 DEF Amount, BooksOpen
  <2> QED
    BY <2>4, <2>5
<1>6. SeenWell
  BY <1>2 DEF SeenWell
<1>7. RowsWell
  <2>1. \A r \in Asked : ~Active(request[r])
    BY <1>2 DEF Active
  <2>2. CASE \A book \in Books : initial[book] = 0
    BY <1>1, <2>2, RequestAssumption DEF RowsWell
  <2>3. CASE \A r, t \in Asked : payloads[r].nonce = payloads[t].nonce
    <3>1. \A r, t \in Asked : request[r].payload.nonce = request[t].payload.nonce
      BY <1>2, <2>3
    <3> QED
      BY <2>1, <3>1 DEF RowsWell, OneByOne
  <2> QED
    BY <2>2, <2>3 DEF BooksOpen
<1>8. StoreWell
  BY <1>1, <1>2 DEF StoreWell, BooksOpen
<1> QED
  BY <1>4, <1>5, <1>6, <1>7, <1>8 DEF LedgerInv

LEMMA LeavesTotal ==
    ASSUME IsFiniteSet(Asked), NEW f \in [Asked -> Int], \A r \in Asked : f[r] = Leaves(r)
    PROVE  MapThenSumSet(Leaves, Asked) = Total(f)
<1> DEFINE Folded(sum) == sum = [s \in SUBSET Asked |-> IF s = {} THEN 0 ELSE Leaves(First(s)) + sum[s \ {First(s)}]]
<1>1. PICK F \in [SUBSET Asked -> Int] : Sums(F, f, Asked) /\ Total(f) = F[Asked]
  BY TotalIs
<1>2. \A s \in SUBSET Asked : s # {} => f[First(s)] = Leaves(First(s))
  BY DEF First
<1>3. Folded(F)
  BY <1>1, <1>2 DEF Sums
<1>4. PICK sum : sum = CHOOSE g : Folded(g)
  OBVIOUS
<1>5. MapThenSumSet(Leaves, Asked) = sum[Asked]
  BY <1>4 DEF MapThenSumSet, MapThenFoldSet, First
<1>6. Folded(sum)
  <2> HIDE DEF Folded
  <2> QED
    BY <1>3, <1>4
<1>7. Sums(sum, f, Asked)
  BY <1>2, <1>6 DEF Sums
<1>8. sum[Asked] = F[Asked]
  BY <1>7, <1>1, SumUnique
<1> QED
  BY <1>1, <1>5, <1>8

\* When every request is over, the sums are what was charged, and what was left behind.
LEMMA OverLedgers ==
    ASSUME LedgerInv, AllOver, NEW book \in Books
    PROVE  /\ MapThenSumSet(Charged, Asked) <= Amount(book)
           /\ Amount(book) <= MapThenSumSet(Charged, Asked) + MapThenSumSet(Leaves, Asked)
<1>1. PICK low, high : low = LowOf(book) /\ high = HighOf(book)
  OBVIOUS
<1>2. LedgerWell
  BY DEF LedgerInv, LedgerWell
<1>3. low \in [Asked -> Nat] /\ high \in [Asked -> Nat] /\ Amount(book) \in Nat
  BY <1>1, <1>2, LedgerTypes DEF LedgerWell
<1>4. ASSUME NEW r \in Asked
      PROVE  Charged(r) \in Nat /\ Leaves(r) \in Nat /\ low[r] = Charged(r) /\ high[r] = Charged(r) + Leaves(r)
  <2>1. PICK was : was = request[r]
    OBVIOUS
  <2>2. /\ Replying(was) /\ was.used \in Nat /\ was.found \in {0, 1} /\ Asking(was) \in Nat /\ Estimate(r) = Asking(was)
    BY <1>2, <2>1, OnTheWay
  <2>3. Charged(r) = Owed(was) /\ Leaves(r) = Slack(was)
    BY <2>1, <2>2 DEF Charged, Leaves, Owed, Slack, FindingEstimate
  <2>4. Owed(was) \in Nat /\ Slack(was) \in Nat
    BY <2>2 DEF Owed, Slack
  <2>5. low[r] = Low(book, was) /\ high[r] = High(book, was)
    BY <1>1, <2>1 DEF LowOf, HighOf
  <2>6. CASE was.step = "over"
    BY <2>3, <2>4, <2>5, <2>6 DEF Low, High
  <2>7. CASE was.step = "new"
    <3>1. Owed(was) = 0 /\ Slack(was) = 0
      BY <2>2, <2>7 DEF Owed, Slack, Replying
    <3>2. Low(book, was) = 0 /\ High(book, was) = 0
      BY <2>7 DEF Low, High, Borne, TokensBorne, CostBorne, Working, Extracting
    <3> QED
      BY <2>3, <2>5, <3>1, <3>2
  <2> QED
    BY <2>1, <2>6, <2>7 DEF AllOver
<1>5. PICK left : left = [r \in Asked |-> Leaves(r)]
  OBVIOUS
<1>6. left \in [Asked -> Int] /\ low \in [Asked -> Int] /\ high \in [Asked -> Int] /\ \A r \in Asked : left[r] = Leaves(r)
  BY <1>3, <1>4, <1>5
<1>7. MapThenSumSet(Charged, Asked) = Total(low)
  BY <1>4, <1>6, ChargedTotal, RequestAssumption
<1>8. MapThenSumSet(Leaves, Asked) = Total(left)
  BY <1>6, LeavesTotal, RequestAssumption
<1>9. Total(high) = Total(low) + Total(left)
  <2>1. \A r \in Asked : high[r] = low[r] + left[r]
    BY <1>4, <1>6
  <2> QED
    BY <1>6, <2>1, TotalAdds, RequestAssumption
<1>10. Total(low) <= Amount(book) /\ Amount(book) <= Total(high)
  BY <1>1 DEF LedgerInv, SumsWell
<1> QED
  BY <1>7, <1>8, <1>9, <1>10

\* When every request is over, the ledgers hold what the answers used, and at most what a request
\* that died of the store or that the deadline cut has left there.
THEOREM LedgersAreTrueAlways == Spec => []LedgersAreTrue
<1>1. Init => LedgerInv
  <2> SUFFICES ASSUME NEW s \in Scenarios, RequestInit(s.payloads, s.rows, s.verified, s.entries, s.odds) PROVE LedgerInv
    BY DEF Init
  <2>1. BooksOpen(s.payloads, s.rows, s.odds)
    BY ScenariosAssumption
  <2> QED
    BY <2>1, LedgerInit
<1>2. LedgerInv /\ [Next]_platformVars => LedgerInv'
  <2> SUFFICES ASSUME LedgerInv, [Next]_platformVars PROVE LedgerInv'
    OBVIOUS
  <2>0. RequestsWork \/ UNCHANGED requestVars
    BY OthersWork
  <2>1. CASE RequestsWork
    BY <2>1, LedgerStep DEF RequestsWork
  <2>2. CASE UNCHANGED requestVars
    <3>1. UNCHANGED <<request, nonces, ledger, odds>>
      BY <2>2 DEF requestVars
    <3> QED
      BY <3>1, LedgerStays DEF LedgerInv, LedgerWell, StoreWell
  <2> QED
    BY <2>0, <2>1, <2>2
<1>3. LedgerInv => LedgersAreTrue
  BY OverLedgers DEF LedgersAreTrue
<1> QED BY <1>1, <1>2, <1>3, PTL DEF Spec

=============================================================================
