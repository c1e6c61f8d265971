-------------------------- MODULE TTYSessions_proofs --------------------------
(***************************************************************************)
(* Input and attachment of a persistent session, for any workers and any   *)
(* scenario.  ShapeInv types the runtime's variables.  OnceInv follows a   *)
(* command's receipt: whoever has the command in hand holds the receipt,   *)
(* and no two calls have the same.  LeaseInv follows the runtime ids: the  *)
(* lease names a runtime of its holder alone, and while no holder is held  *)
(* up every session that is attached has the lease.                        *)
(***************************************************************************)
EXTENDS TTYSessions, FiniteSetTheorems, TLAPS

Commands == [id : Nat, type : Views]
Beats == [id : {None}, type : {"heartbeat", "recover"}]
Pcs == {"idle", "session", "end", "closing", "fencing", "null", "probe", "attached", "claim", "create", "promote",
        "kill", "abandon", "surrender", "index", "replay", "done", "failed", "renew", "expire"}
Calls == [pc : Pcs, cmd : {None} \cup Commands \cup Beats, runtime : Nat, fresh : BOOLEAN]
Positive == Nat \ {0}
ManagedSessions == [runtime : Positive, fenced : BOOLEAN, client : BOOLEAN, told : BOOLEAN, next : Positive,
                    ready : BOOLEAN, observed : BOOLEAN]
Closings == [runtime : Positive, how : {"terminate", "detach", "exit"}, stage : {"fence", "exit", "client", "forget"}]

\* A call in progress has a command of its source; a heartbeat's only renews or fences, and a
\* call that creates has a runtime.
Commanded == {"session", "end", "closing", "done"}
Suits(t, cl) ==
    \/ cl.pc = "idle"
    \/ /\ t = "beat" /\ cl.cmd \in Beats /\ cl.pc \notin Commanded
       /\ cl.cmd.type = "heartbeat" => cl.pc \in {"renew", "fencing", "null"}
    \/ t # "beat" /\ cl.cmd \in Commands
CallShape ==
    /\ call \in [Workers -> [Callers -> Calls]]
    /\ \A w \in Workers, t \in Callers : Suits(t, call[w][t]) /\ (call[w][t].pc = "create" => call[w][t].runtime # 0)
ManagedShape == managed \in [Workers -> {None} \cup ManagedSessions]
ClosingShape == closing \in [Workers -> SUBSET Closings] /\ \A w \in Workers : IsFiniteSet(closing[w])
LeaseShape == lease = None \/ lease \in [runtime : Positive, worker : Workers]
Down == \A w \in Workers \ up : managed[w] = None /\ closing[w] = {} /\ \A t \in Callers : call[w][t] = Idle
RecordShape == session \in Statuses /\ shell \in BOOLEAN /\ history \in BOOLEAN /\ indexed \in BOOLEAN /\ up \subseteq Workers
OutputShape == journal \in Nat /\ offset \in 0..journal /\ transcript \subseteq 1..journal
ShapeInv == CallShape /\ ManagedShape /\ ClosingShape /\ LeaseShape /\ Down /\ RecordShape /\ OutputShape

\* The commands on their way.
PathShape ==
    /\ stream \in [{"global"} \cup Workers -> Seq(Commands)]
    /\ position \in [Workers -> [Streams -> Nat]]
    /\ wire \subseteq Commands /\ typed \in Seq(Nat)
    /\ browser.issued \in Nat /\ browser.outbox \in Seq(Commands)
    /\ left \in [owner : Workers \cup {None}, script : Seq(Views), crashes : Nat, stops : Nat, stalls : Nat,
                 stalling : BOOLEAN, faults : Nat, faulty : BOOLEAN, exits : Nat, output : Nat, ends : Nat]

Live(w, q) == call[w][q].pc # "idle"
Typed(id) == \E i \in 1..Len(typed) : typed[i] = id
Receipted ==
    /\ \A i \in 1..Len(typed) : typed[i] \in receipts
    /\ \A w \in Workers, q \in Sources : Live(w, q) => call[w][q].cmd.id \in receipts
Untyped == \A w \in Workers, q \in Sources : Live(w, q) /\ call[w][q].pc # "done" => ~Typed(call[w][q].cmd.id)
InOneHand ==
    \A v, w \in Workers, q, r \in Sources :
        Live(v, q) /\ Live(w, r) /\ call[v][q].cmd.id = call[w][r].cmd.id => v = w /\ q = r

\* Calls that have claimed a runtime and not yet attached it, or not any more.
Making == {"create", "promote", "kill", "abandon", "surrender"}
LeaseKnown == lease # None => \A w \in Workers : lease.runtime \in RuntimesOf(w) => w = lease.worker
OwnRuntime ==
    \A w \in Workers, t, u \in Callers :
        call[w][t].pc \in Making /\ call[w][u].pc \in Making /\ call[w][t].runtime = call[w][u].runtime => t = u
Unmanaged ==
    \A w \in Workers, t \in Callers :
        call[w][t].pc \in Making \ {"promote"} => ~Current(w, call[w][t].runtime)
Unclosed == \A w \in Workers, t \in Callers : call[w][t].pc = "create" => ~Closing(w, call[w][t].runtime)
Leased ==
    Calm => \A w \in Workers :
        /\ managed[w] # None /\ ~managed[w].fenced => Held(lease, managed[w].runtime)
        /\ \A t \in Callers : call[w][t].pc = "create" => Held(lease, call[w][t].runtime)
StallsAreTold == left.stalls > 0 => left.stalling

-----------------------------------------------------------------------------
(* Shapes *)

LEMMA CommandKinds ==
    /\ \A c \in Commands : c.id \in Nat /\ c.type \in Views /\ c.type \notin {"heartbeat", "recover"}
    /\ \A c \in Beats : c.id = None /\ c.type \in {"heartbeat", "recover"} /\ c.type \notin Views
    /\ Idle \in Calls /\ Idle.pc = "idle" /\ Idle.runtime = 0
BY DEF Commands, Beats, Views, Idle, Calls, Pcs

\* One call of a worker moves.
Moved(w, t, cl) ==
    /\ call' \in [Workers -> [Callers -> Calls]]
    /\ call'[w][t] = cl
    /\ \A v \in Workers, u \in Callers : v # w \/ u # t => call'[v][u] = call[v][u]

LEMMA Moves ==
    ASSUME CallShape, NEW w \in Workers, NEW t \in Callers, NEW cl \in Calls,
           call' = [call EXCEPT ![w][t] = cl]
    PROVE  Moved(w, t, cl)
BY DEF CallShape, Moved

LEMMA GoesMoves ==
    ASSUME CallShape, NEW w \in Workers, NEW t \in Callers, NEW pc \in Pcs, Goes(w, t, pc)
    PROVE  Moved(w, t, [call[w][t] EXCEPT !.pc = pc]) /\ call'[w][t] = [call[w][t] EXCEPT !.pc = pc]
<1>1. call[w][t] \in Calls
  BY DEF CallShape
<1>2. [call[w][t] EXCEPT !.pc = pc] \in Calls
  BY <1>1 DEF Calls
<1>3. call' = [call EXCEPT ![w][t] = [call[w][t] EXCEPT !.pc = pc]]
  BY DEF Goes
<1> QED BY ZenonT(40), <1>2, <1>3, Moves DEF Moved

LEMMA ClosingMoves ==
    ASSUME ClosingShape, NEW w \in Workers, NEW S \in SUBSET Closings, IsFiniteSet(S), closing' = [closing EXCEPT ![w] = S]
    PROVE  ClosingShape' /\ closing'[w] = S /\ \A v \in Workers \ {w} : closing'[v] = closing[v]
BY DEF ClosingShape

LEMMA ClosingFinite ==
    ASSUME ClosingShape, NEW w \in Workers, NEW c \in Closings, NEW d \in Closings
    PROVE  /\ closing[w] \cup {c} \in SUBSET Closings /\ IsFiniteSet(closing[w] \cup {c})
           /\ closing[w] \ {c} \in SUBSET Closings /\ IsFiniteSet(closing[w] \ {c})
           /\ (closing[w] \ {c}) \cup {d} \in SUBSET Closings /\ IsFiniteSet((closing[w] \ {c}) \cup {d})
<1>1. closing[w] \in SUBSET Closings /\ IsFiniteSet(closing[w])
  BY DEF ClosingShape
<1>2. IsFiniteSet(closing[w] \ {c}) /\ IsFiniteSet(closing[w] \cup {c})
  BY <1>1, FS_AddElement, FS_RemoveElement
<1>3. IsFiniteSet((closing[w] \ {c}) \cup {d})
  BY <1>2, FS_AddElement
<1> QED BY <1>1, <1>2, <1>3

\* What a fence does: one more thing to close, of the session that is managed.
LEMMA Fences ==
    ASSUME ManagedShape, ClosingShape, NEW w \in Workers, managed[w] # None, NEW how \in {"terminate", "detach"}, Fenced(w, how)
    PROVE  /\ ManagedShape' /\ ClosingShape'
           /\ managed'[w] = [managed[w] EXCEPT !.fenced = TRUE]
           /\ \A v \in Workers \ {w} : managed'[v] = managed[v] /\ closing'[v] = closing[v]
           /\ \A c \in closing'[w] : c \in closing[w] \/ c.runtime = managed[w].runtime
<1> DEFINE c == [runtime |-> managed[w].runtime, how |-> how, stage |-> "fence"]
<1>1. c \in Closings /\ managed[w] \in ManagedSessions /\ c.runtime = managed[w].runtime
  BY DEF ManagedShape, Closings, ManagedSessions
<1>2. ManagedShape' /\ managed'[w] = [managed[w] EXCEPT !.fenced = TRUE] /\ \A v \in Workers \ {w} : managed'[v] = managed[v]
  BY <1>1 DEF Fenced, ManagedShape, ManagedSessions
<1>3. CASE managed[w].fenced
  BY <1>2, <1>3 DEF Fenced, ClosingShape
<1>4. CASE ~managed[w].fenced
  <2>1. closing' = [closing EXCEPT ![w] = closing[w] \cup {c}]
    BY <1>4 DEF Fenced
  <2> HIDE DEF c
  <2>2. closing[w] \cup {c} \in SUBSET Closings /\ IsFiniteSet(closing[w] \cup {c})
    BY <1>1, ClosingFinite
  <2>3. ClosingShape' /\ closing'[w] = closing[w] \cup {c} /\ \A v \in Workers \ {w} : closing'[v] = closing[v]
    BY <2>1, <2>2, ClosingMoves
  <2> QED BY <1>1, <1>2, <2>3
<1> QED BY <1>3, <1>4

\* Killing the shell or closing a client touches nothing else.
LEMMA Detaches ==
    ASSUME ManagedShape
    PROVE  /\ \A w \in Workers : AllDetached[w] = Detached(managed[w]) /\ Detached(managed[w]) \in {None} \cup ManagedSessions
           /\ \A w \in Workers : managed[w] = None => Detached(managed[w]) = None
           /\ \A w \in Workers : Detached(managed[w]) # None => managed[w] # None /\ Detached(managed[w]).runtime = managed[w].runtime /\ Detached(managed[w]).fenced = managed[w].fenced
           /\ AllDetached \in [Workers -> {None} \cup ManagedSessions]
BY DEF ManagedShape, AllDetached, Detached, ManagedSessions

\* A call that moves keeps its command, or is over.
Proceeds(w, t) == \E cl \in Calls : Moved(w, t, cl) /\ Suits(t, cl) /\ (cl.pc = "create" => cl.runtime # 0)

LEMMA GoesProceeds ==
    ASSUME CallShape, NEW w \in Workers, NEW t \in Callers, NEW pc \in Pcs \ {"create"}, Goes(w, t, pc), call[w][t].pc # "idle",
           pc \in Commanded => t # "beat",
           t = "beat" /\ call[w][t].pc \in {"renew", "fencing", "null"} => pc \in {"renew", "fencing", "null"}
    PROVE  Proceeds(w, t)
<1> DEFINE cl == [call[w][t] EXCEPT !.pc = pc]
<1>1. call[w][t] \in Calls /\ Moved(w, t, cl)
  BY GoesMoves DEF CallShape
<1>2. cl \in Calls /\ cl.pc = pc /\ cl.cmd = call[w][t].cmd
  BY <1>1 DEF Calls
<1>3. Suits(t, cl)
  BY <1>2 DEF Suits, CallShape
<1> QED BY <1>1, <1>2, <1>3 DEF Proceeds

LEMMA MovesProceed ==
    ASSUME CallShape, NEW w \in Workers, NEW t \in Callers, NEW cl \in Calls, Suits(t, cl), cl.pc = "create" => cl.runtime # 0,
           call' = [call EXCEPT ![w][t] = cl]
    PROVE  Proceeds(w, t)
BY Moves DEF Proceeds

\* The shape of the calls, and of what a worker that is down has lost.
LEMMA ProceedsShape ==
    ASSUME CallShape, Down, NEW w \in up, up \subseteq Workers, NEW t \in Callers, Proceeds(w, t), up' = up,
           \A v \in Workers \ {w} : (managed[v] = None => managed'[v] = None) /\ closing'[v] = closing[v]
    PROVE  CallShape' /\ Down'
<1>1. PICK cl \in Calls : Moved(w, t, cl) /\ Suits(t, cl) /\ (cl.pc = "create" => cl.runtime # 0)
  BY DEF Proceeds
<1>2. CallShape'
  BY <1>1 DEF CallShape, Moved
<1>3. \A v \in Workers \ {w} : \A u \in Callers : call'[v][u] = call[v][u]
  BY <1>1 DEF Moved
<1> QED BY <1>2, <1>3 DEF Down

LEMMA StaysShape ==
    ASSUME CallShape, Down, up \subseteq Workers, NEW w \in up, call' = call, up' = up,
           \A v \in Workers \ {w} : (managed[v] = None => managed'[v] = None) /\ closing'[v] = closing[v]
    PROVE  CallShape' /\ Down'
BY DEF CallShape, Down

LEMMA CommandedCalls ==
    ASSUME CallShape, NEW w \in Workers, NEW t \in Callers, call[w][t].pc \in Commanded
    PROVE  t # "beat" /\ call[w][t].cmd \in Commands
BY DEF CallShape, Suits, Commanded

LEMMA FiniteImage ==
    ASSUME NEW S, IsFiniteSet(S), NEW f, f = [x \in S |-> f[x]]
    PROVE  IsFiniteSet({f[x] : x \in S})
<1>1. f \in Surjection(S, {f[x] : x \in S})
  BY DEF Surjection
<1> QED BY <1>1, FS_Surjection

\* randomUUID gives an id that nothing holds.
LEMMA FreshIsFresh ==
    ASSUME CallShape, ClosingShape
    PROVE  /\ FreshRuntime \in Positive /\ FreshRuntime \in Nat
           /\ lease # None => lease.runtime # FreshRuntime
           /\ \A w \in Workers : FreshRuntime \notin RuntimesOf(w)
<1>1. \A w \in Workers : IsFiniteSet(RuntimesOf(w))
  <2> TAKE w \in Workers
  <2>1. IsFiniteSet(Callers)
    <3>1. IsFiniteSet({"global"}) /\ IsFiniteSet({"target"}) /\ IsFiniteSet({"input"}) /\ IsFiniteSet({"beat"})
      BY FS_Singleton
    <3>2. IsFiniteSet({"global"} \cup {"target"}) /\ IsFiniteSet({"input"} \cup {"beat"})
      BY <3>1, FS_Union
    <3>3. Callers = ({"global"} \cup {"target"}) \cup ({"input"} \cup {"beat"})
      BY DEF Callers
    <3> QED BY <3>2, <3>3, FS_Union
  <2>2. IsFiniteSet({call[w][t].runtime : t \in Callers})
    <3> DEFINE f == [t \in Callers |-> call[w][t].runtime]
    <3>1. IsFiniteSet({f[t] : t \in Callers})
      BY <2>1, FiniteImage
    <3> QED BY <3>1
  <2>3. IsFiniteSet({c.runtime : c \in closing[w]})
    <3> DEFINE f == [c \in closing[w] |-> c.runtime]
    <3>1. IsFiniteSet({f[c] : c \in closing[w]})
      BY FiniteImage DEF ClosingShape
    <3> QED BY <3>1
  <2>4. IsFiniteSet(IF managed[w] = None THEN {} ELSE {managed[w].runtime})
    BY FS_EmptySet, FS_Singleton
  <2> QED BY <2>2, <2>3, <2>4, FS_Union DEF RuntimesOf
<1>2. IsFiniteSet(UNION {RuntimesOf(w) : w \in Workers})
  <2>1. IsFiniteSet({RuntimesOf(w) : w \in Workers})
    <3> DEFINE f == [w \in Workers |-> RuntimesOf(w)]
    <3>1. IsFiniteSet({f[w] : w \in Workers})
      BY FiniteImage, WorkersAssumption
    <3> QED BY <3>1
  <2> QED BY <1>1, <2>1, FS_UNION
<1>3. IsFiniteSet(RuntimesInUse)
  BY <1>2, FS_EmptySet, FS_Singleton, FS_Union DEF RuntimesInUse
<1> DEFINE n == Cardinality(RuntimesInUse)
<1>4. n \in Nat
  BY <1>3, FS_CardinalityType
<1>5. IsFiniteSet(1..n + 1) /\ Cardinality(1..n + 1) = n + 1
  BY <1>4, FS_Interval
<1>6. \E id \in 1..n + 1 : id \notin RuntimesInUse
  <2> SUFFICES ASSUME 1..n + 1 \subseteq RuntimesInUse PROVE FALSE
    OBVIOUS
  <2>1. Cardinality(1..n + 1) <= n
    BY <1>3, FS_Subset
  <2> HIDE DEF n
  <2> QED BY <1>4, <1>5, <2>1
<1>7. FreshRuntime \in 1..n + 1 /\ FreshRuntime \notin RuntimesInUse
  BY <1>6 DEF FreshRuntime
<1> QED BY <1>4, <1>7 DEF RuntimesInUse, Positive

LEMMA ReadShape ==
    ASSUME ShapeInv, NEW w \in Workers, NEW t \in Callers, ReadSession(w, t)
    PROVE  ShapeInv'
<1>1. /\ At(w, t, "session") /\ UNCHANGED <<durable, up, managed, closing>> /\ call[w][t] \in Calls /\ call[w][t].cmd \in Commands
      /\ managed[w] # None => managed[w].runtime \in Nat
  <2>1. At(w, t, "session") /\ UNCHANGED <<durable, up, managed, closing>>
    BY DEF ReadSession
  <2>2. call[w][t] \in Calls /\ Suits(t, call[w][t]) /\ call[w][t].pc = "session"
    BY <2>1 DEF At, ShapeInv, CallShape
  <2>3. call[w][t].cmd \in Commands
    BY <2>2 DEF Suits, Commanded
  <2> QED BY <2>1, <2>2, <2>3 DEF ShapeInv, ManagedShape, ManagedSessions, Positive
<1>2. CASE Goes(w, t, "done")
  <2>1. Proceeds(w, t)
    BY <1>1, <1>2, CommandedCalls, GoesProceeds DEF At, ShapeInv, Pcs, Commanded
  <2> QED BY <1>1, <2>1, ProceedsShape DEF ShapeInv, ManagedShape, ClosingShape, LeaseShape, RecordShape, OutputShape, durable, At
<1>3. CASE \E pc \in {"end", "claim", "probe"}, id \in Nat, f \in BOOLEAN :
              call' = [call EXCEPT ![w][t] = [call[w][t] EXCEPT !.pc = pc, !.runtime = id, !.fresh = f]]
  <2>1. PICK pc \in {"end", "claim", "probe"}, id \in Nat, f \in BOOLEAN :
              call' = [call EXCEPT ![w][t] = [call[w][t] EXCEPT !.pc = pc, !.runtime = id, !.fresh = f]]
    BY <1>3
  <2>2. [call[w][t] EXCEPT !.pc = pc, !.runtime = id, !.fresh = f] \in Calls /\ Suits(t, [call[w][t] EXCEPT !.pc = pc, !.runtime = id, !.fresh = f])
        /\ [call[w][t] EXCEPT !.pc = pc, !.runtime = id, !.fresh = f].pc # "create"
    BY <1>1, <2>1 DEF Calls, Pcs, Suits, Commanded, ShapeInv, CallShape, At
  <2>3. Proceeds(w, t)
    BY <2>1, <2>2, MovesProceed DEF ShapeInv
  <2> QED BY <1>1, <2>3, ProceedsShape DEF ShapeInv, ManagedShape, ClosingShape, LeaseShape, RecordShape, OutputShape, durable, At
<1>4. Goes(w, t, "done") \/ \E pc \in {"end", "claim", "probe"}, id \in Nat, f \in BOOLEAN :
              call' = [call EXCEPT ![w][t] = [call[w][t] EXCEPT !.pc = pc, !.runtime = id, !.fresh = f]]
  <2> DEFINE type == call[w][t].cmd.type
             first == session = "gone" \/ (type # "terminate" /\ session # "active")
             second == session # "gone" /\ type = "terminate" /\ (managed[w] # None \/ ~history)
             cl == call[w][t]
             endId == IF managed[w] = None THEN 0 ELSE managed[w].runtime
  <2>1. first \/ (second /\ ~first) \/ (~first /\ ~second)
    OBVIOUS
  <2>2. CASE first
    BY <2>2 DEF ReadSession, Finish
  <2>3. CASE second /\ ~first
    <3>1. call' = [call EXCEPT ![w][t] = [cl EXCEPT !.pc = "end", !.runtime = endId]]
      BY <2>3 DEF ReadSession
    <3>2. cl.fresh \in BOOLEAN /\ endId \in Nat /\ [cl EXCEPT !.pc = "end", !.runtime = endId] = [cl EXCEPT !.pc = "end", !.runtime = endId, !.fresh = cl.fresh]
      BY <1>1 DEF Calls
    <3> QED BY <3>1, <3>2
  <2>4. CASE ~first /\ ~second
    <3>1. call' = [call EXCEPT ![w][t] = Attaching(w, cl)]
      BY <2>4 DEF ReadSession
    <3>2. CASE managed[w] = None
      <4>1. (~history) \in BOOLEAN /\ cl.runtime \in Nat /\ Attaching(w, cl) = [cl EXCEPT !.pc = "claim", !.runtime = cl.runtime, !.fresh = ~history]
        BY <1>1, <3>2 DEF Attaching, Calls
      <4> QED BY <3>1, <4>1
    <3>3. CASE managed[w] # None
      <4>1. cl.fresh \in BOOLEAN /\ managed[w].runtime \in Nat /\ Attaching(w, cl) = [cl EXCEPT !.pc = "probe", !.runtime = managed[w].runtime, !.fresh = cl.fresh]
        BY <1>1, <3>3 DEF Attaching, Calls
      <4> QED BY <3>1, <4>1
    <3> QED BY <3>2, <3>3
  <2> QED BY <2>1, <2>2, <2>3, <2>4
<1> QED BY <1>2, <1>3, <1>4

LEMMA EndShape ==
    ASSUME ShapeInv, NEW w \in Workers, NEW t \in Callers, EndSession(w, t)
    PROVE  ShapeInv'
<1>1. /\ At(w, t, "end") /\ UNCHANGED <<shell, journal, lease, history, indexed, offset, transcript, up, managed>>
      /\ session' = Latched(session)
  BY DEF EndSession
<1>2. Proceeds(w, t)
  <2>1. (Goes(w, t, "closing") \/ Goes(w, t, "done")) /\ t # "beat"
    BY <1>1, CommandedCalls DEF EndSession, Finish, At, ShapeInv, Commanded
  <2> QED BY <1>1, <2>1, GoesProceeds DEF At, ShapeInv, Pcs, Commanded
<1>3. ClosingShape' /\ \A v \in Workers \ {w} : closing'[v] = closing[v]
  <2> DEFINE id == call[w][t].runtime
             c == [runtime |-> id, how |-> "terminate", stage |-> "client"]
  <2>1. CASE closing' = closing
    BY <2>1 DEF ShapeInv, ClosingShape
  <2>2. CASE Current(w, id) /\ closing' = [closing EXCEPT ![w] = closing[w] \cup {c}]
    <3>1. c \in Closings
      BY <2>2 DEF Current, Closings, ShapeInv, ManagedShape, ManagedSessions
    <3> HIDE DEF c
    <3>2. closing[w] \cup {c} \in SUBSET Closings /\ IsFiniteSet(closing[w] \cup {c})
      BY <3>1, ClosingFinite DEF ShapeInv
    <3> QED BY <2>2, <3>2, ClosingMoves DEF ShapeInv
  <2>3. closing' = closing \/ (Current(w, id) /\ closing' = [closing EXCEPT ![w] = closing[w] \cup {c}])
    <3>1. closing \in [Workers -> SUBSET Closings]
      BY DEF ShapeInv, ClosingShape
    <3> QED BY <3>1 DEF EndSession
  <2> QED BY <2>1, <2>2, <2>3
<1> QED BY <1>1, <1>2, <1>3, ProceedsShape DEF ShapeInv, ManagedShape, ClosingShape, LeaseShape, RecordShape, OutputShape, At, Latched, Statuses

LEMMA ClosedShape ==
    ASSUME ShapeInv, NEW w \in Workers, NEW t \in Callers, Closed(w, t)
    PROVE  ShapeInv'
<1>1. /\ w \in up /\ UNCHANGED <<durable, up, managed, closing>>
      /\ \/ call[w][t].pc = "closing" /\ Goes(w, t, "done") /\ t # "beat"
         \/ call[w][t].pc = "fencing" /\ Goes(w, t, "null")
  BY CommandedCalls DEF Closed, Finish, ShapeInv, Commanded
<1>2. Proceeds(w, t)
  BY <1>1, GoesProceeds DEF ShapeInv, Pcs, Commanded
<1> QED BY <1>1, <1>2, ProceedsShape DEF ShapeInv, ManagedShape, ClosingShape, LeaseShape, RecordShape, OutputShape, durable

LEMMA ProbeShape ==
    ASSUME ShapeInv, NEW w \in Workers, NEW t \in Callers, NEW fails \in BOOLEAN, Probe(w, t, fails)
    PROVE  ShapeInv'
<1>1. At(w, t, "probe") /\ UNCHANGED <<durable, up>>
  BY DEF Probe
<1>2. Proceeds(w, t)
  <2>1. Goes(w, t, "attached") \/ Goes(w, t, "fencing") \/ Goes(w, t, "null")
    BY DEF Probe
  <2> QED BY <1>1, <2>1, GoesProceeds DEF At, ShapeInv, Pcs, Commanded
<1>3. ManagedShape' /\ ClosingShape' /\ \A v \in Workers \ {w} : managed'[v] = managed[v] /\ closing'[v] = closing[v]
  <2>1. CASE managed' = managed /\ closing' = closing
    BY <2>1 DEF ShapeInv, ManagedShape, ClosingShape
  <2>2. CASE managed[w] # None /\ Fenced(w, "terminate")
    BY <2>2, Fences DEF ShapeInv
  <2> QED BY <2>1, <2>2 DEF Probe, Current
<1> QED BY <1>1, <1>2, <1>3, ProceedsShape DEF ShapeInv, ManagedShape, ClosingShape, LeaseShape, RecordShape, OutputShape, durable, At

LEMMA ClaimShape ==
    ASSUME ShapeInv, NEW w \in Workers, NEW t \in Callers, ClaimRuntime(w, t)
    PROVE  ShapeInv'
<1>1. At(w, t, "claim") /\ UNCHANGED <<session, shell, journal, history, indexed, offset, transcript, local>>
  BY DEF ClaimRuntime
<1>2. CASE Goes(w, t, "failed") /\ lease' = lease
  <2>1. Proceeds(w, t)
    BY <1>1, <1>2, GoesProceeds DEF At, ShapeInv, Pcs, Commanded
  <2> QED BY <1>1, <1>2, <2>1, ProceedsShape DEF ShapeInv, ManagedShape, ClosingShape, LeaseShape, RecordShape, OutputShape, local, At
<1>3. CASE /\ lease' = [runtime |-> FreshRuntime, worker |-> w]
           /\ call' = [call EXCEPT ![w][t] = [call[w][t] EXCEPT !.pc = "create", !.runtime = FreshRuntime]]
  <2> DEFINE cl == [call[w][t] EXCEPT !.pc = "create", !.runtime = FreshRuntime]
  <2>1. FreshRuntime \in Positive /\ FreshRuntime \in Nat
    BY FreshIsFresh DEF Positive, ShapeInv
  <2>2. call[w][t] \in Calls /\ Suits(t, call[w][t]) /\ call[w][t].pc = "claim"
    BY <1>1 DEF At, ShapeInv, CallShape
  <2>4. cl \in Calls /\ cl.runtime = FreshRuntime /\ cl.pc = "create" /\ cl.cmd = call[w][t].cmd
    BY <2>1, <2>2 DEF Calls, Pcs
  <2>5. Suits(t, cl) /\ cl.runtime # 0
    BY <2>1, <2>2, <2>4 DEF Suits, Commanded, Positive
  <2>3. Proceeds(w, t)
    BY <1>3, <2>4, <2>5, MovesProceed DEF ShapeInv
  <2> QED BY <1>1, <1>3, <2>1, <2>3, ProceedsShape DEF ShapeInv, ManagedShape, ClosingShape, LeaseShape, RecordShape, OutputShape, local, At
<1> QED BY <1>2, <1>3 DEF ClaimRuntime

LEMMA CreateShape ==
    ASSUME ShapeInv, NEW w \in Workers, NEW t \in Callers, NEW fails \in BOOLEAN, Create(w, t, fails)
    PROVE  ShapeInv'
<1>1. At(w, t, "create") /\ UNCHANGED <<journal, lease, history, offset, transcript, up, closing>>
  BY DEF Create
<1>2. Proceeds(w, t)
  <2>1. Goes(w, t, "abandon") \/ Goes(w, t, "promote") \/ Goes(w, t, "surrender")
    BY DEF Create
  <2> QED BY <1>1, <2>1, GoesProceeds DEF At, ShapeInv, Pcs, Commanded
<1>3. ManagedShape' /\ \A v \in Workers \ {w} : managed'[v] = managed[v]
  <2>1. CASE managed' = managed
    BY <2>1 DEF ShapeInv, ManagedShape
  <2>2. CASE managed' = [managed EXCEPT ![w] = NewManaged(call[w][t].runtime, journal + 1)]
    <3>1. NewManaged(call[w][t].runtime, journal + 1) \in ManagedSessions
      BY <1>1 DEF NewManaged, ManagedSessions, ShapeInv, OutputShape, Positive, CallShape, Calls, At
    <3> QED BY <2>2, <3>1 DEF ShapeInv, ManagedShape
  <2> QED BY <2>1, <2>2 DEF Create
<1>4. session' \in Statuses /\ shell' \in BOOLEAN /\ indexed' \in BOOLEAN
  BY DEF Create, ShapeInv, RecordShape, Latched, Statuses
<1> QED BY <1>1, <1>2, <1>3, <1>4, ProceedsShape DEF ShapeInv, ManagedShape, ClosingShape, LeaseShape, RecordShape, OutputShape, At

LEMMA PromoteShape ==
    ASSUME ShapeInv, NEW w \in Workers, NEW t \in Callers, Promote(w, t)
    PROVE  ShapeInv'
<1>1. At(w, t, "promote") /\ UNCHANGED <<session, shell, journal, lease, indexed, offset, transcript, up, closing>>
  BY DEF Promote
<1>2. Proceeds(w, t)
  <2>1. Goes(w, t, "index") \/ Goes(w, t, "kill")
    BY DEF Promote
  <2> QED BY <1>1, <2>1, GoesProceeds DEF At, ShapeInv, Pcs, Commanded
<1>3. history' \in BOOLEAN /\ ManagedShape' /\ \A v \in Workers \ {w} : managed'[v] = managed[v]
  BY DEF Promote, ShapeInv, RecordShape, ManagedShape
<1> QED BY <1>1, <1>2, <1>3, ProceedsShape DEF ShapeInv, ManagedShape, ClosingShape, LeaseShape, RecordShape, OutputShape, At

LEMMA KillShape ==
    ASSUME ShapeInv, NEW w \in Workers, NEW t \in Callers, Kill(w, t)
    PROVE  ShapeInv'
<1>1. At(w, t, "kill") /\ UNCHANGED <<session, journal, lease, history, indexed, offset, transcript, up, closing>>
  BY DEF Kill
<1>2. Proceeds(w, t)
  <2>1. Goes(w, t, "abandon")
    BY DEF Kill
  <2> QED BY <1>1, <2>1, GoesProceeds DEF At, ShapeInv, Pcs, Commanded
<1>3. shell' \in BOOLEAN /\ ManagedShape' /\ \A v \in Workers : managed[v] = None => managed'[v] = None
  BY Detaches DEF Kill, ShapeInv, ManagedShape
<1> QED BY <1>1, <1>2, <1>3, ProceedsShape DEF ShapeInv, ManagedShape, ClosingShape, LeaseShape, RecordShape, OutputShape, At

LEMMA AbandonShape ==
    ASSUME ShapeInv, NEW w \in Workers, NEW t \in Callers, Abandon(w, t)
    PROVE  ShapeInv'
<1>1. /\ UNCHANGED <<session, shell, journal, history, indexed, offset, transcript, local>>
      /\ w \in up /\ call[w][t].pc \in {"abandon", "surrender"}
      /\ Goes(w, t, "failed") \/ Goes(w, t, "null")
  BY DEF Abandon, At
<1>2. Proceeds(w, t)
  BY <1>1, GoesProceeds DEF ShapeInv, Pcs, Commanded
<1>3. LeaseShape'
  BY DEF Abandon, Released, ShapeInv, LeaseShape
<1> QED BY <1>1, <1>2, <1>3, ProceedsShape DEF ShapeInv, ManagedShape, ClosingShape, LeaseShape, RecordShape, OutputShape, local

LEMMA IndexShape ==
    ASSUME ShapeInv, NEW w \in Workers, NEW t \in Callers, Index(w, t)
    PROVE  ShapeInv'
<1>1. At(w, t, "index") /\ UNCHANGED <<session, shell, journal, lease, history, offset, transcript, local>>
  BY DEF Index
<1>2. Proceeds(w, t)
  <2>1. Goes(w, t, "replay")
    BY DEF Index
  <2> QED BY <1>1, <2>1, GoesProceeds DEF At, ShapeInv, Pcs, Commanded
<1>3. indexed' \in BOOLEAN
  BY DEF Index
<1> QED BY <1>1, <1>2, <1>3, ProceedsShape DEF ShapeInv, ManagedShape, ClosingShape, LeaseShape, RecordShape, OutputShape, At, local

LEMMA MaxOffset ==
    ASSUME OutputShape
    PROVE  Max({offset, journal}) = journal
<1>1. \E x \in {offset, journal} : \A y \in {offset, journal} : x >= y
  BY DEF OutputShape
<1>2. /\ Max({offset, journal}) \in {offset, journal} /\ Max({offset, journal}) >= journal
  BY <1>1 DEF Max
<1> QED BY <1>2 DEF OutputShape

LEMMA ReplayedShape ==
    ASSUME OutputShape, Replayed, journal' = journal
    PROVE  OutputShape'
BY MaxOffset DEF OutputShape, Replayed

LEMMA ReplayFirstShape ==
    ASSUME ShapeInv, NEW w \in Workers, NEW t \in Callers, NEW fails \in BOOLEAN, ReplayFirst(w, t, fails)
    PROVE  ShapeInv'
<1>1. At(w, t, "replay") /\ UNCHANGED <<session, shell, journal, lease, history, indexed, up>>
  BY DEF ReplayFirst
<1>2. Proceeds(w, t)
  <2>1. Goes(w, t, "null") \/ Goes(w, t, "attached") \/ Goes(w, t, "fencing")
    BY DEF ReplayFirst
  <2> QED BY <1>1, <2>1, GoesProceeds DEF At, ShapeInv, Pcs, Commanded
<1>3. CASE UNCHANGED <<managed, closing, offset, transcript>>
  BY <1>1, <1>2, <1>3, ProceedsShape DEF ShapeInv, ManagedShape, ClosingShape, LeaseShape, RecordShape, OutputShape, At
<1>4. CASE managed[w] # None /\ Fenced(w, "detach") /\ UNCHANGED <<offset, transcript>>
  BY <1>1, <1>2, <1>4, Fences, ProceedsShape DEF ShapeInv, LeaseShape, RecordShape, OutputShape, At
<1>5. CASE managed[w] # None /\ Replayed /\ managed' = [managed EXCEPT ![w].ready = TRUE] /\ closing' = closing
  <2>1. ManagedShape' /\ \A v \in Workers \ {w} : managed'[v] = managed[v]
    BY <1>5 DEF ShapeInv, ManagedShape, ManagedSessions
  <2>2. OutputShape'
    BY <1>1, <1>5, ReplayedShape DEF ShapeInv
  <2> QED BY <1>1, <1>2, <1>5, <2>1, <2>2, ProceedsShape DEF ShapeInv, ClosingShape, LeaseShape, RecordShape, At
<1> QED BY <1>3, <1>4, <1>5 DEF ReplayFirst, Settles, Current

LEMMA AttachedShape ==
    ASSUME ShapeInv, NEW w \in Workers, NEW t \in Callers, Attached(w, t)
    PROVE  ShapeInv'
<1>1. At(w, t, "attached") /\ UNCHANGED <<durable, up, managed, closing>> /\ Suits(t, call[w][t]) /\ call[w][t] \in Calls
  BY DEF Attached, At, ShapeInv, CallShape
<1>2. \/ t = "beat" /\ call[w][t].cmd.type = "recover"
      \/ t # "beat" /\ call[w][t].cmd.type \in Views
  BY <1>1 DEF Suits, At, Beats, Commands
<1>3. Proceeds(w, t)
  <2>1. CASE t = "beat" /\ call[w][t].cmd.type = "recover"
    <3>1. call' = [call EXCEPT ![w][t] = Idle]
      BY <2>1 DEF Attached
    <3> QED BY <3>1, CommandKinds, MovesProceed DEF ShapeInv, Suits
  <2>2. CASE t # "beat" /\ call[w][t].cmd.type \in Views
    <3>1. Goes(w, t, "end") \/ Goes(w, t, "done") \/ Goes(w, t, "failed")
      BY <2>2 DEF Attached, Finish, Views
    <3> QED BY <1>1, <2>2, <3>1, GoesProceeds DEF At, ShapeInv, Pcs, Commanded
  <2> QED BY <1>2, <2>1, <2>2
<1> QED BY <1>1, <1>3, ProceedsShape DEF ShapeInv, ManagedShape, ClosingShape, LeaseShape, RecordShape, OutputShape, At, durable

LEMMA UnattachedShape ==
    ASSUME ShapeInv, NEW w \in Workers, NEW t \in Callers, Unattached(w, t)
    PROVE  ShapeInv'
<1>1. /\ At(w, t, "null") /\ UNCHANGED <<session, shell, journal, lease, history, offset, transcript, up, managed, closing>>
      /\ Suits(t, call[w][t]) /\ call[w][t] \in Calls
  BY DEF Unattached, At, ShapeInv, CallShape
<1>2. \/ t = "beat" /\ call[w][t].cmd.type \in {"recover", "heartbeat"}
      \/ t # "beat" /\ call[w][t].cmd \in Commands /\ call[w][t].cmd.type \in Views
  BY <1>1 DEF Suits, At, Beats, Commands
<1>3. Proceeds(w, t)
  <2>1. CASE t = "beat" /\ call[w][t].cmd.type \in {"recover", "heartbeat"}
    <3>1. call' = [call EXCEPT ![w][t] = Idle]
      BY <2>1 DEF Unattached
    <3> QED BY <3>1, CommandKinds, MovesProceed DEF ShapeInv, Suits
  <2>2. CASE t # "beat" /\ call[w][t].cmd \in Commands /\ call[w][t].cmd.type \in Views
    <3>1. Goes(w, t, "done") \/ call' = [call EXCEPT ![w][t] = [call[w][t] EXCEPT !.pc = "end", !.runtime = 0]]
      BY <2>2 DEF Unattached, Finish, Views
    <3>2. CASE Goes(w, t, "done")
      BY <1>1, <2>2, <3>2, GoesProceeds DEF At, ShapeInv, Pcs, Commanded
    <3>3. CASE call' = [call EXCEPT ![w][t] = [call[w][t] EXCEPT !.pc = "end", !.runtime = 0]]
      <4> DEFINE cl == [call[w][t] EXCEPT !.pc = "end", !.runtime = 0]
      <4>1. cl \in Calls /\ cl.pc = "end" /\ cl.cmd = call[w][t].cmd
        BY <1>1 DEF Calls, Pcs
      <4>2. Suits(t, cl)
        BY <2>2, <4>1 DEF Suits
      <4> QED BY <3>3, <4>1, <4>2, MovesProceed DEF ShapeInv
    <3> QED BY <3>1, <3>2, <3>3
  <2> QED BY <1>2, <2>1, <2>2
<1>4. indexed' \in BOOLEAN
  BY <1>2 DEF Unattached, ShapeInv, RecordShape, Views
<1> QED BY <1>1, <1>3, <1>4, ProceedsShape DEF ShapeInv, ManagedShape, ClosingShape, LeaseShape, RecordShape, OutputShape, At

\* What is being closed by a worker that goes on.
LEMMA Closes ==
    ASSUME ShapeInv, NEW w \in up, NEW c \in closing[w],
           \/ closing' = Settled(w, c)
           \/ \E how \in {"terminate", "detach", "exit"}, stage \in {"client", "forget"} :
                 closing' = [closing EXCEPT ![w] = (closing[w] \ {c}) \cup {[c EXCEPT !.stage = stage, !.how = how]}]
    PROVE  /\ w \in Workers /\ ClosingShape' /\ \A v \in Workers \ {w} : closing'[v] = closing[v]
           /\ \A d \in closing'[w] : \E e \in closing[w] : d.runtime = e.runtime
<1>1. w \in Workers /\ c \in Closings /\ closing \in [Workers -> SUBSET Closings] /\ closing[w] \subseteq Closings
  BY DEF ShapeInv, RecordShape, ClosingShape
<1>2. CASE closing' = Settled(w, c)
  <2>1. closing' = [closing EXCEPT ![w] = closing[w] \ {c}]
    BY <1>2 DEF Settled
  <2>2. closing[w] \ {c} \in SUBSET Closings /\ IsFiniteSet(closing[w] \ {c})
    BY <1>1, ClosingFinite DEF ShapeInv
  <2> QED BY <1>1, <2>1, <2>2, ClosingMoves DEF ShapeInv
<1>3. ASSUME NEW how \in {"terminate", "detach", "exit"}, NEW stage \in {"client", "forget"},
             closing' = [closing EXCEPT ![w] = (closing[w] \ {c}) \cup {[c EXCEPT !.stage = stage, !.how = how]}]
      PROVE  /\ ClosingShape' /\ \A v \in Workers \ {w} : closing'[v] = closing[v]
             /\ \A d \in closing'[w] : \E e \in closing[w] : d.runtime = e.runtime
  <2> DEFINE d == [c EXCEPT !.stage = stage, !.how = how]
  <2>1. d \in Closings /\ d.runtime = c.runtime
    BY <1>1 DEF Closings
  <2> HIDE DEF d
  <2>2. (closing[w] \ {c}) \cup {d} \in SUBSET Closings /\ IsFiniteSet((closing[w] \ {c}) \cup {d})
    BY <1>1, <2>1, ClosingFinite DEF ShapeInv
  <2>3. closing' = [closing EXCEPT ![w] = (closing[w] \ {c}) \cup {d}]
    BY <1>3 DEF d
  <2>4. ClosingShape' /\ closing'[w] = (closing[w] \ {c}) \cup {d} /\ \A v \in Workers \ {w} : closing'[v] = closing[v]
    BY <1>1, <2>2, <2>3, ClosingMoves DEF ShapeInv
  <2> QED BY <2>1, <2>4
<1> QED BY <1>1, <1>2, <1>3

\* The steps of fence, exit and cleanup, as far as the shapes go.
ClosesOne(w, c) ==
    \/ closing' = Settled(w, c)
    \/ \E how \in {"terminate", "detach", "exit"}, stage \in {"client", "forget"} :
          closing' = [closing EXCEPT ![w] = (closing[w] \ {c}) \cup {[c EXCEPT !.stage = stage, !.how = how]}]

LEMMA AdvancedIs ==
    ASSUME ShapeInv, NEW w \in up, NEW c \in closing[w], NEW stage \in {"client", "forget"}, closing' = Advanced(w, c, stage)
    PROVE  ClosesOne(w, c)
<1>1. c \in Closings
  BY DEF ShapeInv, RecordShape, ClosingShape
<1>2. c.how \in {"terminate", "detach", "exit"} /\ [c EXCEPT !.stage = stage] = [c EXCEPT !.stage = stage, !.how = c.how]
  BY <1>1 DEF Closings
<1> QED BY <1>2 DEF Advanced, ClosesOne

LEMMA FenceStepShape ==
    ASSUME ShapeInv, NEW w \in Workers, NEW c \in closing[w], FenceStep(w, c)
    PROVE  ShapeInv'
<1>1. w \in up /\ UNCHANGED <<shell, journal, lease, history, indexed, offset, transcript, managed, call, up>>
  BY DEF FenceStep
<1>2. ClosesOne(w, c)
  <2>1. closing' = Settled(w, c) \/ closing' = Advanced(w, c, "client")
    BY DEF FenceStep
  <2> QED BY <1>1, <2>1, AdvancedIs DEF ClosesOne
<1>3. session' \in Statuses
  BY DEF FenceStep, ShapeInv, RecordShape, Latched, Statuses
<1>4. w \in Workers /\ ClosingShape' /\ \A v \in Workers \ {w} : closing'[v] = closing[v]
  BY <1>1, <1>2, Closes DEF ClosesOne
<1> QED BY <1>1, <1>3, <1>4, StaysShape DEF ShapeInv, ManagedShape, ClosingShape, LeaseShape, RecordShape, OutputShape

LEMMA ExitStepShape ==
    ASSUME ShapeInv, NEW w \in Workers, NEW c \in closing[w], ExitStep(w, c)
    PROVE  ShapeInv'
<1>1. w \in up /\ UNCHANGED <<shell, journal, lease, history, indexed, offset, transcript, managed, call, up>>
  BY DEF ExitStep
<1>2. ClosesOne(w, c)
  <2>1. CASE closing' = Settled(w, c)
    BY <2>1 DEF ClosesOne
  <2>2. CASE closing' = [closing EXCEPT ![w] = (closing[w] \ {c}) \cup {[c EXCEPT !.stage = "client", !.how = IF shell THEN "detach" ELSE "terminate"]}]
    BY <2>2 DEF ClosesOne
  <2> QED BY <2>1, <2>2 DEF ExitStep
<1>3. session' \in Statuses
  BY DEF ExitStep, ShapeInv, RecordShape, Latched, Statuses
<1>4. w \in Workers /\ ClosingShape' /\ \A v \in Workers \ {w} : closing'[v] = closing[v]
  BY <1>1, <1>2, Closes DEF ClosesOne
<1> QED BY <1>1, <1>3, <1>4, StaysShape DEF ShapeInv, ManagedShape, ClosingShape, LeaseShape, RecordShape, OutputShape

LEMMA CloseClientShape ==
    ASSUME ShapeInv, NEW w \in Workers, NEW c \in closing[w], CloseClient(w, c)
    PROVE  ShapeInv'
<1>1. w \in up /\ UNCHANGED <<session, journal, lease, history, indexed, offset, transcript, call, up>>
  BY DEF CloseClient
<1>2. ClosesOne(w, c)
  BY <1>1, AdvancedIs DEF CloseClient
<1>3. shell' \in BOOLEAN /\ ManagedShape' /\ \A v \in Workers : managed[v] = None => managed'[v] = None
  <2>1. CASE managed' = [managed EXCEPT ![w] = Detached(managed[w])] /\ shell' = shell
    BY <2>1, Detaches DEF ShapeInv, ManagedShape, RecordShape
  <2>2. CASE managed' = AllDetached /\ shell' = FALSE
    BY <2>2, Detaches DEF ShapeInv, ManagedShape, RecordShape
  <2> QED BY <2>1, <2>2 DEF CloseClient
<1>4. w \in Workers /\ ClosingShape' /\ \A v \in Workers \ {w} : closing'[v] = closing[v]
  BY <1>1, <1>2, Closes DEF ClosesOne
<1> QED BY <1>1, <1>3, <1>4, StaysShape DEF ShapeInv, ManagedShape, ClosingShape, LeaseShape, RecordShape, OutputShape

LEMMA DetachFailsShape ==
    ASSUME ShapeInv, NEW w \in Workers, NEW c \in closing[w], DetachFails(w, c)
    PROVE  ShapeInv'
<1>1. w \in up /\ UNCHANGED <<durable, managed, call, up>>
  BY DEF DetachFails
<1>2. ClosesOne(w, c)
  BY DEF DetachFails, ClosesOne
<1>4. w \in Workers /\ ClosingShape' /\ \A v \in Workers \ {w} : closing'[v] = closing[v]
  BY <1>1, <1>2, Closes DEF ClosesOne
<1> QED BY <1>1, <1>4, StaysShape DEF ShapeInv, ManagedShape, ClosingShape, LeaseShape, RecordShape, OutputShape, durable

LEMMA ForgetShape ==
    ASSUME ShapeInv, NEW w \in Workers, NEW c \in closing[w], Forget(w, c)
    PROVE  ShapeInv'
<1>1. w \in up /\ UNCHANGED <<session, shell, journal, history, transcript, call, up>>
  BY DEF Forget
<1>2. ClosesOne(w, c)
  BY DEF Forget, ClosesOne
<1>3. ManagedShape' /\ (\A v \in Workers : managed[v] = None => managed'[v] = None) /\ LeaseShape' /\ OutputShape' /\ indexed' \in BOOLEAN
  <2>1. ManagedShape' /\ \A v \in Workers : managed[v] = None => managed'[v] = None
    BY DEF Forget, ShapeInv, ManagedShape
  <2>2. LeaseShape'
    BY DEF Forget, ShapeInv, LeaseShape, Released
  <2>3. offset' \in {0, offset} /\ journal' = journal /\ transcript' = transcript
    BY DEF Forget
  <2>4. OutputShape'
    BY <2>3 DEF ShapeInv, OutputShape
  <2>5. indexed' \in BOOLEAN
    BY DEF Forget, ShapeInv, RecordShape
  <2> QED BY <2>1, <2>2, <2>4, <2>5
<1>4. w \in Workers /\ ClosingShape' /\ \A v \in Workers \ {w} : closing'[v] = closing[v]
  BY <1>1, <1>2, Closes DEF ClosesOne
<1> QED BY <1>1, <1>3, <1>4, StaysShape DEF ShapeInv, ManagedShape, ClosingShape, LeaseShape, RecordShape, OutputShape

LEMMA ExitEventShape ==
    ASSUME ShapeInv, NEW w \in Workers, ExitEvent(w)
    PROVE  ShapeInv'
<1>1. w \in up /\ managed[w] # None /\ UNCHANGED <<durable, up, call>> /\ managed' = [managed EXCEPT ![w].told = TRUE]
  BY DEF ExitEvent
<1>2. ManagedShape' /\ \A v \in Workers \ {w} : managed'[v] = managed[v]
  BY <1>1 DEF ShapeInv, ManagedShape, ManagedSessions
<1>3. ClosingShape' /\ \A v \in Workers \ {w} : closing'[v] = closing[v]
  <2> DEFINE c == [runtime |-> managed[w].runtime, how |-> "exit", stage |-> "exit"]
  <2>1. c \in Closings
    BY <1>1 DEF ShapeInv, ManagedShape, ManagedSessions, Closings
  <2>2. closing' = [closing EXCEPT ![w] = closing[w]] \/ closing' = [closing EXCEPT ![w] = closing[w] \cup {c}]
    BY DEF ExitEvent
  <2> HIDE DEF c
  <2>3. closing[w] \cup {c} \in SUBSET Closings /\ IsFiniteSet(closing[w] \cup {c}) /\ closing[w] \in SUBSET Closings /\ IsFiniteSet(closing[w])
    BY <2>1, ClosingFinite DEF ShapeInv, ClosingShape
  <2> QED BY <2>2, <2>3, ClosingMoves DEF ShapeInv
<1> QED BY <1>1, <1>2, <1>3, StaysShape DEF ShapeInv, LeaseShape, RecordShape, OutputShape, durable

LEMMA BeatFailedShape ==
    ASSUME ShapeInv, NEW w \in Workers, BeatFailed(w)
    PROVE  ShapeInv'
<1>1. w \in up /\ UNCHANGED <<durable, local>> /\ call' = [call EXCEPT ![w]["beat"] = Idle] /\ "beat" \in Callers
  BY DEF BeatFailed, At, Callers
<1>2. Proceeds(w, "beat")
  BY <1>1, CommandKinds, MovesProceed DEF ShapeInv, Suits
<1> QED BY <1>1, <1>2, ProceedsShape DEF ShapeInv, ManagedShape, ClosingShape, LeaseShape, RecordShape, OutputShape, durable, local

LEMMA ShownIs ==
    ASSUME NEW m \in ManagedSessions
    PROVE  Shown(m) \in ManagedSessions /\ Shown(m).runtime = m.runtime /\ Shown(m).fenced = m.fenced
<1> DEFINE n == m.next + 1
<1>3. n \in Positive
  BY DEF ManagedSessions, Positive
<1> HIDE DEF n
<1>1. CASE m.ready
  <2>1. Shown(m) = [m EXCEPT !.next = n, !.observed = TRUE]
    BY <1>1 DEF Shown, n
  <2> QED BY <1>3, <2>1 DEF ManagedSessions
<1>2. CASE ~m.ready
  <2>1. Shown(m) = [m EXCEPT !.next = n, !.observed = m.observed]
    BY <1>2 DEF Shown, n
  <2> QED BY <1>3, <2>1 DEF ManagedSessions
<1> QED BY <1>1, <1>2

LEMMA ShowShape ==
    ASSUME ShapeInv, NEW w \in Workers, Show(w)
    PROVE  ShapeInv'
<1>1. /\ w \in up /\ managed[w] # None /\ UNCHANGED <<session, shell, journal, lease, history, indexed, offset, up, closing, call>>
      /\ managed' = [managed EXCEPT ![w] = Shown(managed[w])]
  BY DEF Show
<1>2. managed[w] \in ManagedSessions
  BY <1>1 DEF ShapeInv, ManagedShape
<1>3. ManagedShape' /\ \A v \in Workers \ {w} : managed'[v] = managed[v]
  <2>1. Shown(managed[w]) \in ManagedSessions
    BY <1>2, ShownIs
  <2> QED BY <1>1, <2>1 DEF ShapeInv, ManagedShape
<1>4. OutputShape'
  <2>1. managed[w].next \in Positive /\ managed[w].next <= journal
    BY <1>2 DEF ManagedSessions, Show
  <2>2. managed[w].next \in 1..journal
    BY <2>1 DEF Positive, ShapeInv, OutputShape
  <2>3. transcript' \in {transcript, transcript \cup {managed[w].next}}
    BY DEF Show
  <2> QED BY <1>1, <2>2, <2>3 DEF ShapeInv, OutputShape
<1> QED BY <1>1, <1>3, <1>4, StaysShape DEF ShapeInv, ClosingShape, LeaseShape, RecordShape

Beats1(type, pc, id) == {Beating(type, pc, id)} \cup {[Beating(type, pc, id) EXCEPT !.fresh = f] : f \in BOOLEAN}
LEMMA BeatProceeds ==
    ASSUME CallShape, NEW w \in Workers, NEW type \in {"heartbeat", "recover"}, NEW pc \in Pcs \ (Commanded \cup {"create"}), NEW id \in Nat,
           type = "heartbeat" => pc \in {"renew", "fencing", "null"},
           NEW cl \in Beats1(type, pc, id), call' = [call EXCEPT ![w]["beat"] = cl]
    PROVE  Proceeds(w, "beat") /\ cl.runtime = id /\ cl.pc = pc
<1>1. cl \in Calls /\ cl.pc = pc /\ cl.cmd \in Beats /\ cl.cmd.type = type /\ cl.runtime = id /\ "beat" \in Callers
  <2> DEFINE b == Beating(type, pc, id)
  <2>1. b \in Calls /\ b.pc = pc /\ b.cmd \in Beats /\ b.cmd.type = type /\ b.runtime = id
    BY DEF Beating, Idle, Calls, Beats
  <2> HIDE DEF b
  <2>2. cl = b \/ \E f \in BOOLEAN : cl = [b EXCEPT !.fresh = f]
    BY DEF Beats1, b
  <2>3. "beat" \in Callers
    BY DEF Callers
  <2> QED BY <2>1, <2>2, <2>3 DEF Calls
<1>2. Suits("beat", cl)
  BY <1>1 DEF Suits
<1> QED BY <1>1, <1>2, MovesProceed

LEMMA HeartbeatShape ==
    ASSUME ShapeInv, NEW w \in Workers, NEW fails \in BOOLEAN, managed[w] # None, Heartbeat(w, fails)
    PROVE  ShapeInv'
<1>1. At(w, "beat", "idle") /\ UNCHANGED <<durable, up>> /\ managed[w] \in ManagedSessions /\ managed[w].runtime \in Nat
  BY DEF Heartbeat, ShapeInv, ManagedShape, ManagedSessions, Positive
<1> DEFINE id == managed[w].runtime
<1>2. \/ call' = [call EXCEPT ![w]["beat"] = Beating("heartbeat", "renew", id)] /\ UNCHANGED <<managed, closing>>
      \/ \E how \in {"detach", "terminate"} : Fenced(w, how) /\ call' = [call EXCEPT ![w]["beat"] = Beating("heartbeat", "fencing", id)]
  BY DEF Heartbeat
<1>3. Proceeds(w, "beat")
  <2>1. PICK pc \in {"renew", "fencing"} : call' = [call EXCEPT ![w]["beat"] = Beating("heartbeat", pc, id)]
    BY <1>2
  <2>2. Beating("heartbeat", pc, id) \in Beats1("heartbeat", pc, id)
    BY DEF Beats1
  <2>3. pc \in Pcs \ (Commanded \cup {"create"}) /\ id \in Nat
    BY <1>1 DEF Pcs, Commanded
  <2> HIDE DEF id
  <2> QED BY <2>1, <2>2, <2>3, BeatProceeds DEF ShapeInv
<1>4. ManagedShape' /\ ClosingShape' /\ \A v \in Workers \ {w} : managed'[v] = managed[v] /\ closing'[v] = closing[v]
  <2>1. CASE UNCHANGED <<managed, closing>>
    BY <2>1 DEF ShapeInv, ManagedShape, ClosingShape
  <2>2. ASSUME NEW how \in {"detach", "terminate"}, Fenced(w, how) PROVE  ManagedShape' /\ ClosingShape' /\ \A v \in Workers \ {w} : managed'[v] = managed[v] /\ closing'[v] = closing[v]
    BY <2>2, Fences DEF ShapeInv
  <2> QED BY <1>2, <2>1, <2>2
<1> QED BY <1>1, <1>3, <1>4, ProceedsShape DEF ShapeInv, LeaseShape, RecordShape, OutputShape, durable, At, Callers

LEMMA RenewShape ==
    ASSUME ShapeInv, NEW w \in Workers, NEW fails \in BOOLEAN, Renew(w, fails)
    PROVE  ShapeInv'
<1>1. At(w, "beat", "renew") /\ UNCHANGED <<durable, up>> /\ "beat" \in Callers
  BY DEF Renew, Callers
<1>2. \/ call' = [call EXCEPT ![w]["beat"] = Idle] /\ UNCHANGED <<managed, closing>>
      \/ managed[w] # None /\ Fenced(w, "detach") /\ Goes(w, "beat", "fencing")
  BY DEF Renew, Current
<1>3. CASE call' = [call EXCEPT ![w]["beat"] = Idle] /\ UNCHANGED <<managed, closing>>
  <2>1. Proceeds(w, "beat")
    BY <1>1, <1>3, CommandKinds, MovesProceed DEF ShapeInv, Suits
  <2> QED BY <1>1, <1>3, <2>1, ProceedsShape DEF ShapeInv, ManagedShape, ClosingShape, LeaseShape, RecordShape, OutputShape, durable, At
<1>4. CASE managed[w] # None /\ Fenced(w, "detach") /\ Goes(w, "beat", "fencing")
  <2>1. Proceeds(w, "beat")
    BY <1>1, <1>4, GoesProceeds DEF At, ShapeInv, Pcs, Commanded
  <2> QED BY <1>1, <1>4, <2>1, Fences, ProceedsShape DEF ShapeInv, LeaseShape, RecordShape, OutputShape, durable, At
<1> QED BY <1>2, <1>3, <1>4

LEMMA RecoverShape ==
    ASSUME ShapeInv, NEW w \in Workers, RecoverScan(w)
    PROVE  ShapeInv'
<1>1. At(w, "beat", "idle") /\ managed[w] = None /\ UNCHANGED <<session, shell, journal, lease, history, offset, transcript, local>> /\ "beat" \in Callers
  BY DEF RecoverScan, Callers
<1>2. CASE indexed' = FALSE /\ call' = call
  BY <1>1, <1>2, StaysShape DEF ShapeInv, ManagedShape, ClosingShape, LeaseShape, RecordShape, OutputShape, At, local
<1>3. CASE indexed' = indexed /\ call' = [call EXCEPT ![w]["beat"] = IF session = "active" THEN Attaching(w, Beating("recover", "claim", 0)) ELSE Beating("recover", "expire", 0)]
  <2>1. \E pc \in {"claim", "expire"} : \E cl \in Beats1("recover", pc, 0) : call' = [call EXCEPT ![w]["beat"] = cl]
    <3>1. CASE session = "active"
      <4>1. (~history) \in BOOLEAN /\ Attaching(w, Beating("recover", "claim", 0)) = [Beating("recover", "claim", 0) EXCEPT !.fresh = ~history]
        BY <1>1 DEF Attaching, Beating, Idle
      <4>2. Attaching(w, Beating("recover", "claim", 0)) \in Beats1("recover", "claim", 0)
        BY <4>1 DEF Beats1
      <4> QED BY <1>3, <3>1, <4>2
    <3>2. CASE session # "active"
      BY <1>3, <3>2 DEF Beats1
    <3> QED BY <3>1, <3>2
  <2>2. PICK pc \in {"claim", "expire"} : \E cl \in Beats1("recover", pc, 0) : call' = [call EXCEPT ![w]["beat"] = cl]
    BY <2>1
  <2>3. pc \in Pcs \ (Commanded \cup {"create"})
    BY DEF Pcs, Commanded
  <2>4. Proceeds(w, "beat")
    BY <2>2, <2>3, BeatProceeds DEF ShapeInv
  <2> QED BY <1>1, <1>3, <2>4, ProceedsShape DEF ShapeInv, ManagedShape, ClosingShape, LeaseShape, RecordShape, OutputShape, local, At
<1> QED BY <1>2, <1>3 DEF RecoverScan

LEMMA ExpireShellShape ==
    ASSUME ShapeInv, NEW w \in Workers, NEW fails \in BOOLEAN, ExpireShell(w, fails)
    PROVE  ShapeInv'
<1>1. /\ At(w, "beat", "expire") /\ UNCHANGED <<session, journal, lease, history, offset, transcript, up, closing>> /\ "beat" \in Callers
      /\ call' = [call EXCEPT ![w]["beat"] = Idle]
  BY DEF ExpireShell, Callers
<1>2. Proceeds(w, "beat")
  BY <1>1, CommandKinds, MovesProceed DEF ShapeInv, Suits
<1>3. shell' \in BOOLEAN /\ indexed' \in BOOLEAN /\ ManagedShape' /\ \A v \in Workers : managed[v] = None => managed'[v] = None
  BY Detaches DEF ExpireShell, ShapeInv, ManagedShape, RecordShape
<1> QED BY <1>1, <1>2, <1>3, ProceedsShape DEF ShapeInv, ManagedShape, ClosingShape, LeaseShape, RecordShape, OutputShape, At

LEMMA ReconcileShape ==
    ASSUME ShapeInv, NEW w \in Workers, NEW fails \in BOOLEAN, Reconcile(w, fails)
    PROVE  ShapeInv'
<1>1. w \in up /\ managed[w] # None /\ UNCHANGED <<session, shell, journal, lease, history, indexed, up, call>>
  BY DEF Reconcile
<1>2. CASE Fenced(w, "detach") /\ UNCHANGED <<offset, transcript>>
  BY <1>1, <1>2, Fences, StaysShape DEF ShapeInv, LeaseShape, RecordShape, OutputShape
<1>3. CASE UNCHANGED <<managed, closing>> /\ (Replayed \/ (offset' = journal /\ transcript' = transcript))
  <2>1. OutputShape'
    <3>1. CASE Replayed
      BY <1>1, <3>1, ReplayedShape DEF ShapeInv
    <3>2. CASE offset' = journal /\ transcript' = transcript
      BY <1>1, <3>2 DEF ShapeInv, OutputShape
    <3> QED BY <1>3, <3>1, <3>2
  <2> QED BY <1>1, <1>3, <2>1, StaysShape DEF ShapeInv, ManagedShape, ClosingShape, LeaseShape, RecordShape
<1> QED BY <1>2, <1>3 DEF Reconcile

LEMMA WriteShape ==
    ASSUME ShapeInv, Write
    PROVE  ShapeInv'
<1>1. UNCHANGED <<session, shell, lease, history, indexed, offset, transcript, local, call>> /\ journal' = journal + 1
  BY DEF Write
<1>2. OutputShape'
  BY <1>1 DEF ShapeInv, OutputShape
<1> QED BY <1>1, <1>2 DEF ShapeInv, CallShape, ManagedShape, ClosingShape, LeaseShape, Down, RecordShape, local

LEMMA StartShape ==
    ASSUME ShapeInv, NEW w \in Workers, StartManager(w)
    PROVE  ShapeInv'
BY DEF StartManager, ShapeInv, CallShape, ManagedShape, ClosingShape, LeaseShape, Down, RecordShape, OutputShape, durable

\* A worker that stops or crashes loses what it had.
LEMMA Loses ==
    ASSUME ShapeInv, NEW w \in Workers, Lost(w)
    PROVE  /\ CallShape' /\ ManagedShape' /\ ClosingShape' /\ Down' /\ up' \subseteq Workers
           /\ managed'[w] = None /\ closing'[w] = {} /\ \A t \in Callers : call'[w][t] = Idle
           /\ \A v \in Workers \ {w} : managed'[v] = managed[v] /\ closing'[v] = closing[v] /\ call'[v] = call[v]
<1>1. ManagedShape' /\ managed'[w] = None /\ \A v \in Workers \ {w} : managed'[v] = managed[v]
  BY DEF Lost, ShapeInv, ManagedShape
<1>2. ClosingShape' /\ closing'[w] = {} /\ \A v \in Workers \ {w} : closing'[v] = closing[v]
  BY FS_EmptySet DEF Lost, ShapeInv, ClosingShape
<1>3. call' \in [Workers -> [Callers -> Calls]] /\ (\A t \in Callers : call'[w][t] = Idle) /\ \A v \in Workers \ {w} : call'[v] = call[v]
  BY CommandKinds DEF Lost, ShapeInv, CallShape
<1>4. CallShape'
  BY <1>3, CommandKinds DEF ShapeInv, CallShape, Suits
<1>5. Down' /\ up' \subseteq Workers
  BY <1>1, <1>2, <1>3 DEF Lost, ShapeInv, Down, RecordShape
<1> QED BY <1>1, <1>2, <1>3, <1>4, <1>5

LEMMA StopShape ==
    ASSUME ShapeInv, NEW w \in Workers, StopManager(w)
    PROVE  ShapeInv'
<1>1. Lost(w) /\ UNCHANGED <<session, shell, journal, history, indexed, offset, transcript>>
  BY DEF StopManager
<1>2. LeaseShape'
  BY DEF StopManager, ShapeInv, LeaseShape, Released
<1> QED BY <1>1, <1>2, Loses DEF ShapeInv, RecordShape, OutputShape

LEMMA CrashShape ==
    ASSUME ShapeInv, NEW w \in Workers, CrashManager(w)
    PROVE  ShapeInv'
BY Loses DEF CrashManager, ShapeInv, LeaseShape, RecordShape, OutputShape, durable

LEMMA ExpireShape ==
    ASSUME ShapeInv, ExpireLease
    PROVE  ShapeInv'
BY DEF ExpireLease, ShapeInv, CallShape, ManagedShape, ClosingShape, LeaseShape, Down, RecordShape, OutputShape, local

LEMMA ExitsShape ==
    ASSUME ShapeInv, ShellExits
    PROVE  ShapeInv'
<1>1. ManagedShape' /\ \A v \in Workers : managed[v] = None => managed'[v] = None
  BY Detaches DEF ShellExits, ShapeInv, ManagedShape
<1> QED BY <1>1 DEF ShellExits, ShapeInv, CallShape, ClosingShape, LeaseShape, Down, RecordShape, OutputShape

LEMMA EndsShape ==
    ASSUME ShapeInv, SessionEnds
    PROVE  ShapeInv'
BY DEF SessionEnds, ShapeInv, CallShape, ManagedShape, ClosingShape, LeaseShape, Down, RecordShape, OutputShape, local, Statuses

LEMMA DeliverShape ==
    ASSUME ShapeInv, NEW w \in Workers, NEW q \in Sources, NEW c \in Commands, Deliver(w, q, c)
    PROVE  ShapeInv'
<1>1. w \in up /\ call[w][q].pc = "idle" /\ q \in Callers /\ q # "beat" /\ UNCHANGED <<durable, up, managed, closing>>
  BY DEF Deliver, Sources, Streams, Callers
<1>2. call' = call \/ \E pc \in {"done", "failed", "session"} : call' = [call EXCEPT ![w][q] = [Idle EXCEPT !.pc = pc, !.cmd = c]]
  BY DEF Deliver, Handled
<1>3. CASE call' = call
  BY <1>1, <1>3, StaysShape DEF ShapeInv, ManagedShape, ClosingShape, LeaseShape, RecordShape, OutputShape, durable
<1>4. ASSUME NEW pc \in {"done", "failed", "session"}, call' = [call EXCEPT ![w][q] = [Idle EXCEPT !.pc = pc, !.cmd = c]]
      PROVE  ShapeInv'
  <2> DEFINE cl == [Idle EXCEPT !.pc = pc, !.cmd = c]
  <2>1. cl \in Calls /\ cl.pc = pc /\ cl.cmd = c
    BY DEF Idle, Calls, Pcs
  <2>2. Suits(q, cl)
    BY <1>1, <2>1 DEF Suits
  <2>3. Proceeds(w, q)
    BY <1>1, <1>4, <2>1, <2>2, MovesProceed DEF ShapeInv
  <2> QED BY <1>1, <2>3, ProceedsShape DEF ShapeInv, ManagedShape, ClosingShape, LeaseShape, RecordShape, OutputShape, durable
<1> QED BY <1>2, <1>3, <1>4

LEMMA SettleShape ==
    ASSUME ShapeInv, NEW w \in Workers, NEW q \in Sources, Settle(w, q)
    PROVE  ShapeInv'
<1>1. w \in up /\ q \in Callers /\ UNCHANGED <<durable, local>> /\ call' = [call EXCEPT ![w][q] = Idle]
  BY DEF Settle, Sources, Streams, Callers
<1>2. Proceeds(w, q)
  BY <1>1, CommandKinds, MovesProceed DEF ShapeInv, Suits
<1> QED BY <1>1, <1>2, ProceedsShape DEF ShapeInv, ManagedShape, ClosingShape, LeaseShape, RecordShape, OutputShape, durable, local

LEMMA RequestShape ==
    ASSUME ShapeInv, NEW fails \in BOOLEAN, Request(fails)
    PROVE  ShapeInv'
BY DEF Request, ShapeInv, CallShape, ManagedShape, ClosingShape, LeaseShape, Down, RecordShape, OutputShape, local, Latched, Statuses

LEMMA StillShape ==
    ASSUME ShapeInv, UNCHANGED runtimeVars
    PROVE  ShapeInv'
BY DEF ShapeInv, CallShape, ManagedShape, ClosingShape, LeaseShape, Down, RecordShape, OutputShape, runtimeVars

-----------------------------------------------------------------------------
(* The steps *)

CallStep(w, t) ==
    \/ ReadSession(w, t) \/ EndSession(w, t) \/ Closed(w, t) \/ ClaimRuntime(w, t) \/ Promote(w, t) \/ Kill(w, t)
    \/ Abandon(w, t) \/ Index(w, t) \/ Attached(w, t) \/ Unattached(w, t)
    \/ \E fails \in BOOLEAN : Probe(w, t, fails) \/ Create(w, t, fails) \/ ReplayFirst(w, t, fails)
CloseStep(w, c) == FenceStep(w, c) \/ ExitStep(w, c) \/ CloseClient(w, c) \/ DetachFails(w, c) \/ Forget(w, c)
BeatStep(w) ==
    \/ ExitEvent(w) \/ BeatFailed(w) \/ Show(w) \/ RecoverScan(w)
    \/ \E fails \in BOOLEAN : Renew(w, fails) \/ ExpireShell(w, fails) \/ Reconcile(w, fails)
    \/ managed[w] # None /\ \E fails \in BOOLEAN : Heartbeat(w, fails)
RuntimeStep ==
    \/ \E w \in Workers, t \in Callers : CallStep(w, t)
    \/ \E w \in Workers : \E c \in closing[w] : CloseStep(w, c)
    \/ \E w \in Workers : BeatStep(w)
    \/ Write \/ ShellExits \/ SessionEnds
BrowserStep ==
    \/ PrepareChannel \/ Enqueue
    \/ \E fails \in BOOLEAN : SendControl(fails) \/ \E reaches \in BOOLEAN : Broadcast(fails, reaches)

\* What may still happen only grows less.
Dwindles ==
    \/ left' = left
    \/ \E kind \in {"crashes", "stops", "stalls", "faults", "exits", "output", "ends"} : Spend(kind)

LEMMA Steps ==
    ASSUME [SessionsNext]_sessionsVars
    PROVE  /\ Dwindles
           /\ \/ RuntimeStep /\ UNCHANGED <<controlVars, browser>>
              \/ BrowserStep /\ UNCHANGED runtimeVars
              \/ \E fails \in BOOLEAN : Request(fails)
              \/ \E w \in Workers, q \in Streams : Consume(w, q) /\ UNCHANGED browser
              \/ \E w \in Workers, q \in Sources : Settle(w, q) /\ UNCHANGED browser
              \/ \E w \in Workers, c \in wire : Hear(w, c) /\ UNCHANGED browser
              \/ \E w \in Workers : Start(w) \/ Crash(w) \/ Stop(w)
              \/ Lapse
              \/ UNCHANGED sessionsVars
<1> DEFINE G == /\ Dwindles
           /\ \/ RuntimeStep /\ UNCHANGED <<controlVars, browser>>
              \/ BrowserStep /\ UNCHANGED runtimeVars
              \/ \E fails \in BOOLEAN : Request(fails)
              \/ \E w \in Workers, q \in Streams : Consume(w, q) /\ UNCHANGED browser
              \/ \E w \in Workers, q \in Sources : Settle(w, q) /\ UNCHANGED browser
              \/ \E w \in Workers, c \in wire : Hear(w, c) /\ UNCHANGED browser
              \/ \E w \in Workers : Start(w) \/ Crash(w) \/ Stop(w)
              \/ Lapse
              \/ UNCHANGED sessionsVars
<1>1. ASSUME NEW fails \in BOOLEAN, Request(fails) PROVE G
  BY <1>1 DEF Request, Faulty, Dwindles
<1>2. ASSUME NEW fails \in BOOLEAN, SendControl(fails) PROVE G
  BY <1>2 DEF SendControl, Faulty, Dwindles, BrowserStep
<1>3. ASSUME NEW fails \in BOOLEAN, NEW reaches \in BOOLEAN, Broadcast(fails, reaches) PROVE G
  BY <1>3 DEF Broadcast, Faulty, Dwindles, BrowserStep
<1>4. ASSUME PrepareChannel \/ Enqueue PROVE G
  BY <1>4 DEF PrepareChannel, Enqueue, Dwindles, BrowserStep
<1>5. ASSUME NEW w \in Workers, Own(ManagerStep(w)) PROVE G
  <2>1. (\E t \in Callers : CallStep(w, t)) \/ (\E c \in closing[w] : CloseStep(w, c)) \/ BeatStep(w)
    BY <1>5 DEF Own, ManagerStep, CallStep, CloseStep, BeatStep
  <2>2. RuntimeStep
    BY <2>1 DEF RuntimeStep
  <2>3. Dwindles /\ UNCHANGED <<controlVars, browser>>
    BY <1>5 DEF controlVars, Own, Dwindles
  <2> QED BY <2>2, <2>3
<1>6. ASSUME NEW w \in Workers, Own(Beat(w)) PROVE G
  <2>1. BeatStep(w)
    BY <1>6 DEF Own, Beat, BeatStep
  <2>2. RuntimeStep
    BY <2>1 DEF RuntimeStep
  <2>3. Dwindles /\ UNCHANGED <<controlVars, browser>>
    BY <1>6 DEF controlVars, Own, Dwindles
  <2> QED BY <2>2, <2>3
<1>7. ASSUME NEW w \in Workers, Own(FallibleStep(w, FALSE)) PROVE G
  <2>1. (\E t \in Callers : CallStep(w, t)) \/ BeatStep(w)
    BY <1>7 DEF Own, FallibleStep, CallStep, BeatStep
  <2>2. RuntimeStep
    BY <2>1 DEF RuntimeStep
  <2>3. Dwindles /\ UNCHANGED <<controlVars, browser>>
    BY <1>7 DEF controlVars, Own, Dwindles
  <2> QED BY <2>2, <2>3
<1>8. ASSUME NEW w \in Workers, Happens("faults", FallibleStep(w, TRUE)) PROVE G
  <2>1. (\E t \in Callers : CallStep(w, t)) \/ BeatStep(w)
    BY <1>8 DEF Happens, FallibleStep, CallStep, BeatStep
  <2>2. RuntimeStep
    BY <2>1 DEF RuntimeStep
  <2>3. Dwindles /\ UNCHANGED <<controlVars, browser>>
    BY <1>8 DEF controlVars, Happens, Dwindles
  <2> QED BY <2>2, <2>3
<1>9. ASSUME NEW w \in Workers, Happens("faults", managed[w] # None /\ Heartbeat(w, TRUE)) PROVE G
  <2>1. BeatStep(w)
    BY <1>9 DEF Happens, BeatStep
  <2>2. RuntimeStep
    BY <2>1 DEF RuntimeStep
  <2>3. Dwindles /\ UNCHANGED <<controlVars, browser>>
    BY <1>9 DEF controlVars, Happens, Dwindles
  <2> QED BY <2>2, <2>3
<1>10. ASSUME NEW w \in Workers, Happens("faults", \E c \in closing[w] : DetachFails(w, c)) PROVE G
  BY <1>10 DEF controlVars, Happens, RuntimeStep, CloseStep, Dwindles
<1>11. ASSUME NEW w \in Workers, ConsumerStep(w) /\ UNCHANGED <<browser, left>> PROVE G
  BY <1>11 DEF ConsumerStep, Dwindles
<1>12. ASSUME NEW w \in Workers, \E c \in wire : Hear(w, c) /\ UNCHANGED <<browser, left>> PROVE G
  BY <1>12 DEF Dwindles
<1>13. ASSUME NEW w \in Workers, Start(w) \/ Crash(w) \/ Stop(w) PROVE G
  <2>1. Dwindles
    BY <1>13 DEF Start, Crash, Stop, Dwindles
  <2> QED BY <1>13, <2>1
<1>14. ASSUME Lapse PROVE G
  BY <1>14 DEF Lapse, Dwindles
<1>15. ASSUME Happens("output", Write) \/ Happens("exits", ShellExits) \/ Happens("ends", SessionEnds) PROVE G
  BY <1>15 DEF controlVars, Happens, RuntimeStep, Dwindles
<1>16. ASSUME UNCHANGED sessionsVars PROVE G
  BY <1>16 DEF sessionsVars, Dwindles
<1> HIDE DEF G
<1>17. G
  BY <1>1, <1>2, <1>3, <1>4, <1>5, <1>6, <1>7, <1>8, <1>9, <1>10, <1>11, <1>12, <1>13, <1>14, <1>15, <1>16 DEF SessionsNext
<1> QED BY <1>17 DEF G

LEMMA ShapeStep ==
    ASSUME ShapeInv, PathShape, [SessionsNext]_sessionsVars
    PROVE  ShapeInv'
<1>1. CASE RuntimeStep
  <2>1. ASSUME NEW w \in Workers, NEW t \in Callers, CallStep(w, t) PROVE ShapeInv'
    BY <2>1, ReadShape, EndShape, ClosedShape, ClaimShape, PromoteShape, KillShape, AbandonShape, IndexShape, AttachedShape,
       UnattachedShape, ProbeShape, CreateShape, ReplayFirstShape DEF CallStep
  <2>2. ASSUME NEW w \in Workers, NEW c \in closing[w], CloseStep(w, c) PROVE ShapeInv'
    BY <2>2, FenceStepShape, ExitStepShape, CloseClientShape, DetachFailsShape, ForgetShape DEF CloseStep
  <2>3. ASSUME NEW w \in Workers, BeatStep(w) PROVE ShapeInv'
    BY <2>3, ExitEventShape, BeatFailedShape, ShowShape, RecoverShape, RenewShape, ExpireShellShape, ReconcileShape, HeartbeatShape DEF BeatStep
  <2> QED BY <1>1, <2>1, <2>2, <2>3, WriteShape, ExitsShape, EndsShape DEF RuntimeStep
<1>2. ASSUME NEW w \in Workers, NEW q \in Streams, Consume(w, q) PROVE ShapeInv'
  <2>1. StreamOf(w, q) \in {"global"} \cup Workers /\ position[w][q] \in Nat /\ position[w][q] < Len(stream[StreamOf(w, q)])
    BY <1>2 DEF Consume, StreamOf, PathShape
  <2>2. stream[StreamOf(w, q)] \in Seq(Commands)
    BY <2>1 DEF PathShape
  <2>3. stream[StreamOf(w, q)][position[w][q] + 1] \in Commands
    BY <2>1, <2>2
  <2> QED BY <1>2, <2>3, DeliverShape DEF Consume, Sources
<1>3. ASSUME NEW w \in Workers, NEW c \in wire, Hear(w, c) PROVE ShapeInv'
  BY <1>3, DeliverShape DEF Hear, Sources, PathShape
<1>4. ASSUME NEW w \in Workers, Start(w) \/ Crash(w) \/ Stop(w) PROVE ShapeInv'
  BY <1>4, StartShape, CrashShape, StopShape DEF Start, Crash, Stop
<1>5. CASE Lapse
  BY <1>5, ExpireShape DEF Lapse
<1>6. CASE UNCHANGED sessionsVars \/ UNCHANGED runtimeVars
  BY <1>6, StillShape DEF sessionsVars
<1> QED BY <1>1, <1>2, <1>3, <1>4, <1>5, <1>6, Steps, RequestShape, SettleShape

LEMMA ShapeInit == SessionsInit => ShapeInv /\ PathShape
<1> SUFFICES ASSUME SessionsInit PROVE ShapeInv /\ PathShape
  OBVIOUS
<1>1. left \in Scenarios /\ left.owner \in Workers \cup {None} /\ RuntimeInit(left.owner) /\ ControlInit(left.owner)
  BY ScenariosAssumption DEF SessionsInit, ControlInit
<1>2. CallShape
  BY <1>1, CommandKinds DEF RuntimeInit, CallShape, Suits
<1>3. ManagedShape
  <2>1. [NewManaged(1, 1) EXCEPT !.ready = TRUE] \in ManagedSessions
    <3>1. NewManaged(1, 1) \in ManagedSessions
      BY DEF NewManaged, ManagedSessions, Positive
    <3> QED BY <3>1 DEF ManagedSessions
  <2> QED BY <1>1, <2>1 DEF RuntimeInit, ManagedShape
<1>4. ClosingShape
  BY <1>1, FS_EmptySet DEF RuntimeInit, ClosingShape
<1>5. LeaseShape
  BY <1>1 DEF RuntimeInit, LeaseShape, Positive
<1>6. Down
  <2> USE DEF Down
  <2> TAKE w \in Workers \ up
  <2>1. w # left.owner
    BY <1>1, WorkersAssumption DEF RuntimeInit
  <2>2. managed[w] = None
    BY <1>1, <2>1 DEF RuntimeInit
  <2>3. closing[w] = {} /\ \A t \in Callers : call[w][t] = Idle
    BY <1>1 DEF RuntimeInit
  <2> QED BY <2>2, <2>3
<1>7. RecordShape /\ OutputShape
  BY <1>1 DEF RuntimeInit, RecordShape, OutputShape, Statuses
<1>8. PathShape
  <2>1. left \in [owner : Workers \cup {None}, script : Seq(Views), crashes : Nat, stops : Nat, stalls : Nat,
                 stalling : BOOLEAN, faults : Nat, faulty : BOOLEAN, exits : Nat, output : Nat, ends : Nat]
    BY <1>1, ScenariosAssumption
  <2>2. <<>> \in Seq(Commands) /\ <<>> \in Seq(Nat)
    OBVIOUS
  <2>3. stream = [x \in {"global"} \cup Workers |-> <<>>] /\ position = [w \in Workers |-> Unread] /\ wire = {} /\ typed = <<>>
    BY <1>1 DEF ControlInit, RuntimeInit
  <2>4. stream \in [{"global"} \cup Workers -> Seq(Commands)] /\ position \in [Workers -> [Streams -> Nat]]
    BY <2>2, <2>3 DEF Unread
  <2>5. browser.issued = 0 /\ browser.outbox = <<>>
    BY DEF SessionsInit
  <2> QED BY <2>1, <2>2, <2>3, <2>4, <2>5 DEF PathShape
<1> QED BY <1>2, <1>3, <1>4, <1>5, <1>6, <1>7, <1>8 DEF ShapeInv

LEMMA DwindlesShape ==
    ASSUME PathShape, Dwindles
    PROVE  /\ left' \in [owner : Workers \cup {None}, script : Seq(Views), crashes : Nat, stops : Nat, stalls : Nat,
                 stalling : BOOLEAN, faults : Nat, faulty : BOOLEAN, exits : Nat, output : Nat, ends : Nat]
           /\ left'.script = left.script /\ left'.stalling = left.stalling /\ left'.stalls \in Nat /\ left'.stalls <= left.stalls
<1>1. left \in [owner : Workers \cup {None}, script : Seq(Views), crashes : Nat, stops : Nat, stalls : Nat,
                 stalling : BOOLEAN, faults : Nat, faulty : BOOLEAN, exits : Nat, output : Nat, ends : Nat]
  BY DEF PathShape
<1>2. ASSUME NEW kind \in {"crashes", "stops", "stalls", "faults", "exits", "output", "ends"}, Spend(kind)
      PROVE  /\ left' \in [owner : Workers \cup {None}, script : Seq(Views), crashes : Nat, stops : Nat, stalls : Nat,
                 stalling : BOOLEAN, faults : Nat, faulty : BOOLEAN, exits : Nat, output : Nat, ends : Nat]
             /\ left'.script = left.script /\ left'.stalling = left.stalling /\ left'.stalls \in Nat /\ left'.stalls <= left.stalls
  <2>1. left[kind] \in Nat /\ left[kind] > 0
    BY <1>1, <1>2 DEF Spend
  <2> DEFINE rest == left[kind] - 1
  <2>2. rest \in Nat /\ rest <= left[kind]
    BY <2>1
  <2>3. left' = [left EXCEPT ![kind] = rest]
    BY <1>2 DEF Spend
  <2> HIDE DEF rest
  <2>s. left.stalls \in Nat /\ left.stalls <= left.stalls
    BY <1>1
  <2>4. CASE kind = "crashes"
    BY <1>1, <2>2, <2>3, <2>4, <2>s
  <2>5. CASE kind = "stops"
    BY <1>1, <2>2, <2>3, <2>5, <2>s
  <2>6. CASE kind = "stalls"
    BY <1>1, <2>2, <2>3, <2>6
  <2>7. CASE kind = "faults"
    BY <1>1, <2>2, <2>3, <2>7, <2>s
  <2>8. CASE kind = "exits"
    BY <1>1, <2>2, <2>3, <2>8, <2>s
  <2>9. CASE kind = "output"
    BY <1>1, <2>2, <2>3, <2>9, <2>s
  <2>10. CASE kind = "ends"
    BY <1>1, <2>2, <2>3, <2>10, <2>s
  <2> QED BY <1>2, <2>4, <2>5, <2>6, <2>7, <2>8, <2>9, <2>10
<1> QED BY <1>1, <1>2 DEF Dwindles

-----------------------------------------------------------------------------
(* What a step of a call does to the calls *)

Rest(w, t) == \A v \in Workers, u \in Callers : v # w \/ u # t => call'[v][u] = call[v][u]

\* A call keeps its command while it goes on, and one that is over does not.
Keeps(w, t) ==
    /\ Rest(w, t)
    /\ call'[w][t].pc # "idle" => call'[w][t].cmd = call[w][t].cmd /\ call[w][t].pc \notin {"idle", "done"}
Goes1(w, t, pc) == Keeps(w, t) /\ call'[w][t].pc = pc /\ call'[w][t].runtime = call[w][t].runtime

\* It holds no runtime of its own, or that of the session that is managed.
Mine(w) == IF managed[w] = None THEN {} ELSE {managed[w].runtime}
Continues(w, t) ==
    /\ Keeps(w, t) /\ call'[w][t].pc \notin Making
    /\ call'[w][t].runtime \in {0, call[w][t].runtime} \cup Mine(w)

LEMMA GoesKeeps ==
    ASSUME CallShape, NEW w \in Workers, NEW t \in Callers, NEW pc \in Pcs, Goes(w, t, pc), call[w][t].pc \notin {"idle", "done"}
    PROVE  Goes1(w, t, pc) /\ (pc \notin Making => Continues(w, t))
<1>1. call[w][t] \in Calls /\ Moved(w, t, [call[w][t] EXCEPT !.pc = pc])
  BY GoesMoves DEF CallShape
<1>2. call'[w][t].pc = pc /\ call'[w][t].cmd = call[w][t].cmd /\ call'[w][t].runtime = call[w][t].runtime /\ Rest(w, t)
  BY <1>1 DEF Calls, Moved, Rest
<1> QED BY <1>2 DEF Goes1, Keeps, Continues

LEMMA MovesContinue ==
    ASSUME CallShape, NEW w \in Workers, NEW t \in Callers, NEW cl, call' = [call EXCEPT ![w][t] = cl],
           cl.pc \notin Making, cl.runtime \in {0, call[w][t].runtime} \cup Mine(w),
           cl.pc # "idle" => cl.cmd = call[w][t].cmd /\ call[w][t].pc \notin {"idle", "done"}
    PROVE  Continues(w, t)
<1>1. Rest(w, t) /\ call'[w][t] = cl
  BY DEF CallShape, Rest
<1> QED BY <1>1 DEF Continues, Keeps

LEMMA IdleContinues ==
    ASSUME CallShape, NEW w \in Workers, NEW t \in Callers, call' = [call EXCEPT ![w][t] = Idle]
    PROVE  Continues(w, t) /\ call'[w][t] = Idle
<1>1. call'[w][t] = Idle
  BY DEF CallShape
<1> QED BY <1>1, CommandKinds, MovesContinue DEF Making

\* Reading the session and beginning to attach.
LEMMA ReadContinues ==
    ASSUME ShapeInv, NEW w \in Workers, NEW t \in Callers, ReadSession(w, t)
    PROVE  Continues(w, t)
<1>1. At(w, t, "session") /\ call[w][t] \in Calls /\ CallShape
  BY DEF ReadSession, At, ShapeInv, CallShape
<1> DEFINE cl == call[w][t]
           endId == IF managed[w] = None THEN 0 ELSE managed[w].runtime
<1>2. \/ Goes(w, t, "done")
      \/ call' = [call EXCEPT ![w][t] = [cl EXCEPT !.pc = "end", !.runtime = endId]]
      \/ call' = [call EXCEPT ![w][t] = Attaching(w, cl)]
  BY DEF ReadSession, Finish
<1>3. CASE Goes(w, t, "done")
  BY <1>1, <1>3, GoesKeeps DEF At, Pcs, Making
<1>4. CASE call' = [call EXCEPT ![w][t] = [cl EXCEPT !.pc = "end", !.runtime = endId]]
  <2> DEFINE d == [cl EXCEPT !.pc = "end", !.runtime = endId]
  <2>1. d.pc = "end" /\ d.runtime = endId /\ d.cmd = cl.cmd
    BY <1>1 DEF Calls
  <2>2. endId \in {0} \cup Mine(w)
    BY DEF Mine
  <2> HIDE DEF endId
  <2>3. call' = [call EXCEPT ![w][t] = d] /\ cl.pc = "session"
    BY <1>1, <1>4 DEF At
  <2> HIDE DEF d
  <2> QED BY <1>1, <2>1, <2>2, <2>3, MovesContinue DEF Making
<1>5. CASE call' = [call EXCEPT ![w][t] = Attaching(w, cl)]
  <2>1. Attaching(w, cl).pc \in {"claim", "probe"} /\ Attaching(w, cl).cmd = cl.cmd /\ Attaching(w, cl).runtime \in {cl.runtime} \cup Mine(w)
    BY <1>1 DEF Calls, Attaching, Mine
  <2> QED BY <1>1, <1>5, <2>1, MovesContinue DEF At, Making
<1> QED BY <1>2, <1>3, <1>4, <1>5

LEMMA SteadyContinues ==
    ASSUME ShapeInv, NEW w \in Workers, NEW t \in Callers,
           \/ EndSession(w, t) \/ Closed(w, t) \/ Index(w, t) \/ Abandon(w, t)
           \/ \E fails \in BOOLEAN : Probe(w, t, fails) \/ ReplayFirst(w, t, fails)
    PROVE  Continues(w, t)
<1>1. EndSession(w, t) => At(w, t, "end") /\ (Goes(w, t, "closing") \/ Goes(w, t, "done"))
  BY DEF EndSession, Finish
<1>2. Closed(w, t) => call[w][t].pc \in {"closing", "fencing"} /\ (Goes(w, t, "null") \/ Goes(w, t, "done"))
  BY DEF Closed, Finish
<1>3. Index(w, t) => At(w, t, "index") /\ Goes(w, t, "replay")
  BY DEF Index
<1>4. Abandon(w, t) => call[w][t].pc \in {"abandon", "surrender"} /\ (Goes(w, t, "failed") \/ Goes(w, t, "null"))
  BY DEF Abandon, At
<1>5. ASSUME NEW fails \in BOOLEAN, Probe(w, t, fails) PROVE At(w, t, "probe") /\ (Goes(w, t, "attached") \/ Goes(w, t, "fencing") \/ Goes(w, t, "null"))
  BY <1>5 DEF Probe
<1>6. ASSUME NEW fails \in BOOLEAN, ReplayFirst(w, t, fails) PROVE At(w, t, "replay") /\ (Goes(w, t, "attached") \/ Goes(w, t, "fencing") \/ Goes(w, t, "null"))
  BY <1>6 DEF ReplayFirst
<1>7. \E pc \in Pcs \ Making : Goes(w, t, pc) /\ call[w][t].pc \notin {"idle", "done"}
  BY <1>1, <1>2, <1>3, <1>4, <1>5, <1>6 DEF At, Pcs, Making
<1> QED BY <1>7, GoesKeeps DEF ShapeInv

LEMMA AttachedContinues ==
    ASSUME ShapeInv, NEW w \in Workers, NEW t \in Callers, Attached(w, t)
    PROVE  /\ Continues(w, t) /\ call[w][t].pc = "attached"
           /\ \/ typed' = typed
              \/ t # "beat" /\ call[w][t].cmd \in Commands /\ typed' = Append(typed, call[w][t].cmd.id) /\ call'[w][t].pc = "done"
<1>1. call[w][t].pc = "attached" /\ Suits(t, call[w][t]) /\ call[w][t] \in Calls /\ CallShape
  BY DEF Attached, At, ShapeInv, CallShape
<1>2. \/ t = "beat" /\ call[w][t].cmd.type = "recover"
      \/ t # "beat" /\ call[w][t].cmd \in Commands /\ call[w][t].cmd.type \in Views
  BY <1>1 DEF Suits, Beats, Commands
<1>3. CASE t = "beat" /\ call[w][t].cmd.type = "recover"
  <2>1. call' = [call EXCEPT ![w][t] = Idle] /\ typed' = typed
    BY <1>3 DEF Attached
  <2> QED BY <1>1, <2>1, IdleContinues
<1>4. CASE t # "beat" /\ call[w][t].cmd \in Commands /\ call[w][t].cmd.type \in Views
  <2>1. /\ Goes(w, t, "end") \/ Goes(w, t, "done") \/ Goes(w, t, "failed")
        /\ typed' = typed \/ (typed' = Append(typed, call[w][t].cmd.id) /\ Goes(w, t, "done"))
    BY <1>4 DEF Attached, Finish, Views
  <2>2. \A pc \in {"end", "done", "failed"} : Goes(w, t, pc) => Continues(w, t) /\ call'[w][t].pc = pc
    BY <1>1, GoesKeeps DEF Pcs, Making, Goes1
  <2> QED BY <1>1, <1>4, <2>1, <2>2
<1> QED BY <1>2, <1>3, <1>4

LEMMA UnattachedContinues ==
    ASSUME ShapeInv, NEW w \in Workers, NEW t \in Callers, Unattached(w, t)
    PROVE  Continues(w, t)
<1>1. call[w][t].pc = "null" /\ Suits(t, call[w][t]) /\ call[w][t] \in Calls /\ CallShape
  BY DEF Unattached, At, ShapeInv, CallShape
<1>2. \/ call' = [call EXCEPT ![w][t] = [call[w][t] EXCEPT !.pc = "end", !.runtime = 0]]
      \/ call' = [call EXCEPT ![w][t] = Idle]
      \/ Goes(w, t, "done")
  BY DEF Unattached, Finish
<1>3. CASE call' = [call EXCEPT ![w][t] = [call[w][t] EXCEPT !.pc = "end", !.runtime = 0]]
  <2> DEFINE d == [call[w][t] EXCEPT !.pc = "end", !.runtime = 0]
  <2>1. d.pc = "end" /\ d.runtime = 0 /\ d.cmd = call[w][t].cmd /\ call' = [call EXCEPT ![w][t] = d]
    BY <1>1, <1>3 DEF Calls
  <2> HIDE DEF d
  <2> QED BY <1>1, <2>1, MovesContinue DEF Making
<1> QED BY <1>1, <1>2, <1>3, IdleContinues, GoesKeeps DEF Pcs, Making

\* Claiming, creating, promoting and giving up.
LEMMA ClaimEffect ==
    ASSUME ShapeInv, NEW w \in Workers, NEW t \in Callers, ClaimRuntime(w, t)
    PROVE  \/ Continues(w, t) /\ lease' = lease
           \/ /\ Keeps(w, t) /\ call'[w][t].pc = "create" /\ call'[w][t].runtime = FreshRuntime
              /\ lease = None /\ lease' = [runtime |-> FreshRuntime, worker |-> w]
<1>1. call[w][t].pc = "claim" /\ call[w][t] \in Calls /\ CallShape
  BY DEF ClaimRuntime, At, ShapeInv, CallShape
<1>2. CASE Goes(w, t, "failed") /\ lease' = lease
  BY <1>1, <1>2, GoesKeeps DEF Pcs, Making
<1>3. CASE /\ lease = None /\ lease' = [runtime |-> FreshRuntime, worker |-> w]
           /\ call' = [call EXCEPT ![w][t] = [call[w][t] EXCEPT !.pc = "create", !.runtime = FreshRuntime]]
  <2>1. Rest(w, t) /\ call'[w][t] = [call[w][t] EXCEPT !.pc = "create", !.runtime = FreshRuntime]
    BY <1>1, <1>3 DEF CallShape, Rest
  <2>2. call'[w][t].pc = "create" /\ call'[w][t].runtime = FreshRuntime /\ call'[w][t].cmd = call[w][t].cmd
    BY <1>1, <2>1 DEF Calls
  <2> QED BY <1>1, <1>3, <2>1, <2>2 DEF Keeps
<1> QED BY <1>2, <1>3 DEF ClaimRuntime, Claimable

LEMMA MakingEffect ==
    ASSUME ShapeInv, NEW w \in Workers, NEW t \in Callers
    PROVE  /\ \A fails \in BOOLEAN : Create(w, t, fails) =>
                /\ call[w][t].pc = "create"
                /\ Goes1(w, t, "abandon") \/ Goes1(w, t, "surrender") \/ Goes1(w, t, "promote")
           /\ Promote(w, t) => call[w][t].pc = "promote" /\ (Goes1(w, t, "index") \/ Goes1(w, t, "kill"))
           /\ Kill(w, t) => call[w][t].pc = "kill" /\ Goes1(w, t, "abandon")
<1>1. \A pc \in Pcs : Goes(w, t, pc) /\ call[w][t].pc \notin {"idle", "done"} => Goes1(w, t, pc)
  BY GoesKeeps DEF ShapeInv
<1>2. ASSUME NEW fails \in BOOLEAN, Create(w, t, fails)
      PROVE  call[w][t].pc = "create" /\ (Goes1(w, t, "abandon") \/ Goes1(w, t, "surrender") \/ Goes1(w, t, "promote"))
  BY <1>1, <1>2 DEF Create, At, Pcs
<1>3. Promote(w, t) => call[w][t].pc = "promote" /\ (Goes1(w, t, "index") \/ Goes1(w, t, "kill"))
  BY <1>1 DEF Promote, At, Pcs
<1>4. Kill(w, t) => call[w][t].pc = "kill" /\ Goes1(w, t, "abandon")
  BY <1>1 DEF Kill, At, Pcs
<1> QED BY <1>2, <1>3, <1>4

-----------------------------------------------------------------------------
(* At most once *)

OnceInv == Receipted /\ Untyped /\ InOneHand /\ AtMostOnce

LEMMA SourcesAreCallers == Sources \subseteq Callers /\ "beat" \notin Sources /\ Sources = Callers \ {"beat"} /\ Streams \subseteq Sources
BY DEF Sources, Streams, Callers

\* Nobody gets a command, and no calls but those of the beat change more than by ending.
LEMMA OnceStays ==
    ASSUME OnceInv, typed' = typed, receipts' = receipts,
           \A v \in Workers, q \in Sources : call'[v][q] = call[v][q] \/ call'[v][q].pc = "idle"
    PROVE  OnceInv'
<1>1. \A v \in Workers, q \in Sources : Live(v, q)' => Live(v, q) /\ call'[v][q] = call[v][q]
  BY DEF Live
<1>2. Receipted'
  BY <1>1 DEF OnceInv, Receipted
<1>3. Untyped'
  BY <1>1 DEF OnceInv, Untyped, Typed
<1>4. InOneHand'
  BY <1>1 DEF OnceInv, InOneHand
<1> QED BY <1>2, <1>3, <1>4 DEF OnceInv, AtMostOnce

LEMMA OnceKeeps ==
    ASSUME OnceInv, typed' = typed, receipts' = receipts, NEW w \in Workers, NEW t \in Callers, Keeps(w, t)
    PROVE  OnceInv'
<1>1. \A v \in Workers, q \in Sources : Live(v, q)' =>
          /\ Live(v, q) /\ call'[v][q].cmd = call[v][q].cmd
          /\ call'[v][q].pc # "done" => call[v][q].pc # "done"
  BY SourcesAreCallers DEF Live, Keeps, Rest
<1>2. Receipted'
  BY <1>1 DEF OnceInv, Receipted
<1>3. Untyped'
  BY <1>1 DEF OnceInv, Untyped, Typed
<1>4. InOneHand'
  BY SMTT(30), <1>1 DEF OnceInv, InOneHand
<1> QED BY <1>2, <1>3, <1>4 DEF OnceInv, AtMostOnce

LEMMA Appended ==
    ASSUME typed \in Seq(Nat), NEW id \in Nat, typed' = Append(typed, id)
    PROVE  /\ Len(typed') = Len(typed) + 1 /\ Len(typed) \in Nat /\ typed'[Len(typed) + 1] = id
           /\ \A i \in 1..Len(typed) : typed'[i] = typed[i]
           /\ \A i \in 1..Len(typed') : i \in 1..Len(typed) \/ i = Len(typed) + 1
           /\ typed' \in Seq(Nat)
OBVIOUS

\* A write that is not typed yet is typed.
LEMMA OnceTypes ==
    ASSUME OnceInv, typed \in Seq(Nat), NEW id \in Nat, typed' = Append(typed, id), receipts' = receipts,
           NEW w \in Workers, NEW t \in Sources, Keeps(w, t), call[w][t].pc = "attached", call[w][t].cmd.id = id, call'[w][t].pc = "done"
    PROVE  OnceInv'
<1>1. \A v \in Workers, q \in Sources : Live(v, q)' =>
          /\ Live(v, q) /\ call'[v][q].cmd = call[v][q].cmd
          /\ call'[v][q].pc # "done" => call[v][q].pc # "done" /\ (v # w \/ q # t)
  BY SourcesAreCallers DEF Live, Keeps, Rest
<1>2. Live(w, t) /\ ~Typed(id) /\ id \in receipts
  BY DEF Live, OnceInv, Untyped, Receipted
<1>3. Receipted'
  BY <1>1, <1>2, Appended DEF OnceInv, Receipted
<1>4. Untyped'
  <2> SUFFICES ASSUME NEW v \in Workers, NEW q \in Sources, Live(v, q)', call'[v][q].pc # "done"
               PROVE  ~Typed(call[v][q].cmd.id)'
    BY DEF Untyped
  <2>1. Live(v, q) /\ call'[v][q].cmd = call[v][q].cmd /\ call[v][q].pc # "done" /\ (v # w \/ q # t)
    BY <1>1
  <2>2. call[v][q].cmd.id # id /\ ~Typed(call[v][q].cmd.id)
    BY <1>2, <2>1 DEF OnceInv, InOneHand, Untyped
  <2> QED BY <2>1, <2>2, Appended DEF Typed
<1>5. InOneHand'
  BY <1>1 DEF OnceInv, InOneHand
<1>6. AtMostOnce'
  BY <1>2, Appended DEF OnceInv, AtMostOnce, Typed
<1> QED BY <1>3, <1>4, <1>5, <1>6 DEF OnceInv

\* A consumer takes a command: it takes the receipt with it.
LEMMA OnceTakes ==
    ASSUME OnceInv, typed \in Seq(Nat), NEW c \in Commands, c.id \notin receipts, receipts' = receipts \cup {c.id},
           NEW w \in Workers, NEW q \in Sources, Rest(w, q), call'[w][q].cmd = c,
           \/ typed' = typed /\ (call'[w][q].pc # "done" => call'[w][q].pc \in {"failed", "session"})
           \/ typed' = Append(typed, c.id) /\ call'[w][q].pc = "done"
    PROVE  OnceInv'
<1>0. c.id \in Nat
  BY DEF Commands
<1>1. \A v \in Workers, r \in Sources : v # w \/ r # q => call'[v][r] = call[v][r]
  BY SourcesAreCallers DEF Rest
<1>2. ~Typed(c.id) /\ \A v \in Workers, r \in Sources : Live(v, r) => call[v][r].cmd.id # c.id
  BY DEF OnceInv, Receipted, Typed
<1>3. Receipted'
  BY <1>0, <1>1, Appended DEF OnceInv, Receipted, Live
<1>4. Untyped'
  <2> SUFFICES ASSUME NEW v \in Workers, NEW r \in Sources, Live(v, r)', call'[v][r].pc # "done"
               PROVE  ~Typed(call[v][r].cmd.id)'
    BY DEF Untyped
  <2>1. CASE v = w /\ r = q
    BY <1>2, <2>1 DEF Typed
  <2>2. CASE v # w \/ r # q
    <3>1. Live(v, r) /\ call'[v][r] = call[v][r] /\ call[v][r].cmd.id # c.id /\ ~Typed(call[v][r].cmd.id)
      BY <1>1, <1>2, <2>2 DEF Live, OnceInv, Untyped
    <3>2. CASE typed' = typed
      BY <3>1, <3>2 DEF Typed
    <3>3. CASE typed' = Append(typed, c.id)
      BY <1>0, <3>1, <3>3, Appended DEF Typed
    <3> QED BY <3>2, <3>3
  <2> QED BY <2>1, <2>2
<1>5. InOneHand'
  BY <1>1, <1>2 DEF OnceInv, InOneHand, Live
<1>6. AtMostOnce'
  <2>1. CASE typed' = typed
    BY <2>1 DEF OnceInv, AtMostOnce
  <2>2. CASE typed' = Append(typed, c.id)
    BY <1>0, <1>2, <2>2, Appended DEF OnceInv, AtMostOnce, Typed
  <2> QED BY <2>1, <2>2
<1> QED BY <1>3, <1>4, <1>5, <1>6 DEF OnceInv

\* A call is over; one that failed gives the receipt back.
LEMMA OnceSettles ==
    ASSUME OnceInv, NEW w \in Workers, NEW q \in Sources, CallShape, Settle(w, q)
    PROVE  OnceInv'
<1>1. /\ typed' = typed /\ Live(w, q) /\ call' = [call EXCEPT ![w][q] = Idle] /\ q \in Callers
      /\ receipts' = receipts \/ (receipts' = receipts \ {call[w][q].cmd.id} /\ call[w][q].pc # "done")
  BY SourcesAreCallers DEF Settle, local, Live
<1>2. \A v \in Workers, r \in Sources : Live(v, r)' => Live(v, r) /\ call'[v][r] = call[v][r] /\ (v # w \/ r # q)
  BY <1>1, SourcesAreCallers, CommandKinds DEF CallShape, Live
<1>3. Receipted'
  BY <1>1, <1>2 DEF OnceInv, Receipted, Untyped, Typed, InOneHand
<1>4. Untyped'
  BY <1>1, <1>2 DEF OnceInv, Untyped, Typed
<1>5. InOneHand'
  BY <1>2 DEF OnceInv, InOneHand
<1> QED BY <1>1, <1>3, <1>4, <1>5 DEF OnceInv, AtMostOnce

LEMMA BeatTouches ==
    ASSUME ShapeInv, NEW w \in Workers, BeatStep(w) \/ \E c \in closing[w] : CloseStep(w, c)
    PROVE  typed' = typed /\ \A v \in Workers, t \in Callers \ {"beat"} : call'[v][t] = call[v][t]
<1> USE DEF ShapeInv, CallShape
<1>1. ASSUME NEW c \in closing[w], CloseStep(w, c) PROVE typed' = typed /\ call' = call
  BY <1>1 DEF CloseStep, FenceStep, ExitStep, CloseClient, DetachFails, Forget
<1>2. ExitEvent(w) \/ Show(w) => typed' = typed /\ call' = call
  BY DEF ExitEvent, Show
<1>3. ASSUME NEW fails \in BOOLEAN, Reconcile(w, fails) PROVE typed' = typed /\ call' = call
  BY <1>3 DEF Reconcile
<1>4. ASSUME NEW fails \in BOOLEAN, Heartbeat(w, fails) PROVE typed' = typed /\ \E cl : call' = [call EXCEPT ![w]["beat"] = cl]
  BY <1>4 DEF Heartbeat
<1>5. ASSUME NEW fails \in BOOLEAN, Renew(w, fails) PROVE typed' = typed /\ \A v \in Workers, t \in Callers \ {"beat"} : call'[v][t] = call[v][t]
  BY <1>5 DEF Renew, Goes
<1>6. ASSUME NEW fails \in BOOLEAN, ExpireShell(w, fails) PROVE typed' = typed /\ \A v \in Workers, t \in Callers \ {"beat"} : call'[v][t] = call[v][t]
  BY <1>6 DEF ExpireShell
<1>7. RecoverScan(w) \/ BeatFailed(w) => typed' = typed /\ (call' = call \/ \E cl : call' = [call EXCEPT ![w]["beat"] = cl])
  BY DEF RecoverScan, BeatFailed, local
<1>8. (\E cl : call' = [call EXCEPT ![w]["beat"] = cl]) => \A v \in Workers, t \in Callers \ {"beat"} : call'[v][t] = call[v][t]
  OBVIOUS
<1> QED BY <1>1, <1>2, <1>3, <1>4, <1>5, <1>6, <1>7, <1>8 DEF BeatStep

\* Which call gets to type, and what the other calls do.
LEMMA CallTouches ==
    ASSUME ShapeInv, NEW w \in Workers, NEW t \in Callers, CallStep(w, t)
    PROVE  /\ Keeps(w, t)
           /\ \/ typed' = typed
              \/ /\ t # "beat" /\ call[w][t].pc = "attached" /\ call[w][t].cmd \in Commands
                 /\ typed' = Append(typed, call[w][t].cmd.id) /\ call'[w][t].pc = "done"
<1>1. ReadSession(w, t) \/ EndSession(w, t) \/ Closed(w, t) \/ ClaimRuntime(w, t) \/ Promote(w, t) \/ Kill(w, t) \/ Abandon(w, t)
        \/ Index(w, t) \/ Unattached(w, t) => typed' = typed
  BY DEF ReadSession, EndSession, Closed, ClaimRuntime, Promote, Kill, Abandon, Index, Unattached
<1>2. \A fails \in BOOLEAN : Probe(w, t, fails) \/ Create(w, t, fails) \/ ReplayFirst(w, t, fails) => typed' = typed
  BY DEF Probe, Create, ReplayFirst
<1>3. ReadSession(w, t) => Keeps(w, t)
  BY ReadContinues DEF Continues
<1>4. EndSession(w, t) \/ Closed(w, t) \/ Index(w, t) \/ Abandon(w, t) => Keeps(w, t)
  BY SteadyContinues DEF Continues
<1>5. ASSUME NEW fails \in BOOLEAN, Probe(w, t, fails) \/ ReplayFirst(w, t, fails) PROVE Keeps(w, t)
  BY <1>5, SteadyContinues DEF Continues
<1>6. ASSUME NEW fails \in BOOLEAN, Create(w, t, fails) PROVE Keeps(w, t)
  BY <1>6, MakingEffect DEF Goes1
<1>7. Promote(w, t) \/ Kill(w, t) => Keeps(w, t)
  BY MakingEffect DEF Goes1
<1>8. ClaimRuntime(w, t) \/ Unattached(w, t) => Keeps(w, t)
  BY ClaimEffect, UnattachedContinues DEF Continues
<1>9. CASE Attached(w, t)
  BY <1>9, AttachedContinues DEF Continues
<1> QED BY <1>1, <1>2, <1>3, <1>4, <1>5, <1>6, <1>7, <1>8, <1>9 DEF CallStep

\* What a consumer does with a command of its stream.
LEMMA Delivers ==
    ASSUME ShapeInv, NEW w \in Workers, NEW q \in Sources, NEW c \in Commands, Deliver(w, q, c)
    PROVE  /\ \/ UNCHANGED <<receipts, call, stream, typed>>
              \/ /\ c.id \notin receipts /\ receipts' = receipts \cup {c.id}
                 /\ Rest(w, q) /\ call'[w][q].cmd = c /\ call'[w][q].runtime = 0 /\ call'[w][q].pc \in {"done", "failed", "session"}
                 /\ typed' = typed \/ (typed' = Append(typed, c.id) /\ call'[w][q].pc = "done")
                 /\ stream' = stream \/ \E x \in Workers : Published(x, c)
           /\ UNCHANGED wire
<1>0. q \in Callers /\ UNCHANGED wire
  BY SourcesAreCallers DEF Deliver
<1>1. CASE ~Accepted(c)
  BY <1>0, <1>1 DEF Deliver
<1>2. CASE Accepted(c)
  <2>1. c.id \notin receipts /\ receipts' = receipts \cup {c.id}
    BY <1>2 DEF Deliver, Accepted
  <2>2. \E pc \in {"done", "failed", "session"} :
            /\ call' = [call EXCEPT ![w][q] = [Idle EXCEPT !.pc = pc, !.cmd = c]]
            /\ typed' = typed \/ (typed' = Append(typed, c.id) /\ pc = "done")
    BY <1>2 DEF Deliver, Handled
  <2>3. PICK pc \in {"done", "failed", "session"} :
            /\ call' = [call EXCEPT ![w][q] = [Idle EXCEPT !.pc = pc, !.cmd = c]]
            /\ typed' = typed \/ (typed' = Append(typed, c.id) /\ pc = "done")
    BY <2>2
  <2>4. Rest(w, q) /\ call'[w][q] = [Idle EXCEPT !.pc = pc, !.cmd = c]
    BY <1>0, <2>3 DEF ShapeInv, CallShape, Rest
  <2>5. call'[w][q].cmd = c /\ call'[w][q].runtime = 0 /\ call'[w][q].pc = pc
    BY <2>4 DEF Idle
  <2>6. stream' = stream \/ \E x \in Workers : Published(x, c)
    BY <1>2 DEF Deliver, ShapeInv, LeaseShape
  <2> QED BY <1>0, <2>1, <2>3, <2>4, <2>5, <2>6
<1> QED BY <1>1, <1>2

LEMMA ConsumedIsCommand ==
    ASSUME PathShape, NEW w \in Workers, NEW q \in Streams, Consume(w, q)
    PROVE  \E c \in Commands : Deliver(w, q, c)
<1>1. StreamOf(w, q) \in {"global"} \cup Workers /\ position[w][q] \in Nat /\ position[w][q] < Len(stream[StreamOf(w, q)])
  BY DEF Consume, StreamOf, PathShape
<1>2. stream[StreamOf(w, q)] \in Seq(Commands)
  BY <1>1 DEF PathShape
<1>3. stream[StreamOf(w, q)][position[w][q] + 1] \in Commands
  BY <1>1, <1>2
<1> QED BY <1>3 DEF Consume

LEMMA OnceDelivers ==
    ASSUME ShapeInv, PathShape, OnceInv, NEW w \in Workers, NEW q \in Sources, NEW c \in Commands, Deliver(w, q, c)
    PROVE  OnceInv'
<1>0. typed \in Seq(Nat)
  BY DEF PathShape
<1>1. CASE UNCHANGED <<receipts, call, stream, typed>>
  BY <1>1, OnceStays
<1>2. CASE /\ c.id \notin receipts /\ receipts' = receipts \cup {c.id}
           /\ Rest(w, q) /\ call'[w][q].cmd = c /\ call'[w][q].pc \in {"done", "failed", "session"}
           /\ typed' = typed \/ (typed' = Append(typed, c.id) /\ call'[w][q].pc = "done")
  BY <1>0, <1>2, OnceTakes
<1> QED BY <1>1, <1>2, Delivers

LEMMA OnceStep ==
    ASSUME ShapeInv, PathShape, OnceInv, [SessionsNext]_sessionsVars
    PROVE  OnceInv'
<1>1. CASE RuntimeStep /\ UNCHANGED <<controlVars, browser>>
  <2>0. receipts' = receipts
    BY <1>1 DEF controlVars
  <2>1. ASSUME NEW w \in Workers, NEW t \in Callers, CallStep(w, t) PROVE OnceInv'
    <3>1. CASE typed' = typed
      BY <2>0, <2>1, <3>1, CallTouches, OnceKeeps
    <3>2. CASE /\ t # "beat" /\ call[w][t].pc = "attached" /\ call[w][t].cmd \in Commands
               /\ typed' = Append(typed, call[w][t].cmd.id) /\ call'[w][t].pc = "done"
      <4>1. t \in Sources /\ call[w][t].cmd.id \in Nat /\ typed \in Seq(Nat)
        BY <3>2, SourcesAreCallers DEF Commands, PathShape
      <4> QED BY <2>0, <2>1, <3>2, <4>1, CallTouches, OnceTypes
    <3> QED BY <2>1, <3>1, <3>2, CallTouches
  <2>2. ASSUME NEW w \in Workers, BeatStep(w) \/ \E c \in closing[w] : CloseStep(w, c) PROVE OnceInv'
    BY <2>0, <2>2, BeatTouches, OnceStays, SourcesAreCallers
  <2>3. CASE Write \/ ShellExits \/ SessionEnds
    <3>1. typed' = typed /\ call' = call
      BY <2>3 DEF Write, ShellExits, SessionEnds
    <3> QED BY <2>0, <3>1, OnceStays
  <2> QED BY <1>1, <2>1, <2>2, <2>3 DEF RuntimeStep
<1>2. CASE BrowserStep /\ UNCHANGED runtimeVars
  <2>1. receipts' = receipts /\ typed' = typed /\ call' = call
    BY <1>2 DEF BrowserStep, PrepareChannel, Enqueue, SendControl, Broadcast, controlVars, runtimeVars
  <2> QED BY <2>1, OnceStays
<1>3. ASSUME NEW fails \in BOOLEAN, Request(fails) PROVE OnceInv'
  <2>1. receipts' = receipts /\ typed' = typed /\ call' = call
    BY <1>3 DEF Request
  <2> QED BY <2>1, OnceStays
<1>4. ASSUME NEW w \in Workers, NEW q \in Streams, Consume(w, q) PROVE OnceInv'
  BY <1>4, ConsumedIsCommand, OnceDelivers, SourcesAreCallers
<1>5. ASSUME NEW w \in Workers, NEW c \in wire, Hear(w, c) PROVE OnceInv'
  BY <1>5, OnceDelivers DEF Hear, Sources, PathShape
<1>6. ASSUME NEW w \in Workers, NEW q \in Sources, Settle(w, q) PROVE OnceInv'
  BY <1>6, OnceSettles DEF ShapeInv
<1>7. ASSUME NEW w \in Workers, Crash(w) \/ Stop(w) PROVE OnceInv'
  <2>1. Lost(w) /\ receipts' = receipts /\ typed' = typed
    BY <1>7 DEF Crash, Stop, CrashManager, StopManager, Deaf
  <2>2. \A v \in Workers, q \in Sources : call'[v][q] = call[v][q] \/ call'[v][q].pc = "idle"
    BY <2>1, Loses, CommandKinds, SourcesAreCallers
  <2> QED BY <2>1, <2>2, OnceStays
<1>8. ASSUME NEW w \in Workers, Start(w) PROVE OnceInv'
  <2>1. receipts' = receipts /\ typed' = typed /\ call' = call
    BY <1>8 DEF Start, StartManager
  <2> QED BY <2>1, OnceStays
<1>9. CASE Lapse \/ UNCHANGED sessionsVars
  <2>1. receipts' = receipts /\ typed' = typed /\ call' = call
    BY <1>9 DEF Lapse, ExpireLease, controlVars, runtimeVars, sessionsVars
  <2> QED BY <2>1, OnceStays
<1> QED BY <1>1, <1>2, <1>3, <1>4, <1>5, <1>6, <1>7, <1>8, <1>9, Steps

\* A step of a call, of the beat or of a cleanup leaves the commands on their way alone.
LEMMA TypedShape ==
    ASSUME ShapeInv, PathShape, RuntimeStep
    PROVE  typed' \in Seq(Nat)
<1>0. typed \in Seq(Nat)
  BY DEF PathShape
<1>1. ASSUME NEW w \in Workers, NEW t \in Callers, CallStep(w, t) PROVE typed' \in Seq(Nat)
  <2>1. CASE typed' = typed
    BY <1>0, <2>1
  <2>2. CASE call[w][t].cmd \in Commands /\ typed' = Append(typed, call[w][t].cmd.id)
    BY <1>0, <2>2, CommandKinds, Appended
  <2> QED BY <1>1, <2>1, <2>2, CallTouches
<1>2. ASSUME NEW w \in Workers, BeatStep(w) \/ \E c \in closing[w] : CloseStep(w, c) PROVE typed' \in Seq(Nat)
  BY <1>0, <1>2, BeatTouches
<1>3. ASSUME Write \/ ShellExits \/ SessionEnds PROVE typed' \in Seq(Nat)
  BY <1>0, <1>3 DEF Write, ShellExits, SessionEnds
<1> QED BY <1>1, <1>2, <1>3 DEF RuntimeStep

LEMMA PublishedShape ==
    ASSUME PathShape, NEW x \in {"global"} \cup Workers, NEW c \in Commands, Published(x, c)
    PROVE  stream' \in [{"global"} \cup Workers -> Seq(Commands)]
<1>1. stream[x] \in Seq(Commands) /\ Append(stream[x], c) \in Seq(Commands)
  BY DEF PathShape
<1> QED BY <1>1 DEF PathShape, Published

LEMMA NextIsCommand ==
    ASSUME PathShape, Asks
    PROVE  Next1 \in Commands
<1>1. browser.issued \in Nat /\ left.script \in Seq(Views) /\ browser.issued < Len(left.script)
  BY DEF PathShape, Asks
<1>2. left.script[browser.issued + 1] \in Views
  BY <1>1
<1> QED BY <1>1, <1>2 DEF Next1, Commands

LEMMA HeadIsCommand ==
    ASSUME PathShape, browser.outbox # <<>>
    PROVE  Head(browser.outbox) \in Commands /\ Tail(browser.outbox) \in Seq(Commands)
BY DEF PathShape

\* What a delivery does to the commands on their way.
LEMMA DeliversShape ==
    ASSUME ShapeInv, PathShape, NEW w \in Workers, NEW q \in Sources, NEW c \in Commands, Deliver(w, q, c)
    PROVE  stream' \in [{"global"} \cup Workers -> Seq(Commands)] /\ typed' \in Seq(Nat) /\ wire' = wire
<1>1. typed \in Seq(Nat) /\ c.id \in Nat
  BY CommandKinds DEF PathShape
<1>2. typed' = typed \/ typed' = Append(typed, c.id)
  BY Delivers
<1>3. stream' = stream \/ \E x \in Workers : Published(x, c)
  BY Delivers
<1>4. stream' \in [{"global"} \cup Workers -> Seq(Commands)]
  <2>1. CASE stream' = stream
    BY <2>1 DEF PathShape
  <2> QED BY <1>3, <2>1, PublishedShape
<1> QED BY <1>1, <1>2, <1>4, Appended, Delivers

LEMMA PathStep ==
    ASSUME ShapeInv, PathShape, [SessionsNext]_sessionsVars
    PROVE  PathShape'
<1> DEFINE LeftShape == left' \in [owner : Workers \cup {None}, script : Seq(Views), crashes : Nat, stops : Nat, stalls : Nat,
                 stalling : BOOLEAN, faults : Nat, faulty : BOOLEAN, exits : Nat, output : Nat, ends : Nat]
           Path == /\ stream' \in [{"global"} \cup Workers -> Seq(Commands)]
                   /\ position' \in [Workers -> [Streams -> Nat]]
                   /\ wire' \subseteq Commands /\ typed' \in Seq(Nat)
           Sends == browser'.issued \in Nat /\ browser'.outbox \in Seq(Commands)
<1>0. LeftShape
  BY DwindlesShape, Steps
<1>a. /\ UNCHANGED stream => stream' \in [{"global"} \cup Workers -> Seq(Commands)]
      /\ UNCHANGED position => position' \in [Workers -> [Streams -> Nat]]
      /\ UNCHANGED wire => wire' \subseteq Commands
      /\ UNCHANGED typed => typed' \in Seq(Nat)
      /\ UNCHANGED browser => Sends
  BY DEF PathShape
<1>1. ASSUME RuntimeStep /\ UNCHANGED <<controlVars, browser>> PROVE Path /\ Sends
  BY <1>a, <1>1, TypedShape DEF controlVars
<1>2. ASSUME BrowserStep /\ UNCHANGED runtimeVars PROVE Path /\ Sends
  <2>0. typed' = typed
    BY <1>2 DEF runtimeVars
  <2>1. ASSUME PrepareChannel PROVE Path /\ Sends
    <3>1. browser'.issued = browser.issued /\ browser'.outbox = browser.outbox
      BY <2>1 DEF PrepareChannel
    <3>2. UNCHANGED <<stream, position, wire>>
      BY <2>1 DEF PrepareChannel, controlVars
    <3> QED BY <1>a, <2>0, <3>1, <3>2 DEF PathShape
  <2>2. ASSUME Enqueue PROVE Path /\ Sends
    <3>1. Next1 \in Commands
      BY <2>2, NextIsCommand DEF Enqueue
    <3>2. UNCHANGED <<stream, position, wire>>
      BY <2>2 DEF Enqueue, controlVars
    <3>3. browser'.issued = browser.issued + 1 /\ browser'.outbox = Append(browser.outbox, Next1)
      BY <2>2 DEF Enqueue
    <3> QED BY SMTT(30), <1>a, <2>0, <3>1, <3>2, <3>3 DEF PathShape
  <2>3. ASSUME NEW fails \in BOOLEAN, SendControl(fails) PROVE Path /\ Sends
    <3>1. Head(browser.outbox) \in Commands /\ Tail(browser.outbox) \in Seq(Commands)
      BY <2>3, HeadIsCommand DEF SendControl
    <3>2. UNCHANGED <<position, wire>> /\ (stream' = stream \/ Published("global", Head(browser.outbox)))
      BY <2>3 DEF SendControl
    <3>3. browser'.issued = browser.issued /\ browser'.outbox = Tail(browser.outbox)
      BY <2>3 DEF SendControl
    <3> QED BY <1>a, <2>0, <3>1, <3>2, <3>3, PublishedShape DEF PathShape
  <2>4. ASSUME NEW fails \in BOOLEAN, NEW reaches \in BOOLEAN, Broadcast(fails, reaches) PROVE Path /\ Sends
    <3>1. Head(browser.outbox) \in Commands /\ Tail(browser.outbox) \in Seq(Commands)
      BY <2>4, HeadIsCommand DEF Broadcast
    <3>2. UNCHANGED <<position, stream>> /\ wire' \subseteq wire \cup {Head(browser.outbox)}
      BY <2>4 DEF Broadcast
    <3>3. browser'.issued = browser.issued /\ browser'.outbox \in {browser.outbox, Tail(browser.outbox)}
      BY <2>4 DEF Broadcast
    <3>4. wire' \subseteq Commands
      BY <3>1, <3>2 DEF PathShape
    <3> QED BY <1>a, <2>0, <3>1, <3>2, <3>3, <3>4 DEF PathShape
  <2> QED BY <1>2, <2>1, <2>2, <2>3, <2>4 DEF BrowserStep
<1>3. ASSUME NEW fails \in BOOLEAN, Request(fails) PROVE Path /\ Sends
  <2>1. Next1 \in Commands
    BY <1>3, NextIsCommand DEF Request
  <2>2. UNCHANGED <<typed, position, wire>> /\ (stream' = stream \/ Published("global", Next1))
    BY <1>3 DEF Request
  <2>3. browser'.issued = browser.issued + 1 /\ browser'.outbox = browser.outbox
    BY <1>3 DEF Request
  <2>4. stream' \in [{"global"} \cup Workers -> Seq(Commands)]
    BY <2>1, <2>2, PublishedShape DEF PathShape
  <2>5. Sends
    BY <2>3 DEF PathShape
  <2> QED BY <1>a, <2>2, <2>4, <2>5
<1>4. ASSUME NEW w \in Workers, NEW q \in Streams, Consume(w, q), UNCHANGED browser PROVE Path /\ Sends
  <2>1. stream' \in [{"global"} \cup Workers -> Seq(Commands)] /\ typed' \in Seq(Nat) /\ wire' = wire
    BY <1>4, ConsumedIsCommand, DeliversShape, SourcesAreCallers
  <2>2. position' = [position EXCEPT ![w][q] = position[w][q] + 1]
    BY <1>4 DEF Consume
  <2>3. position' \in [Workers -> [Streams -> Nat]]
    <3>1. position \in [Workers -> [Streams -> Nat]]
      BY DEF PathShape
    <3>2. position[w][q] + 1 \in Nat
      BY <3>1
    <3> QED BY <2>2, <3>1, <3>2
  <2> QED BY <1>a, <1>4, <2>1, <2>3
<1>5. ASSUME NEW w \in Workers, NEW c \in wire, Hear(w, c), UNCHANGED browser PROVE Path /\ Sends
  <2>1. c \in Commands /\ Deliver(w, "input", c) /\ "input" \in Sources /\ position' = position
    BY <1>5 DEF Hear, PathShape, Sources
  <2> QED BY <1>a, <1>5, <2>1, DeliversShape
<1>6. ASSUME NEW w \in Workers, NEW q \in Sources, Settle(w, q), UNCHANGED browser PROVE Path /\ Sends
  BY <1>a, <1>6 DEF Settle
<1>7. ASSUME NEW w \in Workers, Crash(w) \/ Stop(w) PROVE Path /\ Sends
  <2>1. UNCHANGED <<stream, wire, typed, browser>> /\ position' = [position EXCEPT ![w] = Unread]
    BY <1>7 DEF Crash, Stop, CrashManager, StopManager, Deaf
  <2>2. position' \in [Workers -> [Streams -> Nat]]
    BY <2>1 DEF PathShape, Unread
  <2> QED BY <1>a, <2>1, <2>2
<1>8. ASSUME NEW w \in Workers, Start(w) PROVE Path /\ Sends
  <2>1. UNCHANGED <<stream, position, wire, typed, browser>>
    BY <1>8 DEF Start, StartManager
  <2> QED BY <1>a, <2>1
<1>9. ASSUME Lapse PROVE Path /\ Sends
  <2>1. UNCHANGED <<stream, position, wire, typed, browser>>
    BY <1>9 DEF Lapse, ExpireLease, controlVars
  <2> QED BY <1>a, <2>1
<1>10. ASSUME UNCHANGED sessionsVars PROVE Path /\ Sends
  <2>1. UNCHANGED <<stream, position, wire, typed, browser>>
    BY <1>10 DEF sessionsVars, controlVars, runtimeVars
  <2> QED BY <1>a, <2>1
<1> HIDE DEF Path, Sends, LeftShape
<1>11. Path /\ Sends
  BY <1>1, <1>2, <1>3, <1>4, <1>5, <1>6, <1>7, <1>8, <1>9, <1>10, Steps
<1> QED BY <1>0, <1>11 DEF PathShape, Path, Sends, LeftShape

-----------------------------------------------------------------------------
(* Attached once *)

LeaseInv == LeaseKnown /\ OwnRuntime /\ Unmanaged /\ Unclosed /\ Leased

\* What a worker holds lasts or is let go; what it has to close is what it had.
CallsLast ==
    \A v \in Workers, t \in Callers :
        /\ call'[v][t].runtime \in {0, call[v][t].runtime} \cup Mine(v)
        /\ call'[v][t].pc \in Making =>
               /\ call[v][t].pc \in Making /\ call'[v][t].runtime = call[v][t].runtime
               /\ call'[v][t].pc = "create" => call[v][t].pc = "create"
               /\ call'[v][t].pc # "promote" => call[v][t].pc # "promote" \/ managed'[v] = None
SessionsLast ==
    \A v \in Workers : managed'[v] # None =>
        managed[v] # None /\ managed'[v].runtime = managed[v].runtime /\ (managed[v].fenced => managed'[v].fenced)
ClosingsLast == \A v \in Workers : \A c \in closing'[v] : Closing(v, c.runtime) \/ Current(v, c.runtime)
Lasts == CallsLast /\ SessionsLast /\ ClosingsLast

\* The lease is let go when nobody needs it.
Unneeded ==
    \A v \in Workers :
        /\ managed'[v] # None /\ ~managed'[v].fenced => managed'[v].runtime # lease.runtime
        /\ \A t \in Callers : call'[v][t].pc = "create" => call'[v][t].runtime # lease.runtime
LeaseLasts == lease' = lease \/ (lease # None /\ lease' = None /\ (Calm => Unneeded))

\* Whatever lasts was held before.
LEMMA RuntimesLast ==
    ASSUME Lasts, NEW v \in Workers
    PROVE  RuntimesOf(v)' \subseteq RuntimesOf(v) \cup {0}
<1>1. Mine(v) \subseteq RuntimesOf(v)
  BY DEF Mine, RuntimesOf
<1>2. \A t \in Callers : call'[v][t].runtime \in RuntimesOf(v) \cup {0}
  BY <1>1 DEF Lasts, CallsLast, RuntimesOf
<1>3. \A c \in closing'[v] : c.runtime \in RuntimesOf(v)
  BY DEF Lasts, ClosingsLast, RuntimesOf, Closing, Current
<1>4. managed'[v] # None => managed'[v].runtime \in RuntimesOf(v)
  BY DEF Lasts, SessionsLast, RuntimesOf
<1> QED BY <1>2, <1>3, <1>4 DEF RuntimesOf

LEMMA LeaseStays ==
    ASSUME ShapeInv, LeaseInv, Lasts, LeaseLasts, Calm' = Calm
    PROVE  LeaseInv'
<1>1. LeaseKnown'
  <2> SUFFICES ASSUME lease' # None, NEW v \in Workers, lease'.runtime \in RuntimesOf(v)' PROVE v = lease'.worker
    BY DEF LeaseKnown
  <2>1. lease' = lease /\ lease.runtime # 0
    BY DEF LeaseLasts, ShapeInv, LeaseShape, Positive
  <2>2. lease.runtime \in RuntimesOf(v)
    BY <2>1, RuntimesLast
  <2> QED BY <2>1, <2>2 DEF LeaseInv, LeaseKnown
<1>2. OwnRuntime'
  BY DEF Lasts, CallsLast, LeaseInv, OwnRuntime
<1>3. \A v \in Workers : \A id : Current(v, id)' => Current(v, id)
  BY DEF Lasts, SessionsLast, Current
<1>4. \A v \in Workers : \A id : Closing(v, id)' => Closing(v, id) \/ Current(v, id)
  BY DEF Lasts, ClosingsLast, Closing
<1>5. Unmanaged'
  <2> SUFFICES ASSUME NEW v \in Workers, NEW t \in Callers, call'[v][t].pc \in Making \ {"promote"}, Current(v, call[v][t].runtime)'
               PROVE  FALSE
    BY DEF Unmanaged
  <2>1. call[v][t].pc \in Making /\ call'[v][t].runtime = call[v][t].runtime /\ (call[v][t].pc # "promote" \/ managed'[v] = None)
    BY DEF Lasts, CallsLast
  <2> QED BY <1>3, <2>1 DEF LeaseInv, Unmanaged, Current
<1>6. Unclosed'
  <2> SUFFICES ASSUME NEW v \in Workers, NEW t \in Callers, call'[v][t].pc = "create", Closing(v, call[v][t].runtime)'
               PROVE  FALSE
    BY DEF Unclosed
  <2>1. call[v][t].pc = "create" /\ call'[v][t].runtime = call[v][t].runtime
    BY DEF Lasts, CallsLast, Making
  <2>2. ~Closing(v, call[v][t].runtime) /\ ~Current(v, call[v][t].runtime)
    BY <2>1 DEF LeaseInv, Unmanaged, Unclosed, Making
  <2> QED BY <1>4, <2>1, <2>2 DEF Closing
<1>7. Leased'
  <2> SUFFICES ASSUME Calm, NEW v \in Workers
               PROVE  /\ managed'[v] # None /\ ~managed'[v].fenced => Held(lease', managed'[v].runtime)
                      /\ \A t \in Callers : call'[v][t].pc = "create" => Held(lease', call'[v][t].runtime)
    BY DEF Leased
  <2>1. managed'[v] # None /\ ~managed'[v].fenced => Held(lease, managed'[v].runtime)
    BY DEF Lasts, SessionsLast, LeaseInv, Leased
  <2>2. \A t \in Callers : call'[v][t].pc = "create" => Held(lease, call'[v][t].runtime)
    BY DEF Lasts, CallsLast, Making, LeaseInv, Leased
  <2> QED BY <2>1, <2>2 DEF LeaseLasts, Unneeded, Held
<1> QED BY <1>1, <1>2, <1>5, <1>6, <1>7 DEF LeaseInv

\* Nobody else has the runtime that a lease of one's own names.
LEMMA OthersHaveNot ==
    ASSUME LeaseInv, lease # None, NEW w \in Workers, lease.runtime \in RuntimesOf(w)
    PROVE  \A v \in Workers \ {w} : lease.runtime \notin RuntimesOf(v)
BY DEF LeaseInv, LeaseKnown

\* It is let go by a worker that has no use for it.
LEMMA ReleaseLasts ==
    ASSUME LeaseInv, Lasts, NEW w \in Workers, NEW id \in RuntimesOf(w), lease' = Released(lease, id),
           managed'[w] # None => managed'[w].fenced \/ managed'[w].runtime # id,
           \A t \in Callers : call'[w][t].pc = "create" => call'[w][t].runtime # id
    PROVE  LeaseLasts
<1>1. CASE ~Held(lease, id)
  BY <1>1 DEF LeaseLasts, Released
<1>2. CASE Held(lease, id)
  <2>1. lease # None /\ lease.runtime = id /\ lease' = None
    BY <1>2 DEF Held, Released
  <2>2. \A v \in Workers \ {w} : id \notin RuntimesOf(v)
    BY <2>1, OthersHaveNot
  <2>3. \A v \in Workers : managed'[v] # None => managed'[v].runtime \in RuntimesOf(v)
    BY DEF Lasts, SessionsLast, RuntimesOf
  <2>4. \A v \in Workers, t \in Callers : call'[v][t].pc = "create" => call'[v][t].runtime \in RuntimesOf(v)
    BY DEF Lasts, CallsLast, Making, RuntimesOf
  <2> QED BY <2>1, <2>2, <2>3, <2>4 DEF LeaseLasts, Unneeded
<1> QED BY <1>1, <1>2

\* A call that goes on.
LEMMA ContinuesLasts ==
    ASSUME ShapeInv, NEW w \in Workers, NEW t \in Callers, Continues(w, t) PROVE CallsLast
BY DEF Continues, Keeps, Rest, CallsLast

LEMMA MakingLasts ==
    ASSUME ShapeInv, NEW w \in Workers, NEW t \in Callers, NEW pc \in {"abandon", "surrender", "kill", "index"}, Goes1(w, t, pc),
           \/ call[w][t].pc \in {"create", "kill"} /\ pc \in {"abandon", "surrender"}
           \/ call[w][t].pc = "promote" /\ (pc = "index" \/ managed'[w] = None)
    PROVE  CallsLast
BY DEF Goes1, Keeps, Rest, CallsLast, Making

LEMMA SessionLasts ==
    ASSUME ManagedShape, NEW w \in Workers,
           \/ managed' = managed \/ managed' = AllDetached
           \/ \E m : /\ managed' = [managed EXCEPT ![w] = m]
                     /\ m = None \/ (managed[w] # None /\ m.runtime = managed[w].runtime /\ (managed[w].fenced => m.fenced))
    PROVE  SessionsLast
<1>1. CASE managed' = managed
  BY <1>1 DEF SessionsLast
<1>2. CASE managed' = AllDetached
  BY <1>2, Detaches DEF SessionsLast
<1>3. ASSUME NEW m, managed' = [managed EXCEPT ![w] = m],
             m = None \/ (managed[w] # None /\ m.runtime = managed[w].runtime /\ (managed[w].fenced => m.fenced))
      PROVE  SessionsLast
  <2>1. \A v \in Workers : managed'[v] = IF v = w THEN m ELSE managed[v]
    BY <1>3 DEF ManagedShape
  <2> QED BY <1>3, <2>1 DEF SessionsLast
<1> QED BY <1>1, <1>2, <1>3

LEMMA ClosingsStay ==
    ASSUME closing' = closing PROVE ClosingsLast
BY DEF ClosingsLast, Closing

LEMMA ClosingsLessen ==
    ASSUME ShapeInv, NEW w \in Workers, NEW S, closing' = [closing EXCEPT ![w] = S],
           \A c \in S : Closing(w, c.runtime) \/ Current(w, c.runtime)
    PROVE  ClosingsLast
<1>1. \A v \in Workers : closing'[v] = IF v = w THEN S ELSE closing[v]
  BY DEF ShapeInv, ClosingShape
<1> QED BY <1>1 DEF ClosingsLast, Closing

LEMMA FencesLast ==
    ASSUME ShapeInv, NEW w \in Workers, managed[w] # None, NEW how \in {"terminate", "detach"}, Fenced(w, how)
    PROVE  SessionsLast /\ ClosingsLast
<1>1. /\ managed'[w] = [managed[w] EXCEPT !.fenced = TRUE] /\ managed[w] \in ManagedSessions
      /\ \A v \in Workers \ {w} : managed'[v] = managed[v] /\ closing'[v] = closing[v]
      /\ \A c \in closing'[w] : c \in closing[w] \/ c.runtime = managed[w].runtime
  BY Fences DEF ShapeInv, ManagedShape
<1>2. managed'[w].runtime = managed[w].runtime /\ managed'[w].fenced
  BY <1>1 DEF ManagedSessions
<1>3. SessionsLast
  BY <1>1, <1>2 DEF SessionsLast
<1>4. ClosingsLast
  BY <1>1 DEF ClosingsLast, Closing, Current
<1> QED BY <1>3, <1>4

LEMMA ClosesLast ==
    ASSUME ShapeInv, NEW w \in up, NEW c \in closing[w], ClosesOne(w, c)
    PROVE  w \in Workers /\ ClosingsLast
<1>1. /\ w \in Workers /\ \A v \in Workers \ {w} : closing'[v] = closing[v]
      /\ \A d \in closing'[w] : \E e \in closing[w] : d.runtime = e.runtime
  BY Closes DEF ClosesOne
<1> QED BY <1>1 DEF ClosingsLast, Closing

\* The steps of a call that neither claim nor let go.
LEMMA SteadyLasts ==
    ASSUME ShapeInv, NEW w \in Workers, NEW t \in Callers,
           \/ ReadSession(w, t) \/ EndSession(w, t) \/ Closed(w, t) \/ Index(w, t) \/ Attached(w, t) \/ Unattached(w, t)
           \/ \E fails \in BOOLEAN : Probe(w, t, fails) \/ ReplayFirst(w, t, fails)
    PROVE  Lasts /\ lease' = lease
<1>1. Continues(w, t)
  BY ReadContinues, SteadyContinues, AttachedContinues, UnattachedContinues
<1>2. CallsLast
  BY <1>1, ContinuesLasts
<1>3. ReadSession(w, t) \/ Closed(w, t) \/ Attached(w, t) => UNCHANGED <<managed, closing, lease>>
  BY DEF ReadSession, Closed, Attached, durable
<1>4. Index(w, t) \/ Unattached(w, t) => UNCHANGED <<managed, closing, lease>>
  BY DEF Index, Unattached, local
<1>5. CASE UNCHANGED <<managed, closing, lease>>
  BY <1>2, <1>5, SessionLasts, ClosingsStay DEF Lasts, ShapeInv
<1>6. CASE EndSession(w, t)
  <2> DEFINE id == call[w][t].runtime
             c == [runtime |-> id, how |-> "terminate", stage |-> "client"]
  <2>1. managed' = managed /\ lease' = lease
    BY <1>6 DEF EndSession
  <2>2. \/ closing' = closing
        \/ Current(w, id) /\ closing' = [closing EXCEPT ![w] = closing[w]]
        \/ Current(w, id) /\ closing' = [closing EXCEPT ![w] = closing[w] \cup {c}]
    BY <1>6 DEF EndSession
  <2>3. \A d \in closing[w] \cup {c} : Closing(w, d.runtime) \/ d = c
    BY DEF Closing
  <2>4. c.runtime = id
    OBVIOUS
  <2> HIDE DEF c, id
  <2>5. ClosingsLast
    BY <2>2, <2>3, <2>4, ClosingsStay, ClosingsLessen
  <2> QED BY <1>2, <2>1, <2>5, SessionLasts DEF Lasts, ShapeInv
<1>7. ASSUME NEW fails \in BOOLEAN, Probe(w, t, fails) PROVE Lasts /\ lease' = lease
  <2>1. lease' = lease /\ (UNCHANGED <<managed, closing>> \/ (managed[w] # None /\ Fenced(w, "terminate")))
    BY <1>7 DEF Probe, durable, Current
  <2> QED BY <1>2, <2>1, SessionLasts, ClosingsStay, FencesLast DEF Lasts, ShapeInv
<1>8. ASSUME NEW fails \in BOOLEAN, ReplayFirst(w, t, fails) PROVE Lasts /\ lease' = lease
  <2>1. /\ lease' = lease
        /\ \/ UNCHANGED <<managed, closing>>
           \/ managed[w] # None /\ Fenced(w, "detach")
           \/ managed[w] # None /\ closing' = closing /\ managed' = [managed EXCEPT ![w] = [managed[w] EXCEPT !.ready = TRUE]]
    BY <1>8 DEF ReplayFirst, Settles, Current
  <2>2. managed[w] # None => LET m == [managed[w] EXCEPT !.ready = TRUE] IN m.runtime = managed[w].runtime /\ m.fenced = managed[w].fenced
    BY DEF ShapeInv, ManagedShape, ManagedSessions
  <2> QED BY <1>2, <2>1, <2>2, SessionLasts, ClosingsStay, FencesLast DEF Lasts, ShapeInv
<1> QED BY <1>3, <1>4, <1>5, <1>6, <1>7, <1>8

\* A claim takes an id that nobody has.
LEMMA ClaimsLeased ==
    ASSUME ShapeInv, LeaseInv, Calm' = Calm, NEW w \in Workers, NEW t \in Callers, ClaimRuntime(w, t)
    PROVE  LeaseInv'
<1>0. UNCHANGED <<managed, closing>>
  BY DEF ClaimRuntime, local
<1>1. CASE Continues(w, t) /\ lease' = lease
  <2>1. Lasts
    BY <1>0, <1>1, ContinuesLasts, SessionLasts, ClosingsStay DEF Lasts, ShapeInv
  <2> QED BY <1>1, <2>1, LeaseStays DEF LeaseLasts
<1>2. CASE /\ Keeps(w, t) /\ call'[w][t].pc = "create" /\ call'[w][t].runtime = FreshRuntime
           /\ lease = None /\ lease' = [runtime |-> FreshRuntime, worker |-> w]
  <2> DEFINE id == FreshRuntime
  <2>1. \A v \in Workers : id \notin RuntimesOf(v)
    BY FreshIsFresh DEF ShapeInv
  <2>2. lease' = [runtime |-> id, worker |-> w] /\ lease'.runtime = id /\ lease'.worker = w /\ call'[w][t].pc = "create" /\ call'[w][t].runtime = id
    BY <1>2
  <2> HIDE DEF id
  <2>3. \A v \in Workers, u \in Callers : v # w \/ u # t => call'[v][u] = call[v][u]
    BY <1>2 DEF Keeps, Rest
  <2>4. \A v \in Workers : \A u \in Callers : call[v][u].runtime # id
    BY <2>1 DEF RuntimesOf
  <2>5. \A v \in Workers : ~Current(v, id) /\ ~Closing(v, id)
    BY <2>1 DEF RuntimesOf, Current, Closing
  <2>6. LeaseKnown'
    <3> SUFFICES ASSUME NEW v \in Workers, v # w, id \in RuntimesOf(v)' PROVE FALSE
      BY <2>2 DEF LeaseKnown
    <3>1. RuntimesOf(v)' = RuntimesOf(v)
      BY <1>0, <2>3 DEF RuntimesOf
    <3> QED BY <2>1, <3>1
  <2>7. OwnRuntime'
    BY <2>2, <2>3, <2>4 DEF OwnRuntime, LeaseInv
  <2>8. \A v \in Workers : \A i : (Current(v, i)' <=> Current(v, i)) /\ (Closing(v, i)' <=> Closing(v, i))
    BY <1>0 DEF Current, Closing
  <2>9. Unmanaged' /\ Unclosed'
    <3>1. ASSUME NEW v \in Workers, NEW u \in Callers, call'[v][u].pc \in Making \ {"promote"} PROVE ~Current(v, call[v][u].runtime)'
      <4>1. CASE v = w /\ u = t
        BY <2>2, <2>5, <2>8, <4>1 DEF Current
      <4>2. CASE v # w \/ u # t
        <5>1. call'[v][u] = call[v][u]
          BY <2>3, <4>2
        <5> QED BY <1>0, <3>1, <5>1 DEF Current, LeaseInv, Unmanaged
      <4> QED BY <4>1, <4>2
    <3>2. ASSUME NEW v \in Workers, NEW u \in Callers, call'[v][u].pc = "create" PROVE ~Closing(v, call[v][u].runtime)'
      <4>1. CASE v = w /\ u = t
        BY <1>0, <2>2, <2>5, <4>1 DEF Closing
      <4>2. CASE v # w \/ u # t
        <5>1. call'[v][u] = call[v][u]
          BY <2>3, <4>2
        <5> QED BY <1>0, <3>2, <5>1 DEF Closing, LeaseInv, Unclosed
      <4> QED BY <4>1, <4>2
    <3> QED BY <3>1, <3>2 DEF Unmanaged, Unclosed
  <2>10. Leased'
    <3> SUFFICES ASSUME Calm, NEW v \in Workers
                 PROVE  /\ ~(managed'[v] # None /\ ~managed'[v].fenced)
                        /\ \A u \in Callers : call'[v][u].pc = "create" => Held(lease', call'[v][u].runtime)
      BY DEF Leased
    <3>1. ~(managed[v] # None /\ ~managed[v].fenced) /\ \A u \in Callers : call[v][u].pc # "create"
      BY <1>2 DEF LeaseInv, Leased, Held
    <3>2. lease' # None
      BY <1>2, FreshIsFresh, WorkersAssumption DEF ShapeInv
    <3> QED BY <1>0, <2>2, <2>3, <3>1, <3>2 DEF Held
  <2> QED BY <2>6, <2>7, <2>9, <2>10 DEF LeaseInv
<1> QED BY <1>1, <1>2, ClaimEffect

\* A session that is attached has the runtime of the call that attached it.
LEMMA CreatesLeased ==
    ASSUME ShapeInv, LeaseInv, Calm' = Calm, NEW w \in Workers, NEW t \in Callers, NEW fails \in BOOLEAN, Create(w, t, fails)
    PROVE  LeaseInv'
<1>0. closing' = closing /\ lease' = lease /\ call[w][t].pc = "create"
  BY DEF Create, At
<1>1. CASE managed' = managed /\ (Goes1(w, t, "abandon") \/ Goes1(w, t, "surrender"))
  <2>1. CallsLast
    BY <1>0, <1>1, MakingLasts
  <2>2. Lasts
    BY <1>0, <1>1, <2>1, SessionLasts, ClosingsStay DEF Lasts, ShapeInv
  <2> QED BY <1>0, <2>2, LeaseStays DEF LeaseLasts
<1>2. CASE managed' = [managed EXCEPT ![w] = NewManaged(call[w][t].runtime, journal + 1)] /\ Goes1(w, t, "promote")
  <2> DEFINE id == call[w][t].runtime
  <2>1. managed'[w].runtime = id /\ \A v \in Workers \ {w} : managed'[v] = managed[v]
    BY <1>2 DEF NewManaged, ShapeInv, ManagedShape
  <2>2. call'[w][t].pc = "promote" /\ call'[w][t].runtime = id /\ \A v \in Workers, u \in Callers : v # w \/ u # t => call'[v][u] = call[v][u]
    BY <1>2 DEF Goes1, Keeps, Rest
  <2>3. \A v \in Workers : \A i : Closing(v, i)' <=> Closing(v, i)
    BY <1>0 DEF Closing
  <2>4. \A u \in Callers : u # t /\ call[w][u].pc \in Making => call[w][u].runtime # id
    BY <1>0 DEF LeaseInv, OwnRuntime, Making
  <2>5. \A v \in Workers : RuntimesOf(v)' \subseteq RuntimesOf(v)
    <3> SUFFICES ASSUME NEW v \in Workers PROVE RuntimesOf(v)' \subseteq RuntimesOf(v)
      OBVIOUS
    <3>1. \A u \in Callers : call'[v][u].runtime = call[v][u].runtime
      BY <2>2
    <3>2. managed'[v] # None => managed'[v].runtime \in RuntimesOf(v)
      BY <2>1 DEF RuntimesOf
    <3> QED BY <1>0, <3>1, <3>2 DEF RuntimesOf
  <2>6. LeaseKnown'
    BY <1>0, <2>5 DEF LeaseKnown, LeaseInv
  <2>7. OwnRuntime'
    BY <1>0, <2>2 DEF OwnRuntime, LeaseInv, Making
  <2>8. Unmanaged'
    <3> SUFFICES ASSUME NEW v \in Workers, NEW u \in Callers, call'[v][u].pc \in Making \ {"promote"}, Current(v, call[v][u].runtime)' PROVE FALSE
      BY DEF Unmanaged
    <3>1. call'[v][u] = call[v][u] /\ (v # w \/ u # t)
      BY <2>2
    <3> QED BY <2>1, <2>4, <3>1 DEF Current, LeaseInv, Unmanaged
  <2>9. Unclosed'
    <3> SUFFICES ASSUME NEW v \in Workers, NEW u \in Callers, call'[v][u].pc = "create", Closing(v, call[v][u].runtime)' PROVE FALSE
      BY DEF Unclosed
    <3>1. call'[v][u] = call[v][u]
      BY <2>2
    <3> QED BY <1>0, <3>1 DEF Closing, LeaseInv, Unclosed
  <2>10. Leased'
    BY <1>0, <2>1, <2>2 DEF Leased, LeaseInv
  <2> QED BY <2>6, <2>7, <2>8, <2>9, <2>10 DEF LeaseInv
<1>3. \/ managed' = managed /\ (Goes(w, t, "abandon") \/ Goes(w, t, "surrender"))
      \/ managed' = [managed EXCEPT ![w] = NewManaged(call[w][t].runtime, journal + 1)] /\ Goes(w, t, "promote")
  BY DEF Create
<1>4. \A pc \in {"abandon", "surrender", "promote"} : Goes(w, t, pc) => Goes1(w, t, pc)
  BY <1>0, GoesKeeps DEF ShapeInv, Pcs
<1> QED BY <1>1, <1>2, <1>3, <1>4

LEMMA EndsLeased ==
    ASSUME ShapeInv, LeaseInv, Calm' = Calm, NEW w \in Workers, NEW t \in Callers, Promote(w, t) \/ Kill(w, t) \/ Abandon(w, t)
    PROVE  LeaseInv'
<1>1. CASE Promote(w, t)
  <2>1. closing' = closing /\ lease' = lease /\ call[w][t].pc = "promote"
    BY <1>1 DEF Promote, At
  <2>2. \/ managed' = managed /\ Goes(w, t, "index")
        \/ managed' = [managed EXCEPT ![w] = None] /\ Goes(w, t, "kill")
    BY <1>1 DEF Promote
  <2>3. managed' = [managed EXCEPT ![w] = None] => managed'[w] = None
    BY DEF ShapeInv, ManagedShape
  <2>4. \A pc \in {"index", "kill"} : Goes(w, t, pc) => Goes1(w, t, pc)
    BY <2>1, GoesKeeps DEF ShapeInv, Pcs
  <2>5. CallsLast
    BY <2>1, <2>2, <2>3, <2>4, MakingLasts
  <2>6. SessionsLast
    BY <2>2, SessionLasts DEF ShapeInv
  <2> QED BY <2>1, <2>5, <2>6, ClosingsStay, LeaseStays DEF Lasts, LeaseLasts
<1>2. CASE Kill(w, t)
  <2>1. closing' = closing /\ lease' = lease /\ managed' = AllDetached
    BY <1>2 DEF Kill
  <2>2. call[w][t].pc = "kill" /\ Goes1(w, t, "abandon")
    BY <1>2, MakingEffect
  <2>3. CallsLast /\ SessionsLast
    BY <2>1, <2>2, MakingLasts, SessionLasts DEF ShapeInv
  <2> QED BY <2>1, <2>3, ClosingsStay, LeaseStays DEF Lasts, LeaseLasts
<1>3. CASE Abandon(w, t)
  <2> DEFINE id == call[w][t].runtime
  <2>1. closing' = closing /\ managed' = managed /\ lease' = Released(lease, id) /\ call[w][t].pc \in {"abandon", "surrender"}
    BY <1>3 DEF Abandon, At, local
  <2>2. Lasts /\ Continues(w, t)
    BY <1>3, <2>1, SteadyContinues, ContinuesLasts, SessionLasts, ClosingsStay DEF Lasts, ShapeInv
  <2>3. ~Current(w, id) /\ id \in RuntimesOf(w)
    BY <2>1 DEF LeaseInv, Unmanaged, Making, RuntimesOf
  <2>4. \A u \in Callers : call'[w][u].pc = "create" => call'[w][u].runtime # id
    <3> SUFFICES ASSUME NEW u \in Callers, call'[w][u].pc = "create" PROVE call'[w][u].runtime # id
      OBVIOUS
    <3>1. call[w][u].pc = "create" /\ call'[w][u].runtime = call[w][u].runtime
      BY <2>2 DEF Lasts, CallsLast, Making
    <3> QED BY <2>1, <3>1 DEF LeaseInv, OwnRuntime, Making
  <2>5. LeaseLasts
    BY <2>1, <2>2, <2>3, <2>4, ReleaseLasts DEF Current
  <2> QED BY <2>2, <2>5, LeaseStays
<1> QED BY <1>1, <1>2, <1>3

\* The heartbeat's steps.
LEMMA BeatCall ==
    ASSUME ShapeInv, NEW w \in Workers, NEW cl, call' = [call EXCEPT ![w]["beat"] = cl],
           cl.pc \notin Making, cl.runtime \in {0, call[w]["beat"].runtime} \cup Mine(w)
    PROVE  CallsLast
<1>1. \A v \in Workers, t \in Callers : call'[v][t] = IF v = w /\ t = "beat" THEN cl ELSE call[v][t]
  BY DEF ShapeInv, CallShape
<1> QED BY <1>1 DEF CallsLast

LEMMA CallsStay ==
    ASSUME call' = call PROVE CallsLast
BY DEF CallsLast

LEMMA BeatingIs ==
    ASSUME NEW type, NEW pc, NEW id
    PROVE  /\ Beating(type, pc, id).pc = pc /\ Beating(type, pc, id).runtime = id
           /\ [Beating(type, pc, id) EXCEPT !.pc = "claim", !.fresh = ~history].pc = "claim"
           /\ [Beating(type, pc, id) EXCEPT !.pc = "claim", !.fresh = ~history].runtime = id
BY DEF Beating, Idle

LEMMA BeatLasts ==
    ASSUME ShapeInv, NEW w \in Workers, BeatStep(w)
    PROVE  Lasts /\ lease' = lease
<1>m. ManagedShape /\ CallShape /\ "beat" \in Callers
  BY DEF ShapeInv, Callers
<1>i. Idle.pc \notin Making /\ Idle.runtime = 0
  BY DEF Idle, Making
<1>1. CASE ExitEvent(w)
  <2> DEFINE c == [runtime |-> managed[w].runtime, how |-> "exit", stage |-> "exit"]
             m == [managed[w] EXCEPT !.told = TRUE]
  <2>1. managed[w] # None /\ managed' = [managed EXCEPT ![w] = m] /\ call' = call /\ lease' = lease
    BY <1>1 DEF ExitEvent, durable
  <2>2. closing' = [closing EXCEPT ![w] = closing[w]] \/ closing' = [closing EXCEPT ![w] = closing[w] \cup {c}]
    BY <1>1 DEF ExitEvent
  <2>3. m.runtime = managed[w].runtime /\ m.fenced = managed[w].fenced
    BY <1>m, <2>1 DEF ManagedShape, ManagedSessions
  <2>4. \A d \in closing[w] \cup {c} : Closing(w, d.runtime) \/ Current(w, d.runtime)
    BY <2>1 DEF Closing, Current
  <2> HIDE DEF c, m
  <2> QED BY <1>m, <2>1, <2>2, <2>3, <2>4, CallsStay, SessionLasts, ClosingsLessen DEF Lasts
<1>2. CASE BeatFailed(w)
  <2>1. call' = [call EXCEPT ![w]["beat"] = Idle] /\ UNCHANGED <<managed, closing, lease>>
    BY <1>2 DEF BeatFailed, durable, local
  <2> QED BY <1>m, <1>i, <2>1, BeatCall, SessionLasts, ClosingsStay DEF Lasts
<1>3. CASE Show(w)
  <2>1. managed[w] # None /\ managed' = [managed EXCEPT ![w] = Shown(managed[w])] /\ UNCHANGED <<closing, lease, call>>
    BY <1>3 DEF Show
  <2>2. Shown(managed[w]).runtime = managed[w].runtime /\ Shown(managed[w]).fenced = managed[w].fenced
    BY <1>m, <2>1, ShownIs DEF ManagedShape
  <2> QED BY <1>m, <2>1, <2>2, CallsStay, SessionLasts, ClosingsStay DEF Lasts
<1>4. CASE RecoverScan(w)
  <2>1. UNCHANGED <<managed, closing, lease>> /\ managed[w] = None
    BY <1>4 DEF RecoverScan, local
  <2>2. \/ call' = call
        \/ call' = [call EXCEPT ![w]["beat"] = Attaching(w, Beating("recover", "claim", 0))]
        \/ call' = [call EXCEPT ![w]["beat"] = Beating("recover", "expire", 0)]
    BY <1>4 DEF RecoverScan
  <2>3. Attaching(w, Beating("recover", "claim", 0)).pc = "claim" /\ Attaching(w, Beating("recover", "claim", 0)).runtime = 0
    BY <2>1, BeatingIs DEF Attaching
  <2>4. CallsLast
    BY <2>2, <2>3, CallsStay, BeatCall, BeatingIs DEF Making
  <2> QED BY <1>m, <2>1, <2>4, SessionLasts, ClosingsStay DEF Lasts
<1>5. ASSUME NEW fails \in BOOLEAN, Renew(w, fails) PROVE Lasts /\ lease' = lease
  <2>1. lease' = lease /\ call[w]["beat"].pc = "renew"
    BY <1>5 DEF Renew, durable, At
  <2>2. \/ call' = [call EXCEPT ![w]["beat"] = Idle] /\ UNCHANGED <<managed, closing>>
        \/ managed[w] # None /\ Fenced(w, "detach") /\ Goes(w, "beat", "fencing")
    BY <1>5 DEF Renew, Current
  <2>3. Goes(w, "beat", "fencing") => Continues(w, "beat")
    BY <1>m, <2>1, GoesKeeps DEF Pcs, Making
  <2> QED BY <1>m, <1>i, <2>1, <2>2, <2>3, ContinuesLasts, BeatCall, SessionLasts, ClosingsStay, FencesLast DEF Lasts
<1>6. ASSUME NEW fails \in BOOLEAN, ExpireShell(w, fails) PROVE Lasts /\ lease' = lease
  <2>1. call' = [call EXCEPT ![w]["beat"] = Idle] /\ UNCHANGED <<closing, lease>> /\ (managed' = managed \/ managed' = AllDetached)
    BY <1>6 DEF ExpireShell
  <2> QED BY <1>m, <1>i, <2>1, BeatCall, SessionLasts, ClosingsStay DEF Lasts
<1>7. ASSUME NEW fails \in BOOLEAN, Reconcile(w, fails) PROVE Lasts /\ lease' = lease
  <2>1. managed[w] # None /\ call' = call /\ lease' = lease /\ (UNCHANGED <<managed, closing>> \/ Fenced(w, "detach"))
    BY <1>7 DEF Reconcile
  <2> QED BY <1>m, <2>1, CallsStay, SessionLasts, ClosingsStay, FencesLast DEF Lasts
<1>8. ASSUME NEW fails \in BOOLEAN, managed[w] # None, Heartbeat(w, fails) PROVE Lasts /\ lease' = lease
  <2> DEFINE id == managed[w].runtime
  <2>1. lease' = lease /\ \E pc \in {"renew", "fencing"} : call' = [call EXCEPT ![w]["beat"] = Beating("heartbeat", pc, id)]
    BY <1>8 DEF Heartbeat, durable
  <2>2. UNCHANGED <<managed, closing>> \/ \E how \in {"detach", "terminate"} : Fenced(w, how)
    BY <1>8 DEF Heartbeat
  <2>3. id \in Mine(w)
    BY <1>8 DEF Mine
  <2> HIDE DEF id
  <2>4. CallsLast
    <3>1. PICK pc \in {"renew", "fencing"} : call' = [call EXCEPT ![w]["beat"] = Beating("heartbeat", pc, id)]
      BY <2>1
    <3>2. Beating("heartbeat", pc, id).pc = pc /\ Beating("heartbeat", pc, id).runtime = id
      BY BeatingIs
    <3>3. pc \notin Making
      BY DEF Making
    <3> QED BY <2>3, <3>1, <3>2, <3>3, BeatCall
  <2> QED BY <1>m, <1>8, <2>1, <2>2, <2>4, SessionLasts, ClosingsStay, FencesLast DEF Lasts
<1> QED BY <1>1, <1>2, <1>3, <1>4, <1>5, <1>6, <1>7, <1>8 DEF BeatStep

\* A cleanup forgets the session and lets its runtime go.
LEMMA ClosesLeased ==
    ASSUME ShapeInv, LeaseInv, Calm' = Calm, NEW w \in Workers, NEW c \in closing[w], CloseStep(w, c)
    PROVE  LeaseInv'
<1>0. CallsLast
  <2>1. call' = call
    BY DEF CloseStep, FenceStep, ExitStep, CloseClient, DetachFails, Forget
  <2> QED BY <2>1, CallsStay
<1>1. w \in up
  BY DEF CloseStep, FenceStep, ExitStep, CloseClient, DetachFails, Forget
<1>2. ClosesOne(w, c)
  <2>1. FenceStep(w, c) => ClosesOne(w, c)
    <3> SUFFICES ASSUME FenceStep(w, c) PROVE ClosesOne(w, c)
      OBVIOUS
    <3>1. closing' = Settled(w, c) \/ closing' = Advanced(w, c, "client")
      BY DEF FenceStep
    <3> QED BY <1>1, <3>1, AdvancedIs DEF ClosesOne
  <2>2. ExitStep(w, c) => ClosesOne(w, c)
    <3> SUFFICES ASSUME ExitStep(w, c) PROVE ClosesOne(w, c)
      OBVIOUS
    <3>1. CASE closing' = Settled(w, c)
      BY <3>1 DEF ClosesOne
    <3>2. CASE closing' = [closing EXCEPT ![w] = (closing[w] \ {c}) \cup {[c EXCEPT !.stage = "client", !.how = IF shell THEN "detach" ELSE "terminate"]}]
      BY <3>2 DEF ClosesOne
    <3> QED BY <3>1, <3>2 DEF ExitStep
  <2>3. CloseClient(w, c) => ClosesOne(w, c)
    BY <1>1, AdvancedIs DEF CloseClient
  <2>4. DetachFails(w, c) \/ Forget(w, c) => ClosesOne(w, c)
    BY DEF DetachFails, Forget, ClosesOne
  <2> QED BY <2>1, <2>2, <2>3, <2>4 DEF CloseStep
<1>3. ClosingsLast
  BY <1>1, <1>2, ClosesLast
<1>4. CASE FenceStep(w, c) \/ ExitStep(w, c) \/ CloseClient(w, c) \/ DetachFails(w, c)
  <2>1. lease' = lease
    BY <1>4 DEF FenceStep, ExitStep, CloseClient, DetachFails, durable
  <2>2. \/ managed' = managed \/ managed' = AllDetached
        \/ managed' = [managed EXCEPT ![w] = Detached(managed[w])]
    BY <1>4 DEF FenceStep, ExitStep, CloseClient, DetachFails
  <2>3. Detached(managed[w]) = None \/ (managed[w] # None /\ Detached(managed[w]).runtime = managed[w].runtime /\ Detached(managed[w]).fenced = managed[w].fenced)
    BY Detaches DEF ShapeInv
  <2>4. SessionsLast
    BY <2>2, <2>3, SessionLasts DEF ShapeInv
  <2> QED BY <1>0, <1>3, <2>1, <2>4, LeaseStays DEF Lasts, LeaseLasts
<1>5. CASE Forget(w, c)
  <2>1. managed' = [managed EXCEPT ![w] = None] /\ managed'[w] = None /\ lease' = Released(lease, c.runtime) /\ call' = call
    BY <1>5 DEF Forget, ShapeInv, ManagedShape
  <2>2. SessionsLast
    BY <2>1, SessionLasts DEF ShapeInv
  <2>3. c.runtime \in RuntimesOf(w) /\ Closing(w, c.runtime)
    BY DEF RuntimesOf, Closing
  <2>4. \A t \in Callers : call'[w][t].pc = "create" => call'[w][t].runtime # c.runtime
    BY <2>1, <2>3 DEF LeaseInv, Unclosed
  <2>5. LeaseLasts
    BY <1>0, <1>3, <2>1, <2>2, <2>3, <2>4, ReleaseLasts DEF Lasts
  <2> QED BY <1>0, <1>3, <2>2, <2>5, LeaseStays DEF Lasts
<1> QED BY <1>4, <1>5 DEF CloseStep

\* A worker that goes down has nothing; one that stops lets the runtime go first.
LEMMA LostLeased ==
    ASSUME ShapeInv, LeaseInv, Calm' = Calm, NEW w \in Workers, CrashManager(w) \/ StopManager(w)
    PROVE  LeaseInv'
<1>1. Lost(w)
  BY DEF CrashManager, StopManager
<1>2. /\ managed' = [managed EXCEPT ![w] = None] /\ managed'[w] = None
      /\ closing' = [closing EXCEPT ![w] = {}]
      /\ \A t \in Callers : call'[w][t] = Idle
      /\ \A v \in Workers \ {w} : call'[v] = call[v]
  BY <1>1 DEF Lost, ShapeInv, ManagedShape, CallShape
<1>3. CallsLast
  BY <1>2 DEF CallsLast, Idle, Making
<1>4. SessionsLast /\ ClosingsLast
  <2>1. SessionsLast
    BY <1>2, SessionLasts DEF ShapeInv
  <2>2. ClosingsLast
    BY <1>2 DEF ClosingsLast, Closing, ShapeInv, ClosingShape
  <2> QED BY <2>1, <2>2
<1>5. lease' = lease \/ (managed[w] # None /\ lease' = Released(lease, managed[w].runtime))
  BY DEF CrashManager, StopManager, durable
<1>6. managed[w] # None => managed[w].runtime \in RuntimesOf(w)
  BY DEF RuntimesOf
<1>7. \A t \in Callers : call'[w][t].pc # "create"
  BY <1>2 DEF Idle
<1>8. LeaseLasts
  <2>1. CASE lease' = lease
    BY <2>1 DEF LeaseLasts
  <2>2. CASE managed[w] # None /\ lease' = Released(lease, managed[w].runtime)
    BY <1>2, <1>3, <1>4, <1>6, <1>7, <2>2, ReleaseLasts DEF Lasts
  <2> QED BY <1>5, <2>1, <2>2
<1> QED BY <1>3, <1>4, <1>8, LeaseStays DEF Lasts

\* A lease that lapses while everybody is calm is nobody's.
LEMMA LapsesLeased ==
    ASSUME ShapeInv, LeaseInv, Calm' = Calm, ExpireLease, Kept(lease) => ~Calm
    PROVE  LeaseInv'
<1>1. lease # None /\ lease' = None /\ UNCHANGED <<call, managed, closing>>
  BY DEF ExpireLease, local
<1>2. Calm => Unneeded
  <2> SUFFICES ASSUME ~Kept(lease), NEW v \in Workers
               PROVE  /\ managed'[v] # None /\ ~managed'[v].fenced => managed'[v].runtime # lease.runtime
                      /\ \A t \in Callers : call'[v][t].pc = "create" => call'[v][t].runtime # lease.runtime
    BY DEF Unneeded
  <2>1. CASE v \in up
    BY <1>1, <2>1 DEF Kept, Current
  <2>2. CASE v \notin up
    BY <1>1, <2>2 DEF ShapeInv, Down, Idle
  <2> QED BY <2>1, <2>2
<1>3. CallsLast /\ SessionsLast /\ ClosingsLast
  BY <1>1, CallsStay, SessionLasts, ClosingsStay, <1>1 DEF SessionsLast
<1> QED BY <1>1, <1>2, <1>3, LeaseStays DEF Lasts, LeaseLasts

\* What a delivery, and its settling, do to what is held: a command begins without a runtime.
LEMMA DeliversLasts ==
    ASSUME ShapeInv, NEW w \in Workers, NEW q \in Sources, NEW c \in Commands, Deliver(w, q, c)
    PROVE  Lasts /\ lease' = lease
<1>1. UNCHANGED <<managed, closing, lease>>
  BY DEF Deliver, durable
<1>2. CASE call' = call
  BY <1>1, <1>2, CallsStay, SessionLasts, ClosingsStay DEF Lasts, ShapeInv
<1>3. CASE Rest(w, q) /\ call'[w][q].runtime = 0 /\ call'[w][q].pc \in {"done", "failed", "session"}
  <2>1. CallsLast
    BY <1>3 DEF CallsLast, Rest, Making
  <2> QED BY <1>1, <2>1, SessionLasts, ClosingsStay DEF Lasts, ShapeInv
<1> QED BY <1>2, <1>3, Delivers

LEMMA StillLasts ==
    ASSUME ShapeInv, UNCHANGED <<call, closing>>, managed' = managed \/ managed' = AllDetached
    PROVE  Lasts
<1>1. SessionsLast
  <2>1. CASE managed' = managed
    BY <2>1 DEF SessionsLast
  <2>2. CASE managed' = AllDetached
    BY <2>2, Detaches DEF SessionsLast, ShapeInv
  <2> QED BY <2>1, <2>2
<1> QED BY <1>1, CallsStay, ClosingsStay DEF Lasts

LEMMA LeaseStep ==
    ASSUME ShapeInv, PathShape, LeaseInv, StallsAreTold, [SessionsNext]_sessionsVars
    PROVE  LeaseInv' /\ StallsAreTold'
<1>0. left'.stalling = left.stalling /\ left'.stalls \in Nat /\ left'.stalls <= left.stalls /\ left.stalls \in Nat
  BY DwindlesShape, Steps DEF PathShape
<1>a. StallsAreTold' /\ Calm' = Calm
  BY <1>0 DEF StallsAreTold, Calm
<1>1. CASE RuntimeStep
  <2>1. ASSUME NEW w \in Workers, NEW t \in Callers, CallStep(w, t) PROVE LeaseInv'
    <3>1. ASSUME Lasts /\ lease' = lease PROVE LeaseInv'
      BY <1>a, <3>1, LeaseStays DEF LeaseLasts
    <3>2. CASE \/ ReadSession(w, t) \/ EndSession(w, t) \/ Closed(w, t) \/ Index(w, t) \/ Attached(w, t) \/ Unattached(w, t)
               \/ \E fails \in BOOLEAN : Probe(w, t, fails) \/ ReplayFirst(w, t, fails)
      BY <3>1, <3>2, SteadyLasts
    <3>3. CASE ClaimRuntime(w, t)
      BY <1>a, <3>3, ClaimsLeased
    <3>4. CASE Promote(w, t) \/ Kill(w, t) \/ Abandon(w, t)
      BY <1>a, <3>4, EndsLeased
    <3>5. ASSUME NEW fails \in BOOLEAN, Create(w, t, fails) PROVE LeaseInv'
      BY <1>a, <3>5, CreatesLeased
    <3> QED BY <2>1, <3>2, <3>3, <3>4, <3>5 DEF CallStep
  <2>2. ASSUME NEW w \in Workers, NEW c \in closing[w], CloseStep(w, c) PROVE LeaseInv'
    BY <1>a, <2>2, ClosesLeased
  <2>3. ASSUME NEW w \in Workers, BeatStep(w) PROVE LeaseInv'
    BY <1>a, <2>3, BeatLasts, LeaseStays DEF LeaseLasts
  <2>4. CASE Write \/ ShellExits \/ SessionEnds
    <3>1. UNCHANGED <<call, closing, lease>> /\ (managed' = managed \/ managed' = AllDetached)
      BY <2>4 DEF Write, ShellExits, SessionEnds, local
    <3> QED BY <1>a, <3>1, StillLasts, LeaseStays DEF LeaseLasts
  <2>5. /\ (\E w \in Workers : \E t \in Callers : CallStep(w, t)) => LeaseInv'
        /\ (\E w \in Workers : \E c \in closing[w] : CloseStep(w, c)) => LeaseInv'
        /\ (\E w \in Workers : BeatStep(w)) => LeaseInv'
    BY <2>1, <2>2, <2>3
  <2> QED BY <1>1, <1>a, <2>4, <2>5 DEF RuntimeStep
<1>2. ASSUME NEW w \in Workers, NEW q \in Streams, Consume(w, q) PROVE LeaseInv'
  BY <1>a, <1>2, ConsumedIsCommand, DeliversLasts, SourcesAreCallers, LeaseStays DEF LeaseLasts
<1>3. ASSUME NEW w \in Workers, NEW c \in wire, Hear(w, c) PROVE LeaseInv'
  <2>1. c \in Commands /\ Deliver(w, "input", c) /\ "input" \in Sources
    BY <1>3 DEF Hear, PathShape, Sources
  <2> QED BY <1>a, <2>1, DeliversLasts, LeaseStays DEF LeaseLasts
<1>4. ASSUME NEW w \in Workers, NEW q \in Sources, Settle(w, q) PROVE LeaseInv'
  <2>1. UNCHANGED <<managed, closing, lease>> /\ call' = [call EXCEPT ![w][q] = Idle]
    BY <1>4 DEF Settle, durable, local
  <2>2. CallsLast
    BY <2>1, IdleContinues, ContinuesLasts, SourcesAreCallers DEF ShapeInv
  <2> QED BY <1>a, <2>1, <2>2, SessionLasts, ClosingsStay, LeaseStays DEF Lasts, LeaseLasts, ShapeInv
<1>5. ASSUME NEW w \in Workers, Start(w) PROVE LeaseInv'
  <2>1. UNCHANGED <<call, managed, closing, lease>>
    BY <1>5 DEF Start, StartManager, durable
  <2> QED BY <1>a, <2>1, StillLasts, LeaseStays DEF LeaseLasts
<1>6. ASSUME NEW w \in Workers, Crash(w) \/ Stop(w) PROVE LeaseInv'
  BY <1>a, <1>6, LostLeased DEF Crash, Stop
<1>7. CASE Lapse
  <2>1. Kept(lease) => ~Calm
    BY <1>7, <1>0 DEF Lapse, Spend, StallsAreTold, Calm
  <2> QED BY <1>a, <1>7, <2>1, LapsesLeased DEF Lapse
<1>8. CASE UNCHANGED runtimeVars \/ UNCHANGED sessionsVars \/ \E fails \in BOOLEAN : Request(fails)
  <2>1. UNCHANGED <<call, managed, closing, lease>>
    BY <1>8 DEF runtimeVars, sessionsVars, Request, local
  <2> QED BY <1>a, <2>1, StillLasts, LeaseStays DEF LeaseLasts
<1> QED BY <1>a, <1>1, <1>2, <1>3, <1>4, <1>5, <1>6, <1>7, <1>8, Steps

\* The session that a worker has opened is the only one in use.
LEMMA CoresInit == SessionsInit => OnceInv /\ LeaseInv /\ StallsAreTold
<1> SUFFICES ASSUME SessionsInit PROVE OnceInv /\ LeaseInv /\ StallsAreTold
  OBVIOUS
<1>1. left \in Scenarios /\ left.owner \in Workers \cup {None} /\ RuntimeInit(left.owner) /\ ControlInit(left.owner)
  BY ScenariosAssumption DEF SessionsInit, ControlInit
<1>2. typed = <<>> /\ \A w \in Workers, t \in Callers : call[w][t] = Idle
  BY <1>1 DEF RuntimeInit
<1>3. OnceInv
  BY <1>2, SourcesAreCallers DEF OnceInv, Receipted, Untyped, InOneHand, AtMostOnce, Live, Idle
<1>4. \A w \in Workers, t \in Callers : call[w][t].pc \notin Making /\ call[w][t].runtime = 0
  BY <1>2 DEF Idle, Making
<1>5. \A w \in Workers : closing[w] = {} /\ (managed[w] # None => w = left.owner /\ managed[w].runtime = 1)
  BY <1>1 DEF RuntimeInit, NewManaged
<1>6. left.owner = None => lease = None
  BY <1>1 DEF RuntimeInit
<1>7. left.owner # None => lease = [runtime |-> 1, worker |-> left.owner]
  BY <1>1 DEF RuntimeInit
<1>8. LeaseKnown
  <2> SUFFICES ASSUME lease # None, NEW w \in Workers, lease.runtime \in RuntimesOf(w) PROVE w = lease.worker
    BY DEF LeaseKnown
  <2>1. lease.runtime = 1 /\ lease.worker = left.owner
    BY <1>6, <1>7
  <2> QED BY <1>4, <1>5, <2>1 DEF RuntimesOf
<1>9. OwnRuntime /\ Unmanaged /\ Unclosed
  BY <1>4 DEF OwnRuntime, Unmanaged, Unclosed, Making
<1>10. Leased
  <2>1. [runtime |-> 1, worker |-> left.owner] # None \/ left.owner = None
    BY <1>1, WorkersAssumption
  <2>2. \A w \in Workers : managed[w] # None => Held(lease, managed[w].runtime)
    <3> SUFFICES ASSUME NEW w \in Workers, managed[w] # None PROVE Held(lease, managed[w].runtime)
      OBVIOUS
    <3>1. left.owner = w /\ w # None /\ managed[w].runtime = 1
      BY <1>5, WorkersAssumption
    <3> QED BY <1>7, <2>1, <3>1 DEF Held
  <2> QED BY <1>4, <2>2 DEF Leased, Making
<1>11. StallsAreTold
  BY <1>1, ScenariosAssumption DEF StallsAreTold
<1> QED BY <1>3, <1>8, <1>9, <1>10, <1>11 DEF LeaseInv

\* Two sessions that are not fenced would have one lease between two workers.
LEMMA LeasedIsOnce ==
    ASSUME LeaseInv PROVE AttachedOnce
<1> SUFFICES ASSUME Calm, NEW v \in Workers, NEW w \in Workers, v # w, managed[v] # None, managed[w] # None,
                    ~managed[v].fenced, ~managed[w].fenced
             PROVE  FALSE
  BY DEF AttachedOnce
<1>1. Held(lease, managed[v].runtime) /\ Held(lease, managed[w].runtime)
  BY DEF LeaseInv, Leased
<1>2. managed[v].runtime \in RuntimesOf(v) /\ managed[w].runtime \in RuntimesOf(w)
  BY DEF RuntimesOf
<1> QED BY <1>1, <1>2 DEF LeaseInv, LeaseKnown, Held

LEMMA ShapeTypes ==
    ASSUME ShapeInv PROVE SessionsTypeOK
<1>1. RecordShape /\ OutputShape
  BY DEF ShapeInv
<1>2. lease = None \/ (lease.runtime \in Nat \ {0} /\ lease.worker \in Workers)
  BY DEF ShapeInv, LeaseShape, Positive
<1>3. \A w \in Workers : (w \notin up => managed[w] = None /\ closing[w] = {}) /\ (managed[w] # None => managed[w].runtime \in Nat \ {0})
  BY DEF ShapeInv, Down, ManagedShape, ManagedSessions, Positive
<1> QED BY <1>1, <1>2, <1>3 DEF SessionsTypeOK, RecordShape, OutputShape

-----------------------------------------------------------------------------
(* The theorems *)

\* Whatever fails, a session's record, lease and output offset keep their ranges, and a worker
\* that is down manages nothing.
THEOREM SessionsTypeCorrect == SessionsSpec => []SessionsTypeOK
<1>1. SessionsInit => ShapeInv /\ PathShape
  BY ShapeInit
<1>2. ShapeInv /\ PathShape /\ [SessionsNext]_sessionsVars => (ShapeInv /\ PathShape)'
  BY ShapeStep, PathStep
<1>3. ShapeInv => SessionsTypeOK
  BY ShapeTypes
<1> QED BY <1>1, <1>2, <1>3, PTL DEF SessionsSpec

\* No input is typed twice, for any number of workers and any budget of failures: a command is
\* in the hands of one call at a time, which holds its receipt, and gives it back only if it
\* has not typed.
THEOREM AtMostOnceAlways == SessionsSpec => []AtMostOnce
<1> DEFINE Inv == ShapeInv /\ PathShape /\ OnceInv
<1>1. SessionsInit => Inv
  BY ShapeInit, CoresInit
<1>2. Inv /\ [SessionsNext]_sessionsVars => Inv'
  BY ShapeStep, PathStep, OnceStep
<1>3. Inv => AtMostOnce
  BY DEF OnceInv
<1> QED BY <1>1, <1>2, <1>3, PTL DEF SessionsSpec

\* While no holder is held up, a session is attached by one worker: the lease it was claimed
\* with is still there, whatever calls, fences and cleanups overlap.
THEOREM AttachedOnceAlways == SessionsSpec => []AttachedOnce
<1> DEFINE Inv == ShapeInv /\ PathShape /\ LeaseInv /\ StallsAreTold
<1>1. SessionsInit => Inv
  BY ShapeInit, CoresInit
<1>2. Inv /\ [SessionsNext]_sessionsVars => Inv'
  BY ShapeStep, PathStep, LeaseStep
<1>3. Inv => AttachedOnce
  BY LeasedIsOnce
<1> QED BY <1>1, <1>2, <1>3, PTL DEF SessionsSpec
=============================================================================
