------------------------ MODULE TTYExecution_proofs ------------------------
(***************************************************************************)
(* What is proved of claimed executions for every instance of the          *)
(* constants: type correctness, that outcomes are published only by the    *)
(* run that completed its lease, and, where commands are child processes,  *)
(* that no path of the executor forgets a lease it holds or a process it   *)
(* started.  With one worker and no service it is proved also that no      *)
(* command starts for an execution whose record is terminal.               *)
(***************************************************************************)
EXTENDS TTYExecution, TLAPS

-----------------------------------------------------------------------------
(* Contexts. *)

\* The names the coordinator uses.
LEMMA Names ==
    /\ "idle" \in Stage /\ "adopt" \in Stage /\ "leased" \in Stage /\ "session" \in Stage
    /\ "starting" \in Stage /\ "marker" \in Stage /\ "dispatch" \in Stage /\ "metadata" \in Stage
    /\ "running" \in Stage /\ "live" \in Stage /\ "streaming" \in Stage /\ "complete" \in Stage
    /\ "final" \in Stage /\ "tidy" \in Stage
    /\ "queued" \in State /\ "leased" \in State /\ "starting" \in State /\ "running" \in State
    /\ "streaming" \in State /\ "succeeded" \in State /\ "failed" \in State /\ "cancelled" \in State
    /\ "timed_out" \in State /\ "expired" \in State
    /\ "none" \in Reason /\ "cancelled" \in Reason /\ "timed_out" \in Reason /\ "failed" \in Reason
    /\ "expired" \in Reason
    /\ 0 \in Token
BY ExecutionAssumption DEF Stage, State, ActiveState, TerminalState, Reason, Token

LEMMA IdleType == Idle \in Context
BY Names DEF Idle, Context

\* The records the coordinator makes of a context are contexts.
LEMMA FinalizeType ==
    ASSUME NEW c \in Context, NEW goal \in State
    PROVE  Finalize(c, goal) \in Context
<1> DEFINE stage == IF goal = "expired" THEN "final" ELSE "complete"
<1>1. stage \in Stage /\ "queued" \in State /\ "none" \in Reason
  BY Names
<1>. HIDE DEF stage
<1>2. [c EXCEPT !.stage = stage, !.goal = goal, !.read = FALSE, !.known = "queued",
               !.reason = "none", !.stop = FALSE] \in Context
  BY <1>1 DEF Context
<1>. QED
  BY <1>2 DEF Finalize, stage

LEMMA ProceedType ==
    ASSUME NEW c \in Context, NEW s \in State
    PROVE  Proceed(c, s) \in Context
<1> DEFINE d == [c EXCEPT !.known = s, !.read = FALSE]
<1>1. d \in Context
  BY DEF Context
<1>. HIDE DEF d
<1>2. /\ [d EXCEPT !.goal = "starting"] \in Context
      /\ [d EXCEPT !.stage = "session"] \in Context
      /\ [d EXCEPT !.stage = "marker", !.guarded = TRUE] \in Context
      /\ [d EXCEPT !.stage = "tidy", !.goal = "queued", !.known = "queued"] \in Context
      /\ [d EXCEPT !.stage = "live"] \in Context
  BY <1>1, Names DEF Context
<1>. QED
  BY <1>2 DEF Proceed, d

LEMMA NewContextType ==
    ASSUME NEW t \in Token PROVE NewContext(t) \in Context
BY IdleType, Names DEF NewContext, Context

LEMMA AdoptedContextType ==
    ASSUME NEW t \in Token, NEW command \in Token, NEW reason \in Reason, NEW s \in State
    PROVE  AdoptedContext(t, command, reason, s) \in Context
BY IdleType, Names DEF AdoptedContext, Context

LEMMA OutcomesType ==
    ASSUME NEW reason \in Reason PROVE Outcomes(reason) \subseteq State
BY DEF Outcomes, Reason, State, ActiveState, TerminalState

-----------------------------------------------------------------------------
(* Type correctness. *)

\* A task or a call that is under way is about an execution.
Identified ==
    /\ \A w \in Workers : exec[w].phase # "idle" => exec[w].id \in Executions
    /\ \A w \in Workers : adopt[w].phase # "idle" => adopt[w].id \in Executions
    /\ \A r \in Services : service[r].stage # "idle" => service[r].id \in Executions

TypeInv == TypeOK /\ Identified

\* What the type invariant says of one run, one lease and one task.
LEMMA RunFacts ==
    ASSUME TypeInv, NEW w \in Workers, NEW e \in Executions
    PROVE  /\ run[w] \in [Executions -> Context]
           /\ run[w][e] \in Context
           /\ run[w][e].token \in Token
           /\ run[w][e].command \in Token
           /\ run[w][e].known \in State
           /\ run[w][e].goal \in State
           /\ run[w][e].reason \in Reason
<1>1. run[w] \in [Executions -> Context]
  BY DEF TypeInv, TypeOK
<1>2. run[w][e] \in Context
  BY <1>1
<1>. QED
  BY <1>1, <1>2 DEF Context

LEMMA LeaseFacts ==
    ASSUME TypeInv, NEW e \in Executions
    PROVE  /\ lease[e].phase \in Phase
           /\ lease[e].owner \in Workers \cup {None}
           /\ lease[e].token \in Token
           /\ lease[e].expired \in BOOLEAN
           /\ lease[e].attempt \in 0 .. MaxAttempts
BY DEF TypeInv, TypeOK

LEMMA TaskFacts ==
    ASSUME TypeInv, NEW w \in Workers
    PROVE  /\ exec[w] \in TaskOf
           /\ adopt[w] \in TaskOf
           /\ exec[w].token \in Token
           /\ adopt[w].token \in Token
           /\ exec[w].phase # "idle" => exec[w].id \in Executions
           /\ adopt[w].phase # "idle" => adopt[w].id \in Executions
BY DEF TypeInv, TypeOK, Identified, TaskOf

LeaseRecord == [phase : Phase, owner : Workers \cup {None}, token : Token, expired : BOOLEAN,
                attempt : 0 .. MaxAttempts]

LEMMA UnleasedType ==
    ASSUME NEW phase \in Phase, NEW attempt \in 0 .. MaxAttempts
    PROVE  Unleased(phase, attempt) \in LeaseRecord
BY Names DEF Unleased, LeaseRecord

\* What recovery and release make of a lease is a lease.
LEMMA AfterTypes ==
    ASSUME TypeInv, NEW e \in Executions
    PROVE  AfterRecover(e) \in LeaseRecord /\ AfterRelease(e) \in LeaseRecord
<1>1. lease[e].attempt \in 0 .. MaxAttempts
  BY LeaseFacts
<1>2. lease[e].attempt < MaxAttempts => lease[e].attempt + 1 \in 0 .. MaxAttempts
  BY <1>1, ExecutionAssumption
<1>3. 0 \in 0 .. MaxAttempts
  BY ExecutionAssumption
<1>4. {"queued", "removed", "abandoned"} \subseteq Phase
  BY DEF Phase
<1>. QED
  BY <1>1, <1>2, <1>3, <1>4, UnleasedType DEF AfterRecover, AfterRelease

\* A grant types the lease and the token it issues.
LEMMA GrantType ==
    ASSUME TypeInv, NEW w \in Workers, NEW e \in Executions, NEW attempt \in 0 .. MaxAttempts,
           Grant(w, e, attempt)
    PROVE  /\ tokens' \in [Executions -> Token]
           /\ lease' \in [Executions -> LeaseRecord]
           /\ tokens[e] + 1 \in Token
<1>1. tokens[e] + 1 \in Token
  BY ExecutionAssumption DEF TypeInv, TypeOK, Grant, Token
<1>2. tokens \in [Executions -> Token] /\ lease \in [Executions -> LeaseRecord]
  BY DEF TypeInv, TypeOK, LeaseRecord
<1>3. [phase |-> "leased", owner |-> w, token |-> tokens[e] + 1, expired |-> FALSE,
       attempt |-> attempt] \in LeaseRecord
  BY <1>1 DEF LeaseRecord, Phase
<1>. QED
  BY <1>1, <1>2, <1>3 DEF Grant

\* A run that becomes a context leaves the runs typed.
LEMMA BecomesType ==
    ASSUME TypeInv, NEW w \in Workers, NEW e \in Executions, NEW c \in Context, Becomes(w, e, c)
    PROVE  run' \in [Workers -> [Executions -> Context]]
BY DEF TypeInv, TypeOK, Becomes

LEMMA EndedType ==
    ASSUME TypeInv, NEW w \in Workers, NEW e \in Executions, Ended(w, e)
    PROVE  /\ run' \in [Workers -> [Executions -> Context]]
           /\ exec' \in [Workers -> TaskOf]
           /\ \A v \in Workers : exec'[v].id = exec[v].id /\ (exec[v].phase = "idle" => exec'[v] = exec[v])
<1>1. run' \in [Workers -> [Executions -> Context]]
  BY BecomesType, IdleType DEF Ended
<1>2. exec \in [Workers -> TaskOf]
  BY DEF TypeInv, TypeOK
<1>3. exec' = exec \/ (exec[w].phase = "waiting" /\ exec' = [exec EXCEPT ![w].phase = "release"])
  BY DEF Ended
<1>4. [exec[w] EXCEPT !.phase = "release"] \in TaskOf
  BY <1>2 DEF TaskOf
<1>5. [exec[w] EXCEPT !.phase = "release"].id = exec[w].id
  BY <1>2 DEF TaskOf
<1>. QED
  BY <1>1, <1>2, <1>3, <1>4, <1>5

LEMMA ThrowsType ==
    ASSUME TypeInv, NEW w \in Workers, NEW e \in Executions, Throws(w, e)
    PROVE  /\ run' \in [Workers -> [Executions -> Context]]
           /\ exec' \in [Workers -> TaskOf]
           /\ \A v \in Workers : exec'[v].id = exec[v].id /\ (exec[v].phase = "idle" => exec'[v] = exec[v])
<1> DEFINE c == run[w][e]
           reason == IF c.reason \in {"expired", "timed_out"} THEN c.reason ELSE "failed"
<1>1. c \in Context
  BY RunFacts
<1>2. exec \in [Workers -> TaskOf]
  BY DEF TypeInv, TypeOK
<1>3. CASE c.stage = "streaming"
  <2>1. reason \in Reason
    BY RunFacts, Names
  <2>2. [c EXCEPT !.stage = "live", !.read = FALSE, !.stop = TRUE, !.reason = reason] \in Context
    BY <1>1, <2>1, Names DEF Context
  <2>3. /\ Becomes(w, e, [c EXCEPT !.stage = "live", !.read = FALSE, !.stop = TRUE, !.reason = reason])
        /\ exec' = exec
    BY <1>3 DEF Throws
  <2>. QED
    BY <1>2, <2>2, <2>3, BecomesType
<1>4. CASE c.stage # "streaming" /\ c.guarded
  <2>1. Finalize(c, "failed") \in Context
    BY <1>1, Names, FinalizeType
  <2>2. [Finalize(c, "failed") EXCEPT !.guarded = FALSE] \in Context
    BY <2>1 DEF Context
  <2>3. Becomes(w, e, [Finalize(c, "failed") EXCEPT !.guarded = FALSE]) /\ exec' = exec
    BY <1>4 DEF Throws
  <2>. QED
    BY <1>2, <2>2, <2>3, BecomesType
<1>5. CASE c.stage # "streaming" /\ ~c.guarded
  <2>1. Ended(w, e)
    BY <1>5 DEF Throws
  <2>. QED
    BY <2>1, EndedType
<1>. QED
  BY <1>3, <1>4, <1>5

-----------------------------------------------------------------------------
(* Type correctness, action by action. *)

LEMMA InitType == Init => TypeInv
<1> SUFFICES ASSUME Init PROVE TypeInv
  OBVIOUS
<1>1. Unleased("queued", 0) \in LeaseRecord
  BY UnleasedType, ExecutionAssumption DEF Phase
<1>2. Idle \in Context /\ 0 \in Token /\ "queued" \in State
  BY IdleType, Names
<1>3. NoTask \in TaskOf
  BY Names DEF NoTask, TaskOf
<1>4. kind \in [Executions -> Kind] /\ persistent \in BOOLEAN
  BY ExecutionAssumption DEF Init
<1>5. TypeOK
  BY <1>1, <1>2, <1>3, <1>4 DEF Init, TypeOK, LeaseRecord
<1>6. Identified
  BY DEF Init, Identified, NoTask
<1>. QED
  BY <1>5, <1>6 DEF TypeInv

\* The executor.
LEMMA PollType == ASSUME TypeInv, NEW w \in Workers, Poll(w) PROVE TypeInv'
BY DEF TypeInv, TypeOK, Identified, Poll, storeVars, sessionVars, leaseVars, commandVars

LEMMA ClaimType ==
    ASSUME TypeInv, NEW w \in Workers, NEW e \in Executions, Claim(w, e) PROVE TypeInv'
<1>1. lease[e].attempt + 1 \in 0 .. MaxAttempts
  BY LeaseFacts, ExecutionAssumption DEF Claim
<1>2. tokens' \in [Executions -> Token] /\ lease' \in [Executions -> LeaseRecord] /\ tokens[e] + 1 \in Token
  BY <1>1, GrantType DEF Claim
<1>3. Task("handoff", e, tokens[e] + 1) \in TaskOf
  BY <1>2 DEF Task, TaskOf
<1>4. /\ exec' = [exec EXCEPT ![w] = Task("handoff", e, tokens[e] + 1)]
      /\ listed' = [listed EXCEPT ![w] = @ \ {e}]
      /\ UNCHANGED <<storeVars, sessionVars, commandVars, run, slots, adopt, cancel, service>>
  BY DEF Claim, Tries
<1>5. Task("handoff", e, tokens[e] + 1).id = e
  BY DEF Task
<1>. QED
  BY <1>2, <1>3, <1>4, <1>5
  DEF TypeInv, TypeOK, Identified, LeaseRecord, storeVars, sessionVars, commandVars

LEMMA ClaimRestType ==
    ASSUME TypeInv, NEW w \in Workers, NEW e \in Executions,
           ClaimDrop(w, e) \/ ClaimConflict(w, e) \/ ClaimRefused(w, e)
    PROVE  TypeInv'
<1>1. Unleased("removed", 0) \in LeaseRecord /\ AfterRecover(e) \in LeaseRecord
  BY UnleasedType, AfterTypes, ExecutionAssumption DEF Phase
<1>2. lease \in [Executions -> LeaseRecord]
  BY DEF TypeInv, TypeOK, LeaseRecord
<1>3. lease' \in [Executions -> LeaseRecord]
  BY <1>1, <1>2 DEF ClaimDrop, ClaimConflict, ClaimRefused, leaseVars
<1>4. /\ listed' = [listed EXCEPT ![w] = @ \ {e}]
      /\ UNCHANGED <<storeVars, sessionVars, commandVars, run, slots, adopt, cancel, service, tokens, exec>>
  BY DEF ClaimDrop, ClaimConflict, ClaimRefused, Tries, leaseVars
<1>. QED
  BY <1>3, <1>4 DEF TypeInv, TypeOK, Identified, LeaseRecord, storeVars, sessionVars, commandVars

LEMMA RunClaimedType == ASSUME TypeInv, NEW w \in Workers, RunClaimed(w) PROVE TypeInv'
<1> DEFINE e == exec[w].id
<1>1. /\ e \in Executions
      /\ [exec[w] EXCEPT !.phase = "release"] \in TaskOf
      /\ [exec[w] EXCEPT !.phase = "waiting"] \in TaskOf
      /\ [exec[w] EXCEPT !.phase = "release"].id = e
      /\ [exec[w] EXCEPT !.phase = "waiting"].id = e
  BY TaskFacts DEF RunClaimed, TaskOf
<1>2. \/ run' = run
      \/ Becomes(w, e, NewContext(exec[w].token))
  BY DEF RunClaimed
<1>3. run' \in [Workers -> [Executions -> Context]]
  BY <1>1, <1>2, BecomesType, NewContextType, TaskFacts DEF TypeInv, TypeOK
<1>4. \/ exec' = [exec EXCEPT ![w].phase = "release"]
      \/ exec' = [exec EXCEPT ![w].phase = "waiting"]
  BY DEF RunClaimed
<1>5. exec' \in [Workers -> TaskOf] /\ \A v \in Workers : exec'[v].id = exec[v].id
  BY ZenonT(40), <1>1, <1>4 DEF TypeInv, TypeOK
<1>6. \A v \in Workers : exec'[v].phase # "idle" => exec'[v].id \in Executions
  BY <1>1, <1>4, <1>5 DEF TypeInv, TypeOK, Identified
<1>7. UNCHANGED <<storeVars, sessionVars, leaseVars, commandVars, slots, listed, adopt, cancel, service>>
  BY DEF RunClaimed
<1>. QED
  BY <1>3, <1>5, <1>6, <1>7
  DEF TypeInv, TypeOK, Identified, storeVars, sessionVars, leaseVars, commandVars

LEMMA ReleaseType == ASSUME TypeInv, NEW w \in Workers, Release(w) PROVE TypeInv'
<1> DEFINE e == exec[w].id
<1>1. e \in Executions
  BY TaskFacts DEF Release
<1>2. AfterRelease(e) \in LeaseRecord
  BY <1>1, AfterTypes
<1>3. lease' \in [Executions -> LeaseRecord]
  BY <1>2 DEF TypeInv, TypeOK, LeaseRecord, Release
<1>4. NoTask \in TaskOf /\ NoTask.phase = "idle"
  BY Names DEF NoTask, TaskOf
<1>. QED
  BY <1>3, <1>4
  DEF Release, TypeInv, TypeOK, Identified, LeaseRecord, storeVars, sessionVars, commandVars

\* Persistent recovery.
LEMMA AdoptType ==
    ASSUME TypeInv, NEW w \in Workers, NEW e \in Executions, Adopt(w, e) PROVE TypeInv'
<1>1. lease[e].attempt \in 0 .. MaxAttempts
  BY LeaseFacts
<1>2. tokens' \in [Executions -> Token] /\ lease' \in [Executions -> LeaseRecord] /\ tokens[e] + 1 \in Token
  BY <1>1, GrantType DEF Adopt
<1>3. Task("handoff", e, tokens[e] + 1) \in TaskOf /\ Task("handoff", e, tokens[e] + 1).id = e
  BY <1>2 DEF Task, TaskOf
<1>4. /\ adopt' = [adopt EXCEPT ![w] = Task("handoff", e, tokens[e] + 1)]
      /\ UNCHANGED <<storeVars, sessionVars, commandVars, run, slots, exec, listed, cancel, service>>
  BY DEF Adopt
<1>. QED
  BY <1>2, <1>3, <1>4
  DEF TypeInv, TypeOK, Identified, LeaseRecord, storeVars, sessionVars, commandVars

LEMMA AdoptDropType ==
    ASSUME TypeInv, NEW w \in Workers, NEW e \in Executions, AdoptDrop(w, e) PROVE TypeInv'
<1>1. Unleased("removed", 0) \in LeaseRecord
  BY UnleasedType, ExecutionAssumption DEF Phase
<1>2. lease' \in [Executions -> LeaseRecord]
  BY <1>1 DEF AdoptDrop, TypeInv, TypeOK, LeaseRecord
<1>. QED
  BY <1>2
  DEF AdoptDrop, TypeInv, TypeOK, Identified, LeaseRecord, storeVars, sessionVars, commandVars, workerVars

LEMMA RunAdoptedType == ASSUME TypeInv, NEW w \in Workers, RunAdopted(w) PROVE TypeInv'
<1> DEFINE e == adopt[w].id
<1>1. e \in Executions /\ rec[e] \in State /\ record[e] \in Token /\ adopt[w].token \in Token
  BY TaskFacts DEF RunAdopted, TypeInv, TypeOK
<1>2. \A command \in {0, record[e]}, reason \in {"none", "failed"} :
         AdoptedContext(adopt[w].token, command, reason, rec[e]) \in Context
  BY <1>1, AdoptedContextType, Names
<1>3. \/ run' = run
      \/ \E command \in {0, record[e]}, reason \in {"none", "failed"} :
            Becomes(w, e, AdoptedContext(adopt[w].token, command, reason, rec[e]))
  BY DEF RunAdopted
<1>4. run' \in [Workers -> [Executions -> Context]]
  BY <1>1, <1>2, <1>3, BecomesType DEF TypeInv, TypeOK
<1>5. home' \in [Executions -> Workers \cup {None}]
  BY DEF RunAdopted, Attaches, TypeInv, TypeOK
<1>6. NoTask \in TaskOf /\ NoTask.phase = "idle"
  BY Names DEF NoTask, TaskOf
<1>7. /\ adopt' = [adopt EXCEPT ![w] = NoTask]
      /\ UNCHANGED <<storeVars, sessionVars, leaseVars, shell, record, runtime, slots, exec, listed, cancel,
                   service>>
  BY DEF RunAdopted
<1>. QED
  BY <1>4, <1>5, <1>6, <1>7 DEF TypeInv, TypeOK, Identified, storeVars, sessionVars, leaseVars

\* The run.
LEMMA StoreType ==
    ASSUME TypeInv, NEW e \in Executions, NEW expected, NEW next \in State, Store(e, expected, next)
    PROVE  /\ rec' \in [Executions -> State]
           /\ active' \subseteq Executions
<1>1. rec \in [Executions -> State] /\ active \subseteq Executions
  BY DEF TypeInv, TypeOK
<1>2. \/ rec' = rec /\ active' = active
      \/ rec' = [rec EXCEPT ![e] = next] /\ (active' = active \cup {e} \/ active' = active \ {e})
  BY DEF Store
<1>. QED
  BY <1>1, <1>2

LEMMA ReadRecordType ==
    ASSUME TypeInv, NEW w \in Workers, NEW e \in Executions, ReadRecord(w, e) PROVE TypeInv'
<1> DEFINE c == run[w][e]
<1>1. c \in Context /\ rec[e] \in State
  BY RunFacts DEF TypeInv, TypeOK
<1>2. [c EXCEPT !.read = TRUE, !.known = rec[e]] \in Context
  BY <1>1 DEF Context
<1>3. Proceed(c, rec[e]) \in Context
  BY <1>1, ProceedType
<1>4. \/ exec' = exec /\ Becomes(w, e, [c EXCEPT !.read = TRUE, !.known = rec[e]])
      \/ exec' = exec /\ Becomes(w, e, Proceed(c, rec[e]))
      \/ Throws(w, e)
  BY DEF ReadRecord
<1>5. exec \in [Workers -> TaskOf]
  BY DEF TypeInv, TypeOK
<1>6. /\ run' \in [Workers -> [Executions -> Context]]
      /\ exec' \in [Workers -> TaskOf]
      /\ \A v \in Workers : exec'[v].id = exec[v].id /\ (exec[v].phase = "idle" => exec'[v] = exec[v])
  BY <1>2, <1>3, <1>4, <1>5, BecomesType, ThrowsType
<1>7. UNCHANGED <<storeVars, sessionVars, leaseVars, commandVars, slots, listed, adopt, cancel, service>>
  BY DEF ReadRecord
<1>. QED
  BY <1>6, <1>7 DEF TypeInv, TypeOK, Identified, storeVars, sessionVars, leaseVars, commandVars

LEMMA WriteRecordType ==
    ASSUME TypeInv, NEW w \in Workers, NEW e \in Executions, WriteRecord(w, e) PROVE TypeInv'
<1> DEFINE c == run[w][e]
<1>1. c \in Context /\ c.goal \in State
  BY RunFacts
<1>2. rec' \in [Executions -> State] /\ active' \subseteq Executions
  BY <1>1, StoreType DEF WriteRecord
<1>3. Proceed(c, rec'[e]) \in Context
  BY <1>1, <1>2, ProceedType
<1>4. run' \in [Workers -> [Executions -> Context]]
  BY <1>3, BecomesType DEF WriteRecord
<1>5. UNCHANGED <<marker, sessionVars, leaseVars, commandVars, slots, exec, listed, adopt, cancel, service>>
  BY DEF WriteRecord
<1>. QED
  BY <1>2, <1>4, <1>5 DEF TypeInv, TypeOK, Identified, sessionVars, leaseVars, commandVars

\* A step that changes one run, and the slots at most.
LEMMA RunOnlyType ==
    ASSUME TypeInv, NEW w \in Workers, NEW e \in Executions, NEW c \in Context, Becomes(w, e, c),
           UNCHANGED slots \/ slots' = [slots EXCEPT ![w] = @ \cup {e}],
           UNCHANGED <<storeVars, sessionVars, leaseVars, commandVars, exec, listed, adopt, cancel, service>>
    PROVE  TypeInv'
<1>1. run' \in [Workers -> [Executions -> Context]]
  BY BecomesType
<1>2. slots \in [Workers -> SUBSET Executions] /\ slots[w] \cup {e} \in SUBSET Executions
  BY DEF TypeInv, TypeOK
<1>3. slots' = slots \/ slots' = [slots EXCEPT ![w] = slots[w] \cup {e}]
  OBVIOUS
<1>4. slots' \in [Workers -> SUBSET Executions]
  BY <1>2, <1>3
<1>. QED
  BY <1>1, <1>4 DEF TypeInv, TypeOK, Identified, storeVars, sessionVars, leaseVars, commandVars

LEMMA CheckSessionType ==
    ASSUME TypeInv, NEW w \in Workers, NEW e \in Executions, CheckSession(w, e) PROVE TypeInv'
<1> DEFINE c == run[w][e]
<1>1. c \in Context /\ c.reason \in Reason
  BY RunFacts
<1>2. Outcomes(c.reason) \subseteq State
  BY <1>1, OutcomesType
<1>3. /\ [c EXCEPT !.slot = TRUE, !.stage = "marker", !.guarded = TRUE] \in Context
      /\ [c EXCEPT !.slot = TRUE, !.stage = "starting", !.goal = "starting"] \in Context
  BY <1>1, Names DEF Context
<1>4. \/ \E goal \in Outcomes(c.reason) \cup {"cancelled", "expired", "failed"} :
            Becomes(w, e, Finalize(c, goal))
      \/ Becomes(w, e, [c EXCEPT !.slot = TRUE, !.stage = "marker", !.guarded = TRUE])
      \/ Becomes(w, e, [c EXCEPT !.slot = TRUE, !.stage = "starting", !.goal = "starting"])
  BY DEF CheckSession
<1>5. PICK d \in Context : Becomes(w, e, d)
  BY <1>1, <1>2, <1>3, <1>4, FinalizeType, Names
<1>6. UNCHANGED slots \/ slots' = [slots EXCEPT ![w] = @ \cup {e}]
  BY DEF CheckSession
<1>7. UNCHANGED <<storeVars, sessionVars, leaseVars, commandVars, exec, listed, adopt, cancel, service>>
  BY DEF CheckSession
<1>. QED
  BY <1>5, <1>6, <1>7, RunOnlyType

LEMMA CheckMarkerType ==
    ASSUME TypeInv, NEW w \in Workers, NEW e \in Executions, CheckMarker(w, e) PROVE TypeInv'
<1> DEFINE c == run[w][e]
<1>1. c \in Context
  BY RunFacts
<1>2. /\ Finalize(c, "cancelled") \in Context
      /\ [c EXCEPT !.stage = "running", !.goal = "running"] \in Context
      /\ [c EXCEPT !.stage = IF c.adopted THEN "metadata" ELSE "dispatch"] \in Context
  BY <1>1, Names, FinalizeType DEF Context
<1>3. PICK d \in Context : Becomes(w, e, d)
  BY <1>2 DEF CheckMarker
<1>4. UNCHANGED <<storeVars, sessionVars, leaseVars, commandVars, slots, exec, listed, adopt, cancel, service>>
  BY DEF CheckMarker
<1>. QED
  BY <1>3, <1>4, RunOnlyType

LEMMA AttachesType ==
    ASSUME TypeInv, NEW w \in Workers, NEW e \in Executions, Attaches(w, e)
    PROVE  home' \in [Executions -> Workers \cup {None}]
BY DEF Attaches, TypeInv, TypeOK

LEMMA DispatchType ==
    ASSUME TypeInv, NEW w \in Workers, NEW e \in Executions, Dispatch(w, e) PROVE TypeInv'
<1> DEFINE c == run[w][e]
<1>1. c \in Context /\ c.token \in Token
  BY RunFacts
<1>2. [c EXCEPT !.stage = "metadata", !.command = c.token] \in Context
  BY <1>1, Names DEF Context
<1>3. run' \in [Workers -> [Executions -> Context]]
  BY <1>2, BecomesType DEF Dispatch
<1>4. shell' \in [Executions -> SUBSET Token]
  BY <1>1 DEF Dispatch, TypeInv, TypeOK
<1>5. record' \in [Executions -> Token] /\ home' \in [Executions -> Workers \cup {None}]
  BY <1>1, AttachesType DEF Dispatch, TypeInv, TypeOK
<1>6. UNCHANGED <<storeVars, sessionVars, leaseVars, runtime, slots, exec, listed, adopt, cancel, service>>
  BY DEF Dispatch
<1>. QED
  BY <1>3, <1>4, <1>5, <1>6 DEF TypeInv, TypeOK, Identified, storeVars, sessionVars, leaseVars

LEMMA DispatchAttachType ==
    ASSUME TypeInv, NEW w \in Workers, NEW e \in Executions, DispatchAttach(w, e) PROVE TypeInv'
<1> DEFINE c == run[w][e]
<1>1. c \in Context
  BY RunFacts
<1>2. \A command \in Token : [c EXCEPT !.stage = "metadata", !.command = command] \in Context
  BY <1>1, Names DEF Context
<1>3. shell[e] \subseteq Token /\ record[e] \in Token
  BY DEF TypeInv, TypeOK
<1>4. PICK command \in Token : Becomes(w, e, [c EXCEPT !.stage = "metadata", !.command = command])
  BY <1>3 DEF DispatchAttach
<1>5. run' \in [Workers -> [Executions -> Context]]
  BY <1>2, <1>4, BecomesType
<1>6. home' \in [Executions -> Workers \cup {None}]
  BY AttachesType DEF DispatchAttach
<1>7. UNCHANGED <<storeVars, sessionVars, leaseVars, shell, record, runtime, slots, exec, listed, adopt,
                  cancel, service>>
  BY DEF DispatchAttach
<1>. QED
  BY <1>5, <1>6, <1>7 DEF TypeInv, TypeOK, Identified, storeVars, sessionVars, leaseVars

LEMMA DispatchFailsType ==
    ASSUME TypeInv, NEW w \in Workers, NEW e \in Executions, DispatchFails(w, e) PROVE TypeInv'
<1>1. Throws(w, e)
  BY DEF DispatchFails
<1>2. UNCHANGED <<storeVars, sessionVars, leaseVars, commandVars, slots, listed, adopt, cancel, service>>
  BY DEF DispatchFails
<1>. QED
  BY <1>1, <1>2, ThrowsType
  DEF TypeInv, TypeOK, Identified, storeVars, sessionVars, leaseVars, commandVars

LEMMA PersistMetadataType ==
    ASSUME TypeInv, NEW w \in Workers, NEW e \in Executions, PersistMetadata(w, e) PROVE TypeInv'
<1> DEFINE c == run[w][e]
<1>1. c \in Context /\ c.command \in Token
  BY RunFacts
<1>2. /\ [c EXCEPT !.stage = "running", !.goal = "running"] \in Context
      /\ [c EXCEPT !.stage = "live", !.goal = "running"] \in Context
  BY <1>1, Names DEF Context
<1>3. run' \in [Workers -> [Executions -> Context]]
  BY <1>2, BecomesType DEF PersistMetadata
<1>4. runtime' \in [Executions -> Token]
  BY <1>1 DEF PersistMetadata, TypeInv, TypeOK
<1>5. UNCHANGED <<storeVars, sessionVars, leaseVars, shell, record, home, slots, exec, listed, adopt, cancel,
                  service>>
  BY DEF PersistMetadata
<1>. QED
  BY <1>3, <1>4, <1>5 DEF TypeInv, TypeOK, Identified, storeVars, sessionVars, leaseVars

LEMMA ExitObservedType ==
    ASSUME TypeInv, NEW w \in Workers, NEW e \in Executions, ExitObserved(w, e) PROVE TypeInv'
<1> DEFINE c == run[w][e]
<1>1. c \in Context /\ Outcomes(c.reason) \subseteq State
  BY RunFacts, OutcomesType
<1>2. PICK d \in Context : Becomes(w, e, d)
  BY <1>1, FinalizeType DEF ExitObserved
<1>3. UNCHANGED <<storeVars, sessionVars, leaseVars, commandVars, slots, exec, listed, adopt, cancel, service>>
  BY DEF ExitObserved
<1>. QED
  BY <1>2, <1>3, RunOnlyType

LEMMA CompleteLeaseType ==
    ASSUME TypeInv, NEW w \in Workers, NEW e \in Executions, CompleteLease(w, e) PROVE TypeInv'
<1> DEFINE c == run[w][e]
           goal == IF Holds(w, e, c.token) /\ e \in live THEN c.goal ELSE "expired"
<1>1. c \in Context /\ goal \in State
  BY RunFacts, Names
<1>2. [c EXCEPT !.stage = "final", !.goal = goal] \in Context
  BY <1>1, Names DEF Context
<1>3. Becomes(w, e, [c EXCEPT !.stage = "final", !.goal = goal])
  BY DEF CompleteLease
<1>4. run' \in [Workers -> [Executions -> Context]]
  BY <1>2, <1>3, BecomesType
<1>5. Unleased("completed", 0) \in LeaseRecord
  BY UnleasedType, ExecutionAssumption DEF Phase
<1>6. lease' \in [Executions -> LeaseRecord]
  BY <1>5 DEF CompleteLease, TypeInv, TypeOK, LeaseRecord
<1>7. UNCHANGED <<storeVars, sessionVars, tokens, commandVars, slots, exec, listed, adopt, cancel, service>>
  BY DEF CompleteLease
<1>. QED
  BY <1>4, <1>6, <1>7 DEF TypeInv, TypeOK, Identified, LeaseRecord, storeVars, sessionVars, commandVars

LEMMA TidyType ==
    ASSUME TypeInv, NEW w \in Workers, NEW e \in Executions, Tidy(w, e) PROVE TypeInv'
<1>1. Ended(w, e)
  BY DEF Tidy
<1>2. slots' \in [Workers -> SUBSET Executions] /\ shell' \in [Executions -> SUBSET Token]
  BY DEF Tidy, TypeInv, TypeOK
<1>3. record' \in [Executions -> Token] /\ runtime' \in [Executions -> Token] /\ marker' \subseteq Executions
  BY Names DEF Tidy, TypeInv, TypeOK
<1>4. UNCHANGED <<rec, active, sessionVars, leaseVars, home, listed, adopt, cancel, service>>
  BY DEF Tidy
<1>. QED
  BY <1>1, <1>2, <1>3, <1>4, EndedType DEF TypeInv, TypeOK, Identified, sessionVars, leaseVars

\* Commands that end leave the shells typed.
LEMMA ShellType ==
    ASSUME TypeInv, NEW e, NEW T, shell' = [shell EXCEPT ![e] = @ \ T]
    PROVE  shell' \in [Executions -> SUBSET Token]
BY DEF TypeInv, TypeOK

\* What interrupts a run.
LEMMA StopsType ==
    ASSUME TypeInv, NEW w \in Workers, NEW e \in Executions, NEW reason \in Reason, Stops(w, e, reason)
    PROVE  run' \in [Workers -> [Executions -> Context]]
<1> DEFINE stop == Attached(w, e)
           c == [run[w][e] EXCEPT !.reason = reason, !.stop = stop]
<1>1. run[w][e] \in Context /\ run[w] \in [Executions -> Context] /\ run \in [Workers -> [Executions -> Context]]
  BY RunFacts DEF TypeInv, TypeOK
<1>2. stop \in BOOLEAN
  BY DEF Attached
<1>. HIDE DEF stop
<1>3. c \in Context
  BY <1>1, <1>2 DEF Context
<1>4. run' = [run EXCEPT ![w] = [run[w] EXCEPT ![e] = c]]
  BY <1>1 DEF Stops, stop
<1>. QED
  BY <1>1, <1>3, <1>4

LEMMA InterruptionType ==
    ASSUME TypeInv, NEW w \in Workers, NEW e \in Executions, Interruption(w, e) PROVE TypeInv'
<1>1. CASE PollMarker(w, e) \/ RenewFails(w, e) \/ TimesOut(w, e) \/ ExceedsOutput(w, e)
  <2>1. PICK reason \in Reason : Stops(w, e, reason)
    BY <1>1, Names DEF PollMarker, RenewFails, TimesOut, ExceedsOutput
  <2>2. run' \in [Workers -> [Executions -> Context]]
    BY <2>1, StopsType
  <2>3. UNCHANGED <<storeVars, sessionVars, leaseVars, commandVars, slots, exec, listed, adopt, cancel, service>>
    BY <1>1 DEF PollMarker, RenewFails, TimesOut, ExceedsOutput
  <2>. QED
    BY <2>2, <2>3 DEF TypeInv, TypeOK, Identified, storeVars, sessionVars, leaseVars, commandVars
<1>2. CASE FirstOutput(w, e)
  <2>1. [run[w][e] EXCEPT !.stage = "streaming", !.goal = "streaming"] \in Context
    BY ZenonT(40), RunFacts, Names DEF Context
  <2>2. Becomes(w, e, [run[w][e] EXCEPT !.stage = "streaming", !.goal = "streaming"])
    BY <1>2 DEF FirstOutput
  <2>3. UNCHANGED <<storeVars, sessionVars, leaseVars, commandVars, slots, exec, listed, adopt, cancel, service>>
    BY <1>2 DEF FirstOutput
  <2>. QED
    BY <2>1, <2>2, <2>3, RunOnlyType
<1>3. CASE StopCommand(w, e)
  BY <1>3, ShellType
  DEF StopCommand, TypeInv, TypeOK, Identified, storeVars, sessionVars, leaseVars, workerVars
<1>4. CASE KillShell(w, e)
  BY <1>4
  DEF KillShell, TypeInv, TypeOK, Identified, storeVars, leaseVars, workerVars
<1>. QED
  BY <1>1, <1>2, <1>3, <1>4 DEF Interruption

\* Cancellation, the services and the environment.
LEMMA CancelStepType ==
    ASSUME TypeInv, NEW e \in Executions, CancelStep(e) PROVE TypeInv'
<1>1. CASE CancelMark(e) \/ CancelRead(e)
  <2>1. cancel' \in [Executions -> {"idle", "read", "write"}] /\ marker' \subseteq Executions
    BY <1>1 DEF CancelMark, CancelRead, storeVars, TypeInv, TypeOK
  <2>2. UNCHANGED <<rec, active, sessionVars, leaseVars, commandVars, workerVars, service>>
    BY <1>1 DEF CancelMark, CancelRead, storeVars
  <2>. QED
    BY <2>1, <2>2 DEF TypeInv, TypeOK, Identified, sessionVars, leaseVars, commandVars, workerVars
<1>2. CASE CancelWrite(e)
  <2>1. rec' \in [Executions -> State] /\ active' \subseteq Executions
    BY <1>2, StoreType, Names DEF CancelWrite
  <2>. QED
    BY <1>2, <2>1
    DEF CancelWrite, TypeInv, TypeOK, Identified, sessionVars, leaseVars, commandVars, workerVars
<1>. QED
  BY <1>1, <1>2 DEF CancelStep

CallOf == [stage : {"idle", "clean", "read", "recover", "requeue", "expire"},
           id : Executions \cup {None}, known : State]

LEMMA CallsType ==
    ASSUME TypeInv, NEW r \in Services, NEW call \in CallOf, call.stage # "idle" => call.id \in Executions,
           service' = [service EXCEPT ![r] = call]
    PROVE  /\ service' \in [Services -> CallOf]
           /\ \A q \in Services : service'[q].stage # "idle" => service'[q].id \in Executions
BY DEF TypeInv, TypeOK, Identified, CallOf

\* A service takes a step with a call about an execution, or with none.
LEMMA ServiceStepType ==
    ASSUME TypeInv, NEW r \in Services, ServiceStep(r) PROVE TypeInv'
<1> DEFINE e == service[r].id
           Fits(call) == call \in CallOf /\ (call.stage # "idle" => call.id \in Executions)
<1>1. Fits(NoCall)
  BY Names DEF NoCall, Call, CallOf
<1>2. \A stage \in {"clean", "read", "recover", "requeue", "expire"}, x \in Executions, s \in State :
         Fits(Call(stage, x, s))
  BY DEF Call, CallOf
<1>3. Fits(service[r]) /\ service[r].known \in State
  BY DEF TypeInv, TypeOK, Identified, CallOf
<1>4. PICK call : Fits(call) /\ service' = [service EXCEPT ![r] = call]
  <2>1. CASE \E x \in Executions : ScanOrphan(r, x) \/ ScanLease(r, x) \/ Repair(r, x)
    <3>1. PICK x \in Executions : ScanOrphan(r, x) \/ ScanLease(r, x) \/ Repair(r, x)
      BY <2>1
    <3>2. \/ service' = [service EXCEPT ![r] = Call("clean", x, "queued")]
          \/ service' = [service EXCEPT ![r] = Call("read", x, "queued")]
      BY <3>1 DEF ScanOrphan, ScanLease, Repair
    <3>3. Fits(Call("clean", x, "queued")) /\ Fits(Call("read", x, "queued"))
      BY <1>2, Names
    <3>. QED
      BY <3>2, <3>3
  <2>2. CASE CleanOrphan(r)
    <3>1. service' = [service EXCEPT ![r] = [service[r] EXCEPT !.stage = "read"]] /\ e \in Executions
      BY <1>3, <2>2 DEF CleanOrphan
    <3>2. Fits([service[r] EXCEPT !.stage = "read"])
      BY <1>3, <3>1 DEF CallOf
    <3>. QED
      BY <3>1, <3>2
  <2>3. CASE RecoverRead(r)
    <3>1. e \in Executions /\ rec[e] \in State
      BY <1>3, <2>3 DEF RecoverRead, TypeInv, TypeOK
    <3>2. \/ service' = [service EXCEPT ![r] = NoCall]
          \/ service' = [service EXCEPT ![r] = Call("recover", e, rec[e])]
      BY <2>3 DEF RecoverRead
    <3>. QED
      BY <1>1, <1>2, <3>1, <3>2
  <2>4. CASE RecoverLease(r)
    <3>1. e \in Executions
      BY <1>3, <2>4 DEF RecoverLease
    <3>2. \/ service' = [service EXCEPT ![r] = NoCall]
          \/ service' = [service EXCEPT ![r] = Call("requeue", e, service[r].known)]
          \/ service' = [service EXCEPT ![r] = Call("expire", e, service[r].known)]
      BY <2>4 DEF RecoverLease
    <3>. QED
      BY <1>1, <1>2, <1>3, <3>1, <3>2
  <2>5. CASE RecoverWrite(r)
    BY <1>1, <2>5 DEF RecoverWrite
  <2>. QED
    BY <2>1, <2>2, <2>3, <2>4, <2>5 DEF ServiceStep
<1>5. /\ service' \in [Services -> CallOf]
      /\ \A q \in Services : service'[q].stage # "idle" => service'[q].id \in Executions
  BY <1>4, CallsType
<1>6. lease' \in [Executions -> LeaseRecord]
  <2>1. lease \in [Executions -> LeaseRecord]
    BY DEF TypeInv, TypeOK, LeaseRecord
  <2>2. CASE RecoverLease(r)
    <3>1. e \in Executions
      BY <1>3, <2>2 DEF RecoverLease
    <3>2. lease' = lease \/ lease' = [lease EXCEPT ![e] = AfterRecover(e)]
      BY <2>2 DEF RecoverLease
    <3>. QED
      BY <2>1, <3>1, <3>2, AfterTypes
  <2>3. CASE ~RecoverLease(r)
    BY <2>1, <2>3
    DEF ServiceStep, ScanOrphan, ScanLease, Repair, CleanOrphan, RecoverRead, RecoverWrite, leaseVars
  <2>. QED
    BY <2>2, <2>3
<1>7. rec' \in [Executions -> State] /\ active' \subseteq Executions
  <2>1. CASE RecoverWrite(r)
    <3>1. e \in Executions
      BY <1>3, <2>1 DEF RecoverWrite
    <3>. QED
      BY <2>1, <3>1, StoreType, Names DEF RecoverWrite
  <2>2. CASE ~RecoverWrite(r)
    BY <2>2
    DEF ServiceStep, ScanOrphan, ScanLease, Repair, CleanOrphan, RecoverRead, RecoverLease, storeVars,
        TypeInv, TypeOK
  <2>. QED
    BY <2>1, <2>2
<1>8. shell' \in [Executions -> SUBSET Token] /\ runtime' \in [Executions -> Token]
  <2>1. \/ shell' = shell
        \/ shell' = [shell EXCEPT ![e] = @ \ {runtime[e]}]
    BY DEF ServiceStep, ScanOrphan, ScanLease, Repair, CleanOrphan, RecoverRead, RecoverLease, RecoverWrite,
           commandVars
  <2>2. runtime' = runtime \/ runtime' = [runtime EXCEPT ![e] = 0]
    BY DEF ServiceStep, ScanOrphan, ScanLease, Repair, CleanOrphan, RecoverRead, RecoverLease, RecoverWrite,
           commandVars
  <2>3. shell' \in [Executions -> SUBSET Token]
    BY <2>1, ShellType DEF TypeInv, TypeOK
  <2>4. runtime' \in [Executions -> Token]
    BY <2>2, Names DEF TypeInv, TypeOK
  <2>. QED
    BY <2>3, <2>4
<1>9. UNCHANGED <<marker, sessionVars, tokens, record, home, workerVars, cancel>>
  BY DEF ServiceStep, ScanOrphan, ScanLease, Repair, CleanOrphan, RecoverRead, RecoverLease, RecoverWrite,
         storeVars, leaseVars, commandVars
<1>. QED
  BY <1>5, <1>6, <1>7, <1>8, <1>9 DEF TypeInv, TypeOK, Identified, CallOf, LeaseRecord, sessionVars, workerVars

LEMMA EnvironmentType == ASSUME TypeInv, Environment PROVE TypeInv'
<1>1. CASE \E e \in Executions : Expire(e)
  <2>1. PICK e \in Executions : Expire(e)
    BY <1>1
  <2>2. lease \in [Executions -> LeaseRecord]
    BY DEF TypeInv, TypeOK, LeaseRecord
  <2>3. [lease[e] EXCEPT !.expired = TRUE] \in LeaseRecord
    BY <2>2 DEF LeaseRecord
  <2>4. lease' = [lease EXCEPT ![e] = [lease[e] EXCEPT !.expired = TRUE]]
    BY <2>1 DEF Expire
  <2>5. lease' \in [Executions -> LeaseRecord]
    BY <2>2, <2>3, <2>4
  <2>. QED
    BY <2>1, <2>5
    DEF Expire, TypeInv, TypeOK, Identified, LeaseRecord, storeVars, sessionVars, commandVars, workerVars
<1>2. CASE \E e \in Executions : SessionEnds(e) \/ CommandEnds(e)
  <2>1. live' \subseteq Executions /\ shell' \in [Executions -> SUBSET Token]
    <3>1. CASE \E e \in Executions : SessionEnds(e)
      BY <3>1 DEF SessionEnds, commandVars, TypeInv, TypeOK
    <3>2. CASE \E e \in Executions : CommandEnds(e)
      <4>1. live' = live /\ \E e \in Executions, T \in {{t} : t \in Token} : shell' = [shell EXCEPT ![e] = @ \ T]
        BY ZenonT(40), <3>2 DEF CommandEnds, sessionVars, TypeInv, TypeOK
      <4>. QED
        BY <4>1, ShellType DEF TypeInv, TypeOK
    <3>. QED
      BY <1>2, <3>1, <3>2
  <2>2. UNCHANGED <<storeVars, kind, persistent, fenced, leaseVars, record, runtime, home, workerVars, cancel, service>>
    BY <1>2 DEF SessionEnds, CommandEnds, commandVars, sessionVars
  <2>. QED
    BY <2>1, <2>2 DEF TypeInv, TypeOK, Identified, storeVars, leaseVars, workerVars
<1>3. CASE \E w \in Workers : Crash(w)
  <2>1. Idle \in Context /\ NoTask \in TaskOf /\ NoTask.phase = "idle"
    BY IdleType, Names DEF NoTask, TaskOf
  <2>. QED
    BY <1>3, <2>1
    DEF Crash, TypeInv, TypeOK, Identified, storeVars, sessionVars, leaseVars
<1>4. CASE \E w \in Workers : StopExecutor(w)
  <2>1. PICK w \in Workers : StopExecutor(w)
    BY <1>4
  <2>2. exec[w].id \in Executions
    BY <2>1, TaskFacts DEF StopExecutor
  <2>3. run' \in [Workers -> [Executions -> Context]]
    BY <2>1, <2>2, StopsType, Names DEF StopExecutor
  <2>. QED
    BY <2>1, <2>2, <2>3 DEF StopExecutor, TypeInv, TypeOK, Identified, sessionVars, leaseVars, commandVars
<1>5. CASE \E w \in Workers, e \in Executions : Detach(w, e)
  <2>1. PICK w \in Workers, e \in Executions : Detach(w, e)
    BY <1>5
  <2> DEFINE deaf == run[w][e].command # 0
             c == [run[w][e] EXCEPT !.deaf = deaf]
  <2>2. deaf \in BOOLEAN
    OBVIOUS
  <2>. HIDE DEF deaf
  <2>3. c \in Context
    BY <2>2, RunFacts DEF Context
  <2>4. run' = [run EXCEPT ![w] = [run[w] EXCEPT ![e] = c]]
    BY <2>1 DEF Detach, deaf
  <2>5. run' \in [Workers -> [Executions -> Context]]
    BY <2>3, <2>4 DEF TypeInv, TypeOK
  <2>. QED
    BY <2>1, <2>5 DEF Detach, TypeInv, TypeOK, Identified, storeVars, sessionVars, leaseVars
<1>6. CASE \E w \in Workers, e \in Executions : Attach(w, e)
  BY <1>6, AttachesType
  DEF Attach, TypeInv, TypeOK, Identified, storeVars, sessionVars, leaseVars, workerVars
<1>. QED
  BY <1>1, <1>2, <1>3, <1>4, <1>5, <1>6 DEF Environment

LEMMA StepType == ASSUME TypeInv, [Next]_vars PROVE TypeInv'
<1>1. CASE UNCHANGED vars
  BY <1>1
  DEF TypeInv, TypeOK, Identified, vars, storeVars, sessionVars, leaseVars, commandVars, workerVars
<1>2. CASE \E w \in Workers : ExecutorStep(w) \/ AdoptionStep(w)
  BY <1>2, PollType, ClaimType, ClaimRestType, RunClaimedType, ReleaseType, AdoptType, AdoptDropType,
     RunAdoptedType
  DEF ExecutorStep, AdoptionStep
<1>3. CASE \E w \in Workers, e \in Executions : RunStep(w, e) \/ Interruption(w, e)
  BY <1>3, ReadRecordType, WriteRecordType, CheckSessionType, CheckMarkerType, DispatchType,
     DispatchAttachType, DispatchFailsType, PersistMetadataType, ExitObservedType, CompleteLeaseType,
     TidyType, InterruptionType
  DEF RunStep
<1>4. CASE \E r \in Services : ServiceStep(r)
  BY <1>4, ServiceStepType
<1>5. CASE \E e \in Executions : CancelStep(e)
  BY <1>5, CancelStepType
<1>6. CASE Environment
  BY <1>6, EnvironmentType
<1>. QED
  BY <1>1, <1>2, <1>3, <1>4, <1>5, <1>6 DEF Next

LEMMA TypeInvariant == Spec => []TypeInv
<1>. QED
  BY InitType, StepType, PTL DEF Spec

\* Every variable of the coordination of executions keeps its type.
THEOREM ExecutionTypeCorrect == Spec => []TypeOK
<1>1. TypeInv => TypeOK
  BY DEF TypeInv
<1>. QED
  BY <1>1, TypeInvariant, PTL

-----------------------------------------------------------------------------
(* Who publishes outcomes. *)

Published == {"succeeded", "failed", "timed_out"}

\* A run asks for an outcome only in its last transition, and gets there with one
\* only by completing its lease.
Sound(c, phase) ==
    /\ c.stage \in Transition \ {"final"} => c.goal \in {"leased", "starting", "running", "streaming"}
    /\ c.stage = "final" /\ c.goal \in Published => phase = "completed"

OutcomeInv ==
    /\ OutcomeIsOwned
    /\ \A w \in Workers, e \in Executions : Sound(run[w][e], lease[e].phase)

LEMMA BecomesOnly ==
    ASSUME TypeInv, NEW w \in Workers, NEW e \in Executions, NEW c, Becomes(w, e, c)
    PROVE  /\ run'[w][e] = c
           /\ \A v \in Workers, x \in Executions : v # w \/ x # e => run'[v][x] = run[v][x]
BY DEF TypeInv, TypeOK, Becomes

\* The lease of an execution changes only while it is queued or leased.
LEMMA LeaseMoves ==
    ASSUME TypeInv, [Next]_vars, NEW e \in Executions
    PROVE  lease'[e] = lease[e] \/ lease[e].phase \in {"queued", "leased"}
<1>1. CASE \E w \in Workers : ExecutorStep(w)
  BY <1>1
  DEF ExecutorStep, Poll, RunClaimed, Release, Claim, ClaimDrop, ClaimConflict, ClaimRefused, Grant,
      Expired, Leased, Holds, Owns, leaseVars, TypeInv, TypeOK
<1>2. CASE \E w \in Workers : AdoptionStep(w)
  BY <1>2 DEF AdoptionStep, RunAdopted, Adopt, AdoptDrop, Grant, Expired, Leased, leaseVars, TypeInv, TypeOK
<1>3. CASE \E w \in Workers, x \in Executions : RunStep(w, x)
  <2>1. PICK w \in Workers, x \in Executions : RunStep(w, x)
    BY <1>3
  <2>2. \/ UNCHANGED lease
        \/ Leased(x) /\ lease' = [lease EXCEPT ![x] = Unleased("completed", 0)]
    BY <2>1
    DEF RunStep, ReadRecord, WriteRecord, CheckSession, CheckMarker, Dispatch, DispatchAttach,
        DispatchFails, PersistMetadata, ExitObserved, CompleteLease, Tidy, Holds, Owns, leaseVars
  <2>. QED
    BY <2>2 DEF Leased, TypeInv, TypeOK
<1>4. CASE \E w \in Workers, x \in Executions : Interruption(w, x)
  BY <1>4
  DEF Interruption, PollMarker, RenewFails, TimesOut, ExceedsOutput, FirstOutput, StopCommand, KillShell,
      leaseVars
<1>5. CASE \E r \in Services : ServiceStep(r)
  BY <1>5
  DEF ServiceStep, ScanOrphan, ScanLease, Repair, CleanOrphan, RecoverRead, RecoverLease, RecoverWrite,
      Expired, Leased, leaseVars, TypeInv, TypeOK
<1>6. CASE \E x \in Executions : CancelStep(x)
  BY <1>6 DEF CancelStep, CancelMark, CancelRead, CancelWrite, leaseVars
<1>7. CASE Environment
  BY <1>7
  DEF Environment, Expire, SessionEnds, CommandEnds, Crash, StopExecutor, Detach, Attach, Leased, leaseVars,
      TypeInv, TypeOK
<1>8. CASE UNCHANGED vars
  BY <1>8 DEF vars, leaseVars
<1>. QED
  BY <1>1, <1>2, <1>3, <1>4, <1>5, <1>6, <1>7, <1>8 DEF Next

\* A record changes by the transition of a run, to its goal, or to a state that is
\* no outcome.
LEMMA RecordMoves ==
    ASSUME TypeInv, [Next]_vars, NEW e \in Executions
    PROVE  \/ rec'[e] = rec[e]
           \/ rec'[e] \notin Published
           \/ \E w \in Workers : run[w][e].stage \in Transition /\ rec'[e] = run[w][e].goal
<1>1. CASE \E w \in Workers : ExecutorStep(w) \/ AdoptionStep(w)
  BY <1>1
  DEF ExecutorStep, AdoptionStep, Poll, RunClaimed, Release, Claim, ClaimDrop, ClaimConflict, ClaimRefused,
      Tries, RunAdopted, Adopt, AdoptDrop, storeVars
<1>2. CASE \E w \in Workers, x \in Executions : RunStep(w, x)
  <2>1. PICK w \in Workers, x \in Executions : RunStep(w, x)
    BY <1>2
  <2>2. \/ UNCHANGED rec
        \/ run[w][x].stage \in Transition /\ rec' = [rec EXCEPT ![x] = run[w][x].goal]
    BY <2>1
    DEF RunStep, ReadRecord, WriteRecord, Store, CheckSession, CheckMarker, Dispatch, DispatchAttach,
        DispatchFails, PersistMetadata, ExitObserved, CompleteLease, Tidy, storeVars
  <2>. QED
    BY <2>2 DEF TypeInv, TypeOK
<1>3. CASE \E w \in Workers, x \in Executions : Interruption(w, x)
  BY <1>3
  DEF Interruption, PollMarker, RenewFails, TimesOut, ExceedsOutput, FirstOutput, StopCommand, KillShell,
      storeVars
<1>4. CASE \E r \in Services : ServiceStep(r)
  <2>1. PICK r \in Services : ServiceStep(r)
    BY <1>4
  <2>2. \/ UNCHANGED rec
        \/ \E s \in {"queued", "expired"} : rec' = [rec EXCEPT ![service[r].id] = s]
    BY <2>1
    DEF ServiceStep, ScanOrphan, ScanLease, Repair, CleanOrphan, RecoverRead, RecoverLease, RecoverWrite,
        Store, storeVars
  <2>. QED
    BY <2>2 DEF TypeInv, TypeOK, Published
<1>5. CASE \E x \in Executions : CancelStep(x)
  <2>1. PICK x \in Executions : CancelStep(x)
    BY <1>5
  <2>2. UNCHANGED rec \/ rec' = [rec EXCEPT ![x] = "cancelled"]
    BY <2>1 DEF CancelStep, CancelMark, CancelRead, CancelWrite, Store, storeVars
  <2>. QED
    BY <2>2 DEF TypeInv, TypeOK, Published
<1>6. CASE Environment
  BY <1>6
  DEF Environment, Expire, SessionEnds, CommandEnds, Crash, StopExecutor, Detach, Attach, storeVars
<1>7. CASE UNCHANGED vars
  BY <1>7 DEF vars, storeVars
<1>. QED
  BY <1>1, <1>2, <1>3, <1>4, <1>5, <1>6, <1>7 DEF Next

\* What the coordinator makes of a sound context is sound.
LEMMA SoundContexts ==
    ASSUME NEW c \in Context, NEW phase, Sound(c, phase)
    PROVE  /\ Sound(Idle, phase)
           /\ \A goal \in State : /\ Sound(Finalize(c, goal), phase)
                                  /\ Sound([Finalize(c, goal) EXCEPT !.guarded = FALSE], phase)
           /\ c.stage \in Transition => \A s \in State : Sound(Proceed(c, s), phase)
<1>1. Sound(Idle, phase)
  BY DEF Sound, Idle, Transition
<1>2. ASSUME NEW goal \in State
      PROVE  /\ Sound(Finalize(c, goal), phase)
             /\ Sound([Finalize(c, goal) EXCEPT !.guarded = FALSE], phase)
  <2>1. Finalize(c, goal) \in Context /\ [Finalize(c, goal) EXCEPT !.guarded = FALSE] \in Context
    BY FinalizeType DEF Context
  <2>2. /\ Finalize(c, goal).stage = IF goal = "expired" THEN "final" ELSE "complete"
        /\ Finalize(c, goal).goal = goal
    BY DEF Finalize, Context
  <2>3. /\ [Finalize(c, goal) EXCEPT !.guarded = FALSE].stage = Finalize(c, goal).stage
        /\ [Finalize(c, goal) EXCEPT !.guarded = FALSE].goal = goal
    BY <2>1, <2>2 DEF Context
  <2>. QED
    BY <2>2, <2>3 DEF Sound, Transition, Published
<1>3. ASSUME c.stage \in Transition, NEW s \in State PROVE Sound(Proceed(c, s), phase)
  <2>1. c.stage \in {"adopt", "leased", "starting", "running", "streaming", "final"}
    BY <1>3 DEF Transition
  <2>2. \/ Proceed(c, s).stage \in {"session", "marker", "live", "tidy"}
        \/ Proceed(c, s).stage = "adopt" /\ Proceed(c, s).goal = "starting"
    BY <2>1 DEF Proceed, Context
  <2>. QED
    BY <2>2 DEF Sound, Transition
<1>. QED
  BY <1>1, <1>2, <1>3

\* The contexts in which runs begin are sound.
LEMMA SoundStarts ==
    ASSUME NEW t, NEW phase
    PROVE  /\ Sound(NewContext(t), phase)
           /\ \A command, reason : \A s \in State \ TerminalState :
                 Sound(AdoptedContext(t, command, reason, s), phase)
BY DEF NewContext, AdoptedContext, Idle, Sound, Transition, State, ActiveState, Published

\* A run that becomes a sound context, by a step that completes no lease.
LEMMA SoundBecomes ==
    ASSUME TypeInv, OutcomeInv, NEW w \in Workers, NEW e \in Executions, NEW c, Becomes(w, e, c),
           Sound(c, lease[e].phase), UNCHANGED lease
    PROVE  \A v \in Workers, x \in Executions : Sound(run'[v][x], lease'[x].phase)
BY BecomesOnly DEF OutcomeInv

LEMMA SoundThrows ==
    ASSUME TypeInv, OutcomeInv, NEW w \in Workers, NEW e \in Executions, Throws(w, e), UNCHANGED lease
    PROVE  \A v \in Workers, x \in Executions : Sound(run'[v][x], lease'[x].phase)
<1> DEFINE c == run[w][e]
           d == [c EXCEPT !.stage = "live", !.read = FALSE, !.stop = TRUE,
                    !.reason = IF @ \in {"expired", "timed_out"} THEN @ ELSE "failed"]
<1>1. c \in Context /\ Sound(c, lease[e].phase)
  BY RunFacts DEF OutcomeInv
<1>2. d.stage = "live"
  BY <1>1 DEF Context
<1>3. Sound(d, lease[e].phase)
  BY <1>2 DEF Sound, Transition
<1>4. \/ Becomes(w, e, d)
      \/ Becomes(w, e, [Finalize(c, "failed") EXCEPT !.guarded = FALSE])
      \/ Becomes(w, e, Idle)
  BY DEF Throws, Ended
<1>. QED
  BY <1>1, <1>3, <1>4, SoundContexts, SoundBecomes, Names

LEMMA SoundStops ==
    ASSUME TypeInv, OutcomeInv, NEW w \in Workers, NEW e \in Executions, NEW reason, Stops(w, e, reason),
           UNCHANGED lease
    PROVE  \A v \in Workers, x \in Executions : Sound(run'[v][x], lease'[x].phase)
<1>1. run[w][e] \in Context /\ run \in [Workers -> [Executions -> Context]] /\ Sound(run[w][e], lease[e].phase)
  BY RunFacts DEF OutcomeInv, TypeInv, TypeOK
<1>2. Becomes(w, e, [run[w][e] EXCEPT !.reason = reason, !.stop = Attached(w, e)])
  BY <1>1 DEF Stops, Becomes
<1>3. /\ [run[w][e] EXCEPT !.reason = reason, !.stop = Attached(w, e)].stage = run[w][e].stage
      /\ [run[w][e] EXCEPT !.reason = reason, !.stop = Attached(w, e)].goal = run[w][e].goal
  BY <1>1 DEF Context
<1>4. Sound([run[w][e] EXCEPT !.reason = reason, !.stop = Attached(w, e)], lease[e].phase)
  BY <1>1, <1>3 DEF Sound
<1>. QED
  BY <1>2, <1>4, SoundBecomes

LEMMA SoundRunStep ==
    ASSUME TypeInv, OutcomeInv, NEW w \in Workers, NEW e \in Executions, RunStep(w, e)
    PROVE  \A v \in Workers, x \in Executions : Sound(run'[v][x], lease'[x].phase)
<1> DEFINE c == run[w][e]
           phase == lease[e].phase
<1>1. c \in Context /\ Sound(c, phase) /\ rec[e] \in State /\ Outcomes(c.reason) \subseteq State
  BY RunFacts, OutcomesType DEF OutcomeInv, TypeInv, TypeOK
<1>2. CASE ReadRecord(w, e)
  <2>1. UNCHANGED lease
    BY <1>2 DEF ReadRecord, leaseVars
  <2>2. \/ Becomes(w, e, [c EXCEPT !.read = TRUE, !.known = rec[e]])
        \/ c.stage \in Transition /\ Becomes(w, e, Proceed(c, rec[e]))
        \/ Throws(w, e)
    BY <1>2 DEF ReadRecord
  <2>3. Sound([c EXCEPT !.read = TRUE, !.known = rec[e]], phase)
    BY <1>1 DEF Sound, Context
  <2>. QED
    BY <1>1, <2>1, <2>2, <2>3, SoundContexts, SoundBecomes, SoundThrows
<1>3. CASE WriteRecord(w, e)
  <2>1. UNCHANGED lease /\ c.stage \in Transition /\ Becomes(w, e, Proceed(c, rec'[e]))
    BY <1>3 DEF WriteRecord, leaseVars
  <2>2. rec'[e] \in State
    BY <1>3, WriteRecordType DEF TypeInv, TypeOK
  <2>. QED
    BY <1>1, <2>1, <2>2, SoundContexts, SoundBecomes
<1>4. CASE CheckSession(w, e)
  <2>1. UNCHANGED lease
    BY <1>4 DEF CheckSession, leaseVars
  <2>2. \/ \E goal \in Outcomes(c.reason) \cup {"cancelled", "expired", "failed"} :
              Becomes(w, e, Finalize(c, goal))
        \/ Becomes(w, e, [c EXCEPT !.slot = TRUE, !.stage = "marker", !.guarded = TRUE])
        \/ Becomes(w, e, [c EXCEPT !.slot = TRUE, !.stage = "starting", !.goal = "starting"])
    BY <1>4 DEF CheckSession
  <2>3. /\ Sound([c EXCEPT !.slot = TRUE, !.stage = "marker", !.guarded = TRUE], phase)
        /\ Sound([c EXCEPT !.slot = TRUE, !.stage = "starting", !.goal = "starting"], phase)
    BY <1>1 DEF Sound, Context, Transition
  <2>. QED
    BY <1>1, <2>1, <2>2, <2>3, SoundContexts, SoundBecomes, Names
<1>5. CASE CheckMarker(w, e)
  <2>1. UNCHANGED lease
    BY <1>5 DEF CheckMarker, leaseVars
  <2>2. \/ Becomes(w, e, Finalize(c, "cancelled"))
        \/ Becomes(w, e, [c EXCEPT !.stage = "running", !.goal = "running"])
        \/ \E stage \in {"metadata", "dispatch"} : Becomes(w, e, [c EXCEPT !.stage = stage])
    BY <1>5 DEF CheckMarker
  <2>3. /\ Sound([c EXCEPT !.stage = "running", !.goal = "running"], phase)
        /\ \A stage \in {"metadata", "dispatch"} : Sound([c EXCEPT !.stage = stage], phase)
    BY <1>1 DEF Sound, Context, Transition
  <2>. QED
    BY <1>1, <2>1, <2>2, <2>3, SoundContexts, SoundBecomes, Names
<1>6. CASE Dispatch(w, e) \/ DispatchAttach(w, e)
  <2>1. UNCHANGED lease
    BY <1>6 DEF Dispatch, DispatchAttach, leaseVars
  <2>2. \E command : Becomes(w, e, [c EXCEPT !.stage = "metadata", !.command = command])
    BY <1>6 DEF Dispatch, DispatchAttach
  <2>3. \A command : Sound([c EXCEPT !.stage = "metadata", !.command = command], phase)
    BY <1>1 DEF Sound, Context, Transition
  <2>. QED
    BY <2>1, <2>2, <2>3, SoundBecomes
<1>7. CASE DispatchFails(w, e)
  BY <1>7, SoundThrows DEF DispatchFails, leaseVars
<1>8. CASE PersistMetadata(w, e)
  <2>1. UNCHANGED lease
    BY <1>8 DEF PersistMetadata, leaseVars
  <2>2. \E stage \in {"running", "live"} : Becomes(w, e, [c EXCEPT !.stage = stage, !.goal = "running"])
    BY <1>8 DEF PersistMetadata
  <2>3. \A stage \in {"running", "live"} : Sound([c EXCEPT !.stage = stage, !.goal = "running"], phase)
    BY <1>1 DEF Sound, Context, Transition
  <2>. QED
    BY <2>1, <2>2, <2>3, SoundBecomes
<1>9. CASE ExitObserved(w, e)
  <2>1. UNCHANGED lease /\ \E goal \in Outcomes(c.reason) : Becomes(w, e, Finalize(c, goal))
    BY <1>9 DEF ExitObserved, leaseVars
  <2>. QED
    BY <1>1, <2>1, SoundContexts, SoundBecomes
<1>10. CASE CompleteLease(w, e)
  <2> DEFINE completes == Holds(w, e, c.token) /\ e \in live
             goal == IF completes THEN c.goal ELSE "expired"
             d == [c EXCEPT !.stage = "final", !.goal = goal]
  <2>1. Becomes(w, e, d) /\ (completes => lease' = [lease EXCEPT ![e] = Unleased("completed", 0)])
                         /\ (~completes => lease' = lease)
    BY <1>10 DEF CompleteLease
  <2>2. d.goal = goal /\ d.stage = "final"
    BY <1>1 DEF Context
  <2>3. completes => lease'[e].phase = "completed"
    BY <2>1 DEF Unleased, TypeInv, TypeOK
  <2>4. Sound(d, lease'[e].phase)
    BY <2>2, <2>3 DEF Sound, Transition, Published
  <2>5. \A x \in Executions : x # e => lease'[x] = lease[x]
    BY <2>1 DEF TypeInv, TypeOK
  <2>6. \A v \in Workers : v # w => Sound(run[v][e], lease'[e].phase)
    BY <2>1, <2>3 DEF OutcomeInv, Sound
  <2>. QED
    BY <2>1, <2>4, <2>5, <2>6, BecomesOnly DEF OutcomeInv
<1>11. CASE Tidy(w, e)
  <2>1. UNCHANGED lease /\ Becomes(w, e, Idle)
    BY <1>11 DEF Tidy, Ended, leaseVars
  <2>. QED
    BY <1>1, <2>1, SoundContexts, SoundBecomes
<1>. QED
  BY <1>2, <1>3, <1>4, <1>5, <1>6, <1>7, <1>8, <1>9, <1>10, <1>11 DEF RunStep

LEMMA SoundInterruption ==
    ASSUME TypeInv, OutcomeInv, NEW w \in Workers, NEW e \in Executions, Interruption(w, e)
    PROVE  \A v \in Workers, x \in Executions : Sound(run'[v][x], lease'[x].phase)
<1>1. UNCHANGED lease
  BY DEF Interruption, PollMarker, RenewFails, TimesOut, ExceedsOutput, FirstOutput, StopCommand, KillShell,
         leaseVars
<1>2. CASE FirstOutput(w, e)
  <2>1. Becomes(w, e, [run[w][e] EXCEPT !.stage = "streaming", !.goal = "streaming"])
    BY <1>2 DEF FirstOutput
  <2>2. Sound([run[w][e] EXCEPT !.stage = "streaming", !.goal = "streaming"], lease[e].phase)
    BY RunFacts DEF Sound, Context, Transition
  <2>. QED
    BY <1>1, <2>1, <2>2, SoundBecomes
<1>3. CASE StopCommand(w, e) \/ KillShell(w, e)
  BY <1>1, <1>3 DEF StopCommand, KillShell, workerVars, OutcomeInv
<1>4. CASE \E reason : Stops(w, e, reason)
  BY <1>1, <1>4, SoundStops
<1>. QED
  BY <1>2, <1>3, <1>4 DEF Interruption, PollMarker, RenewFails, TimesOut, ExceedsOutput

\* The steps outside the runs start sound ones, end or detach them, or leave them.
LEMMA SoundRest ==
    ASSUME TypeInv, OutcomeInv,
           \/ \E w \in Workers : ExecutorStep(w) \/ AdoptionStep(w)
           \/ \E r \in Services : ServiceStep(r)
           \/ \E e \in Executions : CancelStep(e)
           \/ Environment
    PROVE  \A v \in Workers, x \in Executions : Sound(run'[v][x], lease[x].phase)
<1>1. CASE \E w \in Workers : RunClaimed(w)
  <2>1. PICK w \in Workers : RunClaimed(w)
    BY <1>1
  <2>2. exec[w].id \in Executions
    BY <2>1, TaskFacts DEF RunClaimed
  <2>3. run' = run \/ Becomes(w, exec[w].id, NewContext(exec[w].token))
    BY <2>1 DEF RunClaimed
  <2>. QED
    BY <2>2, <2>3, BecomesOnly, SoundStarts DEF OutcomeInv
<1>2. CASE \E w \in Workers : RunAdopted(w)
  <2>1. PICK w \in Workers : RunAdopted(w)
    BY <1>2
  <2>2. adopt[w].id \in Executions /\ rec[adopt[w].id] \in State
    BY <2>1, TaskFacts DEF RunAdopted, TypeInv, TypeOK
  <2>3. \/ run' = run
        \/ /\ rec[adopt[w].id] \notin TerminalState
           /\ \E command, reason :
                 Becomes(w, adopt[w].id, AdoptedContext(adopt[w].token, command, reason, rec[adopt[w].id]))
    BY <2>1 DEF RunAdopted
  <2>4. CASE run' = run
    BY <2>4 DEF OutcomeInv
  <2>5. CASE run' # run
    <3>1. PICK command, reason :
             Becomes(w, adopt[w].id, AdoptedContext(adopt[w].token, command, reason, rec[adopt[w].id]))
      BY <2>3, <2>5
    <3>2. rec[adopt[w].id] \in State \ TerminalState
      BY <2>2, <2>3, <2>5
    <3>3. \A phase : Sound(AdoptedContext(adopt[w].token, command, reason, rec[adopt[w].id]), phase)
      BY <3>2, SoundStarts
    <3>. QED
      BY <2>2, <3>1, <3>3, BecomesOnly DEF OutcomeInv
  <2>. QED
    BY <2>4, <2>5
<1>3. CASE \E w \in Workers : StopExecutor(w)
  <2>1. PICK w \in Workers : StopExecutor(w)
    BY <1>3
  <2>2. exec[w].id \in Executions /\ Stops(w, exec[w].id, "cancelled") /\ UNCHANGED lease
    BY <2>1, TaskFacts DEF StopExecutor, leaseVars
  <2>. QED
    BY <2>2, SoundStops
<1>4. CASE \E w \in Workers : Crash(w)
  <2>1. PICK w \in Workers : Crash(w)
    BY <1>4
  <2>2. run' = [run EXCEPT ![w] = [e \in Executions |-> Idle]]
    BY <2>1 DEF Crash
  <2>3. \A v \in Workers, x \in Executions : run'[v][x] = run[v][x] \/ run'[v][x] = Idle
    BY <2>2 DEF TypeInv, TypeOK
  <2>. QED
    BY <2>3, SoundContexts, RunFacts DEF OutcomeInv
<1>5. CASE \E w \in Workers, e \in Executions : Detach(w, e)
  <2>1. PICK w \in Workers, e \in Executions : Detach(w, e)
    BY <1>5
  <2>2. Becomes(w, e, [run[w][e] EXCEPT !.deaf = run[w][e].command # 0]) /\ UNCHANGED lease
    BY <2>1 DEF Detach, Becomes, leaseVars, TypeInv, TypeOK
  <2>3. Sound([run[w][e] EXCEPT !.deaf = run[w][e].command # 0], lease[e].phase)
    BY RunFacts DEF OutcomeInv, Sound, Context
  <2>. QED
    BY <2>2, <2>3, SoundBecomes
<1>6. CASE UNCHANGED run
  BY <1>6 DEF OutcomeInv
<1>. QED
  BY ZenonT(40), <1>1, <1>2, <1>3, <1>4, <1>5, <1>6
  DEF ExecutorStep, Poll, Release, Claim, ClaimDrop, ClaimConflict, ClaimRefused, Tries, AdoptionStep,
      Adopt, AdoptDrop, ServiceStep, ScanOrphan, ScanLease, Repair, CleanOrphan, RecoverRead, RecoverLease,
      RecoverWrite, CancelStep, CancelMark, CancelRead, CancelWrite, Environment, Expire, SessionEnds,
      CommandEnds, Attach, workerVars

LEMMA OutcomeStep == ASSUME TypeInv, OutcomeInv, [Next]_vars PROVE OutcomeInv'
<1>1. \A e \in Executions : lease[e].phase = "completed" => lease'[e].phase = "completed"
  BY LeaseMoves
<1>2. OutcomeIsOwned'
  BY <1>1, RecordMoves DEF OutcomeInv, OutcomeIsOwned, Sound, Published, Transition
<1>3. \A w \in Workers, e \in Executions : Sound(run'[w][e], lease'[e].phase)
  <2>1. CASE \E w \in Workers, e \in Executions : RunStep(w, e) \/ Interruption(w, e)
    BY <2>1, SoundRunStep, SoundInterruption
  <2>2. CASE UNCHANGED vars
    BY <2>2 DEF vars, leaseVars, workerVars, OutcomeInv
  <2>3. CASE \A w \in Workers, e \in Executions : Sound(run'[w][e], lease[e].phase)
    BY <1>1, <2>3 DEF Sound
  <2>. QED
    BY <2>1, <2>2, <2>3, SoundRest DEF Next
<1>. QED
  BY <1>2, <1>3 DEF OutcomeInv

\* An outcome is recorded only for an execution whose lease was completed, so
\* two workers never publish outcomes of the same execution.
THEOREM OutcomesAreOwned == Spec => []OutcomeIsOwned
<1>1. Init => OutcomeInv
  BY SoundStarts DEF Init, OutcomeInv, OutcomeIsOwned, Sound, Idle, Transition
<1>2. OutcomeInv => OutcomeIsOwned
  BY DEF OutcomeInv
<1>. QED
  BY <1>1, <1>2, TypeInvariant, OutcomeStep, PTL DEF Spec

-----------------------------------------------------------------------------
(* Leases of child processes are worked. *)

\* An executor that is idle has forgotten its task, and a lease has an owner.
HeldInv ==
    /\ HeldIsWorked
    /\ \A w \in Workers : exec[w].phase = "idle" => exec[w] = NoTask
    /\ \A e \in Executions : Leased(e) => lease[e].owner \in Workers

\* No step changes what the workers run on.
LEMMA RuntimeStays == ASSUME [Next]_vars PROVE persistent' = persistent
<1>1. CASE \E w \in Workers : ExecutorStep(w) \/ AdoptionStep(w)
  <2>1. CASE \E w \in Workers : ExecutorStep(w)
    BY <2>1
    DEF ExecutorStep, Poll, RunClaimed, Release, Claim, ClaimDrop, ClaimConflict, ClaimRefused, Tries,
        sessionVars
  <2>2. CASE \E w \in Workers : AdoptionStep(w)
    BY <2>2 DEF AdoptionStep, RunAdopted, Adopt, AdoptDrop, sessionVars
  <2>. QED
    BY <1>1, <2>1, <2>2
<1>2. CASE \E w \in Workers, e \in Executions : RunStep(w, e)
  <2>1. PICK w \in Workers, e \in Executions : RunStep(w, e)
    BY <1>2
  <2>2. UNCHANGED sessionVars
    BY <2>1
    DEF RunStep, ReadRecord, WriteRecord, CheckSession, CheckMarker, Dispatch, DispatchAttach,
        DispatchFails, PersistMetadata, ExitObserved, CompleteLease, Tidy
  <2>. QED
    BY <2>2 DEF sessionVars
<1>3. CASE \E w \in Workers, e \in Executions : Interruption(w, e)
  BY <1>3
  DEF Interruption, PollMarker, RenewFails, TimesOut, ExceedsOutput, FirstOutput, StopCommand, KillShell,
      sessionVars
<1>4. CASE \E r \in Services : ServiceStep(r)
  BY <1>4
  DEF ServiceStep, ScanOrphan, ScanLease, Repair, CleanOrphan, RecoverRead, RecoverLease, RecoverWrite,
      sessionVars
<1>5. CASE \E e \in Executions : CancelStep(e)
  BY <1>5 DEF CancelStep, CancelMark, CancelRead, CancelWrite, sessionVars
<1>6. CASE Environment
  BY <1>6
  DEF Environment, Expire, SessionEnds, CommandEnds, Crash, StopExecutor, Detach, Attach, sessionVars
<1>7. CASE UNCHANGED vars
  BY <1>7 DEF vars, sessionVars
<1>. QED
  BY <1>1, <1>2, <1>3, <1>4, <1>5, <1>6, <1>7 DEF Next

\* What a recovery or a release leaves behind is no lease.
LEMMA AfterPhases ==
    ASSUME NEW e \in Executions
    PROVE  AfterRecover(e).phase # "leased" /\ AfterRelease(e).phase # "leased"
BY DEF AfterRecover, AfterRelease, Unleased

\* Leases that stay, end or expire, and tasks that stay what they are.
Ebbs(e) ==
    \/ lease'[e] = lease[e]
    \/ lease'[e].phase # "leased"
    \/ lease'[e].phase = "leased" /\ lease'[e].expired /\ lease'[e].owner = lease[e].owner /\ Leased(e)

Keeps(w) ==
    \/ exec'[w] = exec[w]
    \/ /\ exec'[w].id = exec[w].id /\ exec'[w].token = exec[w].token
       /\ exec'[w].phase # "idle"
    \/ w \in Crashing /\ exec'[w] = NoTask

LEMMA HeldEbbs ==
    ASSUME TypeInv, HeldInv, persistent' = persistent, live' \subseteq live,
           \A e \in Executions : Ebbs(e), \A w \in Workers : Keeps(w)
    PROVE  HeldInv'
<1>1. \A w \in Workers : exec'[w].phase = "idle" => exec'[w] = NoTask
  BY DEF HeldInv, Keeps
<1>2. \A e \in Executions : lease'[e].phase = "leased" => lease'[e].owner \in Workers
  BY DEF HeldInv, Ebbs, Leased
<1>3. ASSUME ~persistent, NEW e \in Executions, e \in live', lease'[e].phase = "leased", ~lease'[e].expired,
             lease'[e].owner \notin Crashing
      PROVE  exec'[lease'[e].owner].id = e /\ exec'[lease'[e].owner].token = lease'[e].token
  <2>1. lease'[e] = lease[e] /\ Leased(e) /\ ~Expired(e) /\ e \in live
    BY <1>3 DEF Ebbs, Leased, Expired
  <2>2. lease[e].owner \in Workers
    BY <2>1 DEF HeldInv
  <2>3. exec[lease[e].owner].id = e /\ exec[lease[e].owner].token = lease[e].token
    BY <1>3, <2>1 DEF HeldInv, HeldIsWorked
  <2>. QED
    BY <1>3, <2>1, <2>2, <2>3 DEF Keeps
<1>4. HeldIsWorked'
  BY <1>3 DEF HeldIsWorked, Leased, Expired
<1>. QED
  BY <1>1, <1>2, <1>4 DEF HeldInv, Leased

LEMMA HeldClaim ==
    ASSUME TypeInv, HeldInv, NEW w \in Workers, NEW e \in Executions, Claim(w, e)
    PROVE  HeldInv'
<1> DEFINE task == Task("handoff", e, tokens[e] + 1)
           granted == [phase |-> "leased", owner |-> w, token |-> tokens[e] + 1, expired |-> FALSE,
                       attempt |-> lease[e].attempt + 1]
<1>1. /\ exec' = [exec EXCEPT ![w] = task] /\ lease' = [lease EXCEPT ![e] = granted]
      /\ live' = live /\ persistent' = persistent /\ exec[w].phase = "idle"
  BY DEF Claim, Tries, Grant, sessionVars
<1>2. exec'[w] = task /\ \A v \in Workers : v # w => exec'[v] = exec[v]
  BY <1>1 DEF TypeInv, TypeOK
<1>3. lease'[e] = granted /\ \A x \in Executions : x # e => lease'[x] = lease[x]
  BY <1>1 DEF TypeInv, TypeOK
<1>4. task.phase = "handoff" /\ task.id = e /\ task.token = tokens[e] + 1
  BY DEF Task
<1>5. exec[w].id = None
  BY <1>1 DEF HeldInv, NoTask
<1>6. None \notin Executions
  BY ExecutionAssumption
<1>7. HeldIsWorked'
  <2> SUFFICES ASSUME ~persistent, NEW x \in Executions, x \in live, lease'[x].phase = "leased",
                      ~lease'[x].expired, lease'[x].owner \notin Crashing
               PROVE  exec'[lease'[x].owner].id = x /\ exec'[lease'[x].owner].token = lease'[x].token
    BY <1>1 DEF HeldIsWorked, Leased, Expired
  <2>1. CASE x = e
    BY <2>1, <1>2, <1>3, <1>4
  <2>2. CASE x # e
    <3>1. lease[x].owner \in Workers /\ exec[lease[x].owner].id = x /\ exec[lease[x].owner].token = lease[x].token
      BY <1>3, <2>2 DEF HeldInv, HeldIsWorked, Leased, Expired
    <3>2. lease[x].owner # w
      BY <3>1, <1>5, <1>6
    <3>. QED
      BY <2>2, <3>1, <3>2, <1>2, <1>3
  <2>. QED
    BY <2>1, <2>2
<1>8. \A v \in Workers : exec'[v].phase = "idle" => exec'[v] = NoTask
  BY <1>2, <1>4 DEF HeldInv
<1>9. \A x \in Executions : lease'[x].phase = "leased" => lease'[x].owner \in Workers
  BY <1>3 DEF HeldInv, Leased
<1>. QED
  BY <1>7, <1>8, <1>9 DEF HeldInv, Leased

\* An executor that lets go of its task gives the lease back if it still holds it.
LEMMA HeldRelease ==
    ASSUME TypeInv, HeldInv, NEW w \in Workers, Release(w)
    PROVE  HeldInv'
<1> DEFINE e == exec[w].id
           held == Holds(w, e, exec[w].token) /\ e \in live
<1>1. e \in Executions /\ exec' = [exec EXCEPT ![w] = NoTask] /\ live' = live /\ persistent' = persistent
  BY TaskFacts DEF Release, sessionVars
<1>2. exec'[w] = NoTask /\ \A v \in Workers : v # w => exec'[v] = exec[v]
  BY <1>1 DEF TypeInv, TypeOK
<1>3. \A x \in Executions : lease'[x] = lease[x] \/ lease'[x].phase # "leased"
  BY AfterPhases DEF Release, TypeInv, TypeOK
<1>4. held => lease'[e].phase # "leased"
  BY <1>1, AfterPhases DEF Release, TypeInv, TypeOK
<1>5. HeldIsWorked'
  <2> SUFFICES ASSUME ~persistent, NEW x \in Executions, x \in live, lease'[x].phase = "leased",
                      ~lease'[x].expired, lease'[x].owner \notin Crashing
               PROVE  exec'[lease'[x].owner].id = x /\ exec'[lease'[x].owner].token = lease'[x].token
    BY <1>1 DEF HeldIsWorked, Leased, Expired
  <2>1. lease'[x] = lease[x]
    BY <1>3
  <2>2. lease[x].owner \in Workers /\ exec[lease[x].owner].id = x /\ exec[lease[x].owner].token = lease[x].token
    BY <2>1 DEF HeldInv, HeldIsWorked, Leased, Expired
  <2>3. lease[x].owner # w
    BY <1>4, <2>1, <2>2 DEF Holds, Owns, Leased
  <2>. QED
    BY <1>2, <2>1, <2>2, <2>3
<1>6. \A v \in Workers : exec'[v].phase = "idle" => exec'[v] = NoTask
  BY <1>2 DEF HeldInv
<1>7. \A x \in Executions : lease'[x].phase = "leased" => lease'[x].owner \in Workers
  BY <1>3 DEF HeldInv, Leased
<1>. QED
  BY <1>5, <1>6, <1>7 DEF HeldInv, Leased

\* An adoption grants a lease that no executor works under, of a tmux shell.
LEMMA HeldAdopt ==
    ASSUME TypeInv, HeldInv, NEW w \in Workers, NEW e \in Executions, Adopt(w, e)
    PROVE  HeldInv'
<1>1. persistent' = TRUE /\ exec' = exec
  BY DEF Adopt, sessionVars, TypeInv, TypeOK
<1>2. \A x \in Executions : lease'[x] = lease[x] \/ lease'[x].owner = w
  BY DEF Adopt, Grant, TypeInv, TypeOK
<1>. QED
  BY <1>1, <1>2 DEF HeldInv, HeldIsWorked, Leased

\* A run that ends tells the executor that waits for it, and nobody else.
LEMMA EndedKeeps ==
    ASSUME TypeInv, NEW w \in Workers, NEW e \in Executions, Ended(w, e) \/ Throws(w, e)
    PROVE  \A v \in Workers : Keeps(v)
<1>1. exec' = exec \/ exec' = [exec EXCEPT ![w].phase = "release"]
  BY DEF Ended, Throws
<1>. QED
  BY <1>1 DEF Keeps, TypeInv, TypeOK, TaskOf

LEMMA HeldStep == ASSUME TypeInv, HeldInv, [Next]_vars PROVE HeldInv'
<1>1. persistent' = persistent
  BY RuntimeStays
<1>2. CASE UNCHANGED <<lease, exec>> /\ live' \subseteq live
  BY <1>1, <1>2, HeldEbbs DEF Ebbs, Keeps
<1>3. CASE \E w \in Workers : ExecutorStep(w)
  <2>1. PICK w \in Workers : ExecutorStep(w)
    BY <1>3
  <2>2. CASE Poll(w) \/ \E e \in Executions : ClaimRefused(w, e)
    <3>1. UNCHANGED <<lease, exec>> /\ live' \subseteq live
      BY <2>2 DEF Poll, ClaimRefused, Tries, leaseVars, sessionVars
    <3>. QED
      BY <3>1, <1>2
  <2>3. CASE RunClaimed(w)
    <3>1. lease' = lease /\ live' = live
      BY <2>3 DEF RunClaimed, leaseVars, sessionVars
    <3>2. exec' = [exec EXCEPT ![w].phase = "release"] \/ exec' = [exec EXCEPT ![w].phase = "waiting"]
      BY <2>3 DEF RunClaimed
    <3>3. \A v \in Workers : Keeps(v)
      BY <3>2 DEF Keeps, TypeInv, TypeOK, TaskOf
    <3>. QED
      BY <1>1, <3>1, <3>3, HeldEbbs DEF Ebbs
  <2>4. CASE \E e \in Executions : ClaimDrop(w, e) \/ ClaimConflict(w, e)
    <3>1. exec' = exec /\ live' = live
      BY <2>4 DEF ClaimDrop, ClaimConflict, Tries, sessionVars
    <3>2. \A x \in Executions : lease'[x] = lease[x] \/ lease'[x].phase # "leased"
      BY <2>4, AfterPhases DEF ClaimDrop, ClaimConflict, Unleased, TypeInv, TypeOK
    <3>. QED
      BY <1>1, <3>1, <3>2, HeldEbbs DEF Ebbs, Keeps
  <2>. QED
    BY <2>1, <2>2, <2>3, <2>4, HeldClaim, HeldRelease DEF ExecutorStep
<1>4. CASE \E w \in Workers : AdoptionStep(w)
  <2>1. CASE \E w \in Workers, e \in Executions : Adopt(w, e)
    BY <2>1, HeldAdopt
  <2>2. CASE \E w \in Workers, e \in Executions : AdoptDrop(w, e)
    <3>1. exec' = exec /\ live' = live
      BY <2>2 DEF AdoptDrop, workerVars, sessionVars
    <3>2. \A x \in Executions : lease'[x] = lease[x] \/ lease'[x].phase # "leased"
      BY <2>2 DEF AdoptDrop, Unleased, TypeInv, TypeOK
    <3>. QED
      BY <1>1, <3>1, <3>2, HeldEbbs DEF Ebbs, Keeps
  <2>3. CASE \E w \in Workers : RunAdopted(w)
    <3>1. UNCHANGED <<lease, exec>> /\ live' \subseteq live
      BY <2>3 DEF RunAdopted, leaseVars, sessionVars
    <3>. QED
      BY <3>1, <1>2
  <2>. QED
    BY <1>4, <2>1, <2>2, <2>3 DEF AdoptionStep
<1>5. CASE \E w \in Workers, e \in Executions : RunStep(w, e)
  <2>1. PICK w \in Workers, e \in Executions : RunStep(w, e)
    BY <1>5
  <2>2. live' = live
    BY <2>1
    DEF RunStep, ReadRecord, WriteRecord, CheckSession, CheckMarker, Dispatch, DispatchAttach, DispatchFails,
        PersistMetadata, ExitObserved, CompleteLease, Tidy, sessionVars
  <2>3. lease' = lease \/ lease' = [lease EXCEPT ![e] = Unleased("completed", 0)]
    BY <2>1
    DEF RunStep, ReadRecord, WriteRecord, CheckSession, CheckMarker, Dispatch, DispatchAttach, DispatchFails,
        PersistMetadata, ExitObserved, CompleteLease, Tidy, leaseVars
  <2>4. exec' = exec \/ Ended(w, e) \/ Throws(w, e)
    BY <2>1
    DEF RunStep, ReadRecord, WriteRecord, CheckSession, CheckMarker, Dispatch, DispatchAttach, DispatchFails,
        PersistMetadata, ExitObserved, CompleteLease, Tidy
  <2>5. \A x \in Executions : Ebbs(x)
    BY <2>3 DEF Ebbs, Unleased, TypeInv, TypeOK
  <2>6. \A v \in Workers : Keeps(v)
    BY <2>4, EndedKeeps DEF Keeps
  <2>. QED
    BY <1>1, <2>2, <2>5, <2>6, HeldEbbs
<1>6. CASE \E w \in Workers, e \in Executions : Interruption(w, e)
  <2>1. UNCHANGED <<lease, exec>> /\ live' \subseteq live
    BY <1>6
    DEF Interruption, PollMarker, RenewFails, TimesOut, ExceedsOutput, FirstOutput, StopCommand, KillShell,
        leaseVars, workerVars, sessionVars
  <2>. QED
    BY <2>1, <1>2
<1>7. CASE \E r \in Services : ServiceStep(r)
  <2>1. exec' = exec /\ live' = live
    BY <1>7
    DEF ServiceStep, ScanOrphan, ScanLease, Repair, CleanOrphan, RecoverRead, RecoverLease, RecoverWrite,
        workerVars, sessionVars
  <2>2. \/ lease' = lease
        \/ \E e \in Executions : lease' = [lease EXCEPT ![e] = AfterRecover(e)]
    BY <1>7
    DEF ServiceStep, ScanOrphan, ScanLease, Repair, CleanOrphan, RecoverRead, RecoverLease, RecoverWrite,
        leaseVars, TypeInv, Identified
  <2>3. \A x \in Executions : Ebbs(x)
    BY <2>2, AfterPhases DEF Ebbs, TypeInv, TypeOK
  <2>. QED
    BY <1>1, <2>1, <2>3, HeldEbbs DEF Keeps
<1>8. CASE \E e \in Executions : CancelStep(e)
  <2>1. UNCHANGED <<lease, exec>> /\ live' \subseteq live
    BY <1>8 DEF CancelStep, CancelMark, CancelRead, CancelWrite, leaseVars, workerVars, sessionVars
  <2>. QED
    BY <2>1, <1>2
<1>9. CASE Environment
  <2>1. CASE \E e \in Executions : Expire(e)
    <3>1. PICK e \in Executions : Expire(e)
      BY <2>1
    <3>2. exec' = exec /\ live' = live
      BY <3>1 DEF Expire, workerVars, sessionVars
    <3>3. lease' = [lease EXCEPT ![e].expired = TRUE] /\ lease \in [Executions -> LeaseRecord] /\ Leased(e)
      BY <3>1 DEF Expire, TypeInv, TypeOK, LeaseRecord
    <3>4. \A x \in Executions : Ebbs(x)
      BY <3>3 DEF Ebbs, LeaseRecord, Leased
    <3>. QED
      BY <1>1, <3>2, <3>4, HeldEbbs DEF Keeps
  <2>2. CASE \E w \in Workers : Crash(w)
    <3>1. PICK w \in Workers : Crash(w)
      BY <2>2
    <3>2. lease' = lease /\ live' = live /\ w \in Crashing /\ exec' = [exec EXCEPT ![w] = NoTask]
      BY <3>1 DEF Crash, leaseVars, sessionVars
    <3>3. \A v \in Workers : Keeps(v)
      BY <3>2 DEF Keeps, TypeInv, TypeOK
    <3>. QED
      BY <1>1, <3>2, <3>3, HeldEbbs DEF Ebbs
  <2>3. CASE ~(\E e \in Executions : Expire(e)) /\ ~(\E w \in Workers : Crash(w))
    <3>1. UNCHANGED <<lease, exec>> /\ live' \subseteq live
      BY <1>9, <2>3
      DEF Environment, SessionEnds, CommandEnds, StopExecutor, Detach, Attach, leaseVars, workerVars,
          sessionVars
    <3>. QED
      BY <3>1, <1>2
  <2>. QED
    BY <2>1, <2>2, <2>3
<1>10. CASE UNCHANGED vars
  BY <1>2, <1>10 DEF vars, leaseVars, workerVars, sessionVars
<1>. QED
  BY <1>3, <1>4, <1>5, <1>6, <1>7, <1>8, <1>9, <1>10 DEF Next

\* A lease of a child process that is neither expired nor orphaned by its session
\* is the one its holder's executor works under, short of a crash.
THEOREM HeldLeasesAreWorked == Spec => []HeldIsWorked
<1>1. Init => HeldInv
  BY DEF Init, HeldInv, HeldIsWorked, Leased, Unleased
<1>2. HeldInv => HeldIsWorked
  BY DEF HeldInv
<1>. QED
  BY <1>1, <1>2, TypeInvariant, HeldStep, PTL DEF Spec

-----------------------------------------------------------------------------
(* Child processes have an owner. *)

\* A run of a child process has a command only from its dispatch on, and is inside
\* the try block of execute() by then; a run that is finalized outside of it ends
\* in a state that every record accepts.
Begun(c) ==
    /\ c.stage # "adopt"
    /\ c.stage # "idle" => c.token # 0
    /\ c.stage \in {"idle", "leased", "session", "starting", "marker", "dispatch"} => c.command = 0
    /\ c.stage \in {"marker", "dispatch", "metadata", "running", "live", "streaming"} => c.guarded
    /\ c.stage \in {"complete", "final"} /\ ~c.guarded => c.goal \in Stopped
    /\ ~c.adopted

Begins ==
    /\ \A e \in Executions : 0 \notin shell[e]
    /\ \A w \in Workers : adopt[w].phase = "idle"
    /\ \A w \in Workers : exec[w].phase = "handoff" => exec[w].token # 0
    /\ \A w \in Workers, e \in Executions : Begun(run[w][e])

ProcessInv == ~persistent => Begins

\* What the coordinator makes of such a context.
LEMMA BegunFinalize ==
    ASSUME NEW c \in Context, Begun(c), c.stage # "idle", NEW goal \in State, c.guarded \/ goal \in Stopped
    PROVE  Begun(Finalize(c, goal)) /\ Finalize(c, goal).command = c.command
<1>1. /\ Finalize(c, goal).stage \in {"final", "complete"} /\ Finalize(c, goal).goal = goal
      /\ Finalize(c, goal).guarded = c.guarded /\ Finalize(c, goal).adopted = c.adopted
      /\ Finalize(c, goal).token = c.token /\ Finalize(c, goal).command = c.command
  BY DEF Finalize, Context
<1>. QED
  BY <1>1 DEF Begun

LEMMA BegunFailed ==
    ASSUME NEW c \in Context, Begun(c), c.stage # "idle"
    PROVE  /\ Begun([Finalize(c, "failed") EXCEPT !.guarded = FALSE])
           /\ [Finalize(c, "failed") EXCEPT !.guarded = FALSE].command = c.command
<1> DEFINE d == [Finalize(c, "failed") EXCEPT !.guarded = FALSE]
<1>1. /\ d.stage = "complete" /\ d.goal = "failed" /\ d.adopted = c.adopted
      /\ d.token = c.token /\ d.command = c.command
  BY DEF Finalize, Context
<1>. QED
  BY <1>1 DEF Begun, Stopped

LEMMA BegunProceed ==
    ASSUME NEW c \in Context, Begun(c), c.stage \in Transition, NEW s \in State
    PROVE  Begun(Proceed(c, s)) /\ Proceed(c, s).command = c.command
<1>1. c.stage \in {"leased", "starting", "running", "streaming", "final"}
  BY DEF Begun, Transition
<1>2. /\ Proceed(c, s).token = c.token /\ Proceed(c, s).adopted = c.adopted
      /\ Proceed(c, s).command = c.command
      /\ \/ c.stage = "leased" /\ Proceed(c, s).stage = "session"
         \/ c.stage = "starting" /\ Proceed(c, s).stage = "marker" /\ Proceed(c, s).guarded
         \/ c.stage = "final" /\ Proceed(c, s).stage = "tidy"
         \/ /\ c.stage \in {"running", "streaming"} /\ Proceed(c, s).stage = "live"
            /\ Proceed(c, s).guarded = c.guarded
  BY <1>1 DEF Proceed, Context
<1>. QED
  BY <1>1, <1>2 DEF Begun

LEMMA BegunStarts == Begun(Idle) /\ \A t : t # 0 => Begun(NewContext(t))
BY DEF Begun, NewContext, Idle

\* A context whose stop, reason, deafness, reads or knowledge change.
LEMMA BegunSame ==
    ASSUME NEW c \in Context, NEW d \in Context, Begun(c), d.stage = c.stage, d.token = c.token,
           d.command = c.command, d.guarded = c.guarded, d.goal = c.goal, d.adopted = c.adopted
    PROVE  Begun(d)
BY DEF Begun

\* The only run that a throw ends on the spot has no command to leave behind.
LEMMA BegunThrows ==
    ASSUME TypeInv, Begins, NEW w \in Workers, NEW e \in Executions, Throws(w, e), run[w][e].stage # "idle"
    PROVE  /\ Begun(run'[w][e])
           /\ run'[w][e].command = run[w][e].command \/ ~run[w][e].guarded
<1> DEFINE c == run[w][e]
           reason == IF c.reason \in {"expired", "timed_out"} THEN c.reason ELSE "failed"
           d == [c EXCEPT !.stage = "live", !.read = FALSE, !.stop = TRUE, !.reason = reason]
<1>1. c \in Context /\ Begun(c)
  BY RunFacts DEF Begins
<1>2. CASE c.stage = "streaming"
  <2>1. Becomes(w, e, d)
    BY <1>2 DEF Throws
  <2>2. d.stage = "live" /\ d.token = c.token /\ d.command = c.command /\ d.guarded = c.guarded /\ d.adopted = c.adopted
    BY <1>1 DEF Context
  <2>3. Begun(d)
    BY <1>1, <1>2, <2>2 DEF Begun
  <2>4. run'[w][e] = d
    BY <2>1, BecomesOnly
  <2>. QED
    BY <2>2, <2>3, <2>4
<1>3. CASE c.stage # "streaming" /\ c.guarded
  <2> DEFINE f == [Finalize(c, "failed") EXCEPT !.guarded = FALSE]
  <2>1. Becomes(w, e, f)
    BY <1>3 DEF Throws
  <2>2. Begun(f) /\ f.command = c.command
    BY <1>1, BegunFailed
  <2>3. run'[w][e] = f
    BY <2>1, BecomesOnly
  <2>. QED
    BY <2>2, <2>3
<1>4. CASE c.stage # "streaming" /\ ~c.guarded
  <2>1. Becomes(w, e, Idle)
    BY <1>4 DEF Throws, Ended
  <2>2. run'[w][e] = Idle
    BY <2>1, BecomesOnly
  <2>. QED
    BY <1>4, <2>2, BegunStarts
<1>. QED
  BY <1>2, <1>3, <1>4

\* A run that changes its command has left the one it had, if any, nowhere.
Leaves(w, e) == run'[w][e].command # run[w][e].command => run[w][e].command \notin shell'[e]

\* What a step of one run has to show.
LEMMA BegunBecomes ==
    ASSUME TypeInv, Begins, NEW w \in Workers, NEW e \in Executions, NEW d, Becomes(w, e, d), Begun(d),
           \/ d.command = run[w][e].command
           \/ run[w][e].command \notin shell'[e]
    PROVE  \A v \in Workers, x \in Executions : Begun(run'[v][x]) /\ Leaves(v, x)
<1>1. /\ run'[w][e] = d
      /\ \A v \in Workers, x \in Executions : v # w \/ x # e => run'[v][x] = run[v][x]
  BY BecomesOnly
<1>. QED
  BY <1>1 DEF Begins, Leaves

\* Only the dispatch of a run starts a command, known by the token of its lease.
LEMMA ShellMoves ==
    ASSUME TypeInv, [Next]_vars, NEW e \in Executions, NEW t \in shell'[e] \ shell[e]
    PROVE  \E w \in Workers : run[w][e].stage = "dispatch" /\ run[w][e].token = t
<1>1. shell \in [Executions -> SUBSET Token]
  BY DEF TypeInv, TypeOK
<1>2. CASE \E w \in Workers : ExecutorStep(w) \/ AdoptionStep(w)
  BY <1>2
  DEF ExecutorStep, AdoptionStep, Poll, RunClaimed, Release, Claim, ClaimDrop, ClaimConflict,
      ClaimRefused, Tries, RunAdopted, Adopt, AdoptDrop, commandVars
<1>3. CASE \E w \in Workers, x \in Executions : RunStep(w, x)
  <2>1. PICK w \in Workers, x \in Executions : RunStep(w, x)
    BY <1>3
  <2>2. \/ UNCHANGED shell
        \/ shell' = [shell EXCEPT ![x] = @ \ {run[w][x].command}]
        \/ run[w][x].stage = "dispatch" /\ shell' = [shell EXCEPT ![x] = @ \cup {run[w][x].token}]
    BY <2>1
    DEF RunStep, ReadRecord, WriteRecord, CheckSession, CheckMarker, Dispatch, DispatchAttach,
        DispatchFails, PersistMetadata, ExitObserved, CompleteLease, Tidy, commandVars
  <2>. QED
    BY <1>1, <2>2
<1>4. CASE \E w \in Workers, x \in Executions : Interruption(w, x)
  <2>1. PICK w \in Workers, x \in Executions : Interruption(w, x)
    BY <1>4
  <2>2. \/ UNCHANGED shell \/ shell' = [shell EXCEPT ![x] = @ \ {run[w][x].command}]
        \/ shell' = [shell EXCEPT ![x] = {}]
    BY <2>1
    DEF Interruption, PollMarker, RenewFails, TimesOut, ExceedsOutput, FirstOutput, StopCommand, KillShell,
        commandVars
  <2>. QED
    BY <1>1, <2>2
<1>5. CASE \E r \in Services : ServiceStep(r)
  <2>1. PICK r \in Services : ServiceStep(r)
    BY <1>5
  <2>2. UNCHANGED shell \/ shell' = [shell EXCEPT ![service[r].id] = @ \ {runtime[service[r].id]}]
    BY <2>1
    DEF ServiceStep, ScanOrphan, ScanLease, Repair, CleanOrphan, RecoverRead, RecoverLease, RecoverWrite,
        commandVars
  <2>. QED
    BY <1>1, <2>2
<1>6. CASE \E x \in Executions : CancelStep(x)
  BY <1>6 DEF CancelStep, CancelMark, CancelRead, CancelWrite, commandVars
<1>7. CASE Environment
  <2>1. UNCHANGED shell \/ \E x \in Executions, d \in Token : shell' = [shell EXCEPT ![x] = @ \ {d}]
    BY <1>1, <1>7
    DEF Environment, Expire, SessionEnds, CommandEnds, Crash, StopExecutor, Detach, Attach, commandVars
  <2>. QED
    BY <1>1, <2>1
<1>8. CASE UNCHANGED vars
  BY <1>8 DEF vars, commandVars
<1>. QED
  BY <1>2, <1>3, <1>4, <1>5, <1>6, <1>7, <1>8 DEF Next

\* No dispatch is known by 0.
LEMMA ShellsStep ==
    ASSUME TypeInv, ~persistent, Begins, [Next]_vars
    PROVE  \A e \in Executions : 0 \notin shell'[e]
BY ShellMoves DEF Begins, Begun

\* Nothing is adopted, and a claim hands over the number of a lease.
LEMMA TasksStep ==
    ASSUME TypeInv, ~persistent, Begins, [Next]_vars
    PROVE  /\ \A w \in Workers : adopt'[w].phase = "idle"
           /\ \A w \in Workers : exec'[w].phase = "handoff" => exec'[w].token # 0
<1>0. exec \in [Workers -> TaskOf] /\ adopt \in [Workers -> TaskOf] /\ NoTask.phase = "idle"
  BY DEF TypeInv, TypeOK, NoTask
<1>1. CASE UNCHANGED <<exec, adopt>>
  BY <1>1 DEF Begins
<1>2. CASE \E w \in Workers : ExecutorStep(w)
  <2>1. PICK w \in Workers : ExecutorStep(w)
    BY <1>2
  <2>2. UNCHANGED adopt
    BY <2>1
    DEF ExecutorStep, Poll, RunClaimed, Release, Claim, ClaimDrop, ClaimConflict, ClaimRefused, Tries
  <2>3. CASE \E e \in Executions : Claim(w, e)
    <3>1. PICK e \in Executions : Claim(w, e)
      BY <2>3
    <3>2. exec' = [exec EXCEPT ![w] = Task("handoff", e, tokens[e] + 1)]
      BY <3>1 DEF Claim
    <3>3. tokens[e] + 1 # 0
      BY ExecutionAssumption DEF TypeInv, TypeOK, Token
    <3>4. Task("handoff", e, tokens[e] + 1).token # 0
      BY <3>3 DEF Task
    <3>. QED
      BY <1>0, <2>2, <3>2, <3>4 DEF Begins
  <2>4. CASE ~ \E e \in Executions : Claim(w, e)
    <3>1. \/ exec' = exec \/ exec' = [exec EXCEPT ![w] = NoTask]
          \/ \E phase \in {"release", "waiting"} : exec' = [exec EXCEPT ![w].phase = phase]
      BY <2>1, <2>4
      DEF ExecutorStep, Poll, RunClaimed, Release, ClaimDrop, ClaimConflict, ClaimRefused, Tries, workerVars
    <3>2. \A phase : [exec[w] EXCEPT !.phase = phase].phase = phase
      BY <1>0 DEF TaskOf
    <3>. QED
      BY <1>0, <2>2, <3>1, <3>2 DEF Begins
  <2>. QED
    BY <2>3, <2>4
<1>3. CASE \E w \in Workers : AdoptionStep(w)
  <2>1. UNCHANGED <<exec, adopt>>
    BY <1>3 DEF AdoptionStep, RunAdopted, Adopt, AdoptDrop, Begins
  <2>. QED
    BY <1>1, <2>1
<1>4. CASE \E w \in Workers, e \in Executions : RunStep(w, e)
  <2>1. PICK w \in Workers, e \in Executions : RunStep(w, e)
    BY <1>4
  <2>2. /\ UNCHANGED adopt
        /\ exec' = exec \/ exec' = [exec EXCEPT ![w].phase = "release"]
    BY <2>1
    DEF RunStep, ReadRecord, WriteRecord, CheckSession, CheckMarker, Dispatch, DispatchAttach,
        DispatchFails, PersistMetadata, ExitObserved, CompleteLease, Tidy, Ended, Throws
  <2>3. [exec[w] EXCEPT !.phase = "release"].phase = "release"
    BY <1>0 DEF TaskOf
  <2>. QED
    BY <1>0, <2>2, <2>3 DEF Begins
<1>5. CASE \E w \in Workers, e \in Executions : Interruption(w, e)
  <2>1. UNCHANGED <<exec, adopt>>
    BY <1>5
    DEF Interruption, PollMarker, RenewFails, TimesOut, ExceedsOutput, FirstOutput, StopCommand, KillShell,
        workerVars
  <2>. QED
    BY <1>1, <2>1
<1>6. CASE \E r \in Services : ServiceStep(r)
  <2>1. UNCHANGED <<exec, adopt>>
    BY <1>6
    DEF ServiceStep, ScanOrphan, ScanLease, Repair, CleanOrphan, RecoverRead, RecoverLease, RecoverWrite,
        workerVars
  <2>. QED
    BY <1>1, <2>1
<1>7. CASE \E e \in Executions : CancelStep(e)
  <2>1. UNCHANGED <<exec, adopt>>
    BY <1>7 DEF CancelStep, CancelMark, CancelRead, CancelWrite, workerVars
  <2>. QED
    BY <1>1, <2>1
<1>8. CASE Environment
  <2>1. \/ UNCHANGED <<exec, adopt>>
        \/ \E w \in Workers : exec' = [exec EXCEPT ![w] = NoTask] /\ adopt' = [adopt EXCEPT ![w] = NoTask]
    BY <1>8
    DEF Environment, Expire, SessionEnds, CommandEnds, Crash, StopExecutor, Detach, Attach, workerVars
  <2>. QED
    BY <1>0, <1>1, <2>1 DEF Begins
<1>9. CASE UNCHANGED vars
  BY <1>1, <1>9 DEF vars, workerVars
<1>. QED
  BY <1>2, <1>3, <1>4, <1>5, <1>6, <1>7, <1>8, <1>9 DEF Next

\* A throw of a run that is guarded, or has no command.
LEMMA BegunLeaves ==
    ASSUME TypeInv, Begins, NEW w \in Workers, NEW e \in Executions, Throws(w, e), run[w][e].stage # "idle",
           run[w][e].guarded \/ run[w][e].command = 0, 0 \notin shell'[e]
    PROVE  \A v \in Workers, x \in Executions : Begun(run'[v][x]) /\ Leaves(v, x)
<1>1. \E d : Becomes(w, e, d)
  BY DEF Throws, Ended
<1>2. \A v \in Workers, x \in Executions : v # w \/ x # e => run'[v][x] = run[v][x]
  BY <1>1, BecomesOnly
<1>3. Begun(run'[w][e]) /\ Leaves(w, e)
  BY BegunThrows DEF Leaves
<1>. QED
  BY <1>2, <1>3 DEF Begins, Leaves

LEMMA BegunRunStep ==
    ASSUME TypeInv, ~persistent, Begins, NEW w \in Workers, NEW e \in Executions, RunStep(w, e),
           0 \notin shell'[e]
    PROVE  \A v \in Workers, x \in Executions : Begun(run'[v][x]) /\ Leaves(v, x)
<1> DEFINE c == run[w][e]
<1>1. c \in Context /\ Begun(c) /\ rec[e] \in State /\ Outcomes(c.reason) \subseteq State
  BY RunFacts, OutcomesType DEF Begins, TypeInv, TypeOK
<1>2. CASE ReadRecord(w, e)
  <2> DEFINE d == [c EXCEPT !.read = TRUE, !.known = rec[e]]
  <2>1. c.stage \in Transition
    BY <1>2 DEF ReadRecord
  <2>2. CASE Becomes(w, e, d)
    <3>1. d \in Context
      BY <1>1 DEF Context
    <3>2. /\ d.stage = c.stage /\ d.token = c.token /\ d.command = c.command /\ d.guarded = c.guarded
          /\ d.goal = c.goal /\ d.adopted = c.adopted
      BY <1>1 DEF Context
    <3>3. Begun(d)
      BY <1>1, <3>1, <3>2, BegunSame
    <3>. QED
      BY <2>2, <3>2, <3>3, BegunBecomes
  <2>3. CASE Becomes(w, e, Proceed(c, rec[e]))
    <3>1. Begun(Proceed(c, rec[e])) /\ Proceed(c, rec[e]).command = c.command
      BY <1>1, <2>1, BegunProceed
    <3>. QED
      BY <2>3, <3>1, BegunBecomes
  <2>4. CASE Throws(w, e) /\ c.goal \notin Transitions(rec[e]) /\ rec[e] \notin TerminalState
    <3>1. Stopped \subseteq Transitions(rec[e])
      BY <1>1, <2>4 DEF Stopped, Transitions, State, ActiveState, TerminalState
    <3>2. c.guarded \/ c.command = 0
      <4>1. c.stage = "final" => c.guarded
        BY <1>1, <2>4, <3>1 DEF Begun
      <4>. QED
        BY <1>1, <2>1, <4>1 DEF Begun, Transition
    <3>3. c.stage # "idle"
      BY <2>1 DEF Transition
    <3>. QED
      BY <2>4, <3>2, <3>3, BegunLeaves
  <2>. QED
    BY <1>2, <2>2, <2>3, <2>4 DEF ReadRecord
<1>3. CASE WriteRecord(w, e)
  <2>1. c.stage \in Transition /\ Becomes(w, e, Proceed(c, rec'[e]))
    BY <1>3 DEF WriteRecord
  <2>2. rec'[e] \in State
    BY <1>3, WriteRecordType DEF TypeInv, TypeOK
  <2>3. Begun(Proceed(c, rec'[e])) /\ Proceed(c, rec'[e]).command = c.command
    BY <1>1, <2>1, <2>2, BegunProceed
  <2>. QED
    BY <2>1, <2>3, BegunBecomes
<1>4. CASE CheckSession(w, e)
  <2> DEFINE d == [c EXCEPT !.slot = TRUE, !.stage = "starting", !.goal = "starting"]
  <2>1. c.stage = "session" /\ ~c.adopted
    BY <1>1, <1>4 DEF CheckSession, Begun
  <2>2. \/ \E goal \in {"cancelled", "expired", "failed"} : Becomes(w, e, Finalize(c, goal))
        \/ Becomes(w, e, d)
    BY <1>4, <2>1 DEF CheckSession
  <2>3. d.stage = "starting" /\ d.token = c.token /\ d.command = c.command /\ d.adopted = c.adopted
    BY <1>1 DEF Context
  <2>4. Begun(d)
    BY <1>1, <2>1, <2>3 DEF Begun
  <2>5. \A goal \in {"cancelled", "expired", "failed"} :
           Begun(Finalize(c, goal)) /\ Finalize(c, goal).command = c.command
    BY <1>1, <2>1, BegunFinalize, Names DEF Stopped
  <2>. QED
    BY <2>2, <2>3, <2>4, <2>5, BegunBecomes
<1>5. CASE CheckMarker(w, e)
  <2> DEFINE d == [c EXCEPT !.stage = "running", !.goal = "running"]
             f == [c EXCEPT !.stage = "dispatch"]
  <2>1. c.stage = "marker" /\ ~c.adopted
    BY <1>1, <1>5 DEF CheckMarker, Begun
  <2>2. Becomes(w, e, Finalize(c, "cancelled")) \/ Becomes(w, e, d) \/ Becomes(w, e, f)
    BY <1>5, <2>1 DEF CheckMarker
  <2>3. /\ d.stage = "running" /\ d.token = c.token /\ d.command = c.command /\ d.adopted = c.adopted
        /\ d.guarded = c.guarded
        /\ f.stage = "dispatch" /\ f.token = c.token /\ f.command = c.command /\ f.adopted = c.adopted
        /\ f.guarded = c.guarded
    BY <1>1 DEF Context
  <2>4. Begun(d) /\ Begun(f)
    BY <1>1, <2>1, <2>3 DEF Begun
  <2>5. Begun(Finalize(c, "cancelled")) /\ Finalize(c, "cancelled").command = c.command
    BY <1>1, <2>1, BegunFinalize, Names DEF Stopped
  <2>. QED
    BY <2>2, <2>3, <2>4, <2>5, BegunBecomes
<1>6. CASE Dispatch(w, e)
  <2> DEFINE d == [c EXCEPT !.stage = "metadata", !.command = c.token]
  <2>1. c.stage = "dispatch" /\ Becomes(w, e, d)
    BY <1>6 DEF Dispatch
  <2>2. d.stage = "metadata" /\ d.token = c.token /\ d.adopted = c.adopted /\ d.guarded = c.guarded
    BY <1>1 DEF Context
  <2>3. Begun(d) /\ c.command = 0
    BY <1>1, <2>1, <2>2 DEF Begun
  <2>. QED
    BY <2>1, <2>3, BegunBecomes
<1>7. CASE DispatchAttach(w, e)
  BY <1>7 DEF DispatchAttach
<1>8. CASE DispatchFails(w, e)
  <2>1. Throws(w, e) /\ c.stage = "dispatch"
    BY <1>8 DEF DispatchFails
  <2>2. c.guarded
    BY <1>1, <2>1 DEF Begun
  <2>. QED
    BY <2>1, <2>2, BegunLeaves
<1>9. CASE PersistMetadata(w, e)
  <2>1. c.stage = "metadata"
        /\ \E stage \in {"running", "live"} : Becomes(w, e, [c EXCEPT !.stage = stage, !.goal = "running"])
    BY <1>9 DEF PersistMetadata
  <2>2. PICK stage \in {"running", "live"} : Becomes(w, e, [c EXCEPT !.stage = stage, !.goal = "running"])
    BY <2>1
  <2> DEFINE d == [c EXCEPT !.stage = stage, !.goal = "running"]
  <2>3. d.stage = stage /\ d.token = c.token /\ d.adopted = c.adopted /\ d.guarded = c.guarded
        /\ d.command = c.command
    BY <1>1 DEF Context
  <2>4. Begun(d)
    BY <1>1, <2>1, <2>3 DEF Begun
  <2>. QED
    BY <2>2, <2>3, <2>4, BegunBecomes
<1>10. CASE ExitObserved(w, e)
  <2>1. c.stage = "live" /\ \E goal \in Outcomes(c.reason) : Becomes(w, e, Finalize(c, goal))
    BY <1>10 DEF ExitObserved
  <2>2. c.guarded
    BY <1>1, <2>1 DEF Begun
  <2>3. \A goal \in State : Begun(Finalize(c, goal)) /\ Finalize(c, goal).command = c.command
    BY <1>1, <2>1, <2>2, BegunFinalize
  <2>. QED
    BY <1>1, <2>1, <2>3, BegunBecomes
<1>11. CASE CompleteLease(w, e)
  <2>1. c.stage = "complete"
        /\ \E goal \in {c.goal, "expired"} : Becomes(w, e, [c EXCEPT !.stage = "final", !.goal = goal])
    BY <1>11 DEF CompleteLease
  <2>2. PICK goal \in {c.goal, "expired"} : Becomes(w, e, [c EXCEPT !.stage = "final", !.goal = goal])
    BY <2>1
  <2> DEFINE d == [c EXCEPT !.stage = "final", !.goal = goal]
  <2>3. d.stage = "final" /\ d.token = c.token /\ d.adopted = c.adopted /\ d.guarded = c.guarded
        /\ d.command = c.command /\ d.goal = goal
    BY <1>1 DEF Context
  <2>4. Begun(d)
    BY <1>1, <2>1, <2>3 DEF Begun, Stopped
  <2>. QED
    BY <2>2, <2>3, <2>4, BegunBecomes
<1>12. CASE Tidy(w, e)
  <2>1. Becomes(w, e, Idle) /\ shell' = [shell EXCEPT ![e] = @ \ {c.command}]
    BY <1>12 DEF Tidy, Ended
  <2>2. c.command \notin shell'[e]
    BY <2>1 DEF TypeInv, TypeOK
  <2>. QED
    BY <2>1, <2>2, BegunStarts, BegunBecomes
<1>. QED
  BY <1>2, <1>3, <1>4, <1>5, <1>6, <1>7, <1>8, <1>9, <1>10, <1>11, <1>12 DEF RunStep

\* A run that is told to stop.
LEMMA BegunStops ==
    ASSUME TypeInv, Begins, NEW w \in Workers, NEW e \in Executions, NEW reason \in Reason, Stops(w, e, reason)
    PROVE  \A v \in Workers, x \in Executions : Begun(run'[v][x]) /\ Leaves(v, x)
<1> DEFINE c == run[w][e]
           d == [c EXCEPT !.reason = reason, !.stop = Attached(w, e)]
<1>1. c \in Context /\ Begun(c) /\ Attached(w, e) \in BOOLEAN
  BY RunFacts DEF Begins, Attached
<1>2. d \in Context /\ d.stage = c.stage /\ d.token = c.token /\ d.command = c.command
      /\ d.guarded = c.guarded /\ d.goal = c.goal /\ d.adopted = c.adopted
  BY <1>1 DEF Context
<1>3. Begun(d)
  BY <1>1, <1>2, BegunSame
<1>4. Becomes(w, e, d)
  BY DEF Stops, Becomes, TypeInv, TypeOK
<1>. QED
  BY <1>2, <1>3, <1>4, BegunBecomes

LEMMA BegunInterruption ==
    ASSUME TypeInv, ~persistent, Begins, NEW w \in Workers, NEW e \in Executions, Interruption(w, e)
    PROVE  \A v \in Workers, x \in Executions : Begun(run'[v][x]) /\ Leaves(v, x)
<1>1. CASE FirstOutput(w, e)
  <2> DEFINE c == run[w][e]
             d == [c EXCEPT !.stage = "streaming", !.goal = "streaming"]
  <2>1. c \in Context /\ Begun(c) /\ c.stage = "live" /\ Becomes(w, e, d)
    BY <1>1, RunFacts DEF Begins, FirstOutput
  <2>2. d.stage = "streaming" /\ d.token = c.token /\ d.command = c.command /\ d.guarded = c.guarded
        /\ d.adopted = c.adopted
    BY <2>1 DEF Context
  <2>3. Begun(d)
    BY <2>1, <2>2 DEF Begun
  <2>. QED
    BY <2>1, <2>2, <2>3, BegunBecomes
<1>2. CASE StopCommand(w, e) \/ KillShell(w, e)
  BY <1>2 DEF StopCommand, KillShell, workerVars, Begins, Leaves
<1>3. CASE \E reason \in Reason : Stops(w, e, reason)
  BY <1>3, BegunStops
<1>. QED
  BY <1>1, <1>2, <1>3, Names DEF Interruption, PollMarker, RenewFails, TimesOut, ExceedsOutput

\* Claimed runs begin without a command; a detached handle keeps the one it had.
LEMMA BegunRest ==
    ASSUME TypeInv, ~persistent, Begins,
           \A e \in Executions : 0 \notin shell'[e],
           \/ \E w \in Workers : ExecutorStep(w) \/ AdoptionStep(w)
           \/ \E r \in Services : ServiceStep(r)
           \/ \E e \in Executions : CancelStep(e)
           \/ Environment
    PROVE  \A v \in Workers, x \in Executions : Begun(run'[v][x]) /\ (v \notin Crashing => Leaves(v, x))
<1>1. CASE \E w \in Workers : RunClaimed(w)
  <2>1. PICK w \in Workers : RunClaimed(w)
    BY <1>1
  <2> DEFINE e == exec[w].id
  <2>2. e \in Executions /\ exec[w].token # 0
    BY <2>1, TaskFacts DEF RunClaimed, Begins
  <2>3. run' = run \/ (run[w][e].stage = "idle" /\ Becomes(w, e, NewContext(exec[w].token)))
    BY <2>1 DEF RunClaimed, Running
  <2>4. CASE run' = run
    BY <2>4 DEF Begins, Leaves
  <2>5. CASE run[w][e].stage = "idle" /\ Becomes(w, e, NewContext(exec[w].token))
    <3>1. Begun(NewContext(exec[w].token)) /\ run[w][e].command = 0
      BY <2>2, <2>5, BegunStarts DEF Begins, Begun
    <3>. QED
      BY <2>2, <2>5, <3>1, BegunBecomes
  <2>. QED
    BY <2>3, <2>4, <2>5
<1>2. CASE \E w \in Workers : RunAdopted(w)
  BY <1>2 DEF RunAdopted, Begins
<1>3. CASE \E w \in Workers : StopExecutor(w)
  <2>1. PICK w \in Workers : StopExecutor(w)
    BY <1>3
  <2>2. exec[w].id \in Executions /\ Stops(w, exec[w].id, "cancelled")
    BY <2>1, TaskFacts DEF StopExecutor
  <2>. QED
    BY <2>2, BegunStops, Names
<1>4. CASE \E w \in Workers : Crash(w)
  <2>1. PICK w \in Workers : Crash(w)
    BY <1>4
  <2>2. w \in Crashing /\ run' = [run EXCEPT ![w] = [e \in Executions |-> Idle]]
    BY <2>1 DEF Crash
  <2>3. \A v \in Workers, x \in Executions : run'[v][x] = IF v = w THEN Idle ELSE run[v][x]
    BY <2>2 DEF TypeInv, TypeOK
  <2>. QED
    BY <2>2, <2>3, BegunStarts DEF Begins, Leaves
<1>5. CASE \E w \in Workers, e \in Executions : Detach(w, e)
  <2>1. PICK w \in Workers, e \in Executions : Detach(w, e)
    BY <1>5
  <2> DEFINE c == run[w][e]
             d == [c EXCEPT !.deaf = c.command # 0]
  <2>2. c \in Context /\ Begun(c)
    BY RunFacts DEF Begins
  <2>3. d \in Context /\ d.stage = c.stage /\ d.token = c.token /\ d.command = c.command
        /\ d.guarded = c.guarded /\ d.goal = c.goal /\ d.adopted = c.adopted
    BY <2>2 DEF Context
  <2>4. Begun(d)
    BY <2>2, <2>3, BegunSame
  <2>5. Becomes(w, e, d)
    BY <2>1 DEF Detach, Becomes, TypeInv, TypeOK
  <2>. QED
    BY <2>3, <2>4, <2>5, BegunBecomes
<1>6. CASE UNCHANGED run
  BY <1>6 DEF Begins, Leaves
<1>. QED
  BY ZenonT(40), <1>1, <1>2, <1>3, <1>4, <1>5, <1>6
  DEF ExecutorStep, Poll, Release, Claim, ClaimDrop, ClaimConflict, ClaimRefused, Tries, AdoptionStep,
      Adopt, AdoptDrop, ServiceStep, ScanOrphan, ScanLease, Repair, CleanOrphan, RecoverRead, RecoverLease,
      RecoverWrite, CancelStep, CancelMark, CancelRead, CancelWrite, Environment, Expire, SessionEnds,
      CommandEnds, Attach, workerVars

LEMMA ProcessStep ==
    ASSUME TypeInv, ProcessInv, [Next]_vars
    PROVE  /\ ProcessInv'
           /\ ~persistent => \A w \in Workers \ Crashing, e \in Executions : Leaves(w, e)
<1>1. CASE persistent
  BY <1>1, RuntimeStays DEF ProcessInv
<1>2. CASE ~persistent
  <2>1. Begins /\ ~persistent'
    BY <1>2, RuntimeStays DEF ProcessInv
  <2>2. \A e \in Executions : 0 \notin shell'[e]
    BY <1>2, <2>1, ShellsStep
  <2>3. \A w \in Workers, e \in Executions : Begun(run'[w][e]) /\ (w \notin Crashing => Leaves(w, e))
    <3>1. CASE \E w \in Workers, e \in Executions : RunStep(w, e) \/ Interruption(w, e)
      BY <1>2, <2>1, <2>2, <3>1, BegunRunStep, BegunInterruption
    <3>2. CASE UNCHANGED vars
      BY <2>1, <3>2 DEF vars, workerVars, Begins, Leaves
    <3>. QED
      BY <1>2, <2>1, <2>2, <3>1, <3>2, BegunRest DEF Next
  <2>4. Begins'
    BY <1>2, <2>1, <2>2, <2>3, TasksStep DEF Begins
  <2>. QED
    BY <2>3, <2>4 DEF ProcessInv
<1>. QED
  BY <1>1, <1>2

\* A run that lets go of a child process, short of a crash, has ended it.
THEOREM ProcessesAreOwned == Spec => ProcessIsOwned
<1>1. Init => ProcessInv
  BY BegunStarts DEF Init, ProcessInv, Begins, NoTask
<1>2. TypeInv /\ ProcessInv /\ [Next]_vars =>
         [~persistent =>
            \A w \in Workers \ Crashing, e \in Executions :
               run'[w][e].command # run[w][e].command => run[w][e].command \notin shell'[e]]_vars
  BY ProcessStep DEF Leaves
<1>. QED
  BY <1>1, <1>2, TypeInvariant, ProcessStep, PTL DEF Spec, ProcessIsOwned

-----------------------------------------------------------------------------
(* Nothing starts for an execution whose record is terminal. *)

\* One worker, and no service that requeues or expires records behind its back.
Alone == Services = {} /\ \A v, w \in Workers : v = w

Before == {"leased", "adopt", "session", "starting", "marker"}

\* While a run is on its way to the marker a record can only have become terminal by a cancellation
\* of the queued execution, which has left a marker; it is queued no longer once the run has written it.
Timely(c, s, marked) ==
    /\ c.stage \in Before /\ s \in TerminalState => marked
    /\ c.stage = "dispatch" => s \notin TerminalState
    /\ c.stage \in {"complete", "final"} => c.goal \in TerminalState
    /\ s = "queued" => \/ c.stage = "idle"
                       \/ c.stage \in {"leased", "adopt"} /\ c.goal = "leased" /\ (c.read => c.known = "queued")

TimelyRuns == \A w \in Workers, e \in Executions : Timely(run[w][e], rec[e], e \in marker)
CancelsMark == \A e \in Executions : cancel[e] # "idle" /\ rec[e] = "queued" => e \in marker
LateInv == OutcomeInv /\ TimelyRuns /\ CancelsMark

\* What the coordinator makes of such a context.
LEMMA TimelyContexts ==
    ASSUME NEW c \in Context, NEW s \in State, NEW marked, Timely(c, s, marked)
    PROVE  /\ Timely(Idle, s, marked)
           /\ s # "queued" => \A goal \in TerminalState :
                 /\ Timely(Finalize(c, goal), s, marked)
                 /\ Timely([Finalize(c, goal) EXCEPT !.guarded = FALSE], s, marked)
<1>1. Timely(Idle, s, marked)
  BY DEF Timely, Idle, Before
<1>2. ASSUME NEW goal \in TerminalState, s # "queued"
      PROVE  /\ Timely(Finalize(c, goal), s, marked)
             /\ Timely([Finalize(c, goal) EXCEPT !.guarded = FALSE], s, marked)
  <2>1. Finalize(c, goal).stage \in {"final", "complete"} /\ Finalize(c, goal).goal = goal
    BY DEF Finalize, Context
  <2>2. /\ [Finalize(c, goal) EXCEPT !.guarded = FALSE].stage \in {"final", "complete"}
        /\ [Finalize(c, goal) EXCEPT !.guarded = FALSE].goal = goal
    BY DEF Finalize, Context
  <2>. QED
    BY <1>2, <2>1, <2>2 DEF Timely, Before
<1>. QED
  BY <1>1, <1>2

\* A run goes on behind a record that is not queued.
LEMMA TimelyProceeds ==
    ASSUME NEW c \in Context, NEW s \in State \ {"queued"}, NEW marked, c.stage \in Transition,
           c.stage \in Before /\ s \in TerminalState => marked
    PROVE  Timely(Proceed(c, s), s, marked)
<1>1. \/ c.stage = "adopt" /\ Proceed(c, s).stage \in {"adopt", "session"}
      \/ c.stage = "leased" /\ Proceed(c, s).stage = "session"
      \/ c.stage = "starting" /\ Proceed(c, s).stage = "marker"
      \/ Proceed(c, s).stage \in {"tidy", "live"}
  BY DEF Proceed, Context, Transition
<1>. QED
  BY <1>1 DEF Timely, Before

\* A step of the one run of an execution; the others stay as they are.
LEMMA TimelyBecomes ==
    ASSUME Alone, TypeInv, TimelyRuns, NEW w \in Workers, NEW e \in Executions, NEW d, Becomes(w, e, d),
           Timely(d, rec'[e], e \in marker'),
           \A x \in Executions : x # e => rec'[x] = rec[x] /\ (x \in marker' <=> x \in marker)
    PROVE  TimelyRuns'
<1>1. /\ run'[w][e] = d
      /\ \A v \in Workers, x \in Executions : v # w \/ x # e => run'[v][x] = run[v][x]
  BY BecomesOnly
<1>2. ASSUME NEW v \in Workers, NEW x \in Executions
      PROVE  Timely(run'[v][x], rec'[x], x \in marker')
  <2>1. v = w
    BY DEF Alone
  <2>2. CASE x = e
    BY <1>1, <2>1, <2>2
  <2>3. CASE x # e
    <3>1. run'[v][x] = run[v][x] /\ rec'[x] = rec[x] /\ (x \in marker') = (x \in marker)
      BY <1>1, <2>3
    <3>. QED
      BY <3>1 DEF TimelyRuns
  <2>. QED
    BY <2>2, <2>3
<1>. QED
  BY <1>2 DEF TimelyRuns

LEMMA TimelyThrows ==
    ASSUME Alone, TypeInv, TimelyRuns, NEW w \in Workers, NEW e \in Executions, Throws(w, e), rec[e] # "queued",
           UNCHANGED <<rec, marker>>
    PROVE  TimelyRuns'
<1> DEFINE c == run[w][e]
           d == [c EXCEPT !.stage = "live", !.read = FALSE, !.stop = TRUE,
                    !.reason = IF @ \in {"expired", "timed_out"} THEN @ ELSE "failed"]
<1>1. c \in Context /\ rec[e] \in State /\ Timely(c, rec[e], e \in marker)
  BY RunFacts DEF TimelyRuns, TypeInv, TypeOK
<1>2. d.stage = "live"
  BY <1>1 DEF Context
<1>3. Timely(d, rec[e], e \in marker)
  BY <1>2 DEF Timely, Before
<1>4. \/ Becomes(w, e, d)
      \/ Becomes(w, e, [Finalize(c, "failed") EXCEPT !.guarded = FALSE])
      \/ Becomes(w, e, Idle)
  BY DEF Throws, Ended
<1>5. /\ Timely([Finalize(c, "failed") EXCEPT !.guarded = FALSE], rec[e], e \in marker)
      /\ Timely(Idle, rec[e], e \in marker)
  BY <1>1, TimelyContexts DEF TerminalState
<1>. QED
  BY <1>3, <1>4, <1>5, TimelyBecomes

LEMMA TimelyStops ==
    ASSUME Alone, TypeInv, TimelyRuns, NEW w \in Workers, NEW e \in Executions, NEW reason, Stops(w, e, reason),
           UNCHANGED rec, marker' \in {marker, marker \cup {e}}
    PROVE  TimelyRuns'
<1> DEFINE c == run[w][e]
           d == [c EXCEPT !.reason = reason, !.stop = Attached(w, e)]
<1>1. c \in Context /\ Timely(c, rec[e], e \in marker)
  BY RunFacts DEF TimelyRuns
<1>2. d.stage = c.stage /\ d.goal = c.goal /\ d.read = c.read /\ d.known = c.known
  BY <1>1 DEF Context
<1>3. Timely(d, rec'[e], e \in marker')
  BY <1>1, <1>2 DEF Timely
<1>4. Becomes(w, e, d)
  BY DEF Stops, Becomes, TypeInv, TypeOK
<1>. QED
  BY <1>3, <1>4, TimelyBecomes

LEMMA TimelyRunStep ==
    ASSUME Alone, TypeInv, OutcomeInv, TimelyRuns, NEW w \in Workers, NEW e \in Executions, RunStep(w, e)
    PROVE  TimelyRuns' /\ (rec[e] # "queued" => rec'[e] # "queued") /\ (rec[e] = "queued" => UNCHANGED marker)
<1> DEFINE c == run[w][e]
<1>1. /\ c \in Context /\ rec[e] \in State /\ Timely(c, rec[e], e \in marker) /\ Sound(c, lease[e].phase)
      /\ rec \in [Executions -> State] /\ c.reason \in Reason
  BY RunFacts DEF OutcomeInv, TimelyRuns, TypeInv, TypeOK
<1>2. rec[e] = "queued" =>
         c.stage \in {"idle", "leased", "adopt"} /\ (c.stage # "idle" => c.goal = "leased" /\ (c.read => c.known = "queued"))
  BY <1>1 DEF Timely
<1>3. Outcomes(c.reason) \subseteq TerminalState /\ {"cancelled", "expired", "failed"} \subseteq TerminalState
  BY <1>1 DEF Outcomes, Reason, TerminalState
<1>4. ASSUME UNCHANGED <<rec, marker>>, TimelyRuns'
      PROVE  TimelyRuns' /\ (rec[e] # "queued" => rec'[e] # "queued") /\ (rec[e] = "queued" => UNCHANGED marker)
  BY <1>4
<1>5. CASE ReadRecord(w, e)
  <2>1. UNCHANGED <<rec, marker>> /\ c.stage \in Transition
    BY <1>5 DEF ReadRecord, storeVars
  <2>2. CASE Becomes(w, e, [c EXCEPT !.read = TRUE, !.known = rec[e]])
    <3> DEFINE d == [c EXCEPT !.read = TRUE, !.known = rec[e]]
    <3>1. d.stage = c.stage /\ d.goal = c.goal /\ d.known = rec[e]
      BY <1>1 DEF Context
    <3>2. Timely(d, rec[e], e \in marker)
      BY <1>1, <3>1 DEF Timely
    <3>. QED
      BY <1>4, <2>1, <2>2, <3>2, TimelyBecomes
  <2>3. CASE Becomes(w, e, Proceed(c, rec[e])) /\ rec[e] \in TerminalState
    <3>1. Timely(Proceed(c, rec[e]), rec[e], e \in marker)
      <4>1. rec[e] # "queued"
        BY <2>3 DEF TerminalState
      <4>2. c.stage \in Before /\ rec[e] \in TerminalState => e \in marker
        BY <1>1 DEF Timely
      <4>. QED
        BY <1>1, <2>1, <4>1, <4>2, TimelyProceeds
    <3>. QED
      BY <1>4, <2>1, <2>3, <3>1, TimelyBecomes
  <2>4. CASE Throws(w, e) /\ c.goal \notin Transitions(rec[e])
    <3>1. rec[e] # "queued"
      <4>1. "leased" \in Transitions("queued")
        BY DEF Transitions
      <4>. QED
        BY <1>2, <2>1, <2>4, <4>1 DEF Transition
    <3>. QED
      BY <1>4, <2>1, <2>4, <3>1, TimelyThrows
  <2>. QED
    BY <1>5, <2>2, <2>3, <2>4 DEF ReadRecord
<1>6. CASE WriteRecord(w, e)
  <2>1. c.stage \in Transition /\ c.read /\ Becomes(w, e, Proceed(c, rec'[e])) /\ UNCHANGED marker
    BY <1>6 DEF WriteRecord
  <2>2. \/ UNCHANGED rec /\ rec[e] # c.known
        \/ rec[e] = c.known /\ rec' = [rec EXCEPT ![e] = c.goal]
    BY <1>6 DEF WriteRecord, Store
  <2>3. c.goal # "queued" /\ (c.stage \in Before => c.goal \notin TerminalState)
    <3>1. CASE c.stage = "final"
      BY <1>1, <3>1 DEF Timely, TerminalState, Before
    <3>2. CASE c.stage # "final"
      BY <1>1, <2>1, <3>2 DEF Sound, Transition, TerminalState
    <3>. QED
      BY <3>1, <3>2
  <2>4. rec'[e] # "queued" /\ rec'[e] \in State /\ (rec'[e] = rec[e] \/ rec'[e] = c.goal)
        /\ \A x \in Executions : x # e => rec'[x] = rec[x]
    <3>1. CASE UNCHANGED rec /\ rec[e] # c.known
      <4>1. rec[e] # "queued"
        BY <1>2, <2>1, <3>1 DEF Transition
      <4>. QED
        BY <1>1, <3>1, <4>1
    <3>2. CASE rec' = [rec EXCEPT ![e] = c.goal]
      <4>1. c.goal \in State
        BY RunFacts
      <4>. QED
        BY <1>1, <2>3, <3>2, <4>1
    <3>. QED
      BY <2>2, <3>1, <3>2
  <2>5. c.stage \in Before /\ rec'[e] \in TerminalState => e \in marker
    BY <1>1, <2>3, <2>4 DEF Timely
  <2>6. Timely(Proceed(c, rec'[e]), rec'[e], e \in marker')
    BY <1>1, <2>1, <2>4, <2>5, TimelyProceeds
  <2>7. TimelyRuns'
    BY <2>1, <2>4, <2>6, TimelyBecomes
  <2>. QED
    BY <2>1, <2>4, <2>7
<1>7. CASE CheckSession(w, e)
  <2>1. UNCHANGED <<rec, marker>> /\ c.stage = "session"
    BY <1>7 DEF CheckSession, storeVars
  <2>2. \/ \E goal \in Outcomes(c.reason) \cup {"cancelled", "expired", "failed"} :
              Becomes(w, e, Finalize(c, goal))
        \/ Becomes(w, e, [c EXCEPT !.slot = TRUE, !.stage = "marker", !.guarded = TRUE])
        \/ Becomes(w, e, [c EXCEPT !.slot = TRUE, !.stage = "starting", !.goal = "starting"])
    BY <1>7 DEF CheckSession
  <2>3. rec[e] # "queued" /\ (rec[e] \in TerminalState => e \in marker)
    BY <1>1, <2>1 DEF Timely, Before
  <2>4. /\ [c EXCEPT !.slot = TRUE, !.stage = "marker", !.guarded = TRUE].stage = "marker"
        /\ [c EXCEPT !.slot = TRUE, !.stage = "starting", !.goal = "starting"].stage = "starting"
    BY <1>1 DEF Context
  <2>5. /\ Timely([c EXCEPT !.slot = TRUE, !.stage = "marker", !.guarded = TRUE], rec[e], e \in marker)
        /\ Timely([c EXCEPT !.slot = TRUE, !.stage = "starting", !.goal = "starting"], rec[e], e \in marker)
    BY <2>3, <2>4 DEF Timely
  <2>6. \A goal \in Outcomes(c.reason) \cup {"cancelled", "expired", "failed"} :
           Timely(Finalize(c, goal), rec[e], e \in marker)
    BY <1>1, <1>3, <2>3, TimelyContexts
  <2>. QED
    BY <1>4, <2>1, <2>2, <2>5, <2>6, TimelyBecomes
<1>8. CASE CheckMarker(w, e)
  <2>1. UNCHANGED <<rec, marker>> /\ c.stage = "marker"
    BY <1>8 DEF CheckMarker, storeVars
  <2>2. \/ Becomes(w, e, Finalize(c, "cancelled"))
        \/ e \notin marker /\ \/ Becomes(w, e, [c EXCEPT !.stage = "running", !.goal = "running"])
                              \/ \E stage \in {"metadata", "dispatch"} : Becomes(w, e, [c EXCEPT !.stage = stage])
    BY <1>8 DEF CheckMarker
  <2>3. rec[e] # "queued" /\ (rec[e] \in TerminalState => e \in marker)
    BY <1>1, <2>1 DEF Timely, Before
  <2>4. /\ [c EXCEPT !.stage = "running", !.goal = "running"].stage = "running"
        /\ \A stage \in {"metadata", "dispatch"} : [c EXCEPT !.stage = stage].stage = stage
    BY <1>1 DEF Context
  <2>5. e \notin marker =>
           /\ Timely([c EXCEPT !.stage = "running", !.goal = "running"], rec[e], e \in marker)
           /\ \A stage \in {"metadata", "dispatch"} : Timely([c EXCEPT !.stage = stage], rec[e], e \in marker)
    BY <2>3, <2>4 DEF Timely, Before
  <2>6. Timely(Finalize(c, "cancelled"), rec[e], e \in marker)
    BY <1>1, <1>3, <2>3, TimelyContexts
  <2>. QED
    BY <1>4, <2>1, <2>2, <2>5, <2>6, TimelyBecomes
<1>9. CASE Dispatch(w, e) \/ DispatchAttach(w, e)
  <2>1. UNCHANGED <<rec, marker>> /\ c.stage = "dispatch"
    BY <1>9 DEF Dispatch, DispatchAttach, storeVars
  <2>2. \E command : Becomes(w, e, [c EXCEPT !.stage = "metadata", !.command = command])
    BY <1>9 DEF Dispatch, DispatchAttach
  <2>3. \A command : [c EXCEPT !.stage = "metadata", !.command = command].stage = "metadata"
    BY <1>1 DEF Context
  <2>4. \A command : Timely([c EXCEPT !.stage = "metadata", !.command = command], rec[e], e \in marker)
    BY <1>2, <2>1, <2>3 DEF Timely, Before
  <2>. QED
    BY <1>4, <2>1, <2>2, <2>4, TimelyBecomes
<1>10. CASE DispatchFails(w, e)
  <2>1. UNCHANGED <<rec, marker>> /\ c.stage = "dispatch" /\ Throws(w, e)
    BY <1>10 DEF DispatchFails, storeVars
  <2>. QED
    BY <1>2, <1>4, <2>1, TimelyThrows
<1>11. CASE PersistMetadata(w, e)
  <2>1. UNCHANGED <<rec, marker>> /\ c.stage = "metadata"
    BY <1>11 DEF PersistMetadata, storeVars
  <2>2. \E stage \in {"running", "live"} : Becomes(w, e, [c EXCEPT !.stage = stage, !.goal = "running"])
    BY <1>11 DEF PersistMetadata
  <2>3. \A stage \in {"running", "live"} : [c EXCEPT !.stage = stage, !.goal = "running"].stage = stage
    BY <1>1 DEF Context
  <2>4. \A stage \in {"running", "live"} : Timely([c EXCEPT !.stage = stage, !.goal = "running"], rec[e], e \in marker)
    BY <1>2, <2>1, <2>3 DEF Timely, Before
  <2>. QED
    BY <1>4, <2>1, <2>2, <2>4, TimelyBecomes
<1>12. CASE ExitObserved(w, e)
  <2>1. UNCHANGED <<rec, marker>> /\ c.stage = "live" /\ \E goal \in Outcomes(c.reason) : Becomes(w, e, Finalize(c, goal))
    BY <1>12 DEF ExitObserved, storeVars
  <2>2. \A goal \in Outcomes(c.reason) : Timely(Finalize(c, goal), rec[e], e \in marker)
    BY <1>1, <1>2, <1>3, <2>1, TimelyContexts
  <2>. QED
    BY <1>4, <2>1, <2>2, TimelyBecomes
<1>13. CASE CompleteLease(w, e)
  <2>1. UNCHANGED <<rec, marker>> /\ c.stage = "complete"
        /\ \E goal \in {c.goal, "expired"} : Becomes(w, e, [c EXCEPT !.stage = "final", !.goal = goal])
    BY <1>13 DEF CompleteLease, storeVars
  <2>2. \A goal \in {c.goal, "expired"} : /\ [c EXCEPT !.stage = "final", !.goal = goal].stage = "final"
                                          /\ [c EXCEPT !.stage = "final", !.goal = goal].goal = goal
    BY <1>1 DEF Context
  <2>3. c.goal \in TerminalState
    BY <1>1, <2>1 DEF Timely
  <2>4. \A goal \in {c.goal, "expired"} : Timely([c EXCEPT !.stage = "final", !.goal = goal], rec[e], e \in marker)
    BY <1>2, <1>3, <2>1, <2>2, <2>3 DEF Timely, Before
  <2>. QED
    BY <1>4, <2>1, <2>4, TimelyBecomes
<1>14. CASE Tidy(w, e)
  <2>1. UNCHANGED rec /\ c.stage = "tidy" /\ Becomes(w, e, Idle) /\ marker' = marker \ {e}
    BY <1>14 DEF Tidy, Ended
  <2>2. Timely(Idle, rec'[e], e \in marker')
    BY DEF Timely, Idle, Before
  <2>3. TimelyRuns'
    BY <2>1, <2>2, TimelyBecomes
  <2>. QED
    BY <1>2, <2>1, <2>3
<1>. QED
  BY <1>5, <1>6, <1>7, <1>8, <1>9, <1>10, <1>11, <1>12, <1>13, <1>14 DEF RunStep

LEMMA TimelyInterruption ==
    ASSUME Alone, TypeInv, TimelyRuns, NEW w \in Workers, NEW e \in Executions, Interruption(w, e)
    PROVE  TimelyRuns' /\ UNCHANGED <<rec, marker>>
<1>1. UNCHANGED <<rec, marker>>
  BY DEF Interruption, PollMarker, RenewFails, TimesOut, ExceedsOutput, FirstOutput, StopCommand, KillShell, storeVars
<1>2. CASE FirstOutput(w, e)
  <2> DEFINE c == run[w][e]
             d == [c EXCEPT !.stage = "streaming", !.goal = "streaming"]
  <2>1. c \in Context /\ c.stage = "live" /\ Becomes(w, e, d) /\ Timely(c, rec[e], e \in marker)
    BY <1>2, RunFacts DEF TimelyRuns, FirstOutput
  <2>2. d.stage = "streaming"
    BY <2>1 DEF Context
  <2>3. Timely(d, rec[e], e \in marker)
    BY <2>1, <2>2 DEF Timely, Before
  <2>. QED
    BY <1>1, <2>1, <2>3, TimelyBecomes
<1>3. CASE StopCommand(w, e) \/ KillShell(w, e)
  BY <1>1, <1>3 DEF StopCommand, KillShell, workerVars, TimelyRuns
<1>4. CASE \E reason : Stops(w, e, reason)
  BY <1>1, <1>4, TimelyStops
<1>. QED
  BY <1>1, <1>2, <1>3, <1>4 DEF Interruption, PollMarker, RenewFails, TimesOut, ExceedsOutput

\* Runs begin for records that are not terminal, and a queued execution is cancelled behind its marker.
LEMMA TimelyRest ==
    ASSUME Alone, TypeInv, TimelyRuns, CancelsMark,
           \/ \E w \in Workers : ExecutorStep(w) \/ AdoptionStep(w)
           \/ \E e \in Executions : CancelStep(e)
           \/ Environment
    PROVE  TimelyRuns' /\ CancelsMark'
<1>1. CASE \E w \in Workers : RunClaimed(w)
  <2>1. PICK w \in Workers : RunClaimed(w)
    BY <1>1
  <2> DEFINE e == exec[w].id
  <2>2. e \in Executions /\ UNCHANGED <<rec, marker, cancel>>
    BY <2>1, TaskFacts DEF RunClaimed, storeVars
  <2>3. run' = run \/ (rec[e] \notin TerminalState /\ Becomes(w, e, NewContext(exec[w].token)))
    BY <2>1 DEF RunClaimed
  <2>4. rec[e] \notin TerminalState => Timely(NewContext(exec[w].token), rec[e], e \in marker)
    BY DEF Timely, NewContext, Idle, Before
  <2>5. TimelyRuns'
    BY <2>2, <2>3, <2>4, TimelyBecomes DEF TimelyRuns
  <2>. QED
    BY <2>2, <2>5 DEF CancelsMark
<1>2. CASE \E w \in Workers : RunAdopted(w)
  <2>1. PICK w \in Workers : RunAdopted(w)
    BY <1>2
  <2> DEFINE e == adopt[w].id
  <2>2. e \in Executions /\ UNCHANGED <<rec, marker, cancel>>
    BY <2>1, TaskFacts DEF RunAdopted, storeVars
  <2>3. \/ run' = run
        \/ /\ rec[e] \notin TerminalState
           /\ \E command, reason : Becomes(w, e, AdoptedContext(adopt[w].token, command, reason, rec[e]))
    BY <2>1 DEF RunAdopted
  <2>4. rec[e] \notin TerminalState =>
           \A command, reason : Timely(AdoptedContext(adopt[w].token, command, reason, rec[e]), rec[e], e \in marker)
    BY DEF Timely, AdoptedContext, Idle, Before
  <2>5. TimelyRuns'
    BY <2>2, <2>3, <2>4, TimelyBecomes DEF TimelyRuns
  <2>. QED
    BY <2>2, <2>5 DEF CancelsMark
<1>3. CASE \E w \in Workers : StopExecutor(w)
  <2>1. PICK w \in Workers : StopExecutor(w)
    BY <1>3
  <2> DEFINE e == exec[w].id
  <2>2. e \in Executions /\ Stops(w, e, "cancelled") /\ UNCHANGED <<rec, cancel>> /\ marker' = marker \cup {e}
    BY <2>1, TaskFacts DEF StopExecutor
  <2>. QED
    BY <2>2, TimelyStops DEF CancelsMark
<1>4. CASE \E w \in Workers : Crash(w)
  <2>1. PICK w \in Workers : Crash(w)
    BY <1>4
  <2>2. run' = [run EXCEPT ![w] = [e \in Executions |-> Idle]] /\ UNCHANGED <<rec, marker, cancel>>
    BY <2>1 DEF Crash, storeVars
  <2>3. \A v \in Workers, x \in Executions : run'[v][x] = run[v][x] \/ run'[v][x] = Idle
    BY <2>2 DEF TypeInv, TypeOK
  <2>4. \A x \in Executions : Timely(Idle, rec[x], x \in marker)
    BY DEF Timely, Idle, Before
  <2>. QED
    BY <2>2, <2>3, <2>4 DEF TimelyRuns, CancelsMark
<1>5. CASE \E w \in Workers, e \in Executions : Detach(w, e)
  <2>1. PICK w \in Workers, e \in Executions : Detach(w, e)
    BY <1>5
  <2> DEFINE c == run[w][e]
             d == [c EXCEPT !.deaf = c.command # 0]
  <2>2. c \in Context /\ Timely(c, rec[e], e \in marker) /\ UNCHANGED <<rec, marker, cancel>>
    BY <2>1, RunFacts DEF TimelyRuns, Detach, storeVars
  <2>3. d.stage = c.stage /\ d.goal = c.goal /\ d.read = c.read /\ d.known = c.known
    BY <2>2 DEF Context
  <2>4. Timely(d, rec[e], e \in marker)
    BY <2>2, <2>3 DEF Timely
  <2>5. Becomes(w, e, d)
    BY <2>1 DEF Detach, Becomes, TypeInv, TypeOK
  <2>6. TimelyRuns'
    BY <2>2, <2>4, <2>5, TimelyBecomes
  <2>. QED
    BY <2>2, <2>6 DEF CancelsMark
<1>6. CASE \E e \in Executions : CancelStep(e)
  <2>1. PICK e \in Executions : CancelStep(e)
    BY <1>6
  <2>2. UNCHANGED run /\ cancel \in [Executions -> {"idle", "read", "write"}] /\ rec \in [Executions -> State]
    BY <2>1 DEF CancelStep, CancelMark, CancelRead, CancelWrite, workerVars, TypeInv, TypeOK
  <2>3. CASE CancelMark(e) \/ CancelRead(e)
    <3>1. /\ UNCHANGED rec /\ marker \subseteq marker'
          /\ \A x \in Executions : cancel'[x] # "idle" => cancel[x] # "idle" \/ x \in marker'
      BY <2>2, <2>3 DEF CancelMark, CancelRead, storeVars
    <3>2. TimelyRuns'
      <4>1. \A w \in Workers, x \in Executions : Timely(run[w][x], rec'[x], x \in marker')
        BY <3>1 DEF TimelyRuns, Timely
      <4>. QED
        BY <2>2, <4>1 DEF TimelyRuns
    <3>. QED
      BY <3>1, <3>2 DEF CancelsMark
  <2>4. CASE CancelWrite(e)
    <3>1. /\ cancel[e] = "write" /\ cancel' = [cancel EXCEPT ![e] = "idle"] /\ UNCHANGED marker
          /\ UNCHANGED rec \/ (rec[e] = "queued" /\ rec' = [rec EXCEPT ![e] = "cancelled"])
      BY <2>4 DEF CancelWrite, Store
    <3>2. CASE UNCHANGED rec
      BY <2>2, <3>1, <3>2 DEF TimelyRuns, CancelsMark
    <3>3. CASE rec[e] = "queued" /\ rec' = [rec EXCEPT ![e] = "cancelled"]
      <4>1. e \in marker /\ rec'[e] = "cancelled" /\ \A x \in Executions : x # e => rec'[x] = rec[x]
        BY <2>2, <3>1, <3>3 DEF CancelsMark
      <4>2. \A w \in Workers : run[w][e].stage \in {"idle", "leased", "adopt"}
        BY <3>3 DEF TimelyRuns, Timely
      <4>3. \A w \in Workers : Timely(run[w][e], rec'[e], e \in marker)
        BY <4>1, <4>2 DEF Timely
      <4>4. TimelyRuns'
        BY <2>2, <3>1, <4>1, <4>3 DEF TimelyRuns
      <4>. QED
        BY <2>2, <3>1, <4>1, <4>4 DEF CancelsMark
    <3>. QED
      BY <3>1, <3>2, <3>3
  <2>. QED
    BY <2>1, <2>3, <2>4 DEF CancelStep
<1>7. CASE UNCHANGED <<run, rec, marker, cancel>>
  BY <1>7 DEF TimelyRuns, CancelsMark
<1>. QED
  BY ZenonT(40), <1>1, <1>2, <1>3, <1>4, <1>5, <1>6, <1>7
  DEF ExecutorStep, Poll, Release, Claim, ClaimDrop, ClaimConflict, ClaimRefused, Tries, AdoptionStep,
      Adopt, AdoptDrop, Environment, Expire, SessionEnds, CommandEnds, Attach, workerVars, storeVars

LEMMA LateStep ==
    ASSUME Alone, TypeInv, LateInv, [Next]_vars
    PROVE  LateInv'
<1>1. OutcomeInv'
  BY OutcomeStep DEF LateInv
<1>2. CASE \E w \in Workers, e \in Executions : RunStep(w, e)
  <2>1. PICK w \in Workers, e \in Executions : RunStep(w, e)
    BY <1>2
  <2>2. TimelyRuns' /\ (rec[e] # "queued" => rec'[e] # "queued") /\ (rec[e] = "queued" => UNCHANGED marker)
    BY <2>1, TimelyRunStep DEF LateInv
  <2>3. UNCHANGED cancel /\ \A x \in Executions : x # e => rec'[x] = rec[x] /\ (x \in marker' <=> x \in marker)
    BY <2>1
    DEF RunStep, ReadRecord, WriteRecord, Store, CheckSession, CheckMarker, Dispatch, DispatchAttach,
        DispatchFails, PersistMetadata, ExitObserved, CompleteLease, Tidy, storeVars, TypeInv, TypeOK
  <2>. QED
    BY <1>1, <2>2, <2>3 DEF LateInv, CancelsMark
<1>3. CASE \E w \in Workers, e \in Executions : Interruption(w, e)
  <2>1. TimelyRuns' /\ UNCHANGED <<rec, marker>>
    BY <1>3, TimelyInterruption DEF LateInv
  <2>2. UNCHANGED cancel
    BY <1>3
    DEF Interruption, PollMarker, RenewFails, TimesOut, ExceedsOutput, FirstOutput, StopCommand, KillShell
  <2>. QED
    BY <1>1, <2>1, <2>2 DEF LateInv, CancelsMark
<1>4. CASE UNCHANGED vars
  BY <1>1, <1>4 DEF vars, storeVars, workerVars, LateInv, TimelyRuns, CancelsMark
<1>5. CASE \/ \E w \in Workers : ExecutorStep(w) \/ AdoptionStep(w)
           \/ \E e \in Executions : CancelStep(e)
           \/ Environment
  BY <1>1, <1>5, TimelyRest DEF LateInv
<1>. QED
  BY <1>2, <1>3, <1>4, <1>5 DEF Next, Alone

\* With one worker, and without a service that writes records behind its back, no command starts for
\* an execution whose record is terminal, whatever is cancelled, adopted, crashed or stopped meanwhile.
THEOREM NothingStartsLate ==
    ASSUME Services = {}, \A v, w \in Workers : v = w
    PROVE  Spec => NoLateStart
<1>0. Alone
  BY DEF Alone
<1>1. Init => LateInv
  <2>1. Init => OutcomeInv
    BY SoundStarts DEF Init, OutcomeInv, OutcomeIsOwned, Sound, Idle, Transition
  <2>2. Init => TimelyRuns /\ CancelsMark
    BY DEF Init, TimelyRuns, CancelsMark, Timely, Idle, Before
  <2>. QED
    BY <2>1, <2>2 DEF LateInv
<1>2. TypeInv /\ LateInv /\ [Next]_vars => LateInv'
  BY <1>0, LateStep
<1>3. TypeInv /\ LateInv /\ [Next]_vars =>
         [\A e \in Executions : rec[e] \in TerminalState => shell'[e] \subseteq shell[e]]_vars
  BY ShellMoves DEF LateInv, TimelyRuns, Timely
<1>. QED
  BY <1>1, <1>2, <1>3, TypeInvariant, PTL DEF Spec, NoLateStart
=============================================================================
