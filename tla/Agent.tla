-------------------------------- MODULE Agent --------------------------------
(* AgentManager of src/lib/agent.ts: sessions that go through analysis, planning and        *)
(* execution, over the recommendation engine, the reasoner and the memory they share.       *)
(*                                                                                          *)
(* analyze and plan are synchronous and are one step each; an execution is two, its start   *)
(* and its end, and everything else may happen between.  plan without an analysis and       *)
(* execute without a plan make the missing call first: that is the caller's two calls in a  *)
(* row.  The planner, the scheduler and the executor are taken by what the agent sees of    *)
(* them: they succeed or throw, and a plan has at most one execution context, for good.     *)
EXTENDS Memory, Reasoning

CONSTANTS
    SessionIds, None,
    Requests,        \* node sequences callers ask about; a node is [level, confidence]
    MinimumLevel,    \* minimumSeverityForAnalysis
    HaltOnBlocking   \* haltOnBlockingRecommendations

ASSUME AgentAssumption == HaltOnBlocking \in BOOLEAN /\ MinimumLevel \in Nat

VARIABLES
    sessions,    \* id -> [phase, nodes, analysis, plan, executed, halted, blocking, cancelled, running] or None
    contexts,    \* executor contexts by plan: [paused, cancelled, over]
    plans,       \* plans made
    counts,      \* [completed, failed, cancelled, halted]
    unapproved   \* sessions whose last analysis blocks and was not approved since; read by no action

agentVars == <<sessions, contexts, plans, counts, unapproved>>

AgentInit ==
    /\ sessions = [s \in SessionIds |-> None]
    /\ contexts = <<>> /\ plans = 0 /\ unapproved = {}
    /\ counts = [completed |-> 0, failed |-> 0, cancelled |-> 0, halted |-> 0]

Counted(c) == counts' = [counts EXCEPT ![c] = @ + 1]

Open(s) == sessions[s] # None

Idle(s) == Open(s) /\ ~sessions[s].running

CreateSession(s, nodes) ==
    /\ sessions[s] = None
    /\ sessions' = [sessions EXCEPT ![s] =
          [phase |-> "idle", nodes |-> nodes, analysis |-> None, plan |-> None, executed |-> FALSE,
           halted |-> FALSE, blocking |-> 0, cancelled |-> FALSE, running |-> FALSE]]
    /\ UNCHANGED <<contexts, plans, counts, unapproved>>

-----------------------------------------------------------------------------
(* Analysis *)

Selected(nodes) == SelectSeq(nodes, LAMBDA n : n.level >= MinimumLevel)

\* generateRecommendations: the engine is asked once for each node that is left.
RecommendationsFor(selected, found) == FlattenSeq([i \in DOMAIN selected |-> found])

\* runReasoning: a severity of every node, three insights of each that is left, and what was recommended.
EvidenceFor(nodes, selected, recommended) ==
    LET Of(type, seq, Title(_)) ==
            [i \in DOMAIN seq |-> [id |-> <<type, i>>, type |-> type, title |-> Title(seq[i]),
                                   confidence |-> seq[i].confidence]]
        Level(n) == n.level
    IN Of("severity", nodes, Level) \o Of("semantic", selected, Level) \o Of("impact", selected, Level)
         \o Of("behavior", selected, Level)
         \o [i \in DOMAIN recommended |->
                [id |-> <<"recommendation", recommended[i].id>>, type |-> "recommendation", title |-> recommended[i].title,
                 confidence |-> recommended[i].confidence]]

\* persistToMemory: an entry for the report, then one for each recommendation.
EntriesFor(s, recommended, confidence) ==
    LET id(i) == Len(heap) + i
    IN <<Entry(id(1), "session", <<"report", id(1)>>, confidence, {s, "reasoning-report"}, {}, now)>>
         \o [i \in DOMAIN recommended |->
                Entry(id(i + 1), "recommendation", <<"recommendation", recommended[i]>>,
                      recommended[i].confidence, {s, recommended[i].category}, {}, now)]

Failed(s) ==
    /\ sessions' = [sessions EXCEPT ![s].phase = "failed"]
    /\ Counted("failed")
    /\ UNCHANGED <<contexts, plans, unapproved>>

\* An approval is taken to hold for every later analysis.
AnalyzedOnce(s, recommended, entries) ==
    \E blocking \in {Len(SelectSeq(recommended, LAMBDA c : c.blocking))} :
       \E halts \in {blocking > 0 /\ HaltOnBlocking /\ sessions[s].analysis = None} :
          /\ sessions' = [sessions EXCEPT ![s] =
                [@ EXCEPT !.analysis = {entries[i].id : i \in DOMAIN entries},
                          !.phase    = IF halts THEN "halted" ELSE "running",
                          !.halted   = @ \/ halts]]
          /\ unapproved' = IF blocking > 0 THEN unapproved \cup {s} ELSE unapproved \ {s}
          /\ IF halts THEN Counted("halted") ELSE UNCHANGED counts
          /\ UNCHANGED <<contexts, plans>>

\* setAnalysis and, when something blocks, halt; an earlier halt is left to stand.
Analyzed(s, recommended, entries) ==
    \E blocking \in {Len(SelectSeq(recommended, LAMBDA c : c.blocking))} :
       \E halts \in {blocking > 0 /\ HaltOnBlocking} :
          /\ sessions' = [sessions EXCEPT ![s] =
                [@ EXCEPT !.analysis = {entries[i].id : i \in DOMAIN entries},
                          !.phase    = IF halts THEN "halted" ELSE "running",
                          !.halted   = @ \/ halts,
                          !.blocking = IF halts THEN blocking ELSE @]]
          /\ unapproved' = IF blocking > 0 THEN unapproved \cup {s} ELSE unapproved \ {s}
          /\ IF halts THEN Counted("halted") ELSE UNCHANGED counts
          /\ UNCHANGED <<contexts, plans>>

\* What was stored before a full memory refused an entry stays there.
Persisted(s, recommended, confidence) ==
    \E entries \in {EntriesFor(s, recommended, confidence)} :
       /\ AddAll(entries)
       /\ IF Len(store) + Len(entries) > MaxEntries THEN Failed(s) ELSE Analyzed(s, recommended, entries)

Analyze(s) ==
    /\ Idle(s)
    /\ \E selected \in {Selected(sessions[s].nodes)}, report \in {Generated(rules)} :
          IF selected # <<>> /\ report.thrown
          THEN Failed(s) /\ UNCHANGED <<memoryVars, reasoningVars>>
          ELSE \E recommended \in {RecommendationsFor(selected, report.found)} :
               \E evidence \in {EvidenceFor(sessions[s].nodes, selected, recommended)} :
                  IF ~BatchFits(<<>>, evidence)
                  THEN Failed(s) /\ UNCHANGED <<memoryVars, reasoningVars>>
                  ELSE \E reasoned \in {[NoSession EXCEPT !.nodes = WithBatch(<<>>, evidence), !.executions = 1]} :
                          /\ reasoning' = Append(reasoning, reasoned) /\ UNCHANGED rules
                          /\ Persisted(s, recommended, Confidence(reasoned) \div Unit)

Approve(s) ==
    /\ Open(s)
    /\ sessions' = [sessions EXCEPT ![s].halted = FALSE, ![s].blocking = 0]
    /\ unapproved' = unapproved \ {s}
    /\ UNCHANGED <<contexts, plans, counts>>

-----------------------------------------------------------------------------
(* Planning and execution *)

\* plan: the planner may throw, and so may the scheduler after a plan was made; the phase of
\* a session that was planned stays what it was.
Plan(s, outcome) ==
    /\ Idle(s) /\ sessions[s].analysis # None /\ ~sessions[s].halted
    /\ plans' = IF outcome = "planner" THEN plans ELSE plans + 1
    /\ sessions' = [sessions EXCEPT ![s] =
          IF outcome = "planned" THEN [@ EXCEPT !.plan = plans + 1] ELSE [@ EXCEPT !.phase = "failed"]]
    /\ IF outcome = "planned" THEN UNCHANGED counts ELSE Counted("failed")
    /\ UNCHANGED <<contexts, unapproved>>

\* execute up to its await: beginExecution refuses a plan that has a context.
StartExecution(s) ==
    /\ Idle(s) /\ sessions[s].plan # None
    /\ IF sessions[s].plan \in DOMAIN contexts THEN Failed(s)
       ELSE /\ sessions' = [sessions EXCEPT ![s].phase = "running", ![s].running = TRUE]
            /\ contexts' = (sessions[s].plan :> [paused |-> FALSE, cancelled |-> FALSE, over |-> FALSE]) @@ contexts
            /\ UNCHANGED <<plans, counts, unapproved>>

\* execute after it: what the executor's run gave, or its rejection.  A run whose session was
\* removed goes on, and ends on an object nobody finds any more.
EndExecution(p, outcome) ==
    /\ p \in DOMAIN contexts /\ ~contexts[p].over
    /\ outcome = "cancelled" => contexts[p].cancelled
    /\ contexts' = [contexts EXCEPT ![p].over = TRUE]
    /\ sessions' = [s \in SessionIds |->
          IF Open(s) /\ sessions[s].plan = p
          THEN [sessions[s] EXCEPT !.running = FALSE,
                   !.phase    = IF outcome = "rejected" THEN "failed" ELSE outcome,
                   !.executed = @ \/ outcome # "rejected"]
          ELSE sessions[s]]
    /\ Counted(IF outcome = "rejected" THEN "failed" ELSE outcome)
    /\ UNCHANGED <<plans, unapproved>>

\* pause and resume go by the context, which outlives its execution.
Pause(s, paused) ==
    /\ Open(s) /\ sessions[s].plan \in DOMAIN contexts
    /\ contexts' = [contexts EXCEPT ![sessions[s].plan].paused = paused]
    /\ sessions' = [sessions EXCEPT ![s].phase = IF paused THEN "paused" ELSE "running"]
    /\ UNCHANGED <<plans, counts, unapproved>>

\* cancel: left to the executor where there is a context, even one that is over.
Cancel(s) ==
    /\ Open(s)
    /\ IF sessions[s].plan \in DOMAIN contexts
       THEN /\ contexts' = [contexts EXCEPT ![sessions[s].plan].cancelled = TRUE]
            /\ sessions' = [sessions EXCEPT ![s].cancelled = TRUE]
            /\ UNCHANGED counts
       ELSE /\ sessions' = [sessions EXCEPT ![s].cancelled = TRUE, ![s].phase = "cancelled"]
            /\ Counted("cancelled")
            /\ UNCHANGED contexts
    /\ UNCHANGED <<plans, unapproved>>

RemoveSession(s) ==
    /\ Open(s)
    /\ sessions' = [sessions EXCEPT ![s] = None]
    /\ unapproved' = unapproved \ {s}
    /\ UNCHANGED <<contexts, plans, counts>>
=============================================================================
