------------------------------ MODULE Knowledge ------------------------------
(* The agent with what it stands on, and their callers: src/lib/agent.ts, memory.ts,        *)
(* recommendation.ts and reasoner.ts.                                                       *)
(*                                                                                          *)
(* A caller works on a memory manager, on reasoning sessions, or through an agent, whose    *)
(* memory the application reads and consolidates between the agent's steps.  The first two  *)
(* share nothing, and no interleaving is lost by telling them apart.                        *)
EXTENDS Agent

CONSTANTS
    Loaded,          \* memories callers start with
    NewEntries,      \* entries they add
    Changes,         \* <<setter, argument>> they make
    EvidenceNodes,   \* evidence they add, and the edges between it
    EvidenceEdges,
    MemoryCalls, ReasoningCalls, AgentCalls   \* bounds: calls of each kind of caller

ASSUME CallsAssumption == {MemoryCalls, ReasoningCalls, AgentCalls} \subseteq Nat

VARIABLES
    client,      \* what the caller works on
    calls,       \* calls made
    bypassed     \* ids the store was made to change behind the manager's back; read by no action

vars == <<client, calls, bypassed, memoryVars, reasoningVars, agentVars>>

Init ==
    /\ client \in {"memory", "reasoning", "agent"}
    /\ calls = 0 /\ bypassed = {}
    /\ IF client = "memory" THEN \E entries \in Loaded : MemoryInit(entries) ELSE MemoryInit(<<>>)
    /\ ReasoningInit /\ AgentInit

Call(who, limit) == client = who /\ calls < limit /\ calls' = calls + 1 /\ UNCHANGED client

Refs == DOMAIN heap

Ids == {IdOf(r) : r \in Refs}

Behind(ids) == bypassed' = bypassed \cup ids

\* Nodes a caller changes: those it made and those it was given.
NodeStep ==
    \/ \E r \in Refs, c \in Changes : Setter(r, c[1], c[2])
    \/ \E r \in Refs, op \in {"freeze", "unfreeze", "archive", "restore", "delete"} : Flag(r, op)
    \/ \E r \in Refs : Touch(r)
    \/ \E a, b \in Refs : a # b /\ Resolve(a, b)

ManagerStep ==
    \/ \E e \in NewEntries : AddMade(e)
    \/ \E r \in Refs : AddHeld(r)
    \/ \E id \in Ids : Get(id)
    \/ \E a, b \in Ids : AddLink(a, b)
    \/ \E a, b \in Ids : RemoveLink(a, b)
    \/ RebuildIndex \/ Snapshot \/ EvaluateRetention \/ Elapse
    \/ Begin \/ RecordOperation
    \/ \E commit \in BOOLEAN : EndTransaction(commit)
    \/ \E r \in Refs : Archive(r)
    \/ \E id \in Ids : Unarchive(id) \/ RemoveArchived(id)
    \/ \E recount \in BOOLEAN : Compact(recount)

RemoveStep == \E id \in Ids : RemoveMemory(id) /\ bypassed' = bypassed \ {id}

StoreStep ==
    \/ \E id \in Ids : RestoreDeleted(id) /\ Behind({id})
    \/ \E r \in Refs : Replace(r) /\ Behind({IdOf(r)})
    \/ ClearStore /\ Behind({IdOf(r) : r \in InStore})

ConsolidateStep == Consolidate /\ Behind({IdOf(r) : r \in InStore \ ToSet(store')})

MemoryStep ==
    /\ Call("memory", MemoryCalls)
    /\ \/ (NodeStep \/ ManagerStep) /\ UNCHANGED bypassed
       \/ RemoveStep \/ StoreStep \/ ConsolidateStep
    /\ UNCHANGED <<reasoningVars, agentVars>>

ReasoningStep ==
    /\ Call("reasoning", ReasoningCalls)
    /\ \/ \E r \in DOMAIN Rules : RegisterRule(r) \/ UnregisterRule(r)
       \/ OpenSession
       \/ \E s \in DOMAIN reasoning :
             \/ \E n \in EvidenceNodes : AddEvidence(s, n)
             \/ \E n, m \in EvidenceNodes : n # m /\ AddEvidenceBatch(s, <<n, m>>)
             \/ \E e \in EvidenceEdges : AddEvidenceEdge(s, e)
             \/ \E n \in EvidenceNodes : RemoveEvidence(s, n.id)
             \/ ClearEvidence(s) \/ CloneSession(s) \/ Execute(s)
    /\ UNCHANGED <<bypassed, memoryVars, agentVars>>

PipelineStep ==
    \/ \E s \in SessionIds, nodes \in Requests : CreateSession(s, nodes)
    \/ \E s \in SessionIds :
          \/ Approve(s) \/ StartExecution(s) \/ Cancel(s) \/ RemoveSession(s)
          \/ \E outcome \in {"planner", "scheduler", "planned"} : Plan(s, outcome)
          \/ \E paused \in BOOLEAN : Pause(s, paused)
    \/ \E p \in DOMAIN contexts, outcome \in {"completed", "cancelled", "failed", "rejected"} : EndExecution(p, outcome)

AgentStep ==
    /\ Call("agent", AgentCalls)
    /\ \/ \E s \in SessionIds : Analyze(s) /\ UNCHANGED bypassed
       \/ PipelineStep /\ UNCHANGED <<memoryVars, reasoningVars, bypassed>>
       \/ /\ \E r \in DOMAIN Rules : RegisterRule(r) \/ UnregisterRule(r)
          /\ UNCHANGED <<memoryVars, agentVars, bypassed>>
       \/ (ConsolidateStep \/ RemoveStep) /\ UNCHANGED <<reasoningVars, agentVars>>

Next == MemoryStep \/ ReasoningStep \/ AgentStep

Spec == Init /\ [][Next]_vars

-----------------------------------------------------------------------------
(* Properties *)

\* Nodes a chain of duplicates leads to.
Near(refs) == refs \cup {r \in InStore : \E q \in refs : Similar(heap[q], heap[r])}

\* Consolidation never takes the last of its kind: for every node it takes away, one that a
\* chain of duplicates leads to stays in the store, and the node can be restored.
ConsolidationKeepsOne ==
    [][Consolidate =>
         \A r \in InStore \ ToSet(store') :
            /\ r \in removed'
            /\ Near(Near(Near({r}))) \cap ToSet(store') # {}]_vars

\* Comparing within buckets only finds what comparing every two nodes would.
ContradictionsAreExact ==
    \A s \in DOMAIN reasoning : \A nodes \in {reasoning[s].nodes} :
       ImpliedContradictions(nodes) =
         {<<nodes[p[1]].id, nodes[p[2]].id>> : p \in
            {<<i, j>> \in (DOMAIN nodes) \X (DOMAIN nodes) :
               /\ i < j /\ nodes[i].type = nodes[j].type /\ nodes[i].title = nodes[j].title
               /\ Max({nodes[i].confidence, nodes[j].confidence}) - Min({nodes[i].confidence, nodes[j].confidence}) >= 40}}

\* No plan is made while blocking recommendations of the last analysis wait for an approval,
\* however often the session was analysed and approved before.
PlansAreApproved ==
    [][\A s \in SessionIds :
          (Open(s) /\ Open(s)' /\ sessions'[s].plan # sessions[s].plan) => s \notin unapproved]_vars

=============================================================================
