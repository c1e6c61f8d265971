------------------------------ MODULE Reasoning ------------------------------
(* src/lib/recommendation.ts and src/lib/reasoner.ts: the rules that recommend, and the     *)
(* sessions that draw conclusions from evidence.                                            *)
(*                                                                                          *)
(* A rule is the caller's function; what it returns for an insight is given with the rule.  *)
(* Confidences and weights are whole percentages, and what is averaged over them is kept    *)
(* as a multiple of `Unit`.                                                                 *)
EXTENDS Integers, FiniteSets, SequencesExt, FiniteSetsExt

CONSTANTS
    Rules,              \* id -> [enabled, priority, categories, emits, throws]
    DisabledCategories, \* categories switched off in the engine's configuration
    MinimumConfidence, MaxPerRule,
    StrictMode,
    MaxEvidence,        \* maxEvidenceNodes of a session
    Unit                \* a multiple of every number of nodes averaged over

ASSUME ReasoningAssumption ==
    /\ StrictMode \in BOOLEAN
    /\ {MaxPerRule, MaxEvidence, Unit} \subseteq Nat \ {0}
    /\ \A r \in DOMAIN Rules : Rules[r].priority \in Nat /\ Rules[r].enabled \in BOOLEAN

VARIABLES
    rules,       \* ids of the registered rules, in order
    reasoning    \* sessions of the reasoner: [nodes, edges, executions]

reasoningVars == <<rules, reasoning>>

ReasoningInit == rules = <<>> /\ reasoning = <<>>

-----------------------------------------------------------------------------
(* RecommendationEngine *)

RegisterRule(r) ==
    /\ r \notin ToSet(rules)
    /\ rules' = Append(rules, r)
    /\ UNCHANGED reasoning

UnregisterRule(r) ==
    /\ r \in ToSet(rules)
    /\ rules' = SelectSeq(rules, LAMBDA q : q # r)
    /\ UNCHANGED reasoning

\* getRules: the enabled ones by priority, in order of registration where it is equal.
InPriority(registered) ==
    LET enabled == {i \in DOMAIN registered : Rules[registered[i]].enabled}
        order == SetToSortSeq(enabled, LAMBDA i, j :
                     LET p == Rules[registered[i]].priority
                         q == Rules[registered[j]].priority
                     IN p > q \/ (p = q /\ i < j))
    IN [k \in DOMAIN order |-> registered[order[k]]]

RuleApplies(r) == Rules[r].categories = {} \/ ~(Rules[r].categories \subseteq DisabledCategories)

Sanitized(candidate) ==
    [candidate EXCEPT !.confidence = Max({0, Min({100, @})})]

\* What one rule adds: its first candidates, the malformed ones dropped; or nothing when it throws.
Collected(r, report) ==
    LET usable == SubSeq(Rules[r].emits, 1, Min({MaxPerRule, Len(Rules[r].emits)}))
        formed == SelectSeq(usable, LAMBDA c : c.formed)
    IN IF report.thrown THEN report
       ELSE IF ~RuleApplies(r) THEN [report EXCEPT !.skipped = @ + 1]
       ELSE IF Rules[r].throws
       THEN [report EXCEPT !.evaluated = @ + 1, !.thrown = StrictMode, !.errors = @ + (IF StrictMode THEN 0 ELSE 1)]
       ELSE [report EXCEPT !.evaluated = @ + 1,
                           !.discarded = @ + Len(Rules[r].emits) - Len(formed),
                           !.found = @ \o [i \in DOMAIN formed |-> Sanitized(formed[i])]]

SameMatter(a, b) == a.category = b.category /\ a.title = b.title

\* deduplicate: the first of a category and title stays, with the best confidence and priority
\* of them; what else the later ones say, that they block included, is lost.
Deduplicated(found) ==
    LET Absorb(unique, c) ==
            IF \E i \in DOMAIN unique : SameMatter(unique[i], c)
            THEN [i \in DOMAIN unique |->
                     IF SameMatter(unique[i], c)
                     THEN [unique[i] EXCEPT !.confidence = Max({@, c.confidence}),
                                            !.priority   = Max({@, c.priority})]
                     ELSE unique[i]]
            ELSE Append(unique, c)
        unique == FoldLeft(Absorb, <<>>, found)
        first(i) == \A j \in 1 .. i - 1 : unique[j].category # unique[i].category
        places == SetToSortSeq({i \in DOMAIN unique : first(i)}, LAMBDA i, j : i < j)
    IN FlattenSeq([k \in DOMAIN places |->
                      SelectSeq(unique, LAMBDA c : c.category = unique[places[k]].category)])

\* resolve: of two on the same matter the more confident one, at the place of the first.
Resolved(found) ==
    FoldLeft(LAMBDA kept, c :
                IF \E i \in DOMAIN kept : SameMatter(kept[i], c)
                THEN [i \in DOMAIN kept |->
                         IF SameMatter(kept[i], c) /\ c.confidence > kept[i].confidence THEN c ELSE kept[i]]
                ELSE Append(kept, c),
             <<>>, found)

\* Twice the score, which counts half a point for a percent of confidence.
Score(c) == 200 * c.priority + c.confidence + 2 * c.benefit + (IF c.blocking THEN 1000 ELSE 0)

Ranked(found) ==
    LET order == SetToSortSeq(DOMAIN found, LAMBDA i, j :
                     Score(found[i]) > Score(found[j]) \/ (Score(found[i]) = Score(found[j]) /\ i < j))
    IN [k \in DOMAIN order |-> found[order[k]]]

\* generate: every rule, then duplicates, conflicts, the floor of confidence and the order.
Generated(registered) ==
    LET report == FoldLeft(LAMBDA acc, r : Collected(r, acc),
                           [found |-> <<>>, evaluated |-> 0, skipped |-> 0, discarded |-> 0,
                            errors |-> 0, thrown |-> FALSE],
                           InPriority(registered))
        settled == Resolved(Deduplicated(report.found))
        sure == SelectSeq(settled, LAMBDA c : c.confidence >= MinimumConfidence)
    IN [report EXCEPT !.found = Ranked(sure), !.discarded = @ + Len(settled) - Len(sure)]

-----------------------------------------------------------------------------
(* Evidence and what is concluded from it *)

NoSession == [nodes |-> <<>>, edges |-> <<>>, executions |-> 0]

\* EvidenceGraph.addNode: a known id keeps its place.
WithNode(nodes, n) ==
    IF \E i \in DOMAIN nodes : nodes[i].id = n.id
    THEN [i \in DOMAIN nodes |-> IF nodes[i].id = n.id THEN n ELSE nodes[i]]
    ELSE Append(nodes, n)

\* addEvidenceBatch: the limit is held against every node of the batch, the known ones too.
BatchFits(nodes, batch) == Len(nodes) + Len(batch) <= MaxEvidence

WithBatch(nodes, batch) == FoldLeft(WithNode, nodes, batch)

OpenSession ==
    /\ reasoning' = Append(reasoning, NoSession)
    /\ UNCHANGED rules

AddEvidence(s, node) ==
    /\ Len(reasoning[s].nodes) < MaxEvidence
    /\ reasoning' = [reasoning EXCEPT ![s].nodes = WithNode(@, node)]
    /\ UNCHANGED rules

AddEvidenceBatch(s, batch) ==
    /\ BatchFits(reasoning[s].nodes, batch)
    /\ reasoning' = [reasoning EXCEPT ![s].nodes = WithBatch(@, batch)]
    /\ UNCHANGED rules

\* addEdge of the session's graph asks for neither end.
AddEvidenceEdge(s, edge) ==
    /\ reasoning' = [reasoning EXCEPT ![s].edges = Append(@, edge)]
    /\ UNCHANGED rules

RemoveEvidence(s, id) ==
    /\ reasoning' = [reasoning EXCEPT ![s].nodes = SelectSeq(@, LAMBDA n : n.id # id),
                                      ![s].edges = SelectSeq(@, LAMBDA e : id \notin {e.from, e.to})]
    /\ UNCHANGED rules

ClearEvidence(s) ==
    /\ reasoning' = [reasoning EXCEPT ![s].nodes = <<>>, ![s].edges = <<>>]
    /\ UNCHANGED rules

\* cloneSession: the nodes, as one batch, and not the edges.
CloneSession(s) ==
    /\ BatchFits(<<>>, reasoning[s].nodes)
    /\ reasoning' = Append(reasoning, [NoSession EXCEPT !.nodes = reasoning[s].nodes])
    /\ UNCHANGED rules

Execute(s) ==
    /\ reasoning' = [reasoning EXCEPT ![s].executions = @ + 1]
    /\ UNCHANGED rules

\* infer: the nodes of each type that are sure enough, and their mean in parts of a Unit.
Candidates(nodes) == SelectSeq(nodes, LAMBDA n : n.confidence >= 65)

InferredTypes(nodes) == {n.type : n \in ToSet(Candidates(nodes))}

MeanOf(nodes) == (Unit * FoldLeft(LAMBDA sum, n : sum + n.confidence, 0, nodes)) \div Len(nodes)

Inferred(nodes) ==
    [t \in InferredTypes(nodes) |-> MeanOf(SelectSeq(Candidates(nodes), LAMBDA n : n.type = t))]

\* detect: first pairs within a bucket of one type and title, bucket by bucket, then the edges
\* that say so and whose ends are known.
BucketOf(nodes, n) == SelectSeq(nodes, LAMBDA m : m.type = n.type /\ m.title = n.title)

\* Only a confidence that falls counts.
PairsFalling(bucket) ==
    {<<bucket[i].id, bucket[j].id>> : <<i, j>> \in
        {<<k, l>> \in (DOMAIN bucket) \X (DOMAIN bucket) : k < l /\ bucket[k].confidence - bucket[l].confidence >= 40}}

PairsOf(bucket) ==
    {<<bucket[i].id, bucket[j].id>> : <<i, j>> \in
        {<<k, l>> \in (DOMAIN bucket) \X (DOMAIN bucket) :
            k < l /\ (bucket[k].confidence - bucket[l].confidence >= 40 \/ bucket[l].confidence - bucket[k].confidence >= 40)}}

ImpliedContradictions(nodes) == UNION {PairsOf(BucketOf(nodes, n)) : n \in ToSet(nodes)}

StatedContradictions(s) ==
    SelectSeq(s.edges, LAMBDA e : e.contradicts /\ {e.from, e.to} \subseteq {n.id : n \in ToSet(s.nodes)})

ContradictionCount(s) == Cardinality(ImpliedContradictions(s.nodes)) + Len(StatedContradictions(s))

\* calculateConfidence: the mean of the hypotheses, five points less for each contradiction.
Confidence(s) ==
    LET inferred == Inferred(s.nodes)
        types == DOMAIN inferred
        total == FoldSet(LAMBDA t, sum : sum + inferred[t], 0, types)
        net == (total \div Cardinality(types)) - 5 * Unit * ContradictionCount(s)
    IN IF types = {} THEN 0 ELSE Max({0, Min({100 * Unit, net})})
=============================================================================
