---- MODULE PlannerGraph ----
(* The dependency graph of src/lib/planner/planner.ts (PlannerDependencyGraph) and the      *)
(* critical path method that planner.ts and planner-scheduler.ts run over it.               *)
(*                                                                                          *)
(* A graph keeps its nodes and its edges in insertion order, as the Map and the Sets of the *)
(* class do: the order decides ties in the topological sort.  edgeCount is the counter the  *)
(* class keeps beside its adjacency sets.                                                   *)
EXTENDS Integers, Sequences, FiniteSets, SequencesExt

CONSTANTS
    None,
    MaxCalls   \* bound: calls made to the planning managers, all of them together

VARIABLE calls   \* calls made so far, for MaxCalls

Call == calls < MaxCalls /\ calls' = calls + 1

EmptyGraph == [nodes |-> <<>>, edges |-> <<>>, edgeCount |-> 0]

Nodes(g) == ToSet(g.nodes)

Edges(g) == ToSet(g.edges)

\* neighbors, dependents: who waits for t, in the order the edges were added.
Neighbors(g, t) ==
    LET out == SelectSeq(g.edges, LAMBDA e : e[1] = t) IN [i \in DOMAIN out |-> out[i][2]]

Dependencies(g, t) == {e[1] : e \in {d \in Edges(g) : d[2] = t}}

Dependents(g, t) == {e[2] : e \in {d \in Edges(g) : d[1] = t}}

\* The transitive closure of the edges: paths[k] has those of k + 1 edges at least.
Before(edges) ==
    LET joined(r) == {<<pq[1][1], pq[2][2]>> : pq \in {x \in r \X r : x[1][2] = x[2][1]}}
        paths[k \in 0 .. Cardinality(edges)] ==
            IF k = 0 THEN edges ELSE LET r == paths[k \div 2] IN r \cup joined(r)
    IN  paths[Cardinality(edges)]

CyclicEdges(edges) == \E p \in Before(edges) : p[1] = p[2]

HasCycle(g) == CyclicEdges(Edges(g))

AddNode(g, t) == IF t \in Nodes(g) THEN g ELSE [g EXCEPT !.nodes = Append(@, t)]

Linked(g, from, to) ==
    [g EXCEPT !.edges = Append(@, <<from, to>>), !.edgeCount = @ + 1]

\* The cycle is looked for before the edge is there.
ConnectedEarly(g, from, to) ==
    IF <<from, to>> \in Edges(g) THEN [graph |-> g, threw |-> FALSE]
    ELSE IF HasCycle(g) THEN [graph |-> g, threw |-> TRUE]
    ELSE [graph |-> Linked(g, from, to), threw |-> FALSE]

\* addEdge between two nodes of the graph.
Connected(g, from, to) ==
    IF <<from, to>> \in Edges(g) THEN [graph |-> g, threw |-> FALSE]
    ELSE IF HasCycle(Linked(g, from, to)) THEN [graph |-> g, threw |-> TRUE]
    ELSE [graph |-> Linked(g, from, to), threw |-> FALSE]

\* addEdge: known edges are left alone, an edge that closes a cycle is taken back and throws;
\* the nodes stay either way.
AddEdge(g, from, to) == Connected(AddNode(AddNode(g, from), to), from, to)

\* Kahn's algorithm: after k rounds, what is queued, what is ordered and what is still waited
\* for.
KahnStep(g, s) ==
    IF s.queue = <<>> THEN s
    ELSE LET t     == Head(s.queue)
             next  == Neighbors(g, t)
             freed == SelectSeq(next, LAMBDA n : s.degree[n] = 1)
         IN  [queue   |-> Tail(s.queue) \o freed,
              ordered |-> Append(s.ordered, t),
              degree  |-> [n \in DOMAIN s.degree |->
                              IF n \in ToSet(next) THEN s.degree[n] - 1 ELSE s.degree[n]]]

TopologicalSort(g) ==
    LET degree == [t \in Nodes(g) |-> Cardinality(Dependencies(g, t))]
        round[k \in 0 .. Len(g.nodes)] ==
            IF k = 0
            THEN [queue   |-> SelectSeq(g.nodes, LAMBDA t : degree[t] = 0),
                  ordered |-> <<>>,
                  degree  |-> degree]
            ELSE KahnStep(g, round[k - 1])
    IN  round[Len(g.nodes)].ordered

\* The forward and the backward pass over an acyclic graph, for any number of slots, each in
\* topological order.  A node without a task lasts no time.
EarliestStarts(g, order, duration) ==
    FoldLeft(LAMBDA es, t : [es EXCEPT ![t] = Max({0} \cup {es[d] + duration[d] : d \in Dependencies(g, t)})],
             [t \in Nodes(g) |-> 0], order)

LatestStarts(g, order, duration, span) ==
    FoldRight(LAMBDA t, ls : [ls EXCEPT ![t] = Min({span} \cup {ls[d] : d \in Dependents(g, t)}) - duration[t]],
              order, [t \in Nodes(g) |-> span])

Passes(order, es, ls, span) ==
    [earliestStart |-> es, latestStart |-> ls, makespan |-> span,
     criticalPath |-> SelectSeq(order, LAMBDA t : ls[t] = es[t])]

CriticalPath(g, duration) ==
    LET backward(order, es, span) == Passes(order, es, LatestStarts(g, order, duration, span), span)
        forward(order, es) == backward(order, es, Max({0} \cup {es[t] + duration[t] : t \in Nodes(g)}))
        ordered(order) == forward(order, EarliestStarts(g, order, duration))
    IN  ordered(TopologicalSort(g))

\* A graph whose edges are the tasks' dependencies, in the order buildGraph adds them.
\* dependsOn[t] is the set of tasks t waits for; a dependency outside the tasks gets a node.
BuildGraph(tasks, dependsOn) ==
    LET joined(r, a) == [a EXCEPT !.threw = @ \/ r.threw]
        add(g, t) == FoldLeft(LAMBDA r, d : joined(r, AddEdge(r.graph, d, t)), g,
                              SetToSortSeq(dependsOn[t], <))
    IN  FoldLeft(add, [graph |-> FoldLeft(AddNode, EmptyGraph, tasks), threw |-> FALSE], tasks)
====
