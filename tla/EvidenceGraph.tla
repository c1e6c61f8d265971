---------------------------- MODULE EvidenceGraph ----------------------------
(***************************************************************************)
(* The evidence graph of an investigation: the deterministic extractor,    *)
(* the store of entities and edges, and the requests that synchronise the  *)
(* graph with the output of the attached executions.                       *)
(*                                                                         *)
(* What the patterns of the extractor recognise in a line is a constant;   *)
(* what it makes of that, line by line and chunk by chunk, is modelled.    *)
(* Every upsert is one script of the store, so two requests interleave     *)
(* between any two upserts, and a request may stop after any of them.      *)
(***************************************************************************)
EXTENDS Naturals, FiniteSets, Sequences, SequencesExt, TLC

CONSTANTS
    Passes,        \* the requests that can synchronise at the same time
    Runs,          \* the attached executions, in the order they are listed
    Output,        \* [executions -> Seq(events)]: what each of them writes
    Matches,       \* what the patterns find in a line: a function on lines
    Nothing,       \* no match, no host, no page
    BatchSize,     \* OBSERVATION_BATCH_SIZE
    Forever        \* a budget that is never used up

ASSUME EvidenceAssumption ==
    /\ BatchSize \in Nat \ {0}
    \* The first event of an execution says that it runs; it is no output.
    /\ \A e \in Range(Runs) : Output[e] = <<>> \/ Output[e][1].kind = "state"

VARIABLES
    graph,     \* entities, edges, and the sequences processed
    pass,      \* the requests in flight
    source,    \* the investigation, and how much each execution has written
    chances    \* what may still be asked, and what may still go wrong

evidenceVars == <<graph, pass, source, chances>>

-----------------------------------------------------------------------------
(* The extractor.  An entity is <<type, canonical key>>, a relationship is *)
(* <<source, relationship, target>>; an event's text is the pieces between *)
(* its line breaks, so the first completes the line that is pending and    *)
(* the last is pending itself.                                             *)

NoMatch == [host |-> Nothing, address |-> Nothing, port |-> Nothing, service |-> Nothing, version |-> Nothing,
            urls |-> <<>>, observed |-> {}, header |-> Nothing, path |-> Nothing, secrets |-> {}, mentions |-> {}]

EmptyState == [pending |-> <<>>, host |-> Nothing, url |-> Nothing, entities |-> {}, links |-> {}]

Given(condition, S) == IF condition THEN S ELSE {}

\* Paths, credentials, and whatever else is mentioned: findings, vulnerabilities, addresses, domains.
Mentioned(m, host, url) ==
    LET secrets == {<<"credential", c>> : c \in m.secrets}
        files == Given(m.path # Nothing, {<<"file", m.path>>})
    IN  [entities |-> files \cup secrets \cup m.mentions,
         links |-> Given(url # Nothing, {<<url, "LINKS_TO", x>> : x \in files}
                                        \cup {<<url, "RELATED_TO", x>> : x \in secrets \cup m.mentions})
                   \cup Given(host # Nothing, {<<host, "RELATED_TO", x>> : x \in m.mentions})]

\* A host and a URL are remembered for the lines below: ports belong to the host, what a
\* response says belongs to the URL, and everything mentioned is related to both.
ParseLine(state, line) ==
    LET m == IF line \in DOMAIN Matches THEN Matches[line] ELSE NoMatch
        host == IF m.host # Nothing THEN <<"host", m.host>> ELSE state.host
        url == IF m.urls # <<>> THEN <<"url", Last(m.urls)>> ELSE state.url
        address == <<"ip", m.address>>
        port == <<"port", m.port>>
        service == <<"service", m.service>>
        version == <<"technology", m.version>>
        ported == m.port # Nothing /\ host # Nothing
        evidence == {<<"evidence", <<url, o>>>> : o \in m.observed}
        rest == Mentioned(m, host, url)
    IN  [pending |-> <<>>, host |-> host, url |-> url,
         entities |-> state.entities
            \cup Given(m.host # Nothing, {host}) \cup Given(m.address # Nothing, {address})
            \cup Given(ported, {port, service}) \cup Given(ported /\ m.version # Nothing, {version})
            \cup {<<"url", u>> : u \in Range(m.urls)}
            \cup Given(url # Nothing, evidence \cup Given(m.header # Nothing, {<<"technology", m.header>>}))
            \cup rest.entities,
         links |-> state.links
            \cup Given(m.address # Nothing, {<<host, "RESOLVES_TO", address>>})
            \cup Given(ported, {<<host, "EXPOSES", port>>, <<port, "RUNS", service>>})
            \cup Given(ported /\ m.version # Nothing, {<<service, "DETECTED", version>>})
            \cup Given(url # Nothing, {<<url, "EVIDENCE_FOR", x>> : x \in evidence})
            \cup Given(url # Nothing /\ m.header # Nothing, {<<url, "DETECTED", <<"technology", m.header>>>>})
            \cup rest.links]

\* extract: the state after an event, with what the event itself has brought to light.
Extract(state, event) ==
    LET fresh == [state EXCEPT !.entities = {}, !.links = {}]
        last == Len(event.pieces)
        lines == [i \in 1..(last - 1) |-> (IF i = 1 THEN state.pending ELSE <<>>) \o event.pieces[i]]
    IN  CASE event.kind = "state" -> fresh
          [] event.kind = "binary" -> [fresh EXCEPT !.pending = <<>>]
          [] OTHER ->
               [FoldLeft(ParseLine, fresh, lines) EXCEPT
                   !.pending = (IF last = 1 THEN state.pending ELSE <<>>) \o event.pieces[last]]

\* After the first n events of an execution, read from the start (reset).
Parsed == [e \in Range(Runs) |->
             LET after[n \in 0..Len(Output[e])] ==
                   IF n = 0 THEN EmptyState ELSE Extract(after[n - 1], Output[e][n])
             IN  after]

\* flush: the line that is pending is read as it stands.
Flushed == [e \in Range(Runs) |-> [n \in 0..Len(Output[e]) |->
             LET state == Parsed[e][n]
             IN  IF state.pending = <<>> THEN EmptyState
                 ELSE ParseLine([state EXCEPT !.entities = {}, !.links = {}], state.pending)]]

-----------------------------------------------------------------------------
(* The store *)

Root == <<"investigation", "root">>
ExecutionNode(e) == <<"execution", e>>

Entity(x) == [what |-> "entity", node |-> x]
Edge(from, relationship, to, e) == [what |-> "edge", edge |-> <<from, relationship, to, e>>]

\* The upserts of one observation, in their order: the entities, the edges that tie them to the
\* investigation and to the execution, and those of the extracted relationships whose two ends
\* were observed together.
Observed(e, entities) == {Root, ExecutionNode(e)} \cup entities

Kept(e, seen) == {link \in seen.links : {link[1], link[3]} \subseteq Observed(e, seen.entities)}

Upserts(e, seen) ==
    LET found == SetToSeq(seen.entities)
    IN  <<Entity(Root), Entity(ExecutionNode(e))>>
        \o [i \in 1..Len(found) |-> Entity(found[i])]
        \o [i \in 1..Len(found) |-> Edge(Root, "DISCOVERED", found[i], e)]
        \o [i \in 1..Len(found) |-> Edge(found[i], "GENERATED_FROM", ExecutionNode(e), e)]
        \o <<Edge(ExecutionNode(e), "GENERATED_FROM", Root, e)>>
        \o LET links == SetToSeq(Kept(e, seen))
           IN  [i \in 1..Len(links) |-> Edge(links[i][1], links[i][2], links[i][3], e)]

UpsertsOf == [e \in Range(Runs) |->
                [seen |-> [n \in 1..Len(Output[e]) |-> Upserts(e, Parsed[e][n])],
                 rest |-> [n \in 0..Len(Output[e]) |-> Upserts(e, Flushed[e][n])]]]

-----------------------------------------------------------------------------
(* Requests *)

Away == [pc |-> "idle", title |-> Nothing, runs |-> <<>>, seen |-> 0, done |-> {}, pos |-> 0,
         batch |-> <<>>, asked |-> <<>>, last |-> FALSE]

In(p, pc) == pass[p].pc = pc
Goes(p, fields) == pass' = [pass EXCEPT ![p] = fields @@ @]
Ends(p) == pass' = [pass EXCEPT ![p] = Away]
Uses(what) == /\ chances[what] > 0
              /\ chances' = [chances EXCEPT ![what] = IF @ = Forever THEN @ ELSE @ - 1]

\* hydrate, and synchronizeInvestigation after it: the investigation first.
Hydrate(p) ==
    /\ pass[p] = Away
    /\ Cardinality({q \in Passes : pass[q] # Away}) < chances.atOnce
    /\ Uses("open")
    /\ source.status # "deleted"
    /\ Goes(p, [pc |-> "root", title |-> source.title])
    /\ UNCHANGED <<graph, source>>

\* ensureInvestigation authorises again, and writes what the caller has read.
EnsureRoot(p) ==
    /\ In(p, "root")
    /\ IF source.status = "deleted" THEN UNCHANGED graph
       ELSE graph' = [graph EXCEPT !.nodes = @ \cup {Root}, !.title = pass[p].title]
    /\ Goes(p, [pc |-> "next", runs |-> Runs])
    /\ UNCHANGED <<source, chances>>

\* The output as it is now, then the sequences that were processed before.
ReadRun(p) ==
    /\ In(p, "next")
    /\ IF pass[p].runs = <<>> THEN Ends(p)
       ELSE Goes(p, [pc |-> "processed", seen |-> source.written[Head(pass[p].runs)]])
    /\ UNCHANGED <<graph, source, chances>>

ReadProcessed(p) ==
    /\ In(p, "processed")
    /\ Goes(p, [pc |-> "replay", done |-> graph.processed[Head(pass[p].runs)], pos |-> 1])
    /\ UNCHANGED <<graph, source, chances>>

\* The replay of the output, from its start: what is processed is parsed again, and not stored
\* again.  After the last event the pending line is read, and an execution without any output
\* gets its node.
Waiting(p) == {n \in pass[p].pos..pass[p].seen : n \notin pass[p].done}

\* Changed: a line without an end is left for the next event to complete.
RestLater(p, e) == IF pass[p].seen = 0 THEN <<[mark |-> 1, asked |-> UpsertsOf[e].rest[0]]>> ELSE <<>>

Rest(p, e) ==
    LET seen == pass[p].seen
    IN  CASE Flushed[e][seen].entities # {} ->
                  <<[mark |-> IF seen = 0 THEN 1 ELSE seen, asked |-> UpsertsOf[e].rest[seen]]>>
          [] seen = 0 -> <<[mark |-> 1, asked |-> UpsertsOf[e].rest[0]]>>
          [] OTHER -> <<>>

\* As many of the events that wait as a batch holds; the last batch holds the rest as well.
Replayed(p) ==
    /\ In(p, "replay")
    /\ \E e \in {Head(pass[p].runs)}, waiting \in {SetToSortSeq(Waiting(p), <)} :
         LET full == Len(waiting) >= BatchSize
             taken == IF full THEN SubSeq(waiting, 1, BatchSize) ELSE waiting
             events == [i \in 1..Len(taken) |-> [mark |-> taken[i], asked |-> UpsertsOf[e].seen[taken[i]]]]
             batch == IF full THEN events ELSE events \o Rest(p, e)
         IN  IF batch = <<>> THEN Goes(p, [pc |-> "next", runs |-> Tail(pass[p].runs), done |-> {}])
             ELSE Goes(p, [pc |-> "flush", batch |-> batch, last |-> ~full,
                           pos |-> IF full THEN Last(taken) + 1 ELSE pass[p].seen + 1])
    /\ UNCHANGED <<graph, source, chances>>

\* upsertObservations: refused without a trace when the investigation is deleted.
StartBatch(p) ==
    /\ In(p, "flush")
    /\ Goes(p, [pc |-> "store",
                asked |-> IF source.status = "deleted" THEN <<>>
                          ELSE FoldLeft(LAMBDA asked, item : asked \o item.asked, <<>>, pass[p].batch)])
    /\ UNCHANGED <<graph, source, chances>>

\* ... and as silently when the read of the investigation fails.
RefuseBatch(p) ==
    /\ In(p, "flush")
    /\ Uses("refuse")
    /\ Goes(p, [pc |-> "store", asked |-> <<>>])
    /\ UNCHANGED <<graph, source>>

\* One script: an entity or an edge with all its indexes, kept as it was if it is there.
Upsert(p) ==
    /\ In(p, "store") /\ pass[p].asked # <<>>
    /\ LET call == Head(pass[p].asked)
       IN  graph' = IF call.what = "entity" THEN [graph EXCEPT !.nodes = @ \cup {call.node}]
                    ELSE [graph EXCEPT !.edges = @ \cup {call.edge}]
    /\ Goes(p, [asked |-> Tail(pass[p].asked)])
    /\ UNCHANGED <<source, chances>>

\* The sequences of a batch are marked when all of it is stored, one by one.
Marks(p) ==
    /\ In(p, "store") /\ pass[p].asked = <<>> /\ pass[p].batch # <<>>
    /\ graph' = [graph EXCEPT !.processed[Head(pass[p].runs)] = @ \cup {Head(pass[p].batch).mark}]
    /\ Goes(p, [batch |-> Tail(pass[p].batch)])
    /\ UNCHANGED <<source, chances>>

BatchDone(p) ==
    /\ In(p, "store") /\ pass[p].asked = <<>> /\ pass[p].batch = <<>>
    /\ IF pass[p].last THEN Goes(p, [pc |-> "next", runs |-> Tail(pass[p].runs), done |-> {}, last |-> FALSE])
       ELSE Goes(p, [pc |-> "replay"])
    /\ UNCHANGED <<graph, source, chances>>

\* A call fails, or the server stops: the rest of the request is lost.
Interrupt(p) ==
    /\ pass[p] # Away
    /\ Uses("stop")
    /\ Ends(p)
    /\ UNCHANGED <<graph, source>>

-----------------------------------------------------------------------------
(* Around the graph *)

Writes(e) ==
    /\ source.written[e] < Len(Output[e])
    /\ source' = [source EXCEPT !.written[e] = @ + 1]
    /\ UNCHANGED <<graph, pass, chances>>

Rename == /\ Uses("rename")
          /\ source' = [source EXCEPT !.title = "new"]
          /\ UNCHANGED <<graph, pass>>

Tombstone == /\ Uses("delete")
             /\ source' = [source EXCEPT !.status = "deleted"]
             /\ UNCHANGED <<graph, pass>>

PassStep(p) == \/ EnsureRoot(p) \/ ReadRun(p) \/ ReadProcessed(p) \/ Replayed(p)
               \/ StartBatch(p) \/ Upsert(p) \/ Marks(p) \/ BatchDone(p)

EvidenceNext ==
    \/ \E p \in Passes : Hydrate(p) \/ PassStep(p) \/ RefuseBatch(p) \/ Interrupt(p)
    \/ \E e \in Range(Runs) : Writes(e)
    \/ Rename \/ Tombstone

\* The first events of an execution may have been written before.
EvidenceInit(printed) ==
    /\ graph = [nodes |-> {}, title |-> Nothing, edges |-> {}, processed |-> [e \in Range(Runs) |-> {}]]
    /\ pass = [p \in Passes |-> Away]
    /\ source = [status |-> "active", title |-> "old", written |-> [e \in Range(Runs) |-> printed]]

-----------------------------------------------------------------------------
(* What the graph routes answer, and the properties *)

\* getConnected: the edges at an entity, and their other ends.
Incident(x) == {edge \in graph.edges : x \in {edge[1], edge[3]}}
Connected(x) == {IF edge[1] = x THEN edge[3] ELSE edge[1] : edge \in Incident(x)} \cap graph.nodes

\* Whatever an execution wrote is in the graph in the end, under the title the investigation
\* has by then, when the graph is opened again and again.
EvidenceArrives ==
    (source.status = "active" /\ chances.open = Forever
        /\ \A e \in Range(Runs) : source.written[e] = Len(Output[e]))
    ~> [](\/ source.status = "deleted"
          \/ /\ graph.title = source.title
             /\ \A e \in Range(Runs) :
                    /\ \A n \in 1..Len(Output[e]) : Parsed[e][n].entities \subseteq graph.nodes
                    /\ Flushed[e][Len(Output[e])].entities \subseteq graph.nodes)
=============================================================================
