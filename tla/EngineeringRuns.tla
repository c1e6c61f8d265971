--------------------------- MODULE EngineeringRuns ---------------------------
(***************************************************************************)
(* Engineering runs: the graph built of a submitted snapshot, the impact   *)
(* of a change and the verification computed from it, and the requests     *)
(* that write runs, tasks and evidence one row at a time.                  *)
(*                                                                         *)
(* What the patterns find in a source file (imports, packages, signals) is *)
(* given with the file.  Ids are <<kind, key>>.                            *)
(***************************************************************************)
EXTENDS Naturals, FiniteSets, Sequences, SequencesExt, TLC

CONSTANTS
    Routes,       \* the requests that can be in flight at the same time
    Snapshots,    \* the submitted snapshots: a function to sequences of source files
    RunIds,       \* the runs there can be
    Unset,        \* no path, no run, no verdict
    MaxNodes,     \* REPOSITORY_MAX_NODES
    MaxChanged    \* the changed paths the panel sends at most

VARIABLES
    tables,         \* the tables: runs, tasks and evidence
    request,      \* the requests in flight: the writes they have still to make
    panel,        \* the panel: its snapshot, its run, and what it shows
    hopes         \* what may still be asked, and what may still go wrong

engineeringVars == <<tables, request, panel, hopes>>

-----------------------------------------------------------------------------
(* The graph.  A file has a path (Unset when it does not normalise), a     *)
(* kind, its parent directories from the top, the paths each import may    *)
(* resolve to, the path it tests, its symbols, packages and signals.       *)

\* Of the files of one path the first counts, one whose path does not normalise never.
Accepted(files) ==
    {files[i] : i \in {k \in DOMAIN files : /\ files[k].path # Unset
                                           /\ \A j \in 1..(k - 1) : files[j].path # files[k].path}}

FileId(files, path) == LET f == CHOOSE f \in files : f.path = path IN <<f.kind, path>>

\* An import is internal when a candidate was submitted; otherwise it is a package by name, or,
\* written as a path, an unknown dependency of this very line, which the import's name stands for.
Imported(files, f, import) ==
    LET known == SelectSeq(import.candidates, LAMBDA path : \E g \in files : g.path = path)
    IN  IF known # <<>> THEN FileId(files, known[1])
        ELSE IF import.relative THEN <<"unknown_dependency", import.name>>
        ELSE <<"external_dependency", import.name>>

ImportEdges(files) ==
    UNION {{<<FileId(files, f.path), "imports", Imported(files, f, import)>> : import \in f.imports} : f \in files}

TestEdges(files) ==
    {<<FileId(files, f.path), "tests", FileId(files, f.tests)>> : f \in
        {g \in files : g.kind = "test" /\ \E h \in files : h.path = g.tests}}

SymbolEdges(files) ==
    UNION {{<<FileId(files, f.path), "contains", <<"symbol", <<f.path, s>>>>>> : s \in f.symbols} : f \in files}

\* The repository contains every file, a file's own directory contains it; directories above are
\* nodes without edges.
FileEdges(files) ==
    {<<<<"repository", "key">>, "contains", FileId(files, f.path)>> : f \in files}
    \cup {<<<<"directory", Last(f.parents)>>, "contains", FileId(files, f.path)>> : f \in {g \in files : g.parents # <<>>}}
    \cup {<<FileId(files, f.path), "routes_to", <<"route", f.path>>>> : f \in {g \in files : g.route}}
    \cup UNION {{<<FileId(files, f.path), "depends_on", <<"package", p>>>> : p \in f.packages} : f \in files}

BuildGraph(files) ==
    LET edges == ImportEdges(files) \cup TestEdges(files) \cup SymbolEdges(files) \cup FileEdges(files)
    IN  [files |-> files, edges |-> edges,
         nodes |-> {<<"repository", "key">>} \cup {FileId(files, f.path) : f \in files}
                   \cup UNION {{<<"directory", d>> : d \in ToSet(f.parents)} : f \in files}
                   \cup UNION {{<<f.kind, f.path>>} \cup {<<"symbol", <<f.path, s>>>> : s \in f.symbols} : f \in files}
                   \cup {e[3] : e \in {x \in edges : x[3][1] \in {"external_dependency", "unknown_dependency", "route",
                                                                 "package"}}}]

Valid(files) == Accepted(files) # {} /\ Cardinality(BuildGraph(Accepted(files)).nodes) <= MaxNodes

-----------------------------------------------------------------------------
(* The impact of a change *)

Importers(g, ids) == {e[1] : e \in {x \in g.edges : x[2] = "imports" /\ x[3] \in ids}}

\* The search goes backwards along imports, in as many rounds as find something new; the target is
\* no dependent of itself.
Dependents(g, id) ==
    LET rounds == Cardinality(g.nodes)
        visited[n \in 0..rounds] ==
            IF n = 0 THEN {id} ELSE LET known == visited[n - 1] IN known \cup Importers(g, known)
    IN  visited[rounds] \ {id}

PathOf(id) == id[2]

\* What is already named as a dependency or a direct dependent is not named again as an indirect
\* one.  An item of a test names the edge's target, which is the tested file.
Impact(g, path) ==
    IF ~\E f \in g.files : f.path = path THEN [status |-> "UNKNOWN", items |-> {}]
    ELSE LET id == FileId(g.files, path)
             dependencies == {<<"dependency", PathOf(e[3])>> : e \in {x \in g.edges : x[2] = "imports" /\ x[1] = id}}
             direct == {<<"dependent", PathOf(x)>> : x \in Importers(g, {id})}
             named == {i[2] : i \in dependencies \cup direct}
             indirect == {<<"dependent", PathOf(x)>> : x \in {y \in Dependents(g, id) : PathOf(y) \notin named}}
             tests == {<<"test", PathOf(e[3])>> : e \in {x \in g.edges : x[2] = "tests" /\ x[3] = id}}
             affected == {i[2] : i \in dependencies \cup direct \cup indirect \cup tests} \cup {path}
             sensitive == \E f \in g.files : f.path \in affected /\ f.sensitive
         IN  [status |-> IF \E n \in g.nodes : n[1] = "unknown_dependency" THEN "PARTIALLY_VERIFIED" ELSE "VERIFIED",
              items |-> dependencies \cup direct \cup indirect \cup tests
                        \cup {<<"route", n[2]>> : n \in {x \in g.nodes : x[1] = "route" /\ x[2] \in affected}}
                        \cup {<<"configuration", n[2]>> : n \in {x \in g.nodes : x[1] = "configuration"}}
                        \cup (IF sensitive THEN {<<"security", path>>} ELSE {})]

-----------------------------------------------------------------------------
(* Verification *)

Verdict(g, changed, check) ==
    CASE check = "diff" /\ changed = {} -> "BLOCKED"
      [] check = "diff" -> IF changed \subseteq {f.path : f \in g.files} THEN "VERIFIED" ELSE "FAILED"
      [] check = "graph_consistency" ->
           IF \A e \in g.edges : {e[1], e[3]} \subseteq g.nodes THEN "VERIFIED" ELSE "FAILED"
      [] check = "security" -> IF \A f \in g.files : f.signals = {} THEN "VERIFIED" ELSE "PARTIALLY_VERIFIED"
      [] check = "tests" -> IF \E path \in changed : \E i \in Impact(g, path).items : i[1] = "test"
                            THEN "VERIFIED" ELSE "PARTIALLY_VERIFIED"
      [] OTHER -> "BLOCKED"

\* The worst check decides.
Overall(verdicts) ==
    CHOOSE v \in {"FAILED", "BLOCKED", "PARTIALLY_VERIFIED", "VERIFIED"} :
        \/ v \in verdicts /\ CASE v = "FAILED" -> TRUE
                               [] v = "BLOCKED" -> "FAILED" \notin verdicts
                               [] v = "PARTIALLY_VERIFIED" -> verdicts \cap {"FAILED", "BLOCKED"} = {}
                               [] OTHER -> verdicts = {"VERIFIED"}

AllChecks == {"diff", "graph_consistency", "security", "tests", "typecheck", "lint", "build"}

Verification(g, changed) ==
    LET verdicts == {Verdict(g, changed, check) : check \in AllChecks} IN [status |-> Overall(verdicts), of |-> changed]

AsTask(verdict) == IF verdict \in {"FAILED", "BLOCKED"} THEN verdict ELSE "COMPLETED"

-----------------------------------------------------------------------------
(* The requests.  Each is the list of the tables it writes, in this order; a *)
(* failing insert ends it, and only the roles' route then marks the run.   *)

Status(status, verdict) == [table |-> "runs", status |-> status, verdict |-> verdict]
Task(role, status) == [table |-> "tasks", role |-> role, status |-> status]
Fact(title, verdict) == [table |-> "evidence", title |-> title, verdict |-> verdict]

IngestWrites(files) ==
    <<[table |-> "contexts"], [table |-> "nodes"], [table |-> "edges"], [table |-> "new", snapshot |-> files],
      Task("REPOSITORY_ANALYST", "COMPLETED"), Fact("snapshot", Unset), Fact("graph", Unset), Status("COMPLETED", Unset)>>

\* Changed: the verdict is written before what it rests on.
VerdictFirst(verdict) ==
    <<Status("VERIFYING", Unset), Status(AsTask(verdict), verdict), Task("VERIFICATION_ENGINEER", AsTask(verdict)),
      Fact("verification", verdict)>>

VerifyWrites(verdict) ==
    <<Status("VERIFYING", Unset), Task("VERIFICATION_ENGINEER", AsTask(verdict)), Fact("verification", verdict),
      Status(AsTask(verdict), verdict)>>

RoleWrites == <<Status("PLANNING", Unset), Task("ARCHITECT", "COMPLETED"), Fact("ARCHITECT", Unset),
                Task("SECURITY_ENGINEER", "COMPLETED"), Fact("SECURITY_ENGINEER", Unset), Task("TEST_ENGINEER", "COMPLETED"),
                Fact("TEST_ENGINEER", Unset), Fact("reconciliation", Unset), Status("COMPLETED", Unset)>>

Hope(what) == hopes[what] > 0 /\ hopes' = [hopes EXCEPT ![what] = @ - 1]
Free(r) == request[r] = Unset
Started(r, op, run, writes) == request' = [request EXCEPT ![r] = [op |-> op, run |-> run, todo |-> writes, failed |-> FALSE]]

GraphOf(run) == BuildGraph(Accepted(Snapshots[tables.runs[run].snapshot]))

WithRun(runs, run, snapshot) ==
    [i \in DOMAIN runs \cup {run} |->
        IF i \in DOMAIN runs THEN runs[i] ELSE [status |-> "ANALYZING", verdict |-> Unset, snapshot |-> snapshot]]

\* An update that does not give a verdict leaves it; one that fails is not noticed.
Written(w, run) ==
    CASE w.table = "new" -> [tables EXCEPT !.runs = WithRun(@, run, w.snapshot)]
      [] w.table = "runs" -> [tables EXCEPT !.runs[run].status = w.status,
                                          !.runs[run].verdict = IF w.verdict = Unset THEN @ ELSE w.verdict]
      [] w.table = "tasks" -> [tables EXCEPT !.tasks = @ \cup {<<run, w.role, w.status>>}]
      [] w.table = "evidence" -> [tables EXCEPT !.evidence = @ \cup {<<run, w.title, w.verdict>>}]
      [] OTHER -> tables

Write(r) ==
    /\ ~Free(r) /\ request[r].todo # <<>>
    /\ tables' = Written(Head(request[r].todo), request[r].run)
    /\ request' = [request EXCEPT ![r].todo = Tail(@)]
    /\ UNCHANGED <<panel, hopes>>

\* The database refuses a write.  An update of a run goes on as if it had been made; after a
\* failed insert the roles' route marks the run as failed, the others only answer.
WriteRefused(r) ==
    /\ ~Free(r) /\ request[r].todo # <<>> /\ Hope("refuse")
    /\ LET update == Head(request[r].todo).table = "runs"
           marked == IF request[r].op = "swarm" THEN <<Status("FAILED", Unset)>> ELSE <<>>
       IN  request' = IF update THEN [request EXCEPT ![r].todo = Tail(@)]
                      ELSE [request EXCEPT ![r].todo = marked, ![r].failed = TRUE]
    /\ UNCHANGED <<tables, panel>>

\* The server goes away in the middle of a request.
Gone(r) ==
    /\ ~Free(r) /\ Hope("die")
    /\ request' = [request EXCEPT ![r].todo = <<>>, ![r].failed = TRUE]
    /\ UNCHANGED <<tables, panel>>

-----------------------------------------------------------------------------
(* The panel *)

\* Other files are chosen: what was shown of the run goes.
Choose ==
    /\ Hope("choose") /\ panel.busy = Unset
    /\ \E files \in DOMAIN Snapshots : panel' = [panel EXCEPT !.files = files, !.run = Unset, !.shown = Unset]
    /\ UNCHANGED <<tables, request>>

Ingest(r) ==
    /\ Hope("ingest") /\ Free(r) /\ panel.busy = Unset /\ panel.files # Unset
    /\ panel' = [panel EXCEPT !.busy = r, !.shown = Unset]
    /\ LET run == CHOOSE i \in RunIds : i \notin DOMAIN tables.runs /\ \A q \in Routes : Free(q) \/ request[q].run # i
       IN  IF Valid(Snapshots[panel.files]) THEN Started(r, "ingest", run, IngestWrites(panel.files))
           ELSE request' = [request EXCEPT ![r] = [op |-> "ingest", run |-> run, todo |-> <<>>, failed |-> TRUE]]
    /\ UNCHANGED tables

\* The panel sends the paths it has in its hands: none after a reload.
ChangedPaths == IF panel.files = Unset THEN {}
                ELSE LET files == Snapshots[panel.files]
                     IN  {files[i].raw : i \in 1..(IF Len(files) < MaxChanged THEN Len(files) ELSE MaxChanged)}

Verify(r) ==
    /\ Hope("verify") /\ Free(r) /\ panel.busy = Unset /\ panel.run # Unset
    /\ panel' = [panel EXCEPT !.busy = r]
    /\ Started(r, "verify", panel.run, VerifyWrites(Verification(GraphOf(panel.run), ChangedPaths).status))
    /\ UNCHANGED tables

Roles(r) ==
    /\ Hope("roles") /\ Free(r) /\ panel.busy = Unset /\ panel.run # Unset
    /\ panel' = [panel EXCEPT !.busy = r]
    /\ Started(r, "swarm", panel.run, RoleWrites)
    /\ UNCHANGED tables

Remembered(run) == [panel EXCEPT !.busy = Unset, !.run = run, !.saved = run]

\* The answer.  A page that was left does not wait for it.
Finish(r) ==
    /\ ~Free(r) /\ request[r].todo = <<>>
    /\ request' = [request EXCEPT ![r] = Unset]
    /\ LET answer == IF request[r].failed THEN "failed" ELSE request[r].op
       IN  panel' = CASE panel.busy # r -> panel
                      [] panel.busy = r /\ answer = "ingest" -> Remembered(request[r].run)
                      [] panel.busy = r /\ answer = "verify" ->
                           [panel EXCEPT !.busy = Unset, !.shown = tables.runs[panel.run].verdict]
                      [] OTHER -> [panel EXCEPT !.busy = Unset]
    /\ UNCHANGED <<tables, hopes>>

\* GET verifies anew what has a verdict, with every path of the snapshot.
Shown(run) ==
    IF tables.runs[run].verdict = Unset THEN Unset
    ELSE Verification(GraphOf(run), {f.path : f \in GraphOf(run).files}).status

\* The page is opened again: the run it remembers, else the latest there is.
Restore ==
    /\ Hope("restore")
    /\ panel' = [files |-> Unset, busy |-> Unset, saved |-> panel.saved, run |-> Unset, shown |-> Unset]
    /\ UNCHANGED <<tables, request>>

Restored ==
    /\ panel.files = Unset /\ panel.run = Unset /\ panel.busy = Unset
    /\ \E run \in DOMAIN tables.runs :
          /\ run = IF panel.saved \in DOMAIN tables.runs THEN panel.saved
                   ELSE CHOOSE i \in DOMAIN tables.runs : \A j \in DOMAIN tables.runs : j <= i
          /\ panel' = [Remembered(run) EXCEPT !.shown = Shown(run)]
    /\ UNCHANGED <<tables, request, hopes>>

-----------------------------------------------------------------------------
EngineeringStep(r) == Write(r) \/ Finish(r)

EngineeringNext ==
    \/ Choose \/ Restore \/ Restored
    \/ \E r \in Routes : EngineeringStep(r) \/ WriteRefused(r) \/ Gone(r) \/ Ingest(r) \/ Verify(r) \/ Roles(r)

EngineeringInit ==
    /\ tables = [runs |-> <<>>, tasks |-> {}, evidence |-> {}]
    /\ request = [r \in Routes |-> Unset]
    /\ panel = [files |-> Unset, busy |-> Unset, saved |-> Unset, run |-> Unset, shown |-> Unset]

-----------------------------------------------------------------------------
(* Properties *)

\* A verdict rests on what is stored: whatever overtakes or interrupts a verification, the run has
\* the task and the evidence of the verdict it states.
VerdictIsGrounded ==
    \A run \in DOMAIN tables.runs : tables.runs[run].verdict # Unset =>
        /\ <<run, "VERIFICATION_ENGINEER", AsTask(tables.runs[run].verdict)>> \in tables.tasks
        /\ <<run, "verification", tables.runs[run].verdict>> \in tables.evidence

=============================================================================
