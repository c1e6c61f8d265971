-------------------------- MODULE MCWebApplication --------------------------
(* Instances of WebApplication for TLC. *)
EXTENDS WebApplication

CONSTANTS r1, r2, s1, s2, s3, e1, e2, x1, i1, i2, i3, p1, p2

\* What an execution of an investigation goes through.
SomeText == [e \in Executions |-> <<"running", "text", "succeeded">>]

\* What an execution prints: a host, a port whose line comes in two pieces, a finding without an
\* end of line.
Printed(pieces) == [kind |-> "text", pieces |-> pieces]
Changed == [kind |-> "state", pieces |-> <<>>]
SomeOutput == x1 :> <<Changed, Printed(<<<<"host">>, <<"po">>>>), Printed(<<<<"rt">>, <<>>>>), Printed(<<<<"cve">>>>)>>
SomeMatches == <<"host">> :> [NoMatch EXCEPT !.host = "h"]
               @@ <<"po", "rt">> :> [NoMatch EXCEPT !.port = "p", !.service = "s"]
               @@ <<"cve">> :> [NoMatch EXCEPT !.mentions = {<<"vulnerability", "cve">>}]
SomeRuns == <<x1>>

\* A cycle of imports with a test and an import that leads nowhere; an API with its packages, one
\* path that is written differently; a path that is refused.
File(path, kind, imports) ==
    [path |-> path, raw |-> path, kind |-> kind, parents |-> <<>>, imports |-> imports, tests |-> Unset, symbols |-> {},
     packages |-> {}, signals |-> {}, route |-> FALSE, sensitive |-> FALSE]
Import(name, candidates) == [name |-> name, relative |-> TRUE, candidates |-> candidates]
SomeSnapshots ==
    [cycle |-> <<File("a", "file", {Import("./b", <<"b", "b.ts">>)}),
                 [File("b", "file", {Import("./c", <<"c">>)}) EXCEPT !.sensitive = TRUE],
                 File("c", "file", {Import("./a", <<"x", "a">>), Import("./gone", <<"gone">>)}),
                 [File("a.test", "test", {Import("./a", <<"a">>)}) EXCEPT !.tests = "a"],
                 File("a", "file", {})>>,
     app |-> <<[File("route", "file", {Import("./lib", <<"lib">>)}) EXCEPT !.route = TRUE, !.parents = <<"app", "app/api">>,
                                                                          !.raw = "./route"],
               [File("lib", "file", {[name |-> "zod", relative |-> FALSE, candidates |-> <<>>]}) EXCEPT !.signals = {"eval"},
                                                                                                    !.symbols = {"f"}],
               [File("package.json", "configuration", {}) EXCEPT !.packages = {"zod"}]>>,
     above |-> <<[File("../up", "file", {}) EXCEPT !.path = Unset]>>]

-----------------------------------------------------------------------------
(* Scenarios: what is asked in each, and from where.                       *)

NoLeft == [create |-> 0, patch |-> 0, delete |-> 0, list |-> 0, ensure |-> 0, terminate |-> 0, attach |-> 0, open |-> 0,
           bookmark |-> 0, note |-> 0, fail |-> 0, cut |-> 0, die |-> 0, calm |-> TRUE]
NoChances == [atOnce |-> 0, open |-> 0, refuse |-> 0, stop |-> 0, rename |-> 0, delete |-> 0]
NoAsks == [fail |-> 0, refresh |-> 0, more |-> 0, create |-> 0, patch |-> 0, remove |-> 0, select |-> 0, reload |-> 0,
           edit |-> 0, discard |-> 0, post |-> 0, explore |-> 0, overlap |-> FALSE, realtime |-> FALSE, calm |-> TRUE]
NoHopes == [ingest |-> 0, choose |-> 0, verify |-> 0, roles |-> 0, restore |-> 0, refuse |-> 0, die |-> 0]

Untouched == [part |-> "", inv |-> NoInvestigation, tty |-> NoServices, left |-> NoLeft, chances |-> NoChances, printed |-> 0,
          rows |-> <<>>, asks |-> NoAsks, hopes |-> NoHopes]

Alive(s) == [NoServices EXCEPT !.sess[s] = "live"]
Queued == [Alive(s1) EXCEPT !.exec[e1] = "queued"]
HalfWay == [Queued EXCEPT !.exec[e1] = "running", !.out[e1] = 1]
Server(from, services, budget) ==
    [Untouched EXCEPT !.part = "investigations", !.inv = from, !.tty = services, !.left = budget]

InvestigationScenarios ==
    {Server(NoInvestigation, NoServices, [NoLeft EXCEPT !.create = 1, !.fail = 2, !.ensure = 1, !.list = 1]),
     Server(Begun(s1), Alive(s1), [NoLeft EXCEPT !.delete = 1, !.patch = 1, !.ensure = 1, !.list = 1]),
     Server(Begun(Absent), NoServices, [NoLeft EXCEPT !.ensure = 3, !.patch = 1]),
     Server(Begun(s1), Alive(s1), [NoLeft EXCEPT !.ensure = 2, !.die = 1]),
     Server(Begun(s1), Alive(s1), [NoLeft EXCEPT !.ensure = 1, !.terminate = 1, !.fail = 1]),
     Server(Begun(s1), Alive(s1), [NoLeft EXCEPT !.attach = 3, !.cut = 1]),
     Server(BegunWith(s1, e1), Queued, [NoLeft EXCEPT !.bookmark = 2, !.note = 2]),
     Server(BegunWith(s1, e1), HalfWay, [NoLeft EXCEPT !.open = Unlimited])}

Graph(printed, budget) == [Untouched EXCEPT !.part = "evidence", !.printed = printed, !.chances = budget]
EvidenceScenarios ==
    {Graph(4, [NoChances EXCEPT !.atOnce = 2, !.open = 2]),
     Graph(0, [NoChances EXCEPT !.atOnce = 1, !.open = Forever, !.stop = 1, !.rename = 1]),
     Graph(3, [NoChances EXCEPT !.atOnce = 1, !.open = 2, !.refuse = 1, !.delete = 1])}

FirstRow(id) == [id |-> id, title |-> "first", status |-> "active", at |-> 0]
Two == <<FirstRow(i1), FirstRow(i2)>>
Browser(list, budget) == [Untouched EXCEPT !.part = "client", !.rows = list, !.asks = budget]
ClientScenarios ==
    {Browser(Two \o <<FirstRow(i3)>>, [NoAsks EXCEPT !.refresh = 1, !.more = 2, !.patch = 1, !.fail = 1, !.calm = FALSE]),
     Browser(Two, [NoAsks EXCEPT !.refresh = 1, !.more = 1, !.create = 1]),
     Browser(Two, [NoAsks EXCEPT !.patch = 2, !.remove = 1, !.realtime = TRUE]),
     Browser(Two, [NoAsks EXCEPT !.patch = 1, !.remove = 1, !.refresh = 1, !.fail = 1, !.calm = FALSE]),
     Browser(Two, [NoAsks EXCEPT !.select = 2, !.reload = 1, !.explore = 1]),
     Browser(Two, [NoAsks EXCEPT !.select = 1, !.edit = 1, !.discard = 1, !.reload = 1, !.realtime = TRUE,
                                !.calm = FALSE]),
     Browser(Two, [NoAsks EXCEPT !.select = 1, !.reload = 1, !.post = 2, !.fail = 1, !.calm = FALSE])}

Engineer(budget) == [Untouched EXCEPT !.part = "engineering", !.hopes = budget]
EngineeringScenarios ==
    {Engineer([NoHopes EXCEPT !.ingest = 1, !.choose = 1, !.verify = 2, !.restore = 1, !.refuse = 1]),
     Engineer([NoHopes EXCEPT !.ingest = 1, !.choose = 1, !.verify = 1, !.roles = 1, !.restore = 1, !.die = 1])}

AllScenarios == InvestigationScenarios \cup EvidenceScenarios \cup ClientScenarios \cup EngineeringScenarios

=============================================================================
