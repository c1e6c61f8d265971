------------------------------ MODULE MCPlatform ------------------------------
(* Instances of Platform for TLC. *)
EXTENDS Platform, TLC

CONSTANTS p1, p2, w1, w2, j1, j2, a1, a2, c1, c2, o1, o2, t1, t2, t3, v1, v2, v3, d1, d2, d3

SomeCaps == [tokens |-> 8, cost |-> 7]

\* Each process with an id of its own, or both with the same.
Own == p1 :> w1 @@ p2 :> w2
Same == p1 :> w1 @@ p2 :> w1

NoChances == [boot |-> 0, stall |-> 0, administer |-> 0, lose |-> 0, beat |-> 0, rivals |-> 0, signal |-> 0, crash |-> 0,
              hint |-> 0, release |-> 0, admit |-> 0]
NoOdds == [provider |-> 0, abort |-> 0, store |-> 0, time |-> 0, review |-> 0]
NoFaults == [billing |-> 0, timeout |-> 0, store |-> 0, die |-> 0, time |-> 0]
NoLuck == [read |-> 0, fail |-> 0, again |-> 0, day |-> 0, browser |-> 0]
NoTurns == [idle |-> 0, forget |-> 0]
NoMishaps == [lapse |-> 0, ebb |-> 0]
NoRows == [count |-> Absent, job |-> Absent, lease |-> Absent]

Ask(op, terminal) == [op |-> op, terminal |-> terminal, key |-> "k1", input |-> "plain"]

\* What a request asks for.
Plain == [profile |-> "plain", nonce |-> "n1", key |-> None, stream |-> FALSE, finding |-> FALSE]
Finding == [Plain EXCEPT !.finding = TRUE]
Keyed == [Plain EXCEPT !.key = "k"]
InSwarm == [Plain EXCEPT !.profile = "swarm"]
Both(first, second) == a1 :> first @@ a2 :> [second EXCEPT !.nonce = "n2"]
Replayed(payload) == a1 :> payload @@ a2 :> payload

Windowed(user, messages, swarm) == [user |-> user, messages |-> messages, swarm |-> swarm]

Untouched ==
    [part |-> "", ids |-> Own, ready |-> {}, jobs |-> {}, chances |-> NoChances,
     payloads |-> Both(Plain, Plain), rows |-> [tokens |-> 0, cost |-> 0], verified |-> FALSE, entries |-> Windowed(0, 0, 0), odds |-> NoOdds,
     chains |-> c1 :> <<"a", "b">> @@ c2 :> <<"b", "a">>, used |-> [messages |-> 0, cost |-> 0], faults |-> NoFaults,
     opened |-> o1 :> "free" @@ o2 :> "free", luck |-> NoLuck,
     asked |-> [v \in Visits |-> Ask("get", t1)], open |-> {}, direct |-> FALSE, turns |-> NoTurns,
     initial |-> NoRows, todo |-> [c \in Clients |-> <<>>], mishaps |-> NoMishaps]

Workers(ids, ready, jobs, budget) ==
    [Untouched EXCEPT !.part = "workers", !.ids = ids, !.ready = ready, !.jobs = jobs, !.chances = budget]
WorkerScenarios ==
    {Workers(Own, {p1, p2}, {j1}, [NoChances EXCEPT !.crash = 1, !.release = 1]),
     Workers(Same, {p1}, {j1}, [NoChances EXCEPT !.crash = 1, !.boot = Always, !.hint = 1]),
     Workers(Same, {}, {j1}, [NoChances EXCEPT !.signal = 1, !.lose = 1, !.boot = Always]),
     Workers(Same, {p1}, {j1}, [NoChances EXCEPT !.signal = 1, !.hint = 1, !.admit = 1, !.boot = Always]),
     Workers(Own, {p1}, {}, [NoChances EXCEPT !.crash = 1, !.stall = 1, !.lose = 1, !.boot = Always, !.beat = 1]),
     Workers(Same, {p1}, {}, [NoChances EXCEPT !.lose = 1, !.stall = 1, !.administer = 1, !.beat = 1, !.boot = 1, !.rivals = 1])}

Verify(asked, verified, budget) ==
    [Untouched EXCEPT !.part = "requests", !.payloads = asked, !.verified = verified, !.odds = budget]
RequestScenarios ==
    {Verify(Both(Finding, [Keyed EXCEPT !.finding = TRUE]), FALSE, [NoOdds EXCEPT !.provider = 2]),
     Verify(Both([InSwarm EXCEPT !.finding = TRUE], InSwarm), TRUE, [NoOdds EXCEPT !.provider = 1, !.time = 1, !.review = 1]),
     Verify(Both([Keyed EXCEPT !.stream = TRUE], Keyed), TRUE, [NoOdds EXCEPT !.provider = 1, !.abort = 1]),
     Verify(Both([InSwarm EXCEPT !.finding = TRUE], Plain), TRUE, [NoOdds EXCEPT !.provider = 1, !.abort = 1, !.store = 1]),
     Verify(Both([InSwarm EXCEPT !.finding = TRUE], Plain), TRUE, [NoOdds EXCEPT !.provider = 2]),
     [Verify(Replayed(Plain), FALSE, [NoOdds EXCEPT !.time = 1]) EXCEPT !.entries = Windowed(2, 1, 0)],
     [Verify(Both(Plain, Keyed), FALSE, [NoOdds EXCEPT !.time = 1]) EXCEPT !.entries = Windowed(0, 1, 0)],
     [Verify(Replayed(Plain), FALSE, NoOdds) EXCEPT !.rows = [tokens |-> None, cost |-> None]]}

Chat(used, budget) == [Untouched EXCEPT !.part = "chats", !.used = used, !.faults = budget]
ChatScenarios ==
    {Chat([messages |-> 0, cost |-> 2], [NoFaults EXCEPT !.billing = 1, !.timeout = 1, !.store = 1, !.time = 1]),
     Chat([messages |-> 1, cost |-> 0], [NoFaults EXCEPT !.billing = 1, !.die = 1])}

Billed(first, second, budget) ==
    [Untouched EXCEPT !.part = "billing", !.opened = o1 :> first @@ o2 :> second, !.luck = budget]
BillingScenarios ==
    {Billed("free", "free", [NoLuck EXCEPT !.read = 1, !.day = 1, !.browser = 1]),
     Billed("go", "pro", [NoLuck EXCEPT !.day = 2]),
     Billed("go", "pro", [NoLuck EXCEPT !.fail = 1, !.again = 1])}

Visited(first, second, third, opened, budget) ==
    [Untouched EXCEPT !.part = "admission", !.asked = v1 :> first @@ v2 :> second @@ v3 :> third, !.open = opened, !.turns = budget]
Command(terminal, input) == [Ask("admit", terminal) EXCEPT !.input = input]
AdmissionScenarios ==
    {Visited(Ask("create", t2), Ask("create", t3), Ask("end", t1), {t1}, [NoTurns EXCEPT !.idle = 1]),
     Visited(Ask("create", t2), Ask("touch", t1), Ask("get", t1), {t1}, [NoTurns EXCEPT !.idle = 1]),
     Visited(Command(t1, "plain"), Command(t1, "plain"), Command(t1, "probe"), {t1}, [NoTurns EXCEPT !.forget = 1]),
     Visited(Command(t1, "unknown"), Command(t1, "plain"), Ask("end", t1), {t1}, [NoTurns EXCEPT !.idle = 1]),
     [Visited(Command(t1, "probe"), Command(t1, "probe"), [Command(t1, "plain") EXCEPT !.key = "k2"], {t1}, NoTurns)
         EXCEPT !.direct = TRUE]}

Called(initial, first, second, third, budget) ==
    [Untouched EXCEPT !.part = "store", !.initial = initial, !.todo = d1 :> first @@ d2 :> second @@ d3 :> third, !.mishaps = budget]
Counted == [NoRows EXCEPT !.count = 0, !.job = Unheld]
StoreScenarios ==
    {Called(Counted, <<"take", "requeue", "take">>, <<"take", "requeue">>, <<"take", "incr">>, NoMishaps),
     Called(Counted, <<"incr", "incr">>, <<"incr", "incr">>, <<"incr">>, NoMishaps),
     Called(NoRows, <<"claim", "renew", "release">>, <<"claim", "renew">>, <<"get", "claim", "incr">>, [NoMishaps EXCEPT !.lapse = 1]),
     Called(NoRows, <<"append", "append", "trim">>, <<"append", "append", "trim">>, <<"trim">>, NoMishaps),
     Called(NoRows, <<"append", "append">>, <<"append", "append">>, <<"trim">>, [NoMishaps EXCEPT !.ebb = 2])}

AllScenarios ==
    WorkerScenarios \cup RequestScenarios \cup ChatScenarios \cup BillingScenarios \cup AdmissionScenarios \cup StoreScenarios
=============================================================================
