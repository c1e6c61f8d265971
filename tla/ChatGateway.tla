------------------------------ MODULE ChatGateway ------------------------------
(***************************************************************************)
(* The chat route (app/api/ai/chat/route.ts, lib/ai-gateway.ts) and the    *)
(* usage functions of the database: windows for the user and the address,  *)
(* the message limit, a reservation of the month's budget, a chain of      *)
(* models of which some are benched, and the commit of what was used.      *)
(*                                                                         *)
(* One user and one address.  A request lasts less than a minute, so the   *)
(* fifteen minutes of a reservation pass only once its request is over.    *)
(***************************************************************************)
EXTENDS Integers, Sequences, FiniteSets, FiniteSetsExt

CONSTANTS
    Chats,           \* requests
    UserCap, IpCap,  \* capacities of the two windows
    MaxMessages,     \* messages of a month
    Budget,          \* what a month may cost
    Estimated, Most  \* what a request reserves, and the most it may cost: the answer may be longer than estimated

ASSUME ChatAssumption ==
    /\ IsFiniteSet(Chats)
    /\ Budget \in Nat /\ Estimated \in Nat /\ Most \in Nat /\ Estimated <= Most

VARIABLES
    chat,            \* each request
    hits,            \* entries in the two windows
    usage,           \* messages and cost of the month
    reservation,     \* the reservation of each request
    benched,         \* models in their cooldown
    faults           \* what may still happen

chatVars == <<chat, hits, usage, reservation, benched, faults>>

Windows == {"user", "ip"}
Capacity(w) == IF w = "user" THEN UserCap ELSE IpCap

ChatInit(chains, used, budget) ==
    /\ chat = [c \in Chats |-> [step |-> "new", chain |-> chains[c], asked |-> {}, refused |-> FALSE,
                                 attempts |-> 0, cost |-> 0, reason |-> "none"]]
    /\ hits = [w \in Windows |-> 0]
    /\ usage = used
    /\ reservation = [c \in Chats |-> "none"]
    /\ benched = {} /\ faults = budget

Meeting(what) == faults[what] > 0 /\ faults' = [faults EXCEPT ![what] = @ - 1]
In(c, step) == chat[c].step = step
Turn(c, q) == chat' = [chat EXCEPT ![c] = q]
Proceed(c, step) == Turn(c, [chat[c] EXCEPT !.step = step])
Blocked(q, why) == [q EXCEPT !.step = "over", !.reason = why]

\* The two windows are asked at once; one that lets the request in has counted it, whatever the other says.
AskWindow(c, w) ==
    /\ chat[c].step \in {"new", "rate"} /\ w \notin chat[c].asked
    /\ \E full \in {hits[w] >= Capacity(w)} :
       \E refused \in {chat[c].refused \/ full} :
       \E asked \in {chat[c].asked \cup {w}} :
          /\ hits' = IF full THEN hits ELSE [hits EXCEPT ![w] = @ + 1]
          /\ Turn(c, [chat[c] EXCEPT !.asked = asked, !.refused = refused,
                                     !.step = IF asked # Windows THEN "rate" ELSE IF refused THEN "over" ELSE "limit",
                                     !.reason = IF asked = Windows /\ refused THEN "rate_limited" ELSE "none"])
    /\ UNCHANGED <<usage, reservation, benched, faults>>

\* The message limit is read, not taken.
CheckMessages(c) ==
    /\ In(c, "limit")
    /\ IF usage.messages >= MaxMessages THEN Turn(c, Blocked(chat[c], "message_limit_exceeded")) ELSE Proceed(c, "reserve")
    /\ UNCHANGED <<hits, usage, reservation, benched, faults>>

\* Changed: what others have reserved is not counted.
Spoken_committed == usage.cost

\* reserve_budget: what is committed and what is reserved, under the lock of the month's row.
Spoken == usage.cost + Estimated * Cardinality({c \in Chats : reservation[c] = "reserved"})
ReserveBudget(c) ==
    /\ In(c, "reserve")
    /\ IF Spoken + Estimated > Budget
       THEN Turn(c, Blocked(chat[c], "monthly_budget_exceeded")) /\ UNCHANGED reservation
       ELSE Proceed(c, "models") /\ reservation' = [reservation EXCEPT ![c] = "reserved"]
    /\ UNCHANGED <<hits, usage, benched, faults>>

\* A benched model is passed over.
PassOver(c) ==
    /\ In(c, "models") /\ chat[c].chain # <<>> /\ Head(chat[c].chain) \in benched
    /\ Turn(c, [chat[c] EXCEPT !.chain = Tail(@)])
    /\ UNCHANGED <<hits, usage, reservation, benched, faults>>

ModelAnswers(c) ==
    /\ In(c, "models") /\ chat[c].chain # <<>> /\ Head(chat[c].chain) \notin benched
    /\ \E cost \in {Estimated, Most} :
          Turn(c, [chat[c] EXCEPT !.cost = cost, !.attempts = @ + 1, !.step = "commit"])
    /\ UNCHANGED <<hits, usage, reservation, benched, faults>>

\* Only what looks like a billing failure benches a model; a timeout is this call's.
ModelFails(c) ==
    /\ In(c, "models") /\ chat[c].chain # <<>> /\ Head(chat[c].chain) \notin benched
    /\ \/ Meeting("billing") /\ benched' = benched \cup {Head(chat[c].chain)}
       \/ Meeting("timeout") /\ UNCHANGED benched
    /\ Turn(c, [chat[c] EXCEPT !.chain = Tail(@), !.attempts = @ + 1])
    /\ UNCHANGED <<hits, usage, reservation>>

NoModel(c) ==
    /\ In(c, "models") /\ chat[c].chain = <<>>
    /\ Turn(c, [chat[c] EXCEPT !.step = "release",
                               !.reason = IF chat[c].attempts > 0 THEN "model_call_failed" ELSE "all_models_unavailable"])
    /\ UNCHANGED <<hits, usage, reservation, benched, faults>>

\* increment_usage: an error of it is logged, and the answer is sent all the same.
IncrementUsage(c) ==
    /\ In(c, "commit")
    /\ \/ usage' = [messages |-> usage.messages + 1, cost |-> usage.cost + chat[c].cost] /\ UNCHANGED faults
       \/ Meeting("store") /\ UNCHANGED usage
    /\ Proceed(c, "release")
    /\ UNCHANGED <<hits, reservation, benched>>

\* The reservation is given back last; an error of that is logged too.
ReleaseReservation(c) ==
    /\ In(c, "release")
    /\ \/ reservation' = [reservation EXCEPT ![c] = "released"] /\ UNCHANGED faults
       \/ Meeting("store") /\ UNCHANGED reservation
    /\ Turn(c, [chat[c] EXCEPT !.step = "over", !.reason = IF @ = "none" THEN "answered" ELSE @])
    /\ UNCHANGED <<hits, usage, benched>>

\* The store throws where nobody catches it, or the process is gone.
Dies(c) ==
    /\ chat[c].step \notin {"new", "over"}
    /\ Meeting("die")
    /\ Turn(c, Blocked(chat[c], "internal_error"))
    /\ UNCHANGED <<hits, usage, reservation, benched>>

\* Fifteen minutes later.
Lapses(c) ==
    /\ In(c, "over") /\ reservation[c] = "reserved"
    /\ reservation' = [reservation EXCEPT ![c] = "lapsed"]
    /\ UNCHANGED <<chat, hits, usage, benched, faults>>

CooldownEnds(m) ==
    /\ m \in benched
    /\ Meeting("time")
    /\ benched' = benched \ {m}
    /\ UNCHANGED <<chat, hits, usage, reservation>>

ChatStep(c) ==
    \/ \E w \in Windows : AskWindow(c, w)
    \/ CheckMessages(c) \/ ReserveBudget(c) \/ PassOver(c) \/ ModelAnswers(c) \/ ModelFails(c) \/ NoModel(c)
    \/ IncrementUsage(c) \/ ReleaseReservation(c)
ChatNext ==
    \/ \E c \in Chats : ChatStep(c) \/ Dies(c) \/ Lapses(c)
    \/ \E m \in benched : CooldownEnds(m)

-----------------------------------------------------------------------------
(* Properties.                                                             *)

\* The month costs no more than its budget, and what the answers that were committed ran over their
\* estimates, however many requests are in flight: between what a request has reserved and what it
\* has committed there is no moment at which neither is counted.
BudgetHolds == usage.cost <= Budget + (Most - Estimated) * usage.messages
=============================================================================
