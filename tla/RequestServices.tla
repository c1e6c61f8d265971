--------------------------- MODULE RequestServices ---------------------------
(***************************************************************************)
(* The verification route (app/api/verify/route.ts) and what it is built   *)
(* on: windows and monthly ledgers in the store (lib/hexical/limits.ts and *)
(* the functions of 20260822_hexical_investigation_supabase_runtime.sql),  *)
(* the model route, the provider chain with its circuit breakers, the      *)
(* response cache and the authorization scopes.                            *)
(*                                                                         *)
(* One user.  A request reserves tokens and cost, is answered by a         *)
(* provider, and trues both up.  An amount is a small number; the retries  *)
(* of one provider call are part of its outcome.                           *)
(***************************************************************************)
EXTENDS Integers, FiniteSets, Sequences, FiniteSetsExt

CONSTANTS
    Asked,        \* requests
    None,         \* no row, no key
    RateCap, QuotaCap, SwarmCap, SpendCap,   \* capacities of the windows and of a day's spend
    Caps,         \* the monthly cap of each ledger
    Threshold     \* failures in a row that open a circuit

ASSUME RequestAssumption == IsFiniteSet(Asked) /\ None \notin Nat

VARIABLES
    request,      \* each request
    window,       \* entries in each sliding window
    nonces,       \* nonces that were consumed
    ledger,       \* the monthly ledgers: None, or what is used and reserved
    spend,        \* what was spent today
    circuit,      \* the breaker of each provider
    scope,        \* whether the user has a verified scope, and what the cache of it says
    responses,    \* keys of cached responses
    odds          \* what may still happen

requestVars == <<request, window, nonces, ledger, spend, circuit, scope, responses, odds>>
Shared == <<window, nonces, ledger, spend, circuit, scope, responses, odds>>

Books == {"tokens", "cost"}
Providers == {"anthropic", "groq"}

\* A request that has not arrived. `payload` is what it asks: the tier's route, a nonce, a cache key.
Waiting(payload) ==
    [payload |-> payload, step |-> "new", aborted |-> FALSE, seen |-> None, route |-> "groq", cheap |-> FALSE, chain |-> <<>>,
     held |-> 0, used |-> 0, kept |-> 0, found |-> 0, answer |-> "none"]

\* `entries` is what the windows hold.
RequestInit(payloads, rows, verified, entries, budget) ==
    /\ request = [r \in Asked |-> Waiting(payloads[r])]
    /\ window = entries
    /\ nonces = {} /\ ledger = rows /\ spend = 0
    /\ circuit = [p \in Providers |-> [open |-> FALSE, failures |-> 0]]
    /\ scope = [verified |-> verified, cached |-> "no"] /\ responses = {}
    /\ odds = budget

\* Both ledgers begin empty, or without a row; the reservations of two requests that find no row
\* are not added up, and a store that fails after a stream gives twice back.
BooksOpen(payloads, rows, budget) ==
    /\ rows \in [Books -> {0, None}]
    /\ (\A book \in Books : rows[book] = 0) \/ (\A r, t \in Asked : payloads[r].nonce = payloads[t].nonce)
    /\ budget \in [{"provider", "abort", "store", "time", "review"} -> Nat]
    /\ budget.store = 0 \/ \A r \in Asked : ~payloads[r].stream

At(r, step) == request[r].step = step
Put(r, q) == request' = [request EXCEPT ![r] = q]
Go(r, step) == Put(r, [request[r] EXCEPT !.step = step])
Answer(r, what) == Put(r, [request[r] EXCEPT !.step = "over", !.answer = what])
Taking(what) == odds[what] > 0 /\ odds' = [odds EXCEPT ![what] = @ - 1]

-----------------------------------------------------------------------------
(* The doors a request passes, each one call of the store.                 *)

Arrive(r) ==
    /\ At(r, "new")
    /\ IF request[r].payload.nonce \in nonces THEN Answer(r, "replayed") ELSE Go(r, "rate")
    /\ nonces' = nonces \cup {request[r].payload.nonce}
    /\ UNCHANGED <<window, ledger, spend, circuit, scope, responses, odds>>

\* hexical_investigation_rate_limit: a full window refuses, and is not charged.
Window(r, w, cap, next) ==
    /\ IF window[w] >= cap
       THEN Answer(r, w) /\ UNCHANGED window
       ELSE Go(r, next) /\ window' = [window EXCEPT ![w] = @ + 1]
    /\ UNCHANGED <<nonces, ledger, spend, circuit, scope, responses, odds>>

CheckRate(r) == At(r, "rate") /\ Window(r, "user", RateCap, "quota")
CheckQuota(r) == At(r, "quota") /\ Window(r, "messages", QuotaCap, "scope")

Gated(r) == request[r].payload.profile = "swarm"

\* verifyAuthorization: the scopes are read through a cache that lives a minute.
Authorize(r) ==
    /\ At(r, "scope")
    /\ IF ~Gated(r)
       THEN Go(r, "route") /\ UNCHANGED scope
       ELSE \E rows \in {IF scope.cached # "no" THEN scope.cached ELSE IF scope.verified THEN "one" ELSE "none"} :
               /\ IF rows = "one" THEN Go(r, "swarm cap") ELSE Answer(r, "scope")
               /\ scope' = [scope EXCEPT !.cached = rows]
    /\ UNCHANGED <<window, nonces, ledger, spend, circuit, responses, odds>>

CheckSwarm(r) == At(r, "swarm cap") /\ Window(r, "swarm", SwarmCap, "route")

\* chooseModelRoute: over the day's spend everything is cheap; a swarm asks Anthropic first.
FallbackProviders(primary, cheap) ==
    IF cheap THEN <<"groq">> ELSE IF primary = "anthropic" THEN <<"anthropic", "groq">> ELSE <<"groq", "anthropic">>

ChooseRoute(r) ==
    /\ At(r, "route")
    /\ \E cheap \in {spend >= SpendCap} :
       \E primary \in {IF Gated(r) /\ ~cheap THEN "anthropic" ELSE "groq"} :
          Put(r, [request[r] EXCEPT !.cheap = cheap, !.route = primary, !.chain = FallbackProviders(primary, cheap),
                                    !.step = "cache"])
    /\ UNCHANGED Shared

\* The confidence gate reads the whole first pass, and may run the swarm after it.
HasGate(r) == Gated(r) /\ ~request[r].cheap
Cacheable(r) == request[r].payload.key # None /\ ~Gated(r)

\* A cached answer costs a message but no tokens.
ReadCache(r) ==
    /\ At(r, "cache")
    /\ IF Cacheable(r) /\ request[r].payload.key \in responses THEN Answer(r, "cached") ELSE Go(r, "tokens")
    /\ UNCHANGED Shared

-----------------------------------------------------------------------------
(* The ledgers.                                                            *)

Estimate(r) == IF HasGate(r) THEN 5 ELSE 2
FindingEstimate == 3
Amount(book) == IF ledger[book] = None THEN 0 ELSE ledger[book]

\* hexical_investigation_reserve_budget locks the row it reads; where there is no row there is
\* nothing to lock, and what was read is what the insert adds to.
Locks(book) == ledger[book] # None
Fits(book, read, amount) == read + amount <= Caps[book]
Reserved(book, read, amount) == ledger' = [ledger EXCEPT ![book] = read + amount]

\* hexical_investigation_reconcile_budget
Reconciled(book, delta) ==
    ledger' = [ledger EXCEPT ![book] = IF Amount(book) + delta < 0 THEN 0 ELSE Amount(book) + delta]

\* A reservation on top of what was read; `yes` and `no` are what follows.
Decide(r, book, read, amount, yes, no) ==
    IF Fits(book, read, amount)
    THEN Put(r, [yes EXCEPT !.seen = None]) /\ Reserved(book, read, amount)
    ELSE Put(r, [no EXCEPT !.seen = None]) /\ UNCHANGED ledger

\* On a row at once, on no row in two steps.
Reserve(r, book, amount, yes, no) ==
    /\ \/ /\ ~Locks(book) /\ request[r].seen = None
          /\ Put(r, [request[r] EXCEPT !.seen = 0]) /\ UNCHANGED ledger
       \/ request[r].seen # None /\ Decide(r, book, request[r].seen, amount, yes, no)
       \/ Locks(book) /\ request[r].seen = None /\ Decide(r, book, ledger[book], amount, yes, no)
    /\ UNCHANGED <<window, nonces, spend, circuit, scope, responses, odds>>

Refused(q, what) == [q EXCEPT !.step = "over", !.answer = what]
Reply(q, what) == [q EXCEPT !.answer = what]

ReserveTokens(r) ==
    /\ At(r, "tokens")
    /\ Reserve(r, "tokens", Estimate(r), [request[r] EXCEPT !.held = Estimate(r), !.step = "cost"], Refused(request[r], "tokens"))

\* Changed: what is refused for its cost keeps its tokens.
CostRefused_kept(q) == Refused(q, "cost")

\* A cost that is refused gives the tokens back.
CostRefused(q) == [q EXCEPT !.step = "give tokens", !.answer = "cost"]
ReserveCost(r) ==
    /\ At(r, "cost")
    /\ Reserve(r, "cost", Estimate(r), [request[r] EXCEPT !.step = "dispatch"], CostRefused(request[r]))

\* A reservation is given back, one ledger after the other, and the answer is sent.
GiveTokens(r) ==
    /\ At(r, "give tokens")
    /\ Reconciled("tokens", 0 - request[r].held)
    /\ Put(r, [request[r] EXCEPT !.held = 0, !.step = IF request[r].answer = "cost" THEN "over" ELSE "give cost"])
    /\ UNCHANGED <<window, nonces, spend, circuit, scope, responses, odds>>

GiveCost(r) ==
    /\ At(r, "give cost")
    /\ Reconciled("cost", 0 - Estimate(r))
    /\ Go(r, "over")
    /\ UNCHANGED <<window, nonces, spend, circuit, scope, responses, odds>>

GiveBack(q, what) == [q EXCEPT !.step = "give tokens", !.answer = what, !.used = 0]

-----------------------------------------------------------------------------
(* The providers.                                                          *)

MarkSuccess(p) == circuit' = [circuit EXCEPT ![p] = [open |-> FALSE, failures |-> 0]]
MarkFailure(p) ==
    circuit' = [circuit EXCEPT ![p] = [open |-> @.open \/ @.failures + 1 >= Threshold,
                                       failures |-> IF @.failures < Threshold THEN @.failures + 1 ELSE @]]

\* A stream is answered by the first provider of the chain, if its circuit is closed.
Dispatch(r) ==
    /\ At(r, "dispatch")
    /\ IF request[r].payload.stream /\ ~HasGate(r) /\ ~circuit[Head(request[r].chain)].open
       THEN Go(r, "stream") ELSE Go(r, "call")
    /\ UNCHANGED Shared

\* executeSingleWithFallback: the next provider of the chain.
Skip(r) ==
    /\ At(r, "call") /\ ~request[r].aborted /\ request[r].chain # <<>>
    /\ circuit[Head(request[r].chain)].open
    /\ Put(r, [request[r] EXCEPT !.chain = Tail(@)])
    /\ UNCHANGED Shared

CallAnswers(r) ==
    /\ At(r, "call") /\ ~request[r].aborted /\ request[r].chain # <<>>
    /\ ~circuit[Head(request[r].chain)].open
    /\ MarkSuccess(Head(request[r].chain))
    /\ \/ Put(r, [request[r] EXCEPT !.used = 1, !.step = "settle tokens"])
       \/ /\ HasGate(r) /\ Head(request[r].chain) = "anthropic"
          /\ Put(r, [request[r] EXCEPT !.used = 1, !.step = "swarm"])
    /\ UNCHANGED <<window, nonces, ledger, spend, scope, responses, odds>>

CallFails(r) ==
    /\ At(r, "call") /\ ~request[r].aborted /\ request[r].chain # <<>>
    /\ ~circuit[Head(request[r].chain)].open
    /\ Taking("provider")
    /\ MarkFailure(Head(request[r].chain))
    /\ Put(r, [request[r] EXCEPT !.chain = Tail(@)])
    /\ UNCHANGED <<window, nonces, ledger, spend, scope, responses>>

\* The chain is used up, or the deadline has passed: what was reserved is given back.
CallGivesUp(r) ==
    /\ At(r, "call")
    /\ \/ request[r].aborted /\ Put(r, GiveBack(request[r], "late"))
       \/ ~request[r].aborted /\ request[r].chain = <<>> /\ Put(r, GiveBack(request[r], "failed"))
    /\ UNCHANGED Shared

\* The swarm after a first pass that was not confident. A swarm that answers nonsense fails the
\* request; one that is cut by the deadline counts as a failure, and the first pass is used.
Swarm(r) ==
    /\ At(r, "swarm")
    /\ \/ /\ circuit["anthropic"].open /\ ~request[r].aborted /\ Go(r, "settle tokens") /\ UNCHANGED <<circuit, odds>>
       \/ /\ ~circuit["anthropic"].open /\ ~request[r].aborted
          /\ Put(r, [request[r] EXCEPT !.used = @ + 2, !.step = "settle tokens"])
          /\ MarkSuccess("anthropic") /\ UNCHANGED odds
       \/ /\ ~circuit["anthropic"].open /\ ~request[r].aborted
          /\ Taking("provider") /\ MarkFailure("anthropic") /\ Put(r, GiveBack(request[r], "failed"))
       \/ /\ request[r].aborted
          /\ Go(r, "settle tokens") /\ MarkFailure("anthropic") /\ UNCHANGED odds
    /\ UNCHANGED <<window, nonces, ledger, spend, scope, responses>>

-----------------------------------------------------------------------------
(* What was used is charged.                                               *)

SettleTokens(r) ==
    /\ At(r, "settle tokens")
    /\ Reconciled("tokens", request[r].used - request[r].held)
    /\ Go(r, "settle cost")
    /\ UNCHANGED <<window, nonces, spend, circuit, scope, responses, odds>>

SettleCost(r) ==
    /\ At(r, "settle cost")
    /\ Reconciled("cost", request[r].used - Estimate(r))
    /\ Go(r, "spend")
    /\ UNCHANGED <<window, nonces, spend, circuit, scope, responses, odds>>

RecordSpend(r) ==
    /\ At(r, "spend")
    /\ spend' = spend + request[r].used
    /\ Go(r, IF request[r].payload.finding /\ request[r].answer # "stream" THEN "find tokens" ELSE "log")
    /\ UNCHANGED <<window, nonces, ledger, circuit, scope, responses, odds>>

\* The structured finding: a second reservation, for a call of its own.
FindTokens(r) ==
    /\ At(r, "find tokens")
    /\ Decide(r, "tokens", ledger["tokens"], FindingEstimate,
              [request[r] EXCEPT !.kept = FindingEstimate, !.step = "find cost"], [request[r] EXCEPT !.step = "log"])
    /\ UNCHANGED <<window, nonces, spend, circuit, scope, responses, odds>>

FindCost(r) ==
    /\ At(r, "find cost")
    /\ Decide(r, "cost", ledger["cost"], FindingEstimate,
              [request[r] EXCEPT !.step = "extract"], [request[r] EXCEPT !.step = "unfind"])
    /\ UNCHANGED <<window, nonces, spend, circuit, scope, responses, odds>>

\* The cost of it was refused: only the tokens go back.
Unfind(r) ==
    /\ At(r, "unfind")
    /\ Reconciled("tokens", 0 - request[r].kept)
    /\ Put(r, [request[r] EXCEPT !.kept = 0, !.step = "log"])
    /\ UNCHANGED <<window, nonces, spend, circuit, scope, responses, odds>>

\* extractStructuredFinding: nothing found is an answer; only the deadline is an error.
Extract(r) ==
    /\ At(r, "extract")
    /\ \E p \in {Head(request[r].chain)} :
          \/ /\ request[r].aborted /\ UNCHANGED <<circuit, odds>>
             /\ Put(r, [request[r] EXCEPT !.step = "charge find", !.answer = "late"])
          \/ /\ ~request[r].aborted /\ circuit[p].open /\ UNCHANGED <<circuit, odds>>
             /\ Go(r, "charge find")
          \/ /\ ~request[r].aborted /\ ~circuit[p].open
             /\ \/ /\ Put(r, [request[r] EXCEPT !.found = 1, !.step = "charge find"])
                   /\ MarkSuccess(p) /\ UNCHANGED odds
                \/ Go(r, "charge find") /\ MarkFailure(p) /\ Taking("provider")
    /\ UNCHANGED <<window, nonces, ledger, spend, scope, responses>>

ChargeFindTokens(r) ==
    /\ At(r, "charge find")
    /\ Reconciled("tokens", request[r].found - request[r].kept)
    /\ Go(r, "charge find cost")
    /\ UNCHANGED <<window, nonces, spend, circuit, scope, responses, odds>>

ChargeFindCost(r) ==
    /\ At(r, "charge find cost")
    /\ Reconciled("cost", request[r].found - request[r].kept)
    /\ Go(r, IF request[r].answer = "late" THEN "over" ELSE "log")
    /\ UNCHANGED <<window, nonces, spend, circuit, scope, responses, odds>>

\* The usage event, and the answer, which is cached behind its back.
Log(r) ==
    /\ At(r, "log")
    /\ responses' = IF Cacheable(r) THEN responses \cup {request[r].payload.key} ELSE responses
    /\ Put(r, [request[r] EXCEPT !.step = "over", !.answer = IF @ = "stream" THEN "streamed" ELSE "ok"])
    /\ UNCHANGED <<window, nonces, ledger, spend, circuit, scope, odds>>

\* streamSingleResponse: the books are done after the response, by a task of their own; a provider
\* that fails, or a call of the store that does, gives the whole reservation back.
StreamEnds(r) ==
    /\ At(r, "stream")
    /\ \E p \in {Head(request[r].chain)} :
          \/ ~request[r].aborted /\ Put(r, [request[r] EXCEPT !.used = 1, !.step = "settle tokens", !.answer = "stream"])
             /\ UNCHANGED <<circuit, odds>>
          \/ request[r].aborted /\ Put(r, GiveBack(request[r], "cut")) /\ MarkFailure(p) /\ UNCHANGED odds
          \/ ~request[r].aborted /\ Put(r, GiveBack(request[r], "cut")) /\ MarkFailure(p) /\ Taking("provider")
    /\ UNCHANGED <<window, nonces, ledger, spend, scope, responses>>

-----------------------------------------------------------------------------
(* What happens around a request.                                          *)

\* The deadline of 75 seconds, or the client gone.
Abort(r) ==
    /\ ~At(r, "new") /\ ~At(r, "over") /\ ~request[r].aborted
    /\ Taking("abort")
    /\ Put(r, [request[r] EXCEPT !.aborted = TRUE])
    /\ UNCHANGED <<window, nonces, ledger, spend, circuit, scope, responses>>

\* A call of the store throws: the request ends where it is, and so does what it holds; around the
\* providers and after a stream it is caught, which gives the reservation back.
Caught(r) == At(r, "call") \/ (request[r].answer = "stream" /\ ~At(r, "over"))
StoreThrows(r) ==
    /\ ~At(r, "new") /\ ~At(r, "over")
    /\ Taking("store")
    /\ IF Caught(r) THEN Put(r, GiveBack(request[r], IF request[r].answer = "stream" THEN "cut" ELSE "failed"))
                    ELSE Answer(r, "error")
    /\ UNCHANGED <<window, nonces, ledger, spend, circuit, scope, responses>>

\* Time: a circuit is tried again, a scope is read again, windows move on.
TimePasses ==
    /\ Taking("time")
    /\ \/ \E p \in Providers : circuit[p].open /\ circuit' = [circuit EXCEPT ![p] = [open |-> FALSE, failures |-> 0]]
                               /\ UNCHANGED <<window, scope>>
       \/ scope.cached # "no" /\ scope' = [scope EXCEPT !.cached = "no"] /\ UNCHANGED <<window, circuit>>
       \/ \E w \in DOMAIN window : window[w] > 0 /\ window' = [window EXCEPT ![w] = 0] /\ UNCHANGED <<circuit, scope>>
    /\ UNCHANGED <<request, nonces, ledger, spend, responses>>

\* A reviewer verifies or revokes the user's scope.
Review ==
    /\ Taking("review")
    /\ scope' = [scope EXCEPT !.verified = ~@]
    /\ UNCHANGED <<request, window, nonces, ledger, spend, circuit, responses>>

RequestStep(r) ==
    \/ Arrive(r) \/ CheckRate(r) \/ CheckQuota(r) \/ Authorize(r) \/ CheckSwarm(r) \/ ChooseRoute(r) \/ ReadCache(r)
    \/ ReserveTokens(r) \/ ReserveCost(r) \/ GiveTokens(r) \/ GiveCost(r)
    \/ Dispatch(r) \/ Skip(r) \/ CallAnswers(r) \/ CallFails(r) \/ CallGivesUp(r) \/ Swarm(r) \/ StreamEnds(r)
    \/ SettleTokens(r) \/ SettleCost(r) \/ RecordSpend(r)
    \/ FindTokens(r) \/ FindCost(r) \/ Unfind(r) \/ Extract(r) \/ ChargeFindTokens(r) \/ ChargeFindCost(r) \/ Log(r)

RequestNext == (\E r \in Asked : RequestStep(r) \/ Abort(r) \/ StoreThrows(r)) \/ TimePasses \/ Review

-----------------------------------------------------------------------------
(* Properties.                                                             *)

AllOver == \A r \in Asked : request[r].step \in {"new", "over"}
Charged(r) == IF request[r].answer \in {"ok", "streamed"} THEN request[r].used + request[r].found ELSE 0
\* What a request that was not answered may have left in the ledgers.
Leaves(r) == IF request[r].answer = "error" THEN Estimate(r) + FindingEstimate
             ELSE IF request[r].answer = "late" THEN request[r].used ELSE 0

\* The ledgers hold what the answers used: nothing that was refused, failed or fell back to another
\* provider stays charged, nothing that was answered is missing. Only a request that the deadline
\* cut after its analysis, or that died of the store, leaves something behind.
LedgersAreTrue ==
    AllOver => \A book \in Books :
        /\ MapThenSumSet(Charged, Asked) <= Amount(book)
        /\ Amount(book) <= MapThenSumSet(Charged, Asked) + MapThenSumSet(Leaves, Asked)

=============================================================================
