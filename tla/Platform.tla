------------------------------- MODULE Platform -------------------------------
(***************************************************************************)
(* The services around the executions: worker processes, the verification  *)
(* route, the chat route, billing, the front door of the terminals and the *)
(* functions of the runtime store.                                         *)
(*                                                                         *)
(* They share the database and no row of it, apart from the tier, which    *)
(* the routes read once per request and which is a constant of a request   *)
(* here.  A behaviour works on one of them, so no interleaving that        *)
(* matters is lost.                                                        *)
(***************************************************************************)
EXTENDS WorkerService, RequestServices, ChatGateway, Billing, TTYAdmission, RuntimeStore

CONSTANT
    Scenarios    \* where behaviours start: the part, its state, and what may happen

\* A behaviour starts with a month within its budget, with session ids that are not in use, and with
\* a counter that is not there or counts nothing yet.
ASSUME ScenariosAssumption ==
    \A s \in Scenarios :
        /\ s.used \in [messages : Nat, cost : Nat] /\ s.used.cost <= Budget + (Most - Estimated) * s.used.messages
        /\ BooksOpen(s.payloads, s.rows, s.odds)
        /\ WithNewIds(s.asked, s.open)
        /\ s.initial \in [Keys -> {Absent, Unheld, 0} \cup Clients] /\ s.initial["count"] \in {Absent, 0}
        /\ s.todo \in [Clients -> Seq(Operations)]

VARIABLE part
platformVars == <<part, workerVars, requestVars, chatVars, billingVars, admissionVars, storeVars>>

Init ==
    \E s \in Scenarios :
        /\ part = s.part
        /\ WorkerInit(s.ids, s.ready, s.jobs, s.chances)
        /\ RequestInit(s.payloads, s.rows, s.verified, s.entries, s.odds)
        /\ ChatInit(s.chains, s.used, s.faults)
        /\ BillingInit(s.opened, s.luck)
        /\ AdmissionInit(s.asked, s.open, s.direct, s.turns)
        /\ StoreInit(s.initial, s.todo, s.mishaps)

Alone(p, others) == part = p /\ UNCHANGED <<part, others>>
OutsideWorkers == <<requestVars, chatVars, billingVars, admissionVars, storeVars>>
OutsideRequests == <<workerVars, chatVars, billingVars, admissionVars, storeVars>>
OutsideChats == <<workerVars, requestVars, billingVars, admissionVars, storeVars>>
OutsideBilling == <<workerVars, requestVars, chatVars, admissionVars, storeVars>>
OutsideAdmission == <<workerVars, requestVars, chatVars, billingVars, storeVars>>
OutsideStore == <<workerVars, requestVars, chatVars, billingVars, admissionVars>>

WorkersWork == Alone("workers", OutsideWorkers) /\ WorkerNext
RequestsWork == Alone("requests", OutsideRequests) /\ RequestNext
ChatsWork == Alone("chats", OutsideChats) /\ ChatNext
BillingWorks == Alone("billing", OutsideBilling) /\ BillingNext
AdmissionWorks == Alone("admission", OutsideAdmission) /\ AdmissionNext
StoreWorks == Alone("store", OutsideStore) /\ StoreNext

Next == WorkersWork \/ RequestsWork \/ ChatsWork \/ BillingWorks \/ AdmissionWorks \/ StoreWorks

\* A process goes on, a supervisor boots one that has exited, a heartbeat that is not renewed grows
\* old, a lease that nobody holds is recovered, the payment provider delivers, a request is worked on, and a client of the
\* store finishes its calls and reads on.
Fairness ==
    /\ \A p \in Processes :
          /\ WF_platformVars(Alone("workers", OutsideWorkers) /\ DaemonStep(p))
          /\ WF_platformVars(Alone("workers", OutsideWorkers) /\ ScriptStep(p))
          /\ WF_platformVars(Alone("workers", OutsideWorkers) /\ PollStep(p))
          /\ WF_platformVars(Alone("workers", OutsideWorkers) /\ RunStep(p))
          /\ WF_platformVars(Alone("workers", OutsideWorkers) /\ Boot(p))
          /\ WF_platformVars(Alone("workers", OutsideWorkers) /\ Exit(p) /\ UNCHANGED chances)
    /\ \A id \in WorkerIds : WF_platformVars(Alone("workers", OutsideWorkers) /\ Lapse(id) /\ UNCHANGED chances)
    /\ \A j \in Jobs : WF_platformVars(Alone("workers", OutsideWorkers) /\ RecoverJob(j))
    /\ WF_platformVars(Alone("billing", OutsideBilling) /\ \E o \in Orders, c \in Calls : CallStep(o, c))
    /\ WF_platformVars(Alone("admission", OutsideAdmission) /\ \E v \in Visits : Handling(v))
    /\ WF_platformVars(Alone("store", OutsideStore) /\ \E c \in Clients : StoreCall(c))
    /\ \A c \in Readers : WF_platformVars(Alone("store", OutsideStore) /\ ReadPage(c))

Spec == Init /\ [][Next]_platformVars /\ Fairness
=============================================================================
