--------------------------- MODULE WebApplication ---------------------------
(***************************************************************************)
(* The parts of the web application behind the console: investigations on  *)
(* the server, their evidence graph, the browser that shows them, and      *)
(* engineering runs.                                                       *)
(*                                                                         *)
(* The parts meet in the database only, through the routes; each takes the *)
(* others' side of that as a step of its own (Investigations the worker's  *)
(* events, EvidenceGraph the deletion of the investigation,                *)
(* InvestigationClient the server).  A behaviour works on one of them, so  *)
(* no interleaving that matters is lost.                                   *)
(***************************************************************************)
EXTENDS Investigations, EvidenceGraph, InvestigationClient, EngineeringRuns

CONSTANT
    Scenarios    \* where behaviours start: the part, its state, and what may be asked of it

ASSUME ScenariosAssumption ==
    \A s \in Scenarios : Beginning(s.inv, s.tty, s.left) /\ Opening(s.rows, s.asks)

VARIABLE part
webVars == <<part, invVars, evidenceVars, clientVars, engineeringVars>>

Init ==
    \E s \in Scenarios :
        /\ part = s.part
        /\ inv = s.inv /\ task = Nobody /\ tty = s.tty /\ left = s.left
        /\ EvidenceInit(s.printed) /\ chances = s.chances
        /\ ClientInit(s.rows) /\ asks = s.asks
        /\ EngineeringInit /\ hopes = s.hopes

InvestigationsWork ==
    part = "investigations" /\ InvestigationNext /\ UNCHANGED <<part, evidenceVars, clientVars, engineeringVars>>

EvidenceWork ==
    part = "evidence" /\ EvidenceNext /\ UNCHANGED <<part, invVars, clientVars, engineeringVars>>

ClientWork ==
    part = "client" /\ ClientNext /\ UNCHANGED <<part, invVars, evidenceVars, engineeringVars>>

EngineeringWork ==
    part = "engineering" /\ EngineeringNext /\ UNCHANGED <<part, invVars, evidenceVars, clientVars>>

Next == InvestigationsWork \/ EvidenceWork \/ ClientWork \/ EngineeringWork

\* A request that has begun goes on, an open page asks again, and a graph that is shown hydrates;
\* nothing else is promised.
Fairness ==
    /\ \A r \in Requests : /\ WF_webVars(part = "investigations" /\ Step(r) /\ UNCHANGED <<part, evidenceVars, clientVars, engineeringVars>>)
                           /\ WF_webVars(part = "investigations" /\ StartOpen(r) /\ UNCHANGED <<part, evidenceVars, clientVars, engineeringVars>>)
    /\ \A p \in Passes : /\ WF_webVars(part = "evidence" /\ PassStep(p) /\ UNCHANGED <<part, invVars, clientVars, engineeringVars>>)
                         /\ WF_webVars(part = "evidence" /\ Hydrate(p) /\ UNCHANGED <<part, invVars, clientVars, engineeringVars>>)

Spec == Init /\ [][Next]_webVars /\ Fairness
=============================================================================
