-------------------------- MODULE ExecutionOwnership --------------------------
(***************************************************************************)
(* What the lease plane promises, without jobs, tokens, clocks, counters   *)
(* or indexes: an execution is submitted once, waits, is owned by one      *)
(* worker at a time, and is retired for good.  Only a waiting execution is *)
(* acquired, an execution is acquired at most MaxTurns times, and ownership *)
(* moves between workers without a new turn only by a hand-over.           *)
(***************************************************************************)
EXTENDS Naturals

CONSTANTS Workers, Executions, MaxTurns, NoOwner

VARIABLES
    phase,  \* "new", "waiting", "owned" or "retired"
    owner,  \* the worker that owns an owned execution
    turns   \* how often the execution was acquired

vars == <<phase, owner, turns>>

Init ==
    /\ phase = [e \in Executions |-> "new"]
    /\ owner = [e \in Executions |-> NoOwner]
    /\ turns = [e \in Executions |-> 0]

Submit(e) ==
    /\ phase[e] = "new"
    /\ phase' = [phase EXCEPT ![e] = "waiting"]
    /\ UNCHANGED <<owner, turns>>

Acquire(w, e) ==
    /\ phase[e] = "waiting"
    /\ turns[e] < MaxTurns
    /\ phase' = [phase EXCEPT ![e] = "owned"]
    /\ owner' = [owner EXCEPT ![e] = w]
    /\ turns' = [turns EXCEPT ![e] = @ + 1]

HandOver(w, e) ==
    /\ phase[e] = "owned"
    /\ owner' = [owner EXCEPT ![e] = w]
    /\ UNCHANGED <<phase, turns>>

GiveBack(e) ==
    /\ phase[e] = "owned"
    /\ phase' = [phase EXCEPT ![e] = "waiting"]
    /\ owner' = [owner EXCEPT ![e] = NoOwner]
    /\ UNCHANGED turns

\* The end of a session retires all of its executions in one step.
Retire(S) ==
    /\ \A e \in S : phase[e] # "new"
    /\ phase' = [e \in Executions |-> IF e \in S THEN "retired" ELSE phase[e]]
    /\ owner' = [e \in Executions |-> IF e \in S THEN NoOwner ELSE owner[e]]
    /\ UNCHANGED turns

Next ==
    \/ \E e \in Executions : Submit(e) \/ GiveBack(e)
    \/ \E e \in Executions, w \in Workers : Acquire(w, e) \/ HandOver(w, e)
    \/ \E S \in SUBSET Executions : Retire(S)

Spec == Init /\ [][Next]_vars
=============================================================================
