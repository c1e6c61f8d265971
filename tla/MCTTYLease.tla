----------------------------- MODULE MCTTYLease -----------------------------
(* Instances of TTYLease for TLC. *)
EXTENDS TTYLease, TLC

CONSTANTS s1

\* All executions belong to one session.
OneSession == [e \in Executions |-> s1]

Symmetry == Permutations(Workers) \cup Permutations(Executions) \cup Permutations(Tokens)
=============================================================================
