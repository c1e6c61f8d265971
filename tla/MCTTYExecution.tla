--------------------------- MODULE MCTTYExecution ---------------------------
(* Instances of TTYExecution for TLC. *)
EXTENDS TTYExecution

\* With tmux shells the crashing workers alone take part, and no store fails.
OneWithShells ==
    persistent =>
       /\ \A w \in Workers \ Crashing : exec[w] = NoTask /\ adopt[w] = NoTask /\ listed[w] = {}
       /\ \A e \in Executions : home[e] \in Crashing \cup {None}
       /\ \A w \in Workers, e \in Executions :
             run[w][e].reason = "expired" => ~(Holds(w, e, run[w][e].token) /\ e \in live)
=============================================================================
