---------------------------- MODULE MCTTYSessions ----------------------------
(***************************************************************************)
(* Two workers and one session.  Each scenario is where the session        *)
(* starts, what is asked of it and what may go wrong.                      *)
(***************************************************************************)
EXTENDS TTYSessions

CONSTANTS w1, w2

Cold == [owner |-> None, script |-> <<>>, crashes |-> 0, stops |-> 0, stalls |-> 0, stalling |-> FALSE,
         faults |-> 0, faulty |-> FALSE, exits |-> 0, output |-> 0, ends |-> 0]
Warm == [Cold EXCEPT !.owner = w1]

\* A session that is opened, and terminated at once.
Opening == [Cold EXCEPT !.script = <<"open", "terminate">>]
\* A batch that is broadcast, repeated on the stream and read again after a crash.
Typing == [Warm EXCEPT !.script = <<"write">>, !.faults = 1, !.faulty = TRUE, !.crashes = 1]
\* A session that is terminated while its worker crashes.
Ending == [Warm EXCEPT !.script = <<"terminate">>, !.crashes = 1]
\* A session that ends by itself, while its worker stops.
Stopping == [Warm EXCEPT !.ends = 2, !.stops = 1]
\* An exit of the shell and a failing step around a resize.
Failing == [Warm EXCEPT !.script = <<"resize">>, !.exits = 1, !.faults = 1, !.faulty = TRUE]
\* A worker that stalls while it attaches.
Stalling == [Cold EXCEPT !.script = <<"open">>, !.stalls = 1, !.stalling = TRUE]
\* Output, a crash and a recovery.
Showing == [Cold EXCEPT !.script = <<"open">>, !.output = 2, !.crashes = 1]

WorkScenarios == {Opening, Typing, Ending, Stopping, Failing, Stalling, Showing}
=============================================================================
