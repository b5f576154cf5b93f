---- MODULE MCLogStream ----
(* An instance of LogStream for TLC. *)
EXTENDS LogStream

\* Bound: behaviours with a stop have a stream of one event and one match.  What
\* stop() and the thread after it do to the buffer, any disconnection does.
ShortWhenStopped == stop \/ starts = 2 => Len(log) <= 1 /\ match = 1

MCSpec == Init /\ [][Next /\ ShortWhenStopped']_vars /\ Fairness
====
