---- MODULE MCAdminLog ----
(* Instances of AdminLog for TLC. *)
EXTENDS AdminLog

NoConnections == Of(ConnectionLines, DOMAIN log) = {}

\* Bound: the log of a behaviour has kills or connections, not both, and one with
\* connections is a second shorter.
OneKindOfLine ==
  \/ NoConnections
  \/ Of({"kill"}, DOMAIN log) = {} /\ Len(log) < MaxEvents

\* Bound: the last second is a poll's, since no poll is left for a line of it, and
\* nothing fails in the last second of all.
LastIsPoll ==
  /\ Len(log) = MaxEvents \/ (~NoConnections /\ Len(log) = MaxEvents - 1) =>
       log[Len(log)] = "poll"
  /\ Len(log) = MaxEvents => fails = 0

MCSpec == AdminInit /\ [][AdminNext /\ (OneKindOfLine /\ LastIsPoll)']_adminVars
====
