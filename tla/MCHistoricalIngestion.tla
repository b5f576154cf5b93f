---- MODULE MCHistoricalIngestion ----
(* Instances of HistoricalIngestion and of ScoreboardLinks for TLC: a      *)
(* behaviour follows the sessions step by step, or the links that are made *)
(* from what sessions and the tool store.                                  *)
EXTENDS ScoreboardLinks

CONSTANTS foy, carentan

\* Two matches of one map in a row, with one result and with the result
\* swapped, without a pause, after a break, and short beside long, in quarters
\* of an hour.
Season == <<
  [map |-> foy, start |-> 0, end |-> 6, result |-> <<4, 1>>],
  [map |-> foy, start |-> 6, end |-> 9, result |-> <<4, 1>>],
  [map |-> foy, start |-> 10, end |-> 16, result |-> <<1, 4>>],
  [map |-> carentan, start |-> 16, end |-> 19, result |-> <<5, 0>>],
  [map |-> foy, start |-> 19, end |-> 22, result |-> <<5, 0>>] >>

VARIABLE part

MCInit == LinkInit /\ part \in {"sessions", "links"} /\ (part = "sessions" => ~postgres)

Sessions(A) == part = "sessions" /\ A /\ UNCHANGED <<linkVars, part>>
Links(A) == part = "links" /\ A /\ UNCHANGED part

MCNext == Sessions(Next) \/ Links(LinkNext)

MCSpec == MCInit /\ [][MCNext]_<<allVars, part>>
          /\ WF_vars(Sessions(Ingest)) /\ SF_vars(Sessions(Bootstrap))
====
