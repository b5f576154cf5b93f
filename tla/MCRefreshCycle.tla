---- MODULE MCRefreshCycle ----
(* Instance of RefreshCycle for TLC: hourly jobs every fourth instant of the day. *)
EXTENDS RefreshCycle

Slots == [full |-> {0}, rankMonthly |-> {1, 7}, rankWeekly |-> {0, 4, 8},
          histWeekly |-> {1, 5, 9}, histMonthly |-> {2, 8}]
=====
