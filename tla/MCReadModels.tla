---- MODULE MCReadModels ----
(* Instance of ReadModels for TLC. *)
EXTENDS ReadModels, TLC

CONSTANTS runner, manual

\* One refresh of each kind; the weekly policy is the one that depends on data.
Jobs == {<<"ranking", "weekly">>, <<"annual", "yearly">>, <<"period", "weekly">>,
         <<"search", "yearly">>, <<"file", "monthly">>, <<"recent", "yearly">>}
=====
