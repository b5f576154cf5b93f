---- MODULE MCCurrentMatch ----
(* Instances of CurrentMatch for TLC. *)
EXTENDS CurrentMatch, TLC

Symm == Permutations(Request)
====
