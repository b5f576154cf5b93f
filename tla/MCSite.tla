---- MODULE MCSite ----
(* An instance of Site for TLC. *)
EXTENDS Site
====
