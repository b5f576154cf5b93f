---- MODULE MCSnapshotFeed ----
(* Instances of SnapshotFeed for TLC. *)
EXTENDS SnapshotFeed
====
