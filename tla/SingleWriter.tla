---------------------------- MODULE SingleWriter ----------------------------
(***************************************************************************)
(* What backend_writer_lock promises its callers: at most one process runs *)
(* a writer job; a job starts only when none runs.                         *)
(***************************************************************************)
CONSTANT Process
VARIABLE writers   \* the processes inside the lock

Init == writers = {}

Enter(p) == writers = {} /\ writers' = {p}
Exit(p) == writers = {p} /\ writers' = {}

Next == \E p \in Process : Enter(p) \/ Exit(p)
Spec == Init /\ [][Next]_writers
=============================================================================
