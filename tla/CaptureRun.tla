----------------------------- MODULE CaptureRun -----------------------------
(***************************************************************************)
(* The RCON capture of rcon_historical_worker.py and its storage           *)
(* (rcon_historical_storage.py, postgres_rcon_storage.py).  Several        *)
(* processes capture: the worker and the runner's cycle in historical      *)
(* mode, the current-match worker in current-live mode.  Each attempt      *)
(* takes the writer lock (here its abstraction, SingleWriter, and the      *)
(* robbery WriterLock allows), then a second guard of its own for the      *)
(* historical mode, records a run, samples the server and stores sample,   *)
(* checkpoint and competitive window in one transaction.                   *)
(*                                                                         *)
(* One target: targets share nothing but the loop over them.               *)
(***************************************************************************)
EXTENDS Integers, FiniteSets, Sequences

CONSTANTS
  Process,     \* the capturing processes
  Historical,  \* those of CAPTURE_MODE_HISTORICAL; the others are current-live
  Serial,      \* what tells apart two runs of one process
  Map,         \* maps the server plays
  Gap,         \* COMPETITIVE_WINDOW_GAP_SECONDS, in ticks
  MaxTime,     \* bound: the last tick
  MaxFaults,   \* bound: kills, failed starts and finalizations in a behaviour
  None

Run == Process \X Serial

ASSUME ProcessAssumption == Historical \subseteq Process /\ None \notin Process \cup Run
ASSUME BoundsAssumption == Gap \in Nat /\ MaxTime \in Nat /\ MaxFaults \in Nat

VARIABLES
  backend,   \* "sqlite" or "postgres"
  writers,   \* the processes inside backend_writer_lock
  robbed,    \* history: a waiter took the lock of a live process
  pc,        \* where each process is in run_rcon_historical_capture
  run,       \* its run_id
  captured,  \* its captured_at
  sampled,   \* the map its query_live_server_sample returned
  running,   \* the rows of rcon_historical_capture_runs still 'running'
  aged,      \* those started more than HISTORICAL_RUNNING_STALE_TIMEOUT ago
  advisory,  \* who holds the PostgreSQL advisory lock
  now, map,  \* the clock and the map on the server
  samples,   \* rcon_historical_samples: captured_at and current_map
  newest,    \* the checkpoint's last_sample_at, -1 before the first
  windows,   \* rcon_historical_competitive_windows
  faults     \* number of faults so far

control == <<writers, robbed, pc, run, captured, sampled, faults>>
guards == <<running, aged, advisory>>
world == <<backend, now, map>>
stored == <<samples, newest, windows>>
vars == <<world, control, guards, stored>>

Lock == INSTANCE SingleWriter

\* The process is past its guard and has recorded its run.
Capturing(p) == pc[p] \in {"query", "persist", "ingest", "materialize"}

Init ==
  /\ backend \in {"sqlite", "postgres"}
  /\ Lock!Init /\ robbed = FALSE
  /\ pc = [p \in Process |-> "idle"]
  /\ run = [p \in Process |-> None]
  /\ captured = [p \in Process |-> 0]
  /\ sampled = [p \in Process |-> None]
  /\ running = {} /\ aged = {} /\ advisory = None
  /\ now = 0 /\ map \in Map
  /\ samples = {} /\ newest = -1 /\ windows = <<>>
  /\ faults = 0

Go(p, step) == pc' = [pc EXCEPT ![p] = step]

-----------------------------------------------------------------------------
(* The writer lock. *)

\* An attempt of a loop gets the lock, after any number of attempts that timed
\* out: those change nothing.
EnterLock(p) ==
  /\ pc[p] = "idle"
  /\ Lock!Enter(p)
  /\ Go(p, "guard")
  /\ UNCHANGED <<world, robbed, run, captured, sampled, faults, guards, stored>>

\* A waiter has cleared the lock of a live process (WriterLock!ClearStaleLock).
RobLock(p) ==
  /\ pc[p] = "idle"
  /\ writers # {} /\ ~robbed
  /\ robbed' = TRUE
  /\ writers' = writers \cup {p}
  /\ Go(p, "guard")
  /\ UNCHANGED <<world, run, captured, sampled, faults, guards, stored>>

\* The attempt is over: the process leaves its guard and the lock.
Leave(p) ==
  /\ writers' = writers \ {p}
  /\ Go(p, "idle")
  /\ run' = [run EXCEPT ![p] = None]
  /\ captured' = [captured EXCEPT ![p] = 0]
  /\ sampled' = [sampled EXCEPT ![p] = None]
  /\ advisory' = IF advisory = p THEN None ELSE advisory

-----------------------------------------------------------------------------
(* The guard of the historical mode. *)

\* Mutant: stale runs are left 'running'.
SweptNothing == running

\* _mark_stale_historical_runs
Swept == running \ aged

\* Another historical run is recorded as running.
ActiveRun == \E r \in Swept : r[1] \in Historical

CurrentLivePasses(p) ==
  /\ pc[p] = "guard" /\ p \notin Historical
  /\ Go(p, "start")
  /\ UNCHANGED <<world, writers, robbed, run, captured, sampled, faults, guards, stored>>

\* The rows are swept and read in a connection that is closed before the capture.
SqliteGuard(p) ==
  /\ pc[p] = "guard" /\ p \in Historical /\ backend = "sqlite"
  /\ running' = Swept
  /\ aged' = aged \cap running'
  /\ IF ActiveRun
       THEN Leave(p)
       ELSE /\ Go(p, "start")
            /\ UNCHANGED <<writers, run, captured, sampled, advisory>>
  /\ UNCHANGED <<world, robbed, faults, stored>>

\* pg_try_advisory_lock, held by the connection until the capture has ended.
PostgresGuard(p) ==
  /\ pc[p] = "guard" /\ p \in Historical /\ backend = "postgres"
  /\ IF advisory # None
       THEN Leave(p)
       ELSE /\ advisory' = p
            /\ Go(p, "start")
            /\ UNCHANGED <<writers, run, captured, sampled>>
  /\ UNCHANGED <<world, robbed, faults, running, aged, stored>>

-----------------------------------------------------------------------------
(* The capture. *)

\* The row is recorded under captured_at, taken inside the lock before the server
\* is asked.
RecordRun(p, rows) ==
  /\ \E k \in Serial : <<p, k>> \notin rows
  /\ LET r == <<p, CHOOSE k \in Serial : <<p, k>> \notin rows>>
     IN  /\ run' = [run EXCEPT ![p] = r]
         /\ running' = rows \cup {r}
  /\ aged' = aged \cap running'
  /\ captured' = [captured EXCEPT ![p] = now]
  /\ Go(p, "query")
  /\ UNCHANGED <<writers, sampled, advisory>>

\* Mutant: the guard has looked, so the start does not look again.
StartUnchecked(p) ==
  /\ pc[p] = "start"
  /\ RecordRun(p, running)
  /\ UNCHANGED <<world, robbed, faults, stored>>

\* start_rcon_historical_capture_run: the historical mode under SQLite sweeps and
\* looks again, in the transaction that inserts the row.
StartRun(p) ==
  /\ pc[p] = "start"
  /\ IF p \in Historical /\ backend = "sqlite"
       THEN IF ActiveRun
              THEN Leave(p) /\ UNCHANGED <<running, aged>>  \* rolled back
              ELSE RecordRun(p, Swept)
       ELSE RecordRun(p, running)
  /\ UNCHANGED <<world, robbed, faults, stored>>

\* query_live_server_sample: one connection, one command; an answer need not name
\* a map.
QueryAnswers(p) ==
  /\ pc[p] = "query"
  /\ \E m \in {map, None} : sampled' = [sampled EXCEPT ![p] = m]
  /\ Go(p, "persist")
  /\ UNCHANGED <<world, writers, robbed, run, captured, faults, guards, stored>>

\* mark_rcon_historical_capture_failure leaves the sample times alone.
QueryFails(p) ==
  /\ pc[p] = "query"
  /\ captured' = [captured EXCEPT ![p] = 0]
  /\ Go(p, "ingest")
  /\ UNCHANGED <<world, writers, robbed, run, sampled, faults, guards, stored>>

NewWindow(m, t) == [map |-> m, first |-> t, last |-> t, count |-> 1]

\* _should_extend_competitive_window: a sample that is older than the window's
\* last one extends it as well.
Extends(w, m, t) == w.map = m /\ t - w.last <= Gap

Latest == CHOOSE i \in DOMAIN windows : \A j \in DOMAIN windows :
            \/ windows[j].last < windows[i].last
            \/ windows[j].last = windows[i].last /\ j <= i

\* The UPDATE of a window takes the sample's time for its last one.
Extended(i, t) == [windows EXCEPT ![i].last = t, ![i].count = @ + 1]

\* _upsert_competitive_window on the window seen last.
WithSample(m, t) ==
  IF windows # <<>> /\ Extends(windows[Latest], m, t)
    THEN Extended(Latest, t)
    ELSE Append(windows, NewWindow(m, t))

\* A sample of this captured_at is stored already: the INSERT ignores the new one.
Duplicate(t) == \E s \in samples : s.at = t

\* _upsert_checkpoint_success records the sample's time, whatever it was before.
Checkpoint(t) == newest' = t

\* The sample is stored and not used again.
Sampled(p) ==
  /\ captured' = [captured EXCEPT ![p] = 0]
  /\ sampled' = [sampled EXCEPT ![p] = None]
  /\ Go(p, "ingest")

\* Mutant: a duplicate sample counts in the window too.
PersistEverySample(p) ==
  /\ pc[p] = "persist"
  /\ samples' = samples \cup {[at |-> captured[p], map |-> sampled[p]]}
  /\ Checkpoint(captured[p])
  /\ windows' = IF sampled[p] = None THEN windows
                ELSE WithSample(sampled[p], captured[p])
  /\ Sampled(p)
  /\ UNCHANGED <<world, writers, robbed, run, faults, guards>>

\* One transaction.  A second sample of the same captured_at is ignored, but for
\* the checkpoint; a sample without a map belongs to no window.
PersistSample(p) ==
  /\ pc[p] = "persist"
  /\ LET t == captured[p]
         m == sampled[p]
     IN  /\ samples' = IF Duplicate(t) THEN samples
                        ELSE samples \cup {[at |-> t, map |-> m]}
         /\ Checkpoint(t)
         /\ windows' = IF Duplicate(t) \/ m = None THEN windows ELSE WithSample(m, t)
  /\ Sampled(p)
  /\ UNCHANGED <<world, writers, robbed, run, faults, guards>>

\* The storage refuses the sample: the loop's handler records a failure.
PersistFails(p) ==
  /\ pc[p] = "persist"
  /\ Sampled(p)
  /\ UNCHANGED <<world, writers, robbed, run, faults, guards, stored>>

\* _ingest_target_admin_log, whether the sample was stored or not: a failure of
\* its own is counted and reported, and never ends the capture.
IngestLog(p) ==
  /\ pc[p] = "ingest"
  /\ Go(p, "materialize")
  /\ UNCHANGED <<world, writers, robbed, run, captured, sampled, faults, guards, stored>>

\* finalize_rcon_historical_capture_run: the row is no longer 'running'.
Finalized(r) ==
  /\ running' = running \ {r}
  /\ aged' = aged \ {r}

\* After the materialization, of the historical mode only (AdminLog models it), or
\* an exception of it: the status is success, partial or failed.
Finalize(p) ==
  /\ pc[p] = "materialize"
  /\ Finalized(run[p])
  /\ Leave(p)
  /\ UNCHANGED <<world, robbed, faults, stored>>

\* The process is killed, or its start or its finalization raises: a recorded row
\* stays 'running', while the locks go away with the process or its connection.
Die(p) ==
  /\ faults < MaxFaults
  /\ pc[p] = "start" \/ Capturing(p)
  /\ faults' = faults + 1
  /\ Leave(p)
  /\ UNCHANGED <<world, robbed, running, aged, stored>>

-----------------------------------------------------------------------------
Tick ==
  /\ now < MaxTime
  /\ now' = now + 1
  /\ map' \in Map
  /\ UNCHANGED <<backend, control, guards, stored>>

\* Six hours have gone by since the start of a run.
RunAges ==
  /\ backend = "sqlite"  \* nothing asks for it under PostgreSQL
  /\ \E r \in running \ aged : r[1] \in Historical /\ aged' = aged \cup {r}
  /\ UNCHANGED <<world, control, running, advisory, stored>>

Guard(p) == CurrentLivePasses(p) \/ SqliteGuard(p) \/ PostgresGuard(p)

CaptureStep(p) ==
  \/ StartRun(p) \/ QueryAnswers(p) \/ QueryFails(p)
  \/ PersistSample(p) \/ PersistFails(p) \/ IngestLog(p) \/ Finalize(p)

Next ==
  \/ \E p \in Process :
       \/ EnterLock(p) \/ RobLock(p)
       \/ Guard(p) \/ CaptureStep(p) \/ Die(p)
  \/ Tick \/ RunAges

Spec == Init /\ [][Next]_vars

\* The loops go round, calls return and the clock runs; a historical process that
\* keeps asking for the lock gets it some time.
Fairness ==
  /\ WF_vars(RunAges)
  /\ \A p \in Process : WF_vars(Guard(p) \/ CaptureStep(p))
  /\ \A p \in Historical : SF_vars(EnterLock(p))

FairSpec == Spec /\ Fairness

-----------------------------------------------------------------------------
(***************************************************************************)
(* Properties.                                                             *)
(***************************************************************************)

\* At most one process runs the heavy historical path, even after the writer lock
\* has been robbed: of two captures, one has been at it for so long (six hours)
\* that its row was swept.
OneHeavyCapture ==
  \A p, q \in Historical :
    Capturing(p) /\ Capturing(q) /\ {run[p], run[q]} \subseteq running => p = q

\* The samples a window stands for.
Inside(w) == {s \in samples : s.map # None /\ w.first <= s.at /\ s.at <= w.last}

CheckpointIsNewest ==
  /\ newest = -1 <=> samples = {}
  /\ samples # {} => \E s \in samples : s.at = newest
  /\ \A s \in samples : s.at <= newest

WindowsFollow == \A i, j \in DOMAIN windows : i < j => windows[i].last < windows[j].first

\* A window begins and ends with a sample, counts the samples inside, which are of
\* its map, and has no hole longer than the gap.
WindowIsExact(w) ==
  /\ w.count = Cardinality(Inside(w))
  /\ {w.first, w.last} \subseteq {s.at : s \in Inside(w)}
  /\ \A s \in Inside(w) : s.map = w.map
  /\ \A s \in Inside(w) : s.at = w.last \/
       \E t \in Inside(w) : s.at < t.at /\ t.at - s.at <= Gap

Windows == {windows[i] : i \in DOMAIN windows}

EverySampleCounts ==
  \A s \in samples : s.map # None => \E w \in Windows : s \in Inside(w)

\* Samples, checkpoint and windows stay in step as long as the lock is not
\* robbed, whoever captures and whatever fails: the checkpoint is the newest
\* sample, windows follow each other without overlap, are of one map, have no hole
\* longer than the gap, and count every sample that has a map once.
StoredInStep ==
  ~robbed =>
    /\ CheckpointIsNewest /\ WindowsFollow /\ EverySampleCounts
    /\ \A w \in Windows : WindowIsExact(w)

\* A capture that died does not stop the historical captures for ever: its run
\* is swept once it is six hours old, or its advisory lock went with it.
CapturesGoOn == []<>(\E p \in Historical : pc[p] = "query")
=============================================================================
