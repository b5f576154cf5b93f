---------------------------- MODULE RefreshCycle ----------------------------
(***************************************************************************)
(* The loop of historical_runner.py: a refresh cycle under the writer lock *)
(* when its interval has passed, with retries; otherwise the public jobs   *)
(* that are due, of which the heavy ones take a tick for themselves.       *)
(*                                                                         *)
(* One thread runs all of it.  The clock moves while the loop sleeps, for  *)
(* the whole tick: the jobs of a tick reckon with the instant it began.    *)
(* What a job writes is in ReadModels; here a read model is up to date or  *)
(* stale, and one model, chosen at the start, is watched.                  *)
(***************************************************************************)
EXTENDS Integers, FiniteSets

CONSTANTS
  Day,             \* instants in a day
  FullAt,          \* HLL_PUBLIC_FULL_REFRESH_TIME
  SlotTimes,       \* for each job, when its slots begin; the full one's at midnight
  CycleInterval, RecentInterval, MaintenanceInterval,
  LongestTick,     \* bound: of a tick with its sleep
  FullEvery,       \* get_historical_full_snapshot_every_runs
  MaxRetries,
  MaxFaults        \* bound: failed steps and kills in a behaviour

SlotJob == {"rankMonthly", "rankWeekly", "histWeekly", "histMonthly"}
ScheduledJob == SlotJob \cup {"full", "recent"}
Model == SlotJob \cup {"recent", "summary", "annual", "search", "period"}
Timer == {"cycle", "recent", "maintenance"}
Outcome == {"ok", "partial", "error"}

ASSUME ClockAssumption ==
  /\ Day \in Nat \ {0} /\ FullAt \in 0..Day - 1
  /\ SlotTimes \in [SlotJob \cup {"full"} -> SUBSET (0..Day - 1)]
  /\ {CycleInterval, RecentInterval, MaintenanceInterval, LongestTick} \subseteq Nat \ {0}
  /\ FullEvery \in Nat \ {0} /\ MaxRetries \in Nat /\ MaxFaults \in Nat

VARIABLES
  rcon,      \* the configured source is RCON
  pc,        \* the step the runner is at
  clock,     \* the instant the tick began
  since,     \* for each interval, the time since its last run, up to the interval
  slotDone,  \* the jobs whose recorded slot (or date) is the latest one
  heavy,     \* heavy_job_ran of this tick
  run,       \* completed_runs, modulo FullEvery
  attempt,   \* the attempt of this cycle
  capture,   \* what this attempt's capture returned
  watched,   \* the read model that is looked at
  stale,     \* there are data it does not show
  missing,   \* among them matches that the cycles have stored
  clean,     \* no step of this attempt has failed
  faults

schedule == <<clock, since, slotDone>>
cycle == <<run, attempt, capture>>
observer == <<watched, stale, missing, clean>>
runnerVars == <<rcon, pc, schedule, heavy, cycle, observer, faults>>

Interval(t) == CASE t = "cycle" -> CycleInterval
                 [] t = "recent" -> RecentInterval
                 [] t = "maintenance" -> MaintenanceInterval

NoCapture == [usable |-> FALSE, inserted |-> FALSE]

\* A process that has just started has run nothing, so everything is due.
RunnerInit ==
  /\ rcon \in BOOLEAN
  /\ pc = "wake" /\ clock \in 0..Day - 1
  /\ since = [t \in Timer |-> Interval(t)]
  /\ slotDone = {} /\ heavy = FALSE
  /\ run = 0 /\ attempt = 0 /\ capture = NoCapture
  /\ watched \in Model /\ stale \in BOOLEAN /\ missing = FALSE /\ clean = TRUE
  /\ faults = 0

\* A step that may go wrong: that counts as a fault.
Counted(failed) ==
  /\ failed => faults < MaxFaults
  /\ faults' = IF failed THEN faults + 1 ELSE faults

\* Models have been rebuilt; partly means that the watched part may be missing.
Rebuilt(models, outcome) ==
  \/ /\ watched \in models /\ outcome # "error"
     /\ stale' = FALSE /\ missing' = FALSE
  \/ /\ watched \notin models \/ outcome # "ok"
     /\ UNCHANGED <<stale, missing>>

IntervalDue(t) == since[t] = Interval(t)

-----------------------------------------------------------------------------
(* The tick. *)

Wake ==
  /\ pc = "wake"
  /\ IF IntervalDue("cycle")
       THEN /\ pc' = "capture"
            /\ since' = [since EXCEPT !["cycle"] = 0]
            /\ run' = (run + 1) % FullEvery
            /\ attempt' = 1
       ELSE /\ pc' = "full"
            /\ UNCHANGED <<since, run, attempt>>
  /\ UNCHANGED <<rcon, clock, slotDone, heavy, capture, observer, faults>>

\* time.sleep, after a tick that may have been long.
Sleep ==
  /\ pc = "sleep"
  /\ pc' = "wake"
  /\ \E d \in 1..LongestTick :
       LET passed == {(clock + k) % Day : k \in 1..d}
       IN  /\ clock' = (clock + d) % Day
           /\ since' = [t \in Timer |-> IF since[t] + d < Interval(t) THEN since[t] + d
                                        ELSE Interval(t)]
           /\ slotDone' = {j \in slotDone : SlotTimes[j] \cap passed = {}}
  /\ heavy' = FALSE /\ attempt' = 0 /\ capture' = NoCapture /\ clean' = TRUE
  /\ UNCHANGED <<rcon, run, watched, stale, missing, faults>>

-----------------------------------------------------------------------------
(* The refresh cycle: one attempt after the other, under the writer lock. *)

\* The lock times out, or a step raises that nothing in the attempt catches.
CycleRaises ==
  /\ pc \in {"capture", "fallback", "rankings"}
  /\ Counted(TRUE)
  /\ IF attempt > MaxRetries THEN pc' = "sleep" /\ UNCHANGED attempt
     ELSE pc' = "capture" /\ attempt' = attempt + 1
  /\ capture' = NoCapture
  /\ clean' = (pc' = "capture")
  /\ UNCHANGED <<rcon, schedule, heavy, run, watched, stale, missing>>

\* The cycle has stored matches, or none.
Stored(some) ==
  /\ stale' = (stale \/ some)
  /\ missing' = (missing \/ some)

\* A retried capture finds inserted what the attempt before has inserted.  With a
\* usable answer it has inserted a sample, which is new useful data; without one it
\* may have inserted matches, out of AdminLog lines that are stored.
CaptureRcon ==
  /\ pc = "capture"
  /\ pc' = "fallback"
  /\ \E c \in [usable : BOOLEAN, inserted : BOOLEAN] :
       /\ c.usable \/ c.inserted => rcon
       /\ capture' = c
       /\ Stored(c.inserted)
  /\ UNCHANGED <<rcon, schedule, heavy, run, attempt, watched, clean, faults>>

\* _resolve_classic_fallback_policy
NeedsFallback == ~rcon \/ ~capture.usable \/ run = 0

\* run_incremental_refresh may store matches.
Fallback ==
  /\ pc = "fallback"
  /\ pc' = "snapshots"
  /\ \E some \in BOOLEAN : (some => NeedsFallback) /\ Stored(some)
  /\ UNCHANGED <<rcon, schedule, heavy, cycle, watched, clean, faults>>

FullMatrix == {"summary", "recent", "histWeekly", "histMonthly"}

\* Leaderboards are prewarmed for one metric only.
Prewarmed == {"summary", "recent"}

\* A step of the attempt rebuilds models, or reports a failure.
CycleBuilds(models, outcome) ==
  /\ Counted(outcome # "ok")
  /\ Rebuilt(models, outcome)
  /\ clean' = (clean /\ outcome = "ok")

\* Mutant: the snapshots are built when there is a new match to show.
SnapshotsOfNewMatches ==
  /\ pc = "snapshots"
  /\ pc' = "tables"
  /\ IF NeedsFallback \/ capture.inserted
       THEN \E o \in {"ok", "error"} : CycleBuilds(IF run = 0 THEN FullMatrix ELSE Prewarmed, o)
       ELSE UNCHANGED <<stale, missing, clean, faults>>
  /\ UNCHANGED <<rcon, schedule, heavy, cycle, watched>>

\* refresh_periodic_historical_snapshots catches what it raises.
Snapshots ==
  /\ pc = "snapshots"
  /\ pc' = "tables"
  /\ IF NeedsFallback \/ capture.usable
       THEN \E o \in {"ok", "error"} : CycleBuilds(IF run = 0 THEN FullMatrix ELSE Prewarmed, o)
       ELSE UNCHANGED <<stale, missing, clean, faults>>
  /\ UNCHANGED <<rcon, schedule, heavy, cycle, watched>>

\* The player search index and the period statistics, each caught.
Tables ==
  /\ pc = "tables"
  /\ pc' = "rankings"
  /\ \E o \in {"ok", "error"} : CycleBuilds({"search", "period"}, o)
  /\ UNCHANGED <<rcon, schedule, heavy, cycle, watched>>

\* refresh_periodic_ranking_snapshots reports failed combinations.
Rankings ==
  /\ pc = "rankings"
  /\ pc' = "event"
  /\ \E o \in Outcome : CycleBuilds({"rankWeekly", "rankMonthly"}, o)
  /\ UNCHANGED <<rcon, schedule, heavy, cycle, watched>>

\* _record_public_refreshes_from_cycle, and the job itself: a refresh of the
\* recent matches that went well begins their interval again.
RecordRecent(o) == since' = IF o = "ok" THEN [since EXCEPT !["recent"] = 0] ELSE since

\* Recent matches, right after a capture that materialized some.
RecentAfterCapture ==
  /\ pc = "event"
  /\ pc' = "maintenance"
  /\ IF capture.inserted
       THEN \E o \in {"ok", "error"} :
              /\ CycleBuilds({"recent"}, o)
              /\ RecordRecent(o)
       ELSE UNCHANGED <<since, stale, missing, clean, faults>>
  /\ UNCHANGED <<rcon, clock, slotDone, heavy, cycle, watched>>

\* The cleanup (AdminLog models it) catches what it raises.
Maintenance ==
  /\ pc = "maintenance"
  /\ pc' = "sleep"
  /\ IF IntervalDue("maintenance")
       THEN \E failed \in BOOLEAN :
              /\ Counted(failed)
              /\ since' = IF failed THEN since ELSE [since EXCEPT !["maintenance"] = 0]
       ELSE UNCHANGED <<since, faults>>
  /\ UNCHANGED <<rcon, clock, slotDone, heavy, cycle, observer>>

-----------------------------------------------------------------------------
(* The public jobs. *)

\* Mutant: due at its instant.
FullDueThen == clock = FullAt /\ "full" \notin slotDone

\* From its instant to midnight, when the date changes.
FullDue == clock >= FullAt /\ "full" \notin slotDone

\* The steps of the full refresh, each caught; the snapshots report no status
\* when they succeed.
FullSteps == [snapshots : {"ok", "error"}, rankings : Outcome, annual : Outcome,
              search : {"ok", "error"}, period : {"ok", "error"}]

Reported(o) == {o.rankings, o.annual, o.search, o.period} \cup ({o.snapshots} \cap {"error"})

\* _resolve_refresh_cycle_status
Status(statuses) ==
  IF "error" \in statuses THEN IF "ok" \in statuses THEN "partial" ELSE "error"
  ELSE IF "partial" \in statuses THEN "partial" ELSE "ok"

Succeeded(status) == status \in {"ok", "partial"}

\* What the step of the full refresh that builds the watched model came to.
StepOf(o) ==
  CASE watched \in FullMatrix -> o.snapshots
    [] watched \in {"rankWeekly", "rankMonthly"} -> o.rankings
    [] watched = "annual" -> o.annual
    [] watched = "search" -> o.search
    [] watched = "period" -> o.period

PublicFull ==
  /\ pc = "full"
  /\ pc' = "rankMonthly"
  /\ IF FullDue
       THEN \E o \in FullSteps :
              LET status == Status(Reported(o)) IN
              /\ Counted(\E s \in DOMAIN o : o[s] # "ok")
              /\ Rebuilt(Model, StepOf(o))
              /\ slotDone' = IF Succeeded(status) THEN slotDone \cup {"full"} ELSE slotDone
              /\ heavy' = Succeeded(status)
       ELSE UNCHANGED <<stale, missing, slotDone, heavy, faults>>
  /\ UNCHANGED <<rcon, clock, since, cycle, watched, clean>>

\* The monthly subset that the page of the history renders.
MonthlyUI == {"histMonthly"}

\* A job whose slot, that of the tick's instant, is due runs unless a heavy one has
\* run in this tick.  A failed one is due again.
RunSlot(j, models, outcomes, isHeavy) ==
  /\ pc = j
  /\ IF j \in slotDone \/ heavy
       THEN UNCHANGED <<slotDone, heavy, stale, missing, faults>>
       ELSE \E o \in outcomes :
              /\ Counted(o # "ok")
              /\ Rebuilt(models, o)
              /\ slotDone' = IF Succeeded(o) THEN slotDone \cup {j} ELSE slotDone
              /\ heavy' = (isHeavy /\ Succeeded(o))
  /\ UNCHANGED <<rcon, clock, since, cycle, watched, clean>>

PublicMonthlyRanking ==
  RunSlot("rankMonthly", {"rankMonthly"}, Outcome, TRUE) /\ pc' = "rankWeekly"

PublicWeeklyRanking ==
  RunSlot("rankWeekly", {"rankWeekly"}, Outcome, FALSE) /\ pc' = "histWeekly"

PublicWeeklyHistorical ==
  RunSlot("histWeekly", {"histWeekly"}, {"ok", "error"}, FALSE) /\ pc' = "histMonthly"

PublicMonthlyHistorical ==
  RunSlot("histMonthly", MonthlyUI, {"ok", "error"}, FALSE) /\ pc' = "recent"

PublicRecent ==
  /\ pc = "recent"
  /\ pc' = "sleep"
  /\ IF IntervalDue("recent")
       THEN \E o \in {"ok", "error"} :
              /\ Counted(o # "ok")
              /\ Rebuilt({"recent"}, o)
              /\ RecordRecent(o)
       ELSE UNCHANGED <<since, stale, missing, faults>>
  /\ UNCHANGED <<rcon, clock, slotDone, heavy, cycle, watched, clean>>

-----------------------------------------------------------------------------
\* The container is restarted: the schedule is kept in memory.
Restart ==
  /\ Counted(TRUE)
  /\ pc' = "wake"
  /\ since' = [t \in Timer |-> Interval(t)]
  /\ slotDone' = {} /\ heavy' = FALSE
  /\ run' = 0 /\ attempt' = 0 /\ capture' = NoCapture
  /\ clean' = TRUE
  /\ UNCHANGED <<rcon, clock, watched, stale, missing>>

\* Another process stores a match.
NewMatch ==
  /\ stale' = TRUE
  /\ UNCHANGED <<rcon, pc, schedule, heavy, cycle, watched, missing, clean, faults>>

PublicStep ==
  \/ PublicFull \/ PublicMonthlyRanking \/ PublicWeeklyRanking
  \/ PublicWeeklyHistorical \/ PublicMonthlyHistorical \/ PublicRecent

CycleStep ==
  \/ CaptureRcon \/ Fallback \/ Snapshots \/ Tables \/ Rankings
  \/ RecentAfterCapture \/ Maintenance

Step == Wake \/ Sleep \/ CycleStep \/ CycleRaises \/ PublicStep

RunnerNext == Step \/ Restart \/ NewMatch

RunnerSpec == RunnerInit /\ [][RunnerNext]_runnerVars

\* The runner's thread goes on.
FairRunner == RunnerSpec /\ WF_runnerVars(Step)

-----------------------------------------------------------------------------
(***************************************************************************)
(* Properties.                                                             *)
(***************************************************************************)

\* Whatever has been stored reaches every read model some time, although a
\* cycle takes the tick of the public jobs, the heavy jobs take that of the
\* others, and attempts and jobs fail.
CyclesCatchUp == stale ~> ~stale

\* What each attempt brings up to date.
CycleModels == Prewarmed \cup {"search", "period", "rankWeekly", "rankMonthly"}

\* A cycle whose last attempt went well shows every match that cycles have stored:
\* those of its failed attempts too, which its own capture does not report again.
CleanCycleShowsAll ==
  pc = "sleep" /\ attempt > 0 /\ clean /\ watched \in CycleModels => ~missing
=============================================================================
