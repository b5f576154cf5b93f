----------------------------- MODULE ReadModels -----------------------------
(***************************************************************************)
(* The public read models built from the materialized AdminLog matches:    *)
(* weekly and monthly ranking snapshots (rcon_historical_leaderboards.py), *)
(* annual rankings (rcon_annual_rankings.py), the player period statistics *)
(* and the player search index (rcon_historical_player_stats.py), and the  *)
(* snapshot documents of SnapshotFiles.  The writer lock does not cover    *)
(* the public refreshes, so two processes may rebuild one model at once.   *)
(*                                                                         *)
(* Each SQL statement reads the database as it is then (READ COMMITTED, or *)
(* SQLite before its first write), so a job is a read of the window, a     *)
(* read of the rows and a commit.  A match is its end, in ticks; rows are  *)
(* the set of matches they aggregate, because every column of a row is a   *)
(* function of them.  One server scope and one metric.                     *)
(***************************************************************************)
EXTENDS SnapshotFiles, FiniteSets

CONSTANTS
  Job,           \* the <<kind, timeframe>> refreshes that are run
  PeriodLength,  \* ticks of a week or a month
  EarlyTicks,    \* the days of a month that still show the previous one
  MinMatches,    \* HLL_HISTORICAL_WEEKLY_FALLBACK_MIN_MATCHES
  RecentLimit,   \* DEFAULT_RECENT_MATCHES_LIMIT
  StartTime,     \* the first tick
  MaxTime,       \* bound: the last tick
  NoJob, NoSnapshot

ASSUME JobAssumption ==
  Job \subseteq {"ranking", "annual", "period", "search", "file", "recent"}
           \X {"weekly", "monthly", "yearly"}
ASSUME PeriodAssumption ==
  /\ PeriodLength \in Nat \ {0} /\ EarlyTicks \in 0..PeriodLength
  /\ MinMatches \in Nat \ {0} /\ RecentLimit \in Nat \ {0}
  /\ StartTime \in Nat /\ StartTime >= PeriodLength /\ MaxTime \in Nat

VARIABLES
  model,    \* the refresh this behaviour follows: no two of them share state
  now,      \* the clock, in ticks
  matches,  \* rcon_materialized_matches: their ends
  job,      \* per refresher: the refresh under way
  ranking,  \* ranking_snapshots with their items
  scope     \* per timeframe: the rows of a table replaced as a whole

vars == <<fileVars, model, now, matches, job, ranking, scope>>

Timeframe == {j[2] : j \in Job}

AnyWindow == [start : Int, end : Int]
RankingSnapshot == [timeframe : Timeframe, window : AnyWindow, rows : SUBSET Nat]

ASSUME NoSnapshotAssumption == NoSnapshot \notin RankingSnapshot

-----------------------------------------------------------------------------
(* Window selection. *)

PeriodStart(t) == PeriodLength * (t \div PeriodLength)

\* Closed matches of [from, to): the counts of the weekly policy.
ClosedMatches(from, to) == {m \in matches : from <= m /\ m < to}

\* The rows' WHERE clause has both ends of the window ...
RankedMatches(w) == {m \in matches : w.start <= m /\ m <= w.end}

\* ... as for the documents and the period statistics, and unlike the annual rankings and the search
\* index, whose window ends with the year.
PeriodRows(w) == RankedMatches(w)
DocumentRows(w) == RankedMatches(w)
AnnualRows(w) == ClosedMatches(w.start, w.end)
SearchRows(w) == ClosedMatches(w.start, w.end)

\* The document of the recent matches has no window: the last of them, or all.
RecentRows == {m \in matches : Cardinality({n \in matches : n > m}) < RecentLimit}

RowsOf(kind, w) ==
  CASE kind = "annual" -> AnnualRows(w)
    [] kind = "search" -> SearchRows(w)
    [] kind = "period" -> PeriodRows(w)
    [] kind = "file" -> DocumentRows(w)
    [] kind = "recent" -> RecentRows
    [] kind = "ranking" -> RankedMatches(w)

Window(start, end) == [start |-> start, end |-> end]
CurrentWindow(t) == Window(PeriodStart(t), t)
PreviousWindow(t) == Window(PeriodStart(t) - PeriodLength, PeriodStart(t))
AnnualWindow == Window(0, MaxTime + 1)  \* the whole behaviour is in one year

SelectWindow(timeframe, anchor) ==
  CASE timeframe = "weekly" ->
         IF Cardinality(ClosedMatches(PeriodStart(anchor), anchor)) >= MinMatches
           THEN CurrentWindow(anchor) ELSE PreviousWindow(anchor)
    [] timeframe = "monthly" ->
         IF anchor - PeriodStart(anchor) < EarlyTicks
           THEN PreviousWindow(anchor) ELSE CurrentWindow(anchor)
    [] timeframe = "yearly" -> AnnualWindow

-----------------------------------------------------------------------------
Key(s) == <<s.timeframe, s.window>>
Snapshot(timeframe, w, rows) == [timeframe |-> timeframe, window |-> w, rows |-> rows]

\* _find_existing_snapshot_for_window
Existing(timeframe, w) ==
  LET same == {s \in ranking : Key(s) = <<timeframe, w>>}
  IN  IF same = {} THEN NoSnapshot ELSE CHOOSE s \in same : TRUE

Ready(timeframe) == {s \in ranking : s.timeframe = timeframe}

\* get_latest_ranking_snapshot: ORDER BY window_end DESC.
Latest(timeframe) ==
  IF Ready(timeframe) = {} THEN NoSnapshot
  ELSE CHOOSE s \in Ready(timeframe) :
         \A o \in Ready(timeframe) : o.window.end <= s.window.end

Init ==
  /\ FileInit
  /\ model \in Job
  /\ backend = "postgres" => model[1] \in {"file", "recent"}  \* the others do not ask
  /\ now = StartTime
  /\ matches = {}
  /\ job = [r \in Refresher |-> NoJob]
  /\ ranking = {}
  /\ scope = [f \in Timeframe |-> NoSnapshot]

\* A refresh starts: the anchor of all its windows is the time of its start.
BeginJob(r) ==
  /\ job[r] = NoJob /\ pstep[r] = "none"
  /\ job' = [job EXCEPT ![r] =
       [kind |-> model[1], timeframe |-> model[2], anchor |-> now, step |-> "window",
        window |-> CurrentWindow(now), existing |-> NoSnapshot, rows |-> {}]]
  /\ UNCHANGED <<fileVars, model, now, matches, ranking, scope>>

ReadWindow(r) ==
  /\ job[r] # NoJob /\ job[r].step = "window"
  /\ LET w == SelectWindow(job[r].timeframe, job[r].anchor) IN
       job' = [job EXCEPT ![r].window = w,
                          ![r].existing = Existing(job[r].timeframe, w),
                          ![r].step = "rows"]
  /\ UNCHANGED <<fileVars, model, now, matches, ranking, scope>>

ReadRows(r) ==
  /\ job[r] # NoJob /\ job[r].step = "rows"
  /\ job' = [job EXCEPT ![r].rows = RowsOf(job[r].kind, job[r].window),
                        ![r].step = "commit"]
  /\ UNCHANGED <<fileVars, model, now, matches, ranking, scope>>

\* Mutant: the rows of the window are deleted, whoever wrote them.
CommitRankingByKey(r) ==
  /\ job[r] # NoJob /\ job[r].step = "commit" /\ job[r].kind = "ranking"
  /\ ranking' = {s \in ranking : Key(s) # <<job[r].timeframe, job[r].window>>}
                \cup {Snapshot(job[r].timeframe, job[r].window, job[r].rows)}
  /\ job' = [job EXCEPT ![r] = NoJob]
  /\ UNCHANGED <<fileVars, model, now, matches, scope>>

\* Mutant: one snapshot per timeframe is kept, as the annual table does.
CommitRankingByScope(r) ==
  /\ job[r] # NoJob /\ job[r].step = "commit" /\ job[r].kind = "ranking"
  /\ ranking' = {s \in ranking : s.timeframe # job[r].timeframe}
                \cup {Snapshot(job[r].timeframe, job[r].window, job[r].rows)}
  /\ job' = [job EXCEPT ![r] = NoJob]
  /\ UNCHANGED <<fileVars, model, now, matches, scope>>

\* DELETE the snapshot found by its id, INSERT the new one.  When another
\* refresher has inserted this window in the meantime the UNIQUE constraint
\* raises and the transaction is rolled back: JobFails.
CommitRanking(r) ==
  /\ job[r] # NoJob /\ job[r].step = "commit" /\ job[r].kind = "ranking"
  /\ Existing(job[r].timeframe, job[r].window) \in {NoSnapshot, job[r].existing}
  /\ ranking' = (ranking \ {job[r].existing})
                \cup {Snapshot(job[r].timeframe, job[r].window, job[r].rows)}
  /\ job' = [job EXCEPT ![r] = NoJob]
  /\ UNCHANGED <<fileVars, model, now, matches, scope>>

\* Mutant: the inserts run in a transaction that is never committed.
ReplaceScopeLost(r, kind) ==
  /\ job[r] # NoJob /\ job[r].step = "commit" /\ job[r].kind = kind
  /\ job' = [job EXCEPT ![r] = NoJob]
  /\ UNCHANGED <<fileVars, model, now, matches, ranking, scope>>

\* What the scope has now is deleted, also what a refresh with a later anchor
\* has just written, and the rows are inserted.
ReplaceScope(r, kind) ==
  /\ job[r] # NoJob /\ job[r].step = "commit" /\ job[r].kind = kind
  /\ scope' = [scope EXCEPT ![job[r].timeframe] =
                 Snapshot(job[r].timeframe, job[r].window, job[r].rows)]
  /\ job' = [job EXCEPT ![r] = NoJob]
  /\ UNCHANGED <<fileVars, model, now, matches, ranking>>

CommitAnnual(r) == ReplaceScope(r, "annual")
CommitPeriod(r) == ReplaceScope(r, "period")
CommitSearch(r) == ReplaceScope(r, "search")

\* The payload is built; persist_historical_snapshot takes over.
PersistPayload(r, kind) ==
  /\ job[r] # NoJob /\ job[r].step = "commit" /\ job[r].kind = kind
  /\ payload' = [payload EXCEPT ![r] = job[r].rows]
  /\ pstep' = [pstep EXCEPT ![r] = IF backend = "postgres" THEN "upsert" ELSE "read"]
  /\ job' = [job EXCEPT ![r] = NoJob]
  /\ UNCHANGED <<backend, file, found, kills, raced, model, now, matches, ranking, scope>>

PersistLeaderboard(r) == PersistPayload(r, "file")
PersistRecent(r) == PersistPayload(r, "recent")

\* A refresh raises: its transaction is rolled back and nothing is left of it.
JobFails(r) ==
  /\ job[r] # NoJob /\ job[r].step = "commit"
  /\ job' = [job EXCEPT ![r] = NoJob]
  /\ UNCHANGED <<fileVars, model, now, matches, ranking, scope>>

\* The process is killed while it stores a document, and comes back with nothing
\* under way.  A kill before that is a refresh that fails.
Kill(r) ==
  /\ kills < MaxKills
  /\ pstep[r] # "none"
  /\ kills' = kills + 1
  /\ Persisted(r)
  /\ UNCHANGED <<backend, file, raced, model, now, matches, job, ranking, scope>>

StoreSnapshot(r) ==
  /\ PersistStep(r)
  /\ UNCHANGED <<model, now, matches, job, ranking, scope>>

-----------------------------------------------------------------------------
\* The AdminLog worker materializes a match that has ended, early or late.
MaterializeMatch ==
  /\ \E m \in PeriodLength..now : m \notin matches /\ matches' = matches \cup {m}
  /\ UNCHANGED <<fileVars, model, now, job, ranking, scope>>

Tick ==
  /\ now < MaxTime
  /\ now' = now + 1
  /\ UNCHANGED <<fileVars, model, matches, job, ranking, scope>>

Commit(r) ==
  \/ CommitRanking(r) \/ CommitAnnual(r) \/ CommitPeriod(r) \/ CommitSearch(r)
  \/ PersistLeaderboard(r) \/ PersistRecent(r)

JobStep(r) ==
  \/ ReadWindow(r) \/ ReadRows(r) \/ Commit(r) \/ StoreSnapshot(r)

Next ==
  \/ \E r \in Refresher :
       BeginJob(r) \/ JobStep(r) \/ JobFails(r) \/ Kill(r)
  \/ MaterializeMatch \/ Tick

Spec == Init /\ [][Next]_vars

\* The runner comes back to every refresh, statements return, and a refresh
\* does not fail for ever.
Fairness ==
  /\ WF_vars(Tick) /\ WF_vars(MaterializeMatch)
  /\ \A r \in Refresher :
       /\ WF_vars(BeginJob(r)) /\ WF_vars(JobStep(r))
       /\ SF_vars(Commit(r))

FairSpec == Spec /\ Fairness

-----------------------------------------------------------------------------
(***************************************************************************)
(* Properties.                                                             *)
(***************************************************************************)

\* What a visitor is shown never goes back to an earlier window: refreshes with
\* an older anchor that end later add their row below the newer one.
ShownNeverRegresses ==
  [][\A f \in Timeframe : Latest(f) # NoSnapshot =>
       Latest(f)'.window.end >= Latest(f).window.end]_vars

\* A stored ranking never loses a match it had counted: a refresh that read its
\* rows before another one committed cannot put the older rows back.
RankingKeepsMatches ==
  [][\A s \in ranking : \E t \in ranking' : Key(t) = Key(s) /\ s.rows \subseteq t.rows]_vars

\* Once the matches and the clock rest, every read model ends up with exactly
\* the matches of the window its policy selects, and stays so, whatever stale
\* refreshes were still under way.  (A snapshot file may keep older content: that
\* is what ContentSurvives asks for.)
ModelsCatchUp ==
  <>[](LET w == SelectWindow(model[2], now)
           current == Snapshot(model[2], w, RowsOf(model[1], w))
       IN  CASE model[1] = "ranking" -> Latest(model[2]) = current
             [] model[1] \in {"file", "recent"} ->
                 backend = "postgres" => file = Document(current.rows)
             [] OTHER -> scope[model[2]] = current)
=============================================================================
