------------------------------ MODULE AdminLog ------------------------------
(***************************************************************************)
(* The AdminLog of one game server on its way to match statistics:         *)
(* ingestion (rcon_admin_log_ingestion.py, rcon_current_match_worker.py,   *)
(* rcon_admin_log_storage.py), the operators' backfill                     *)
(* (rcon_historical_backfill.py), materialization                          *)
(* (rcon_admin_log_materialization.py) and retention                       *)
(* (database_maintenance.py).                                              *)
(*                                                                         *)
(* Time goes in seconds, and log[i] is what second i is taken up by: a     *)
(* line of the game's log, or a poll that stores lines.  Event i is the    *)
(* line of second i, its server_time; its event_timestamp is the second of *)
(* the poll that stored it, one for all the lines of the poll, and later   *)
(* for an old line that a backfill stores than for newer lines that were   *)
(* polled before.  The answer to a poll lists the lines in their order, so *)
(* the ids of the stored lines go by event_timestamp, then server_time.    *)
(*                                                                         *)
(* All lines are about one player, and the noncritical ones are the        *)
(* connections: team switches and chat count like them and tell less.  A   *)
(* match row is named by its bounds, as in its match_key, 0 for "missing"  *)
(* and "open"; its player statistics are the set of events they are        *)
(* derived from, of which ActiveTime is the number that is not a count.    *)
(*                                                                         *)
(* The rows materialized from capture sessions have no server time: they   *)
(* get no statistics, are never cleaned and no boundary row depends on     *)
(* them; they are left out, as is the table server_snapshots.              *)
(***************************************************************************)
EXTENDS Integers, FiniteSets, Sequences, FiniteSetsExt

CONSTANTS
  None,         \* no run in progress
  Lookback,     \* seconds a poll asks for (LogBackTrackTime)
  BackfillChunk,  \* seconds that each scan of a backfill goes further back (--chunk-hours)
  BackfillDepth,  \* seconds that a backfill goes back at most (--max-days-back)
  EnsureMatches,  \* matches that end a backfill (--ensure-recent-matches)
  RecentKeep,   \* HLL_RECENT_MATCHES_KEEP (100)
  BatchSize,    \* HLL_DB_MAINTENANCE_BATCH_SIZE
  Operators,    \* whether operators materialize by hand, without the writer lock
  Logged,       \* bound: the kinds of line that the game logs
  MaxEvents,    \* bound: seconds
  MaxFails      \* bound: materializations that fail and cleanups that die

ASSUME ALAssumption ==
  /\ Lookback \in Nat \ {0} /\ RecentKeep \in Nat \ {0} /\ BatchSize \in Nat \ {0}
  /\ BackfillChunk \in Nat /\ BackfillChunk >= Lookback    \* hours, and minutes
  /\ BackfillDepth \in Nat /\ EnsureMatches \in Nat
  /\ Operators \in BOOLEAN /\ MaxEvents \in Nat /\ MaxFails \in Nat
  /\ Logged \subseteq {"match_start", "match_end", "kill", "connected", "disconnected"}

VARIABLES
  log,      \* the seconds so far: the kind of the line logged, or "poll"
  polled,   \* seconds whose lines some poll has read
  stored,   \* rcon_admin_log_events
  timestamp,  \* their event_timestamp, and that of lines deleted since
  table,    \* rcon_materialized_matches, each with its rcon_match_player_stats
  lookback, \* backfill: how far its last scan went, 0 when none runs
  derived,  \* materialization: the match rows derived, or None
  cleanup,  \* retention: what is still to be deleted, or None
  fails

adminVars == <<log, polled, stored, timestamp, table, lookback, derived, cleanup, fails>>

Event == 1..MaxEvents
\* parse_rcon_admin_log_message, as far as the kinds are told apart.
Kind == {"match_start", "match_end", "kill", "connected", "disconnected", "poll"}
Critical == {"match_start", "match_end", "kill"}    \* CRITICAL_ADMIN_LOG_EVENT_TYPES
ConnectionLines == {"connected", "disconnected"}
PlayerLines == {"kill"} \union ConnectionLines

\* _build_match_key: two rows with the same bounds are one.
Row == {r \in [lo : 0..MaxEvents, hi : 0..MaxEvents] : r.lo # 0 \/ r.hi # 0}
Bounded(r) == r.lo # 0 /\ r.hi # 0
Ended == {r \in DOMAIN table : r.hi # 0}            \* MATCH_RESULT_SOURCE

Of(kinds, events) == {i \in events : log[i] \in kinds}
Boundaries(events) == Of({"match_start", "match_end"}, events)
Between(r, events) ==
  {i \in events : (r.lo = 0 \/ r.lo <= i) /\ (r.hi = 0 \/ i <= r.hi)}

AdminInit ==
  /\ log = <<>> /\ polled = 0 /\ stored = {} /\ timestamp = [i \in {} |-> 0]
  /\ table = [r \in {} |-> {}]
  /\ lookback = 0 /\ derived = None /\ cleanup = None /\ fails = 0

-----------------------------------------------------------------------------
\* The game: kills happen in a match, a match ends once, and a server that
\* crashes starts a match without ending the last, or says of a player who is
\* connected that he connects.  Polls keep up with it once they have begun: no
\* line leaves the lookback before some poll has read it.
InMatch == LET bounds == Boundaries(DOMAIN log)
           IN bounds # {} => log[Max(bounds)] = "match_start"
IsConnected == LET lines == Of(ConnectionLines, DOMAIN log)
               IN lines # {} /\ log[Max(lines)] = "connected"

Log ==
  /\ Len(log) < MaxEvents
  /\ polled = 0 \/ Len(log) < polled + Lookback
  /\ \E k \in Logged :
       /\ k \in {"match_end", "kill"} => InMatch
       /\ k = "disconnected" => IsConnected
       /\ log' = Append(log, k)
  /\ UNCHANGED <<polled, stored, timestamp, table, lookback, derived, cleanup, fails>>

-----------------------------------------------------------------------------
(* Ingestion.  A poll that cannot connect, log in or read its answer, and  *)
(* one whose transaction fails, changes nothing: its error is reported and *)
(* the next target or the next cycle follows.                              *)

\* The writer lock is free, for a worker or a cleanup to take.  Operators are
\* told to stop the workers before they materialize without it.
Unlocked == derived = None /\ cleanup = None /\ lookback = 0

\* GetAdminLog over one RCON connection: the lines of the last n seconds.
Answer(n) == {i \in DOMAIN log : log[i] # "poll" /\ i > Len(log) - n}

\* persist_rcon_admin_log_entries: one transaction, and a line that is stored
\* under its server time and canonical message is skipped.  The others get the
\* time of this answer.
Persist(lines) ==
  IF lines \subseteq stored
  THEN UNCHANGED <<log, stored, timestamp>>
  ELSE /\ Len(log) < MaxEvents
       /\ log' = Append(log, "poll")
       /\ stored' = stored \union lines
       /\ timestamp' = [i \in DOMAIN timestamp \union lines |->
                    IF i \in lines \ stored THEN Len(log) + 1 ELSE timestamp[i]]

\* fetch_recent_admin_log_entries and what its callers do with the entries.
Poll(n) == Persist(Answer(n)) /\ polled' = Len(log')

\* ingest_rcon_admin_logs, in the capture worker's cycle.
Ingest ==
  /\ Unlocked
  /\ Poll(Lookback)
  /\ UNCHANGED <<table, lookback, derived, cleanup, fails>>

\* The current-match worker polls every few seconds and takes no lock.
Refresh ==
  /\ Poll(Lookback)
  /\ UNCHANGED <<table, lookback, derived, cleanup, fails>>

-----------------------------------------------------------------------------
(* materialize_rcon_admin_log.                                             *)

\* The boundary before or after i among these events, 0 if there is none.
Previous(i, events) == Max({0} \union {b \in Boundaries(events) : b < i})
Following(i, events) == LET later == {b \in Boundaries(events) : b > i}
                        IN IF later = {} THEN 0 ELSE Min(later)

\* Mutant: a second start does not close the match that is open.
FirstStartWins(events) ==
  LET starts == Of({"match_start"}, events)
      opener(j) == {i \in starts : i < j /\ Of({"match_end"}, events) \cap (i..(j - 1)) = {}}
  IN  {[lo |-> IF opener(j) = {} THEN 0 ELSE Min(opener(j)), hi |-> j] :
         j \in Of({"match_end"}, events)}

\* _derive_admin_log_matches: a start and the end that follows it, a start
\* that another start or nothing follows, an end no start precedes.
Derived(events) ==
  {[lo |-> i, hi |-> LET next == Following(i, events)
                     IN IF next # 0 /\ log[next] = "match_end" THEN next ELSE 0] :
     i \in Of({"match_start"}, events)}
  \union
  {[lo |-> 0, hi |-> j] :
     j \in {i \in Of({"match_end"}, events) : LET last == Previous(i, events)
                                              IN last = 0 \/ log[last] = "match_end"}}

\* _player_was_connected_at_match_start reads the last connection line before
\* a match that has both bounds.
Prior(r, events) ==
  LET before == {i \in Of(ConnectionLines, events) : i < r.lo}
  IN  IF Bounded(r) /\ before # {} THEN {Max(before)} ELSE {}

\* _ensure_player: a player with a line in the match gets a row, no other.
Plays(r) == Between(r, Of(PlayerLines, stored)) # {}

\* Mutant: what the player was when the match began is not looked up.
MatchLinesOnly(r) == IF Plays(r) THEN Between(r, Of(PlayerLines, stored)) ELSE {}

\* _derive_player_stats_for_match.
StatsOf(r) ==
  IF Plays(r) THEN Between(r, Of(PlayerLines, stored)) \union Prior(r, stored) ELSE {}

\* A line of the pass below: the start of the interval that is open, 0 for none,
\* and the seconds of those that are closed.
Passed(acc, i) ==
  CASE log[i] = "connected" /\ acc.open = 0    -> [open |-> i, total |-> acc.total]
    [] log[i] = "disconnected" /\ acc.open # 0 -> [open |-> 0, total |-> acc.total + i - acc.open]
    [] OTHER                                   -> acc

\* _calculate_connection_interval_active_seconds: one pass over the connection
\* lines of the match, in their order.
Intervals(r, events) ==
  LET atStart == [open |-> IF \E i \in Of({"connected"}, events) : i < r.lo THEN r.lo ELSE 0,
                  total |-> 0]
      upTo[i \in r.lo..r.hi] ==
        LET acc == IF i = r.lo THEN atStart ELSE upTo[i - 1]
        IN  IF i \in Of(ConnectionLines, events) THEN Passed(acc, i) ELSE acc
  IN  upTo[r.hi]

\* Without a bound, or a connection that begins an interval, the active time is
\* the span of the player's lines in the match.
ActiveTime(r, events) ==
  LET end == Intervals(r, events)
      lines == Between(r, Of(PlayerLines, events))
  IN  IF Bounded(r) /\ Of({"connected"}, events) # {}
      THEN [source |-> "connection_intervals",
            seconds |-> end.total + (IF end.open = 0 THEN 0 ELSE r.hi - end.open)]
      ELSE [source |-> "event_span_fallback", seconds |-> Max(lines) - Min(lines)]

\* A worker holds the writer lock, which the cleanup takes as well; an operator
\* who runs the module or the operational backfill does not.
Derive ==
  /\ derived = None
  /\ Operators \/ Unlocked
  /\ derived' = Derived(stored)
  /\ UNCHANGED <<log, polled, stored, timestamp, table, lookback, cleanup, fails>>

\* count_recent_materialized_closed_matches, and the windows of the range.
EnoughMatches == Cardinality(Ended) >= EnsureMatches
InRange(n) == n <= BackfillDepth

\* A scan of a backfill: GetAdminLog has no range, so each scan reads the lines
\* of all the scans before it again, then materializes, whether its poll failed
\* or not.  It ends with enough matches, or as far back as it may go.
Scan ==
  /\ derived = None
  /\ Operators \/ cleanup = None
  /\ ~EnoughMatches
  /\ lookback' = lookback + BackfillChunk
  /\ InRange(lookback')
  /\ \/ Poll(lookback')
     \/ UNCHANGED <<log, stored, timestamp, polled>>
  /\ derived' = Derived(stored)'
  /\ UNCHANGED <<table, cleanup, fails>>

\* It ends, or is stopped between two scans.
EndBackfill ==
  /\ lookback > 0 /\ derived = None
  /\ lookback' = 0
  /\ UNCHANGED <<log, polled, stored, timestamp, table, derived, cleanup, fails>>

\* _upsert_match: the statistics of a row that exists are not touched.
Upserted(rows) ==
  [r \in DOMAIN table \union rows |-> IF r \in DOMAIN table THEN table[r] ELSE {}]

\* The statistics of some rows are deleted, derived again and inserted.
Replaced(rows, all) == [r \in DOMAIN all |-> IF r \in rows THEN StatsOf(r) ELSE all[r]]

\* Every derived row is inserted or updated, and the statistics of every row
\* are replaced.
Write ==
  /\ derived # None
  /\ LET all == Upserted(derived) IN table' = Replaced(DOMAIN all, all)
  /\ derived' = None
  /\ UNCHANGED <<log, polled, stored, timestamp, lookback, cleanup, fails>>

\* A database error is caught inside the transaction, which commits what was
\* done: some rows, or all rows and the statistics of some, those of one of
\* them deleted but not, or not all, inserted.
WriteFails ==
  /\ derived # None
  /\ fails < MaxFails
  /\ \/ \E some \in SUBSET derived : table' = Upserted(some)
     \/ LET all == Upserted(derived)
        IN  \E done \in SUBSET DOMAIN all, cut \in DOMAIN all : \E part \in SUBSET StatsOf(cut) :
              table' = [Replaced(done, all) EXCEPT ![cut] = part]
  /\ derived' = None
  /\ fails' = fails + 1
  /\ UNCHANGED <<log, polled, stored, timestamp, lookback, cleanup>>

-----------------------------------------------------------------------------
(* run_database_maintenance_cleanup.                                       *)

\* The ended_at of a row, the event_timestamp of its end: one that is re-derived
\* gets the same, since no poll stores an end again.
EndedAt(r) == timestamp[r.hi]
EndedBefore(q, r) == EndedAt(q) < EndedAt(r) \/ (EndedAt(q) = EndedAt(r) /\ q.hi < r.hi)

\* The sets of n rows, or all there are, that ended last: of two with one end,
\* either comes first.
LastEnded(n, rows) == {last \in SUBSET rows :
                         /\ Cardinality(last) = Min({n, Cardinality(rows)})
                         /\ \A q \in last, r \in rows \ last : ~EndedBefore(q, r)}

\* Mutant: critical events go by their age alone, those of kept matches too.
ExpiredByAge(protected, crit, noncrit) ==
  {i \in stored : IF log[i] \in Critical THEN timestamp[i] <= crit ELSE timestamp[i] <= noncrit}

\* _plan_admin_log_cleanup: the age of a line is that of its event_timestamp,
\* whether a match protects it goes by its server_time.
ExpiredEvents(protected, crit, noncrit) ==
  {i \in stored :
     IF log[i] \in Critical
     THEN timestamp[i] <= crit /\ \A r \in protected : Bounded(r) => i \notin r.lo..r.hi
     ELSE timestamp[i] <= noncrit}

\* _plan_materialized_match_cleanup keeps the RecentKeep rows that ended last
\* and those that ended after `windowStart`: in the current week or month, or in the
\* one before when that still counts.
\* The ages that retention is counted from are those the environment, the
\* command line or --now give; lines a poll can still read are not that old, and
\* a backfill (45 days) reads again what is not critical (30), but nothing that
\* is critical (90): a line is as old as its event_timestamp, or older.
PlanCleanup ==
  /\ cleanup = None
  /\ Operators \/ Unlocked
  /\ \E noncrit \in 0..(Len(log) - Lookback) :
     \E crit \in 0..Min({noncrit, Len(log) - BackfillDepth}), windowStart \in 0..Len(log), latest \in LastEnded(RecentKeep, Ended) :
       LET protected == latest \union {r \in Ended : EndedAt(r) > windowStart}
           plan == [stats  |-> Ended \ protected,
                    rows   |-> Ended \ protected,
                    events |-> ExpiredEvents(protected, crit, noncrit)]
       IN  cleanup' = plan
  /\ UNCHANGED <<log, polled, stored, timestamp, table, lookback, derived, fails>>

\* Each batch is committed: statistics, then matches, then events, the matches
\* that ended last first and the events by their ids.
DeleteStats ==
  /\ cleanup # None /\ cleanup.stats # {}
  /\ \E batch \in LastEnded(BatchSize, cleanup.stats) :
       /\ table' = [r \in DOMAIN table |-> IF r \in batch THEN {} ELSE table[r]]
       /\ cleanup' = [cleanup EXCEPT !.stats = @ \ batch]
  /\ UNCHANGED <<log, polled, stored, timestamp, lookback, derived, fails>>

DeleteMatches ==
  /\ cleanup # None /\ cleanup.stats = {} /\ cleanup.rows # {}
  /\ \E batch \in LastEnded(BatchSize, cleanup.rows) :
       /\ table' = [r \in DOMAIN table \ batch |-> table[r]]
       /\ cleanup' = [cleanup EXCEPT !.rows = @ \ batch]
  /\ UNCHANGED <<log, polled, stored, timestamp, lookback, derived, fails>>

MatchesFirst == cleanup.stats = {} /\ cleanup.rows = {}

\* The order of the ids.
StoredBefore(i, j) == timestamp[i] < timestamp[j] \/ (timestamp[i] = timestamp[j] /\ i < j)

DeleteEvents ==
  /\ cleanup # None /\ MatchesFirst /\ cleanup.events # {}
  /\ \E batch \in SUBSET cleanup.events :
       /\ Cardinality(batch) = Min({BatchSize, Cardinality(cleanup.events)})
       /\ \A i \in batch, j \in cleanup.events : StoredBefore(j, i) => j \in batch
       /\ stored' = stored \ batch
       /\ cleanup' = [cleanup EXCEPT !.events = @ \ batch]
  /\ UNCHANGED <<log, polled, timestamp, table, lookback, derived, fails>>

EndCleanup ==
  /\ cleanup # None /\ cleanup.stats = {} /\ cleanup.rows = {} /\ cleanup.events = {}
  /\ cleanup' = None
  /\ UNCHANGED <<log, polled, stored, timestamp, table, lookback, derived, fails>>

\* The process dies, or a statement fails: what was committed stays.
CleanupDies ==
  /\ cleanup # None /\ fails < MaxFails
  /\ cleanup' = None
  /\ fails' = fails + 1
  /\ UNCHANGED <<log, polled, stored, timestamp, table, lookback, derived>>

-----------------------------------------------------------------------------
Materialize == Derive \/ Write \/ WriteFails
Cleanup == PlanCleanup \/ DeleteStats \/ DeleteMatches \/ DeleteEvents \/ EndCleanup
             \/ CleanupDies

AdminNext == Log \/ Ingest \/ Refresh \/ Scan \/ EndBackfill \/ Materialize \/ Cleanup

AdminSpec == AdminInit /\ [][AdminNext]_adminVars

-----------------------------------------------------------------------------
(* Properties.                                                             *)

TypeOK ==
  /\ log \in Seq(Kind) /\ Len(log) <= MaxEvents
  /\ polled \in 0..Len(log) /\ stored \subseteq DOMAIN timestamp
  /\ DOMAIN timestamp \subseteq DOMAIN log /\ \A i \in DOMAIN timestamp : timestamp[i] \in DOMAIN log
  /\ DOMAIN table \subseteq Row /\ \A r \in DOMAIN table : table[r] \subseteq DOMAIN log
  /\ lookback \in 0..BackfillDepth
  /\ derived = None \/ derived \subseteq Row
  /\ \/ cleanup = None
     \/ cleanup \in [stats : SUBSET Row, rows : SUBSET Row, events : SUBSET DOMAIN log]
  /\ fails \in 0..MaxFails

\* A backfill has stored the start of the row after a later critical line up to
\* its end: retention, which goes by the time of the poll, may take that line and
\* leave the start.
StartBackfilled(r) ==
  \E i \in DOMAIN timestamp \cap (r.lo..r.hi) : log[i] \in Critical /\ timestamp[i] < timestamp[r.lo]

\* A row with both bounds is one match of the game, from its start to its end,
\* whatever was ingested, cleaned, or lost by runs that failed, as long as its
\* start was not stored after the lines that follow it.
BoundedRowIsMatch ==
  \A r \in DOMAIN table : Bounded(r) /\ ~StartBackfilled(r) =>
    /\ log[r.lo] = "match_start" /\ log[r.hi] = "match_end"
    /\ Boundaries(r.lo..r.hi) = {r.lo, r.hi}

\* The seconds of a match in which the player was connected: in each, the last
\* connection line up to it says so.
Online(r) ==
  {i \in r.lo..(r.hi - 1) :
     LET before == {j \in Of(ConnectionLines, DOMAIN log) : j <= i}
     IN  before # {} /\ log[Max(before)] = "connected"}

\* A materialization that ends well leaves every match that has both bounds, and
\* a start that was not stored after what follows it, with all the kills of the
\* match and no other: retention never takes the events of a match whose row
\* stays, and a run repairs what one before broke.
RunDerivesKills ==
  [][Write => \A r \in DOMAIN table' : Bounded(r) /\ ~StartBackfilled(r) =>
       Of({"kill"}, table'[r]) = Of({"kill"}, r.lo..r.hi)]_adminVars

\* The active time it derives from connections is that of the player when no
\* connection line of the match, and not the last before it, is gone.
RunDerivesActiveTime ==
  [][Write => \A r \in DOMAIN table' : Bounded(r) =>
       LET kept == Of(PlayerLines, r.lo..r.hi) \union Prior(r, DOMAIN log)
           time == ActiveTime(r, table'[r])
       IN  /\ table'[r] # {} /\ kept \subseteq stored
           /\ time.source = "connection_intervals"
           => time.seconds = Cardinality(Online(r))]_adminVars

\* "keep child stats for protected matches" (docs/database-maintenance.md:33):
\* no materialization takes statistics from the matches that ended last.
ProtectedStatsStay ==
  [][Write => \A rows \in LastEnded(RecentKeep, Ended) : \A r \in rows : table[r] \subseteq table'[r]]_adminVars
=============================================================================
