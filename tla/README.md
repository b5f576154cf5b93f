# Verification project for HLL Vietnam

TLA+ models, TLC runs and TLAPS proofs about the backend of HLL Vietnam
(`backend/app`) and its frontend (`frontend/assets/js`). Paths are relative to
the repository root; paths without a directory are under `backend/app`.

Each model translates the code, not its documents. Where the code and a
document disagree, section 5 says so.

## 1. Inventory

HLL Vietnam is a community site about the game servers of one team. Its
backend polls the servers over RCON, reads the community's CRCON installation
(HTTP, PostgreSQL and a websocket) and the public scoreboard, keeps a database
of matches and statistics, and serves JSON to static pages. Several processes
share that database: the API, the historical worker, the historical runner,
the current-match AdminLog worker, and whatever an operator starts by hand.

### Components

| Component | State | Operations | What is hard | What makes it correct |
|---|---|---|---|---|
| Writer lock `writer_lock.py` | a lock file on a shared volume; depth and token per process | acquire, poll, clear a stale lock, nest, release | processes on several hosts, kills and restarts, check-then-unlink | one writer at a time; nobody unlinks another's lock; a dead writer's lock does not stay for ever |
| Historical worker `rcon_historical_worker.py`, `rcon_historical_storage.py`, `postgres_rcon_storage.py` | capture runs, samples, checkpoints, competitive windows | guard, capture, extend or open a window, finalize | a robbed lock, a run left running by a crash, samples out of order | one heavy capture at a time; samples and windows in step; a crash does not stop capturing for good |
| Historical runner `historical_runner.py` | last run of each job, slots done | cycle with retries, public jobs by slot and interval, maintenance | jobs that exclude one another, retries of what was partly done | what is stored reaches every read model; a cycle that ends well shows what it stored |
| Historical ingestion `historical_ingestion.py`, `historical_storage.py` | matches, a progress row for each server and mode | bootstrap, refresh | an archive that grows while it is paged; sessions that fail and resume | no match skipped; exhausted means complete; repeated sessions finish |
| Scoreboard correlation `rcon_scoreboard_correlation.py`, `scoreboard_candidate_backfill.py` | PostgreSQL's copy of the candidates | score, choose, copy, backfill by tool | candidates that come one by one; neighbours on the same map | a match is linked to its own page or to none |
| AdminLog pipeline `rcon_admin_log_*.py`, `rcon_current_match_worker.py`, `rcon_historical_backfill*.py`, `database_maintenance.py` | events, match rows, player statistics | poll, backfill, materialize, clean | two workers, a backfill and a cleanup interleaved; runs that fail half way; batches | rows are matches; statistics are those of the lines of their match |
| Read models `rcon_historical_leaderboards.py`, `rcon_annual_rankings.py`, `rcon_historical_player_stats.py`, `historical_snapshot_storage.py`, `postgres_display_storage.py` | derived tables and documents | choose a window, read, replace | two processes rebuild one model; matches that come late; windows that roll over; a kill while a file is written | nothing shown regresses, nothing counted is lost, everything catches up |
| CRCON read side and its services `crcon/`, `services/historical_aggregates.py`, `history.py`, `player_search.py`, `servers.py` | connection pool, caches | requests of four services | threads waiting for a connection, concurrent fills of a cache, failing targets | no connection and no wake-up lost; answers no older than their kind allows |
| CRCON log stream `crcon/log_stream.py` | a bounded buffer, cursor and gap flag for each server; one thread each | connect, subscribe, receive, back off, stop, read a window | reconnection with and without replay, a recreated stream, stop during a blocking read | no event twice or out of order; a loss is flagged; one consumer; stop ends it, errors do not |
| Current-match service `services/current_match.py`, `crcon/cache.py` | TTL cache, registered flights, last identity, last good snapshot | hit, lead, wait, refresh, fall back | request threads around an expiring entry, failures, a match change | one refresh at a time; every request is answered; fresh data do not go back |
| Current-match page `current-match-snapshot.js`, `partida-actual.js` | poller, snapshot state, what is drawn | start, stop, poll, merge, preserve, render | answers after a stop, restarts, kept, degraded and incomplete snapshots, renamed matches | one chain of polls that goes on; a kill window of one match without holes; fields of the match shown |
| Other pages `historico.js`, `historico-recent-live.js`, `ranking.js`, `stats.js`, `main.js`, `historico-partida.js` | selection, requests under way, caches, timers | click, fetch, answer, redraw | late answers, shared and aborted requests, two scripts that write one list | what is shown is what is selected; pages settle |
| Parity of the current match `observe_current_match_parity.py`, `services/current_match_shadow.py` | lifecycle of the matches seen, newest observation and final report of each, sums over the polls | poll, step the lifecycle, verify the matches that ended | outages and pauses that look like an end, maps listed late, observations dated anew, unsynchronized polls | every match seen is followed to its report; a report accuses only what was miscounted; sums say what the polls said |
| Server list of the legacy source `collector.py`, `scheduler.py`, `storage.py`, `data_sources.py`, `api/payloads/servers.py` | a row for each probe of a server | collect, store, answer from rows or from RCON and A2S | a collector that stores stand-ins, sources that answer in part or not at all | real servers as soon as any are known; old rows only when nothing else is left |
| Clients, parsers, HTTP API, tools, deployment | none | queries, conversions | little | conversions |

### Interactions

* The runner, the historical worker, ingestion and maintenance take the
  **writer lock** around everything they write. The runner takes it again in
  the jobs it calls: the lock nests. The current-match AdminLog worker, the
  public refreshes of the runner, the operational backfill, the scoreboard tool
  and `python -m app.rcon_admin_log_materialization` do not take it.
* Ingestion of **events** (worker, runner, current-match worker) is followed by
  materialization into **matches and statistics**; maintenance deletes from all
  three; the **read models** are rebuilt from matches and statistics.
* The **scoreboard archive** is the second source of matches; RCON matches are
  linked to its pages.
* The current-match page polls the **current-match service**, which reads CRCON
  and takes its kills from the **log stream**. The other pages ask the API,
  which reads CRCON through the services and their **pool**, or the read models, or,
  for the server list with the legacy source, the rows of the **collector**.
* The **parity observer** is a command: it polls a current-match service of its own
  and the legacy payload, and asks the scoreboard for the maps that have ended.

## 2. Modules

| Module | Models | Theorems |
|---|---|---|
| `SingleWriter` | what the writer lock promises: nobody, or one process, is inside | |
| `WriterLock` | `writer_lock.py`, one action for each system call | `WriterLock_proofs` |
| `CaptureRun` | the RCON capture, its two guards and its storage, over `SingleWriter` and its robbery | `CaptureRun_proofs` |
| `RefreshCycle` | the loop of `historical_runner.py` | `ReadModels_proofs` |
| `HistoricalIngestion` | bootstrap and refresh of one server's archive | `HistoricalIngestion_proofs` |
| `ScoreboardLinks` | candidates and links, over the archive of `HistoricalIngestion` | `HistoricalIngestion_proofs` |
| `AdminLog` | events, backfill, matches, statistics and retention of one game server | `ReadModels_proofs` |
| `SnapshotFiles` | one snapshot document that several refreshers write | |
| `ReadModels` | concurrent refreshes of rankings, statistics, search index and documents, over `SnapshotFiles` | `ReadModels_proofs` |
| `ReadPool` | the pool of `crcon/postgres_repository.py` | `CrconReads_proofs` |
| `CrconReads` | the requests of the four CRCON services, over `ReadPool` | `CrconReads_proofs` |
| `LogStream` | `crcon/log_stream.py` for one target | `LogStream_proofs` |
| `CurrentMatch` | `CurrentMatchSnapshotService` and `TtlCache` for one server | `CurrentMatch_proofs` |
| `SnapshotFeed` | the poller, its snapshot state and the kill feed of the current-match page | `Site_proofs` |
| `LiveFields` | score, players and countdown of that page | `Site_proofs` |
| `HistoryPage`, `QueryPages`, `PolledPanels` | the history page; the ranking and player pages; the pages of polled panels | `Site_proofs` |
| `Site` | one page that is open, composed of the last four modules | `Site_proofs` |
| `ServerSnapshots` | collector, its loop, the rows, and `GET /api/servers` of the legacy source | `CrconReads_proofs` |
| `FinalMatches` | `FinalMatchVerifier`: which map, which verdict | `CrconReads_proofs` |
| `ParityObserver` | one target of the parity command, over `FinalMatches` | `CrconReads_proofs` |
| `ParityEvidence` | what its polls add up to | `CrconReads_proofs` |

`MC*` modules give the constants that a `.cfg` file cannot write. Definitions
marked `Mutant` are plausible mistakes in the definition after them, and each
property of a passing run fails under one of them; nothing else uses them.

### WriterLock and SingleWriter

`pc` follows a process through `backend_writer_lock`: `open` (`os.open` with
`O_CREAT|O_EXCL`), `read` and `judge` (`_read_lock_metadata` and the staleness
test), `unlink` (`_remove_lock_file`), `write` (the metadata), `held`, and
`release` (`_release`, between its read and its unlink). `file` is the lock
file, as the token its creator drew; it is `complete` once the JSON is in it. A
half-written file reads as no metadata, and then nobody clears it. A waiter
clears a dead pid of its own host, or a lock older than the grace period whose
holder's working directory was under `/app`. `Crash` kills a process wherever
it stands and `Restart` gives its slot, host name and pid to a new one.
`robbed` is history: a live process has lost its file.

Exclusion does not hold in general. A holder that is slow but alive and of
another container loses its lock when the grace period ends, and clearing is a
check and an unlink by name, so a slow waiter may remove the lock that a faster
one has just created. `ImplementsSingleWriter` says that the file is the
abstract lock until then, `OnlyClearingRobs` that
nothing else breaks it, a release least of all (`ReleaseUnlinksOwnFile`, proved). A process restarted into the slot of a killed holder
sees its own live pid in the dead lock and waits for its deadline. A waiter may
clear stale locks for ever, and does not look at its deadline while it does:
`AttemptEnds` excepts that.

### CaptureRun

`pc` follows a process through `run_rcon_historical_capture`: `guard`, `start`,
`query`, `persist`, `ingest`, `materialize`. The historical mode has a guard of
its own inside the writer lock: under SQLite a sweep and a look at the rows that
are running, whose connection is closed before the capture and which the start
repeats in its own transaction; under PostgreSQL an advisory lock that the
capture's connection holds. `RobLock` is what `WriterLock` allows at worst: a
waiter has taken the lock of a live process. `PersistSample` is one transaction
of sample, checkpoint and competitive window. `RunAges` makes a row older than
six hours. A killed capture's row stays running for ever under PostgreSQL, where
nothing asks for it.

Two things the module shows and no property forbids: two matches of one map less
than 1800 s apart become one window, and after a robbery a sample that is older
than the window's last moves `last_seen_at` back (`StoredInStep` is stated
without robbery).

### RefreshCycle

A tick of the loop is the cycle, if its interval has passed, or the public jobs
that are due. A heavy job takes a tick for itself and jobs that were passed over
wait for the next slot. A read model is up to date or stale, and one of them,
chosen at the start, is watched. A cycle's attempt captures, falls back to the
scoreboard, rebuilds snapshots, tables and rankings and maintains the database;
a failed one is repeated from its first step. `LongestTick` bounds a tick with
its sleep.

`CyclesCatchUp` needs `LongestTick < CycleInterval`: when a tick takes as long as
the interval, every tick is a cycle and the public jobs starve. Other behaviours
the module has, none of them excluded by a property: the annual ranking is
rebuilt by the nightly full refresh only, and a partial full refresh records the
date; a restart just before a monthly slot can pass a weekly job over three
times; maintenance is the last step of a cycle and is put off by every failure
before it.

### HistoricalIngestion

Match `i` is the `i`-th that the scoreboard archived, and stands for its end.
`Page(p, s)` is page `p` of its list, newest first, which moves when a match is
archived, during a session too. A session first tries the RCON capture, and
every outcome of it selects the scoreboard; then it has its page, its pages
left, its cutoff and whether it stops after this page. `todo` is what of the
page is still to be stored. Sessions hold the writer lock, so there is one.
`Fail` ends a session at any step, by an exception or a kill: both leave the
progress row as the last completed page left it. Servers are imported one after
another, and a session stops at the first that fails; `--start-page` is left out.

Two statements TLC refutes, kept without a run because no document promises
them: a refresh that fails after its newest page leaves a cutoff past the matches
it did not reach, and only a bootstrap reads them again
(`historical_storage.py:722`, retried by `historical_runner.py:155`); and a
bootstrap resumed with another `--page-size` skips matches, because the progress
row has a page number only.

### ScoreboardLinks

`Played` gives each match of the archive a map, a start, an end and a result.
`Score` is `_score_candidate`, `Linkable` the choice of
`resolve_rcon_scoreboard_correlation`. `Candidates` are the matches stored, or
PostgreSQL's copy, which the first read that finds none makes and no later one
renews; `ToolPage`, `ToolDetail` and `ToolFails` are
`scoreboard_candidate_backfill.py`. Sessions appear as what they store, in any
order (`SessionStores`), which covers what `HistoricalIngestion` lets them store.

The windows are those of ordinary operation: AdminLog lines bear the time of the
poll that brought them, less than half a match late, and samples lie inside their
match. `LinkedToItsOwn` is about them. While the own match is no candidate, a
window of AdminLog may be linked to a neighbour on the same map, since an edge, a
length and a result make five points, which is the threshold; under PostgreSQL
that lasts until the tool is run (docs/scoreboard-correlation-debugging.md has the
operator run it first). A backfill gives all lines of one answer one time, so the
window it derives lies at the time of the fetch and may be linked to a match
played then.

### AdminLog

Time goes in seconds: `log[i]` is what second `i` is taken up by, a line of the
server's log or a poll that stores lines. Event `i` is the line of second `i`, its
`server_time`. Its `event_timestamp` is the second of the poll that stored it
(`rcon_admin_log_parser.py:246`), so an old line that a backfill stores is younger, for
retention, than newer lines that were polled before. Matches and the ranges they
protect go by the one, the cutoffs, the order of the ids and `ended_at` by the other,
as docs/HISTORICAL_RCON_MATCH_BOUNDARY_AND_STAT_INFLATION_AUDIT.md:28 has them apart.
The ids of the lines of one poll are in the order of the lines (`StoredBefore`). A match
row is its bounds, 0 for a bound that is missing, and its statistics are the set
of events they are derived from: kills, and the connection lines that give the
active time. `Ingest` and `Refresh` poll the last lines, by two workers of which
one takes no lock; the unique key of an event makes them idempotent. `Scan` is
one step of the operational backfill, each further back, with the materialization
after it. A materialization is `Derive` and `Write`, so that ingestion comes in
between. `WriteFails` is a database error caught inside the transaction, which
commits what was done before it. A cleanup is its plan and its batches, and may
die between two.

What the module assumes: polls keep up with the log once they have begun; a
backfill's chunk is at least the poll's lookback; operators stop the workers
while they backfill, as the documents have it (`Operators = FALSE`; with `TRUE`
a materialization between the cleanup's deletion of a match and of its events
brings the match back without the kills that go next,
`rcon_historical_backfill_operational.py:73`). An outage longer than the lookback
leaves a hole, and a start before it is paired with an end after it
(docs/HISTORICAL_RCON_MATCH_BOUNDARY_AND_STAT_INFLATION_AUDIT.md, §3 and §16); a
growing backfill after such an outage materializes wrong rows at its first scan.
A cleanup killed half way after a backfill can leave a connection without its
disconnection, and the active time is understated when the connection before the
match has expired: `RunDerivesActiveTime` speaks of matches whose connection lines
are there. Where no connection begins an interval the code falls back on the span of
the player's lines, which `ActiveTime` gives with its source and no property trusts.

What the properties except: a row whose start was stored later than a critical line that
follows it up to the row's end (`StartBackfilled`). A backfill reads the start of an old
match when a later end and a start after it have long been polled; the critical cutoff
then falls between the two polls, takes the boundaries of the first and leaves the start,
and the next run pairs it with a later end: a bounded row
over two matches. TLC shows it when the condition is dropped. No document says what such
a row is, so there is no run for it; section 5 lists it.

### SnapshotFiles and ReadModels

A document is the set of matches it was built from. Under SQLite it is a file
that is read, judged (`_should_preserve_existing_snapshot`), truncated and
written, each a step; a kill leaves it `Torn`. Under PostgreSQL it is a row. A job
of `ReadModels` reads its window, then its rows, then commits, since each
statement reads the database as it is then; two processes run jobs of one model
at once, because the public refreshes take no writer lock. `CommitRanking`
replaces the snapshot of one window, the others replace their whole scope. A
match is materialized when its end has passed, or later. The PostgreSQL path has
no rule that preserves content.

### ReadPool and CrconReads

A step of `ReadPool` is a critical section of the pool's condition or a call on a
connection outside it: take, open, sleep, wake, look again, use, return, discard,
close. In `CrconReads` a request has a kind, the targets it asks one after
another and the rows it has gathered; the services differ in the order of gate,
lookup, calls and query. `finished` is what CRCON knows, `cache` what each service
keeps, and a service may be replaced while its threads still work. An answer's age
is bounded by `LongestRead`, the timeouts of connection, statement and call.

What the module shows and no property forbids is listed in section 5.

### LogStream

Event `i` has stream id `i`; `log[i]` has the match it was logged in, which
stands for its timestamp, and whether it is a kill, since parsing keeps no other
(`Parsed`). The cursor is the payload's own and not that of what was kept: it runs ahead
of the last recorded kill when others follow, and payloads without a kill move it too or
have none. CRCON is external: it appends events, starts the next
match, discards ids below `valid`, and sends the next slice of the stream or a
replay; what is assumed of it is that `last_seen_id` is the last id sent, and is there
when there are kills. The consumer thread's `pc` follows `_run_target`: `loop`, `connect`,
`send`, `recv`, `backoff`. The `_TargetBuffer` is eight variables with the
names of its fields. `ReadWindow` is `window_for_match`, called by request
threads between any two steps. `start` and `stop` are split where they join the
thread. The history variables record since when the flags account for losses: from the first
cursor on, and again from where a change of match clears the flags. A kill is lost when
the consumer is past it, by its last recorded kill or by its cursor (`Reached`), and the
window lacks it.

### CurrentMatch

`pc` follows a request through `get_snapshot` and `_SingleFlight`: `miss`, then
`recheck`, `info`, `stats`, `map`, `put` and `pop` for a leader, `wait` and
`woken` for the others, and `failed` and `stalePut` on the fallback path. Each
step is what the thread does between two points where another may run. A
snapshot is its identity, the match its players were read in, the instant it
was observed, and the stale mark. `mapped` lags behind `match`, so an identity
is canonical or ephemeral. A refresh reads one identity; the merging of players
and combat statistics and the cursors of kill pages are left out.

### SnapshotFeed and LiveFields

`stopped`, `timerSet`, `timeouts` and `cycle` are the poller: `timeouts` counts the
timeouts that are pending in the browser, whatever `timer` refers to. The answer
in flight may be delivered after a stop. `Receive` is the page's `applySnapshot`
with all it calls: `processCurrentMatchSnapshot`, the adaptation and the
rendering of the kill feed. `Window` may be smaller than `KillLimit`, which
stands for `event_limit` 1..500 in the backend. The page gets `runCycle` too
and never calls it. Kills of one second may be
drawn in another order, or leave the list, when the window moves by two or more,
because a kill that is known keeps the index of the snapshot it came in; the tests
at `frontend/tests/current-match-snapshot.test.js:384` and `:400` fix this order.

`LiveFields` has the rest of a snapshot: a degraded one keeps the fields of the
same match only, and the countdown goes on from a basis that every transition
resets. Last good answers bear a new time of observation, so the countdown stands
still while they last.

### HistoryPage, QueryPages, PolledPanels and Site

The browser runs one task at a time, so an action is a click, a timer or an answer
with all that follows from it. `HistoryPage` has `historico.js`, with its caches
and shared requests, and `historico-recent-live.js`, which redraws the same list
from fetches of its own. The page's own timers of a click are merged with its
poll, a live fetch is answered before the next poll, and an aborted request ends
before the next one is answered. `QueryPages` has a page that aborts the request
before (`ranking.js`) and one without guards (`stats.js`). `PolledPanels` has
panels with a timer and an in-flight flag each. In `Site` one page is open for a
whole behaviour: pages share nothing in the browser.

### ServerSnapshots

A loop probes the targets, then stores one batch in one transaction; the controlled
source stands in when it is chosen or, with `--source auto`, when no server
answered. An error of the storage ends the loop, because nothing catches it. A
request reads the newest row of each server and answers from them while the newest
is no older than the interval; otherwise it asks RCON, then A2S, between which the
loop may store. `Answering` is any set of servers: a probe that times out leaves its
server out. `--max-runs` bounds the loop. The addresses added to an item, the
summaries and the history lists are queries over the same rows.

### FinalMatches, ParityObserver and ParityEvidence

A match stands for its identity, and the kills of one player for all statistics. A
poll is two reads of CRCON with a cache in front (`PollInfo`, `PollStats`) or an
answer of the cache (`PollCached`); each read may fail, and between two matches
public info still names the last one, as the documented run had it for about 105 s
(docs/CRCON_CURRENT_MATCH_PARITY_VALIDATION.md:285), or none (`Named`). When the refresh fails, the last good snapshot stands in
under the time of the failure, as the service has it. So the lifecycle never gets
nothing once a match was seen, and the `MATCH_ENDED` branch of `Told` is not taken:
a match ends, for the observer, when the next one shows. `Verify` handles one
pending match at a time; those without a map stay for later polls.

`UnexplainedHasCause` names what can make a difference unexplained although nothing
was miscounted: a stale observation, counters of the match after, a map of the same
layer begun within the tolerance (`Twins`), a detail without encounters, and a kill
in the very second of the observation. `Twins` is also the one way for a match to
lose its report, when the map was reported for its twin before.

`ParityEvidence` is `observe_poll` for synchronized polls. The polls that are not
return before the players are looked at (`observe_current_match_parity.py:271`): they,
and the fields of the match, only move counters that nothing here tells apart, and are
stutters of the module.
`seen` is history, and `EvidenceIsHistory` says the sums from it.

## 3. Runs

| Run | Checks | Bounds, and why they are enough |
|---|---|---|
| `WriterLockShared` | `OnlyClearingRobs`, `ImplementsSingleWriter`, `LockComesFree` | two containers, one of them under `/app`, nesting 2, one kill and restart: every judgement of staleness comes up |
| `CaptureRun` | `OneHeavyCapture`, `StoredInStep`, `CapturesGoOn` | two historical processes and one current-live, both databases, two maps, three instants with a gap of one, one fault, one robbery |
| `RefreshCycle` | `CleanCycleShowsAll`, `CyclesCatchUp` | a day of twelve instants with every kind of slot, ticks of one and two instants, one retry, one fault |
| `HistoricalIngestion` | `ResumeSkipsNothing`, `ExhaustedMeansComplete`, `RefreshReachesCutoff`, `BootstrapFinishes`, `LinkedToItsOwn` | five matches in pages of two: three pages, the last one short, which move by odd numbers; sessions of one and of four pages; two failures; two pages of the tool; a list of candidates that one match does not fit in |
| `AdminLog` | `BoundedRowIsMatch`, `RunDerivesKills`, `RunDerivesActiveTime` | eight seconds of starts, ends, kills and polls, or seven with connections in place of the kills (`OneKindOfLine`: the two concern different properties), the last of them a poll's (`LastIsPoll`: a line of it would be read by none) and, of eight, without a failure: two matches polled apart, a match that a backfill reads after its end, a connection before a match and one in it; one failure or death; batches of one, so that every cut of a cleanup comes up; a backfill of three scans; one protected match; every cutoff beyond the reach of the polls |
| `AdminLogProtectedStats` (fails) | `ProtectedStatsStay` | six seconds, no failure |
| `ReadModels` | `ShownNeverRegresses`, `RankingKeepsMatches`, `ModelsCatchUp`, `DocumentSurvives` | two refreshers, one model in each behaviour, a period that rolls over, one kill |
| `CrconReads` | `PoolAccounted`, `NoLostWakeup`, `FinishedMatchShows`; `ServerListHonest`; `EveryMatchFollowed`, `ReportsExplained`; `EvidenceIsHistory` | services: two requests with one connection between them, two servers, entries of one and two instants, a week that ends; server list: two servers, a loop of two runs, one request, rows that outlive the interval; observer: two matches of one or two layers with a pause, a tolerance of one instant, one kill, three instants; evidence: three polls of two players with a threshold of two, so that a run begins, is long enough and is broken |
| `LogStream` | `FeedConsistent`, `LossFlagged`, `ConsumerLives` | a buffer of two and three events, kills or not: it overflows, and the cursor gets ahead; two matches; one recreated stream; two starts, so that one comes while the thread before may still run; behaviours with a stop have one event and one match (`ShortWhenStopped`), since what a stop and the thread after it do to the buffer, any disconnection does |
| `CurrentMatchService` | `FlightSound`, `CacheAgrees`, `NeverOlder`, `RequestEnds` | two requests (a leader and a waiter, and each may ask again), two matches, an entry that expires |
| `SnapshotFeed` | `FeedConsistent`, `OneChain`, `PollingGoesOn` | four kills in two seconds, window 2, list 3: the window moves by two and the list overflows; two matches; a restart |
| `Site` | `ShownIsSelected`, `NeverGoesBack`, `PagesSettle` | two servers, boards, filters and players; two clicks or three queries, so that a late answer and a return to the first selection come up; one or two failures |

`HistoricalIngestion` is checked as two kinds of behaviour, chosen at the start:
the sessions step by step, or the links made from what is stored. They share the
archive and nothing that a property relates; together they would be the product
of two independent state spaces.

`CrconReads` likewise has four kinds of behaviour, by what reads CRCON and the game
servers: the services, the server list, the parity observer, its evidence. The
observer was also run with a clock of four, where a match does lose its report to a
twin (2.6 million states); the run keeps to three for its length.

A property with several named parts is one statement of the run: `LockComesFree` is
`AttemptEnds` and `AbandonedLockRecovered`, `ConsumerLives` is `OneConsumer`, `ConsumerSurvives` and
`StopEnds`, `DocumentSurvives` is `ContentSurvives` and `TornFileRepaired`; those of
the parity modules and of `ServerSnapshots` are numbered where they are defined.

`ReadModels`, `CrconReads` and `Site` do not check deadlock: at their bounds of
time, matches, clicks and requests they really stop. In all other runs the loops
still take steps there.

### Fairness

* **WriterLock.** Each process goes on with its attempt, leaves the blocks it
  entered, restarts after a kill (the containers' restart policy), sees its
  deadline pass, and the grace period of a lock ends. Releasing is strongly fair:
  a job may nest again and again, and ends after finitely many times.
* **CaptureRun.** Calls return: the steps of a capture are weakly fair, and rows
  grow old. A historical process that asks again and again gets the lock some time
  (strong fairness of `EnterLock`), since its loop goes on after a timeout.
* **RefreshCycle.** The loop's thread runs (`WF` of `Step`).
* **HistoricalIngestion.** A session that has begun goes on. Strong fairness of
  `Bootstrap`: operators repeat it until the archive is exhausted
  (docs/historical-coverage-report.md:111), although refreshes come in between.
* **ReadModels.** The clock, the materialization, and each refresher's steps are
  weakly fair; commits are strongly fair: a job that fails is run again at its
  next slot, and does not fail for ever.
* **LogStream.** The consumer thread runs. Receiving is not fair (CRCON may
  send nothing) except on a connection that `stop` closed, where `recv` raises.
  Connecting and subscribing that are tried again and again succeed at some time
  (strong fairness): without that, no statement about the feed coming back
  could hold.
* **CurrentMatch.** Each request thread goes on. The reads have time limits, so
  each of them returns or fails.
* **SnapshotFeed.** A pending timeout fires, and a request is answered or fails:
  the browser ends every fetch.
* **Site.** The same: answers come or fail, timers fire, polls go on and the
  observer's redraw runs. Visitors owe nothing.
* **AdminLog** and **CrconReads** have no liveness property.

## 4. Proofs

TLAPS proves these for every value of the constants that satisfies the
assumptions of the modules (types of the bounds; model values differ from the
data they stand beside).

**WriterLock_proofs.** The invariant is `TypeOK`, `TokenInv` (a token in hand was
drawn by its process, and whoever waits or owns has one) and `OwnFileInv` (until a
robbery, whoever created the file still has it). `OwnFileInv` is what the
properties lack: that nobody else is inside follows from there being one file.
`TypeCorrect`, `Exclusion`, `ReleaseIsOwn`, `FirstRobberyIsClearing` follow for
any processes, hosts and kills, and so does `FileImplementsLock`: every step maps
to a step of `SingleWriter` or to none, where the mapping empties the abstract
lock at the first robbery. With one host and no kills nobody can be judged stale,
so there is exclusion without condition: `LocalExclusion`.

**CaptureRun_proofs.** `HeavyCaptureAlone`: the invariant `GuardInv` says what each
guard holds. Past it, under PostgreSQL the process holds the advisory lock, and under
SQLite at most one historical row is running, because a row is inserted where no
other is left. Nothing of it depends on the writer lock: it holds after a robbery.
`StoredStaysInStep` needs the lock: the invariant `StoredInv` has, until a robbery,
that whoever captures holds the lock alone and has noted a time no older than what is
stored (`OneAtATime`), so that samples come in order; with it the checkpoint is the
newest sample, the windows follow one another and each counts its samples exactly
(`InStep`). A sample that extends the last window and one
that opens a new window are the two cases of `NewSample`, and older windows are left
alone (`OlderWindowStays`).

**ReadModels_proofs.** `CleanCycleShows`, for every schedule, length of ticks and
number of faults. Matches are stored in the first two steps of an attempt, so it is
enough to follow the watched model from the step that builds it: `BuiltAt(models,
steps)` says that nothing is missing from the models once their step is over and
the attempt is clean, and `CycleInv` has one of them for each group of models, with
`NoAttempt`, that the public jobs run in ticks of their own.

The module has two more components, which come before and after the runner.
`BoundedRowsAreMatches`, for any log, lookback, backfills, retention, failures and
operators. Retention leaves holes in the middle of the stored log, around protected
matches, so it is not enough that the critical lines stored are the last ones. What is
inductive is `StoredFollow`: every critical line of the match of a stored start that some
poll has read is stored, or was stored by an earlier poll than the start and is deleted.
Polls add the end of the log, which the lookback joins to what was read, and a deleted
critical line is out of the reach of every poll to come (`GoneForGood`), so that nothing
is stored twice under another time; a cleanup deletes critical lines in the order of their
ids, and its plan (`EventsFit`) has, with a line of a match that was not stored before the
start, the start of that match: the range of a protected match is whole matches, because
its row is one (`RowFits`), or its start was backfilled and the row is excepted. A start
and the end derived for it then have nothing between them that the store has lost, unless
the start was stored after it. `RunsDeriveKills` adds `KillsInv`: every critical line of a row with both bounds is
stored, for the rows that are there and those a run is about to write, and the rows that
a cleanup leaves have none of the lines it is about to delete. It assumes that operators
stop the workers (`~Operators`): with an operator's run between the two deletions of a
cleanup the statement is false.

`RunsDeriveActiveTime` needs no more than `BoundedRowsAreMatches`. The pass over the
connection lines is a recursive function (`PassDefined` shows that there is one), and
after each line it has an open interval exactly when the player is there and, with the
seconds of that interval, all the seconds he has been there (`PassFits`, `PassGoesOn`).
It goes on from line to line by a least counterexample, and begins right because the
last stored connection before the match is the last there is. `Online` says the same of
every second by itself.

`RankingsKeepMatches` and `ShownMovesForward`, for any refreshers, periods and matches:
a refresh replaces the snapshot it found when it selected its window (`FoundFits`), and
it reads the rows after that; matches are never unmaterialized, so what it read contains
what it found. The window last shown is the one that ends last, and every end is bounded
by the clock, so that there is one (`LatestEndsLast`).

`ContentAlwaysSurvives` is the safety half of `DocumentSurvives`, whatever is killed: a
refresher beside which nobody stored since it read has found content if the file has
some (`FilesInv`).

**HistoricalIngestion_proofs.** The first invariant adds to the properties where a
session stands: once it has a page, a bootstrap's page is the next page of the
progress row and has no cutoff, and the matches before the page after it are
stored or still in `todo` (`LoadedInv`). The lemmas are about pages: a page and
the pages before it are the pages before the next, growth only moves matches to
later pages, and past an empty page nothing is left. `NothingSkipped` and
`CompleteWhenExhausted` assume `OneSize`, that sessions agree on the page size;
the statements fail without it. The newest of a nonempty set of matches is found
with the library's theorem on well-founded relations.

`RefreshReaches` needs no `OneSize`, because a refresh has one size and begins at its
first page. `Wanted` is what the archive held above the cutoff when it began, and the
invariant (`Reached`) that what of it lies before the current page is stored, or in
`todo` while the page is being stored; and that all of it has been seen once a match
under the cutoff was. It rests on `NewerThanPage`: what is newer than a match of a page
is on that page or before it.

`LinksAreOwn`, for any matches, ticks and stores: the middle of a window lies in one
match only, and from there the points follow. A window of AdminLog gives its own match
ten and any other at most eight, a window of samples six and at most four, which is
under the threshold. The invariant is only that candidates are matches of the archive.

**CrconReads_proofs.** `PoolInv` joins `PoolAccounted` and `NoLostWakeup` with
`Waiters`: the sleepers are on the condition's list, who is on it sleeps or has
just woken, and a closed pool has no sleepers. `ServicesUsePool` shows that the
services, step by step, use the pool as `ReadPool` specifies it, a refinement under
which `ConnectionsAccounted` and `WakeupsArrive` hold of them too, for any number
of threads and any size.

`AnswersShowFinished`, for any servers, requests, times to live and failing calls. Its
invariant `ReadsInv` follows a reading from the call to the answer and the cache:
`Requests` says of each stage that the rows in hand have every match that had finished
when the request began to read, on the servers asked so far that are not missing, and
`CacheFits` says of an entry that its rows were complete no longer ago than its time to
live and the read behind it before it expires. `Tick` keeps it because `LongestRead`
bounds a read, new matches because they finish now. A concurrent fill that is older
replaces an entry that is newer, and the invariant holds: it speaks of each entry by
its own expiry.

The server list and the parity observer are proved as parts of `MCSpec`, whose other
parts only move the clock they share. `ServerListAlwaysHonest`: a stored row is of a
game server exactly when its origin says so, and what a request has read (`AskedFits`)
is already as honest as an answer, since it is the answer when every source fails.

`MatchesAlwaysFollowed` and `ReportsAlwaysExplained`, from `ObserverInv`. What the
service has is of matches in their order (`ServiceFits`): the last good snapshot is of
the machine's current match, the cached one of the same, and a poll between its reads
has a match no earlier. So the current match only moves forward and what it leaves has
ended; the machine never sees nothing after a match (`endedWithoutNext` stays FALSE).
`ShotFits` says of each snapshot kept that its kills were CRCON's when they were read,
and were read after the time it bears unless it is stale; with that, `EvidenceCounts`
finds in the encounters every kill gained since, except in the second of the
observation. `ObserverParameters` asks of the constants that ticks and sizes are
numbers, that the tolerance and the window are not negative, and that None and a failed
call are no values.

`EvidenceAlwaysHistory`, for any finite set of players, threshold and number of polls.
`EvidenceInv` ties each counter to the history: a difference run is the number of
differences since the last agreement (`DifferingGrows`), a run of a side is the length of
the last stretch on it (`RunIn`), and the totals are numbers of pairs of a player and a
poll, to which a poll adds one for each player of a set (`PairsAdded`).

**LogStream_proofs.** `FeedConsistentAlways` and `LossFlaggedAlways`, for any buffer
size, stream, replay and order of steps, with or without kills and cursors. The invariant
is `FeedConsistent`, `CursorInv` (a cursor that is kept is at or past the last recorded
kill; between the cursor and the server's position there are no kills; a lost cursor is
flagged) and `NothingLost`: with no flag set, every kill of the match on display up to
`Reached` that the accounting does not leave out is in the buffer. `ReceiveEffect` sums up what a batch does
to the buffer in terms of sets; the filters of the code are recursive functions over
sequences and their lemmas (`KeepFilters`, `NewestKeeps`, `ConcatLarger`) are proved by
a least counterexample over the naturals (`SegmentInduction`), since the library's
induction theorems cannot be instantiated. `OneConsumerAlways` is its own invariant.

**CurrentMatch_proofs.** The invariant is `TypeOK`, `FlightInv` (the registered
flight is that of the one request that leads, and a waiter waits for it), `CacheInv`
(while a leader reads, the cache has nothing or a stale copy; what it is about to
put is the last good snapshot) and `AgeInv` (the last good snapshot is no newer
than the refresh that runs). `SingleFlight` and `CacheAlwaysAgrees` follow for any
number of requests; `NeverBackwards` adds `AnswerInv`: what a request may still
return is at least as new as what it returned last.

**Site_proofs.** `ShownIsSelectedAlways` and `PanelsMoveForward`, for any servers,
boards, filters, panels and matches, and any order of clicks, timers, answers and
failures. The invariants say what may still answer: a continuation of the history page
waits for a key of the server and the board it was asked for, and only one that is
current draws; a request of the ranking or player page that was not aborted has the
values of the form; a panel has one request under way, no older than what is drawn; and
each field of the current match is of the snapshot's match, or of one that its version
shows to have ended. `OneChainAlways`: one pending timeout, or one cycle, or none,
whatever is started and stopped.

`FeedAlwaysConsistent`, in the same module, for any window of a snapshot and any length
of the page's list, equal or not. The invariant (`FeedInv`) is about three holders of
kills. The log is in order of match and of second, so the kills of a match are
consecutive (`LoggedTogether`). A snapshot holds consecutive kills of its match, and
all up to its last one but when it is truncated and full (`SnapFits`); the snapshot
the backend keeps, which an outage serves again, ends no earlier than what the client
knows of that match (`Fresh`). The client's entries end with the newest kill in the
order of the sort (`DrawnFeed`), which is why cutting the list from its head leaves no
hole but among kills of one second. The hard step is a merge with a full window whose
last kill ties with an older one in second and index: the place breaks the tie, and
the cursor has the last one (`MergeFits`). The model sorts by rank, with lemmas that in
a strict order each place is taken once (`Places`), since `SortSeq` of the library is
recursive.

Only model-checked: all liveness properties, since fairness and ENABLED are beyond the
prover: `LockComesFree`, `CapturesGoOn`, `CyclesCatchUp`, `BootstrapFinishes`,
`ModelsCatchUp`, `RequestEnds`, `PollingGoesOn`, `PagesSettle`, and the parts of
`ConsumerLives` and `DocumentSurvives` that are not safety. Every other property that a
passing run checks is a theorem.

## 5. Findings

* **Statistics of protected matches shrink** (run `AdminLogProtectedStats`):
  retention deletes noncritical events of protected matches and the next run
  derives their statistics again without them, although
  docs/database-maintenance.md:33 keeps them.

Found while modelling; no document promises the contrary of the code, or the
property that holds excepts it:

* *Writer lock.* Two waiters judge the same dead lock; the slower one unlinks the
  lock the faster one has just created. The public refreshes take no lock, although
  backend/README.md has the runner coordinated by it.
* *AdminLog.* A start that a backfill stores outlives, under the critical retention, the
  boundaries after it that were polled earlier, and is then paired with a later end
  (`database_maintenance.py:368` by `event_timestamp`,
  `rcon_admin_log_materialization.py:489` by `server_time`): `StartBackfilled` in section 2.
* *Log stream.* `window_for_match` clears the gap mark on a change of match while
  the cursor is lost and the stream has not resumed: events of the new match that
  the resumption at the tail skips are not marked.
* *Current-match service.* A stale copy is cached after the lock under which it was
  chosen was released, so an evicted identity can come back for an entry's time;
  public information and live statistics are two reads, so a snapshot may be of two
  matches; `observed_at` of a stale copy is stamped anew, although
  docs/CRCON_FIRST_STATELESS_ARCHITECTURE.md:291 keeps it, and the bound of ten
  seconds of its line 289 is not implemented.
* *Current-match page.* Kills of the match before stay drawn until the next match
  has kills of its own: the feed given to `renderKillFeed` has no match in its
  signature.
* *CRCON reads.* Weekly and monthly rankings and profiles have the instant of the
  request in their cache key and are never found in the cache, although
  docs/CRCON_FIRST_STATELESS_ARCHITECTURE.md:257 caches them by server, period,
  metric and limit. A degraded match detail is kept for an hour. After a restart
  of the database each idle connection costs one failed request. Aggregates have no
  single flight. `expires_at` of the server list counts from the start of a
  refresh, so slow refreshes follow one another. Getting a service with another
  configuration closes the old repository while threads use it.
* *History page.* A click on a board during a server's refresh drops the answer of
  the summary, which then stays "Cargando"; a timer of an earlier click asks for
  its server again; a failed live fetch keeps the old list beside an error; the page
  number of the live list is not reset when the first forced fetch of a server is
  superseded (`historico-recent-live.js:55`).
* *Ranking and player pages.* The error body of an aborted request still draws the
  old error, although docs/FULL_APPLICATION_REQUEST_AUDIT.md:585 lists the page as
  guarded. One failed search or health request marks the backend as unavailable and
  nothing asks again.
* *Read models.* The ranking reads its header and its rows in two statements; the
  limit of rows is applied before players of two names are merged; the rows of a
  window include its end and its counts do not.
* *Parity.* A failed refresh answers with the last good snapshot under the time of the
  failure (`services/current_match.py:385`), `record_live` keeps it as a new observation
  and `verify` measures the gap to the end of the match from that time: what
  docs/CRCON_CURRENT_MATCH_PARITY_VALIDATION.md:77 counts as close to the final
  scoreboard may have been read any time before. The service keeps the last payload of
  every match for ever (`current_match_shadow.py:358`), and a comparison thread that is
  late moves it back to the match before (`:520`).
* *Server list.* backend/README.md:276 has no servers foreign to the community in the
  answer; the collector stores its controlled source when no server answers, and
  `_select_primary_snapshot_items` falls back to whatever is stored
  (`api/payloads/servers.py:189`), so those servers are shown until a real one has been
  stored, and with RCON as the source also when all the rows are of A2S and mixed. The
  age of an answer is that of its newest item (`:226`). An error of the storage ends the
  collector's loop for good (`scheduler.py:33`).
* *Backfill.* An operator's materialization takes no writer lock
  (`rcon_historical_backfill_operational.py:73`; `Operators = TRUE` in `AdminLog`).
* Those told with their modules in section 2.

## 6. Not modelled

* Session fallback rows and player profile snapshots (AdminLog); `--start-page` and the rows of ingestion runs (HistoricalIngestion).
  They are written beside the rows that are modelled and read by nothing that is.
* The merging of players with combat statistics and the cursors of kill pages
  (`_build_players`, `project_kills`): functions of one snapshot.
* The comparison threads of the web process (`compare_current_match`) and the printed
  report of the parity command: diagnostics that no page reads.
* HTTP routing, payload formats,
  configuration, byte protocols and parsers are conversions; the event types of the
  AdminLog parser and the outcome of an RCON connection appear in `AdminLog`.
* Scripts and migrations are run once by hand. Deployment says which processes there
  are, which the runs take as concurrent.
* Pagination, markup and labels of the pages.

## 7. Plan

What is left, most important first:

1. Links over windows that a backfill or an outage has shifted or merged, with what
   can still be said of them.
2. The players of a current-match snapshot and the kill cursors, as pure operators
   against a reference definition.
3. The pagination of the history page; the comparison threads of the web process.
