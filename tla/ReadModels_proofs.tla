------------------------- MODULE ReadModels_proofs -------------------------
(***************************************************************************)
(* The stored rankings only grow, and what a visitor is shown of them only *)
(* moves forward, for any number of refreshers, periods and matches.       *)
(*                                                                         *)
(* A refresh replaces the snapshot it found when it read its window.  It   *)
(* reads the rows after that, matches are never unmaterialized, and the    *)
(* rows of a stored snapshot were matches of its window: so the rows it    *)
(* has read contain those of the snapshot it found.                        *)
(*                                                                         *)
(* Then the snapshot documents, the cycle of the runner, and what is       *)
(* materialized of the AdminLog: matches, their kills, the active time.    *)
(***************************************************************************)
EXTENDS AdminLog, ReadModels, RefreshCycle, FiniteSetTheorems, TLAPS, WellFoundedInduction

Kinds == {"ranking", "annual", "period", "search", "file", "recent"}
JobRecord == [kind : Kinds, timeframe : Timeframe, anchor : Nat,
              step : {"window", "rows", "commit"}, window : AnyWindow,
              existing : RankingSnapshot \cup {NoSnapshot}, rows : SUBSET Nat]

LastInstant == StartTime + MaxTime

TypeInv ==
  /\ model \in Kinds \X Timeframe
  /\ now \in 0..LastInstant
  /\ matches \subseteq Nat
  /\ job \in [Refresher -> JobRecord \cup {NoJob}]
  /\ ranking \subseteq RankingSnapshot

\* The rows are matches of the window, and the window ends before the future.
RowsMatched(w, rows) == rows \subseteq RankedMatches(w) /\ w.end <= LastInstant + 1

\* What a refresh has found is a snapshot of its window, whose matches are among
\* the rows it has read by now.
FoundFits(j) ==
  /\ j.anchor <= now
  /\ j.step # "window" => j.window.end <= LastInstant + 1
  /\ j.step # "window" /\ j.existing # NoSnapshot =>
       Key(j.existing) = <<j.timeframe, j.window>> /\ RowsMatched(j.window, j.existing.rows)
  /\ j.step = "commit" /\ j.kind = "ranking" =>
       /\ RowsMatched(j.window, j.rows)
       /\ j.existing # NoSnapshot => j.existing.rows \subseteq j.rows

RankingsInv ==
  /\ TypeInv
  /\ \A s \in ranking : RowsMatched(s.window, s.rows)
  /\ \A r \in Refresher : job[r] # NoJob => FoundFits(job[r])

-----------------------------------------------------------------------------
\* Period boundaries lie in the past.
LEMMA PeriodStarts ==
  ASSUME NEW t \in Nat
  PROVE  PeriodStart(t) \in Nat /\ PeriodStart(t) <= t
<1>1. PeriodLength \in Nat \ {0}
  BY PeriodAssumption
<1> QED
  BY <1>1 DEF PeriodStart

\* Every policy selects a window that ends at its anchor or before, or the year.
LEMMA WindowSelected ==
  ASSUME NEW f \in Timeframe, NEW t \in 0..LastInstant
  PROVE  /\ SelectWindow(f, t) \in AnyWindow
         /\ SelectWindow(f, t).end <= LastInstant + 1
<1>1. f \in {"weekly", "monthly", "yearly"}
  BY JobAssumption DEF Timeframe
<1>2. PeriodStart(t) \in Nat /\ PeriodStart(t) <= t
  BY PeriodStarts, PeriodAssumption DEF LastInstant
<1>3. PeriodLength \in Nat /\ StartTime \in Nat /\ MaxTime \in Nat
  BY PeriodAssumption
<1>4. /\ CurrentWindow(t) \in AnyWindow /\ CurrentWindow(t).end <= LastInstant + 1
      /\ PreviousWindow(t) \in AnyWindow /\ PreviousWindow(t).end <= LastInstant + 1
      /\ AnnualWindow \in AnyWindow /\ AnnualWindow.end <= LastInstant + 1
  BY <1>2, <1>3 DEF CurrentWindow, PreviousWindow, AnnualWindow, Window, AnyWindow, LastInstant
<1>5. SelectWindow(f, t) \in {CurrentWindow(t), PreviousWindow(t), AnnualWindow}
  BY <1>1 DEF SelectWindow
<1> QED
  BY <1>4, <1>5

\* Of snapshots whose windows end before some instant, one ends last.
LEMMA OneIsLatest ==
  ASSUME NEW S \in SUBSET RankingSnapshot, S # {}, NEW last \in Int,
         \A s \in S : s.window.end <= last
  PROVE  \E s \in S : \A o \in S : o.window.end <= s.window.end
<1> DEFINE T == {last - s.window.end : s \in S}
           R == OpToRel(<, Nat)
<1>1. \A s \in S : s.window.end \in Int
  BY DEF RankingSnapshot, AnyWindow
<1>2. T \subseteq Nat
  BY <1>1
<1>3. T # {}
  OBVIOUS
<1>4. \A s \in S : last - s.window.end \in T
  OBVIOUS
<1>5. \A x \in T : \E s \in S : x = last - s.window.end
  OBVIOUS
<1>6. \A x, y \in Nat : y < x => <<y, x>> \in R
  BY DEF OpToRel
<1>7. IsWellFoundedOn(R, Nat)
  BY NatLessThanWellFounded
<1> HIDE DEF T, R
<1>8. PICK x \in T : \A y \in T : <<y, x>> \notin R
  BY <1>2, <1>3, <1>7, WFMin
<1>9. PICK s \in S : x = last - s.window.end
  BY <1>5
<1>10. ASSUME NEW o \in S
       PROVE  o.window.end <= s.window.end
  <2> DEFINE y == last - o.window.end
  <2>1. y \in T /\ y \in Nat /\ x \in Nat
    BY <1>2, <1>4
  <2>2. ~ (y < x)
    BY <1>6, <1>8, <2>1
  <2> QED
    BY <1>1, <1>9, <2>1, <2>2
<1> QED
  BY <1>10

\* The latest snapshot of a timeframe is one of its snapshots that ends last.
LEMMA LatestEndsLast ==
  ASSUME RankingsInv, NEW f, Ready(f) # {}
  PROVE  Latest(f) \in Ready(f) /\ \A o \in Ready(f) : o.window.end <= Latest(f).window.end
<1>1. Ready(f) \subseteq RankingSnapshot /\ \A s \in Ready(f) : s.window.end <= LastInstant + 1
  BY DEF RankingsInv, TypeInv, Ready, RowsMatched
<1>2. LastInstant + 1 \in Int
  BY PeriodAssumption DEF LastInstant
<1>3. \E s \in Ready(f) : \A o \in Ready(f) : o.window.end <= s.window.end
  BY <1>1, <1>2, OneIsLatest
<1> QED
  BY <1>3 DEF Latest

LatestIsLast ==
  \A f : Ready(f) # {} =>
    Latest(f) \in Ready(f) /\ \A o \in Ready(f) : o.window.end <= Latest(f).window.end

-----------------------------------------------------------------------------
LEMMA InitRankings == Init => RankingsInv
BY PeriodAssumption, JobAssumption
   DEF Init, RankingsInv, TypeInv, Kinds, Timeframe, LastInstant

\* Matches that come and time that passes take nothing from what was found.
LEMMA StaysMatched ==
  ASSUME RankingsInv, matches \subseteq matches', now' \in Nat, now <= now'
  PROVE  /\ \A w, rows : RowsMatched(w, rows) => RowsMatched(w, rows)'
         /\ \A j \in JobRecord : FoundFits(j) => FoundFits(j)'
<1>1. \A w, rows : RowsMatched(w, rows) => RowsMatched(w, rows)'
  BY DEF RowsMatched, RankedMatches
<1>2. ASSUME NEW j \in JobRecord, FoundFits(j)
      PROVE  FoundFits(j)'
  <2>1. j.anchor \in Nat /\ now \in Nat
    BY DEF JobRecord, RankingsInv, TypeInv, LastInstant
  <2> QED
    BY <1>1, <1>2, <2>1 DEF FoundFits, Key
<1> QED
  BY <1>1, <1>2

\* A refresh ends, or another step leaves the rankings alone.
LEMMA JobsLeft ==
  ASSUME RankingsInv, UNCHANGED <<model, now, matches, ranking>>,
         job' \in [Refresher -> JobRecord \cup {NoJob}],
         \A r \in Refresher : \/ job'[r] \in {job[r], NoJob}
                              \/ \E j \in JobRecord : job'[r] = j /\ FoundFits(j)
  PROVE  RankingsInv'
<1>1. TypeInv'
  BY DEF RankingsInv, TypeInv
<1>2. \A j : FoundFits(j) => FoundFits(j)'
  BY DEF FoundFits, RowsMatched, RankedMatches, Key
<1>3. \A s \in ranking' : RowsMatched(s.window, s.rows)'
  BY DEF RankingsInv, RowsMatched, RankedMatches
<1>4. ASSUME NEW r \in Refresher, job'[r] # NoJob
      PROVE  FoundFits(job[r])'
  <2>1. PICK j : job'[r] = j /\ FoundFits(j)
    BY <1>4 DEF RankingsInv
  <2>2. FoundFits(j)'
    BY <1>2, <2>1
  <2> QED
    BY <2>1, <2>2 DEF FoundFits, RowsMatched, RankedMatches, Key
<1> QED
  BY <1>1, <1>3, <1>4 DEF RankingsInv

LEMMA BeginKeeps ==
  ASSUME RankingsInv, NEW r \in Refresher, BeginJob(r)
  PROVE  RankingsInv'
<1> DEFINE j == [kind |-> model[1], timeframe |-> model[2], anchor |-> now, step |-> "window",
                 window |-> CurrentWindow(now), existing |-> NoSnapshot, rows |-> {}]
<1>1. now \in Nat /\ PeriodStart(now) \in Nat
  BY PeriodStarts, PeriodAssumption DEF RankingsInv, TypeInv, LastInstant
<1>2. j \in JobRecord
  BY <1>1 DEF RankingsInv, TypeInv, JobRecord, CurrentWindow, Window, AnyWindow
<1>3. FoundFits(j)
  BY <1>1 DEF FoundFits
<1>4. job' = [job EXCEPT ![r] = j]
  BY DEF BeginJob
<1> HIDE DEF j
<1> QED
  BY <1>2, <1>3, <1>4, JobsLeft DEF BeginJob, RankingsInv, TypeInv

LEMMA WindowKeeps ==
  ASSUME RankingsInv, NEW r \in Refresher, ReadWindow(r)
  PROVE  RankingsInv'
<1> DEFINE w == SelectWindow(job[r].timeframe, job[r].anchor)
           e == Existing(job[r].timeframe, w)
           j == [job[r] EXCEPT !.window = w, !.existing = e, !.step = "rows"]
<1>1. job[r] \in JobRecord /\ job[r] # NoJob /\ FoundFits(job[r])
  BY DEF ReadWindow, RankingsInv, TypeInv
<1>2. job[r].timeframe \in Timeframe /\ job[r].anchor \in 0..LastInstant
  <2>1. job[r].timeframe \in Timeframe /\ job[r].anchor \in Nat
    BY <1>1 DEF JobRecord
  <2>2. job[r].anchor <= now /\ now \in 0..LastInstant /\ LastInstant \in Nat
    BY <1>1, PeriodAssumption DEF FoundFits, RankingsInv, TypeInv, LastInstant
  <2> QED
    BY <2>1, <2>2
<1>3. w \in AnyWindow /\ w.end <= LastInstant + 1
  BY <1>2, WindowSelected
<1>4. e \in {s \in ranking : Key(s) = <<job[r].timeframe, w>>} \cup {NoSnapshot}
  BY DEF Existing
<1>5. e \in RankingSnapshot \cup {NoSnapshot}
  BY <1>4 DEF RankingsInv, TypeInv
<1>6. e # NoSnapshot => Key(e) = <<job[r].timeframe, w>> /\ RowsMatched(w, e.rows)
  BY <1>4 DEF RankingsInv, Key
<1>7. job' = [job EXCEPT ![r] = j]
  BY <1>1 DEF ReadWindow, RankingsInv, TypeInv, JobRecord
<1> HIDE DEF w, e
<1>8. j \in JobRecord
  BY <1>1, <1>3, <1>5 DEF JobRecord
<1>9. FoundFits(j)
  BY <1>1, <1>3, <1>6 DEF FoundFits, JobRecord
<1> HIDE DEF j
<1>10. job' \in [Refresher -> JobRecord \cup {NoJob}]
  BY <1>7, <1>8 DEF RankingsInv, TypeInv
<1>11. \A q \in Refresher : job'[q] = job[q] \/ (job'[q] = j /\ FoundFits(j))
  BY <1>7, <1>9 DEF RankingsInv, TypeInv
<1>12. UNCHANGED <<model, now, matches, ranking>>
  BY DEF ReadWindow
<1> QED
  BY <1>8, <1>10, <1>11, <1>12, JobsLeft

LEMMA RowsKeep ==
  ASSUME RankingsInv, NEW r \in Refresher, ReadRows(r)
  PROVE  RankingsInv'
<1> DEFINE rows == RowsOf(job[r].kind, job[r].window)
           j == [job[r] EXCEPT !.rows = rows, !.step = "commit"]
<1>1. job[r] \in JobRecord /\ job[r] # NoJob /\ FoundFits(job[r]) /\ job[r].step = "rows"
  BY DEF ReadRows, RankingsInv, TypeInv
<1>2. rows \subseteq matches
  <2>1. job[r].kind \in Kinds
    BY <1>1 DEF JobRecord
  <2> QED
    BY <2>1 DEF Kinds, RowsOf, AnnualRows, SearchRows, PeriodRows, DocumentRows, RecentRows,
                RankedMatches, ClosedMatches
<1>3. job[r].kind = "ranking" => rows = RankedMatches(job[r].window)
  BY DEF RowsOf
<1>4. job' = [job EXCEPT ![r] = j]
  BY <1>1 DEF ReadRows, RankingsInv, TypeInv, JobRecord
<1> HIDE DEF rows
<1>5. j \in JobRecord
  BY <1>1, <1>2 DEF JobRecord, RankingsInv, TypeInv
<1>6. FoundFits(j)
  BY <1>1, <1>3 DEF FoundFits, JobRecord, RowsMatched
<1> HIDE DEF j
<1> QED
  BY <1>4, <1>5, <1>6, JobsLeft DEF ReadRows, RankingsInv, TypeInv

-----------------------------------------------------------------------------
\* A ranking commit puts a snapshot with at least the same matches in the place
\* of the one it deletes, and deletes no other.
LEMMA CommitGrows ==
  ASSUME RankingsInv, NEW r \in Refresher, CommitRanking(r), NEW s \in ranking
  PROVE  \E t \in ranking' : Key(t) = Key(s) /\ s.rows \subseteq t.rows
<1> DEFINE new == Snapshot(job[r].timeframe, job[r].window, job[r].rows)
<1>1. job[r] \in JobRecord /\ FoundFits(job[r])
      /\ job[r].step = "commit" /\ job[r].kind = "ranking"
  BY DEF CommitRanking, RankingsInv, TypeInv
<1>2. ranking' = (ranking \ {job[r].existing}) \cup {new}
  BY DEF CommitRanking
<1>3. CASE s # job[r].existing
  BY <1>2, <1>3
<1>4. CASE s = job[r].existing
  <2>1. s # NoSnapshot
    BY NoSnapshotAssumption DEF RankingsInv, TypeInv
  <2>2. Key(s) = <<job[r].timeframe, job[r].window>> /\ s.rows \subseteq job[r].rows
    BY <1>1, <1>4, <2>1 DEF FoundFits
  <2>3. Key(new) = Key(s) /\ s.rows \subseteq new.rows
    BY <2>2 DEF Key, Snapshot
  <2> QED
    BY <1>2, <2>3
<1> QED
  BY <1>3, <1>4

LEMMA CommitKeeps ==
  ASSUME RankingsInv, NEW r \in Refresher, CommitRanking(r)
  PROVE  RankingsInv'
<1> DEFINE new == Snapshot(job[r].timeframe, job[r].window, job[r].rows)
<1>1. job[r] \in JobRecord /\ FoundFits(job[r])
      /\ job[r].step = "commit" /\ job[r].kind = "ranking"
  BY DEF CommitRanking, RankingsInv, TypeInv
<1>2. new \in RankingSnapshot /\ RowsMatched(new.window, new.rows)
  BY <1>1 DEF Snapshot, RankingSnapshot, JobRecord, FoundFits
<1>3. ranking' = (ranking \ {job[r].existing}) \cup {new} /\ UNCHANGED <<model, now, matches>>
  BY DEF CommitRanking
<1>4. job' = [job EXCEPT ![r] = NoJob]
  BY DEF CommitRanking
<1> HIDE DEF new
<1>5. TypeInv'
  BY <1>2, <1>3, <1>4 DEF RankingsInv, TypeInv
<1>6. \A s \in ranking' : RowsMatched(s.window, s.rows)'
  BY <1>2, <1>3 DEF RankingsInv, RowsMatched, RankedMatches
<1>7. ASSUME NEW q \in Refresher, job'[q] # NoJob
      PROVE  FoundFits(job[q])'
  BY <1>3, <1>4, <1>7 DEF RankingsInv, TypeInv, FoundFits, RowsMatched, RankedMatches, Key
<1> QED
  BY <1>5, <1>6, <1>7 DEF RankingsInv

LEMMA EndKeeps ==
  ASSUME RankingsInv, NEW r \in Refresher, job' = [job EXCEPT ![r] = NoJob],
         UNCHANGED <<model, now, matches, ranking>>
  PROVE  RankingsInv'
<1>1. job' \in [Refresher -> JobRecord \cup {NoJob}]
  BY DEF RankingsInv, TypeInv
<1>2. \A q \in Refresher : job'[q] \in {job[q], NoJob}
  BY DEF RankingsInv, TypeInv
<1> QED
  BY <1>1, <1>2, JobsLeft

LEMMA WorldKeeps ==
  ASSUME RankingsInv, MaterializeMatch \/ Tick
  PROVE  RankingsInv'
<1>1. UNCHANGED <<model, job, ranking>>
  BY DEF MaterializeMatch, Tick
<1>2. PeriodLength \in Nat /\ LastInstant \in Nat /\ MaxTime <= LastInstant /\ MaxTime \in Nat
  BY PeriodAssumption DEF LastInstant
<1>3. now \in Nat /\ now <= LastInstant
  BY <1>2 DEF RankingsInv, TypeInv
<1>4. matches \subseteq matches' /\ matches' \subseteq Nat
  <2>1. CASE Tick
    BY <2>1 DEF Tick, RankingsInv, TypeInv
  <2>2. CASE MaterializeMatch
    <3>1. PICK m \in PeriodLength..now : matches' = matches \cup {m}
      BY <2>2 DEF MaterializeMatch
    <3>2. m \in Nat
      BY <1>2, <1>3, <3>1
    <3> QED
      BY <3>1, <3>2 DEF RankingsInv, TypeInv
  <2> QED
    BY <2>1, <2>2
<1>5. now' \in 0..LastInstant /\ now <= now'
  BY <1>2, <1>3 DEF MaterializeMatch, Tick
<1>6. TypeInv'
  BY <1>1, <1>4, <1>5 DEF RankingsInv, TypeInv
<1>7. \A w, rows : RowsMatched(w, rows) => RowsMatched(w, rows)'
  BY <1>4, <1>5, StaysMatched
<1>8. \A s \in ranking' : RowsMatched(s.window, s.rows)'
  BY <1>1, <1>7 DEF RankingsInv
<1>9. ASSUME NEW r \in Refresher, job'[r] # NoJob
      PROVE  FoundFits(job[r])'
  <2>1. job[r] \in JobRecord /\ FoundFits(job[r]) /\ job'[r] = job[r]
    BY <1>1, <1>9 DEF RankingsInv, TypeInv
  <2>2. PICK j \in JobRecord : j = job[r]
    BY <2>1
  <2>3. FoundFits(j)'
    BY <1>4, <1>5, <2>1, <2>2, StaysMatched
  <2> QED
    BY <2>1, <2>2, <2>3 DEF FoundFits, RowsMatched, RankedMatches, Key
<1> QED
  BY <1>6, <1>8, <1>9 DEF RankingsInv

\* Only a ranking commit changes the rankings.
LEMMA RankingsStep ==
  ASSUME RankingsInv, [Next]_vars
  PROVE  /\ RankingsInv'
         /\ \A s \in ranking : \E t \in ranking' : Key(t) = Key(s) /\ s.rows \subseteq t.rows
<1>1. CASE \E r \in Refresher : CommitRanking(r)
  BY <1>1, CommitGrows, CommitKeeps
<1>2. CASE \E r \in Refresher : BeginJob(r) \/ ReadWindow(r) \/ ReadRows(r)
  <2>1. RankingsInv'
    BY <1>2, BeginKeeps, WindowKeeps, RowsKeep
  <2>2. ranking' = ranking
    BY <1>2 DEF BeginJob, ReadWindow, ReadRows
  <2> QED
    BY <2>1, <2>2
<1>3. CASE \E r \in Refresher : \/ CommitAnnual(r) \/ CommitPeriod(r) \/ CommitSearch(r)
                                \/ PersistLeaderboard(r) \/ PersistRecent(r) \/ JobFails(r)
  <2>1. PICK r \in Refresher : job' = [job EXCEPT ![r] = NoJob]
    BY <1>3 DEF CommitAnnual, CommitPeriod, CommitSearch, ReplaceScope, PersistLeaderboard,
                PersistRecent, PersistPayload, JobFails
  <2>2. UNCHANGED <<model, now, matches, ranking>>
    BY <1>3 DEF CommitAnnual, CommitPeriod, CommitSearch, ReplaceScope, PersistLeaderboard,
                PersistRecent, PersistPayload, JobFails
  <2> QED
    BY <2>1, <2>2, EndKeeps
<1>4. CASE MaterializeMatch \/ Tick
  <2>1. ranking' = ranking
    BY <1>4 DEF MaterializeMatch, Tick
  <2> QED
    BY <1>4, <2>1, WorldKeeps
<1>5. CASE UNCHANGED vars \/ \E r \in Refresher : StoreSnapshot(r) \/ Kill(r)
  <2>1. UNCHANGED <<model, now, matches, job, ranking>>
    BY <1>5 DEF vars, StoreSnapshot, Kill
  <2>2. job' \in [Refresher -> JobRecord \cup {NoJob}]
    BY <2>1 DEF RankingsInv, TypeInv
  <2> QED
    BY <2>1, <2>2, JobsLeft
<1> QED
  BY <1>1, <1>2, <1>3, <1>4, <1>5 DEF Next, JobStep, Commit

-----------------------------------------------------------------------------
\* A stored ranking never loses a match it had counted, however many refreshers
\* read their rows before another one commits.
THEOREM RankingsKeepMatches == Spec => RankingKeepsMatches
<1>1. RankingsInv /\ [Next]_vars => RankingsInv'
  BY RankingsStep
<1>2. RankingsInv /\ [Next]_vars =>
        [\A s \in ranking : \E t \in ranking' : Key(t) = Key(s) /\ s.rows \subseteq t.rows]_vars
  BY RankingsStep
<1> QED
  BY <1>1, <1>2, InitRankings, PTL DEF Spec, RankingKeepsMatches

\* What a visitor is shown never goes back to an earlier window, whatever the
\* anchors of the refreshes are and in whatever order they end.
THEOREM ShownMovesForward == Spec => ShownNeverRegresses
<1>1. RankingsInv => LatestIsLast
  BY LatestEndsLast DEF LatestIsLast
<1>2. RankingsInv' => LatestIsLast'
  BY <1>1, PTL
<1>3. ASSUME RankingsInv, [Next]_vars, NEW f \in Timeframe, Latest(f) # NoSnapshot
      PROVE  Latest(f)'.window.end >= Latest(f).window.end
  <2>1. Ready(f) # {}
    BY <1>3 DEF Latest
  <2>2. Latest(f) \in Ready(f)
    BY <1>3, <2>1, LatestEndsLast
  <2>3. Latest(f) \in ranking /\ Latest(f).timeframe = f
    BY <2>2 DEF Ready
  <2>4. PICK t \in ranking' : Key(t) = Key(Latest(f))
    BY <1>3, <2>3, RankingsStep
  <2>5. t.timeframe = f /\ t.window = Latest(f).window
    BY <2>3, <2>4 DEF Key
  <2>6. t \in Ready(f)'
    BY <2>5 DEF Ready
  <2>7. RankingsInv'
    BY <1>3, RankingsStep
  <2>8. t.window.end <= Latest(f)'.window.end /\ Latest(f)' \in Ready(f)'
    BY <1>2, <2>6, <2>7 DEF LatestIsLast
  <2> QED
    BY <2>5, <2>8
<1>4. RankingsInv /\ [Next]_vars =>
        [\A f \in Timeframe : Latest(f) # NoSnapshot =>
           Latest(f)'.window.end >= Latest(f).window.end]_vars
  BY <1>3
<1>5. RankingsInv /\ [Next]_vars => RankingsInv'
  BY RankingsStep
<1> QED
  BY <1>4, <1>5, InitRankings, PTL DEF Spec, ShownNeverRegresses

-----------------------------------------------------------------------------
(* SnapshotFiles: what a refresher has judged is what it will replace.      *)

\* Beside whom nobody stored has seen whether the file has content.
FilesInv ==
  /\ backend \in {"sqlite", "postgres"}
  /\ pstep \in [Refresher -> {"none", "read", "judge", "write", "upsert"}]
  /\ found = [r \in Refresher |-> found[r]]
  /\ \A r \in Refresher :
       /\ pstep[r] \notin {"none", "upsert"} => backend = "sqlite"
       /\ pstep[r] = "upsert" => backend = "postgres"
       /\ pstep[r] = "judge" /\ r \notin raced => (Empty(found[r]) => Empty(file))

LEMMA InitFiles == Init => FilesInv
BY DEF Init, FileInit, FilesInv

LEMMA FilesStep == FilesInv /\ [Next]_vars => FilesInv'
<1> SUFFICES ASSUME FilesInv, [Next]_vars PROVE FilesInv'
  OBVIOUS
<1> USE DEF FilesInv
<1>1. ASSUME NEW r \in Refresher, ReadDocument(r) PROVE FilesInv'
  <2>1. /\ pstep[r] = "read" /\ pstep' = [pstep EXCEPT ![r] = "judge"]
        /\ found' = [found EXCEPT ![r] = IF file = Torn THEN Absent ELSE file]
        /\ raced' = raced \ {r} /\ UNCHANGED <<backend, file>>
    BY <1>1 DEF ReadDocument
  <2>2. Empty(found'[r]) => Empty(file')
    BY <2>1 DEF Empty, Absent, Torn
  <2>3. \A q \in Refresher \ {r} : Empty(found'[q]) = Empty(found[q]) /\ Empty(file') = Empty(file)
    BY <2>1 DEF Empty
  <2> QED
    BY <2>1, <2>2, <2>3
<1>2. ASSUME NEW r \in Refresher, PreserveDocument(r) PROVE FilesInv'
  BY <1>2 DEF PreserveDocument, Persisted
<1>3. ASSUME NEW r \in Refresher, TruncateFile(r) PROVE FilesInv'
  BY <1>3 DEF TruncateFile, Overtaken
<1>4. ASSUME NEW r \in Refresher, WriteDocument(r) PROVE FilesInv'
  BY <1>4 DEF WriteDocument, Persisted, Overtaken
<1>5. ASSUME NEW r \in Refresher, UpsertRecord(r) PROVE FilesInv'
  BY <1>5 DEF UpsertRecord, Persisted
<1>6. ASSUME NEW r \in Refresher, NEW kind, PersistPayload(r, kind) PROVE FilesInv'
  BY <1>6 DEF PersistPayload
<1>7. ASSUME NEW r \in Refresher, Kill(r) PROVE FilesInv'
  BY <1>7 DEF Kill, Persisted
<1>8. CASE UNCHANGED fileVars
  BY <1>8 DEF fileVars
<1>9. ASSUME NEW r \in Refresher, JobStep(r) PROVE FilesInv'
  BY <1>1, <1>2, <1>3, <1>4, <1>5, <1>6, <1>8, <1>9, Zenon
     DEF JobStep, ReadWindow, ReadRows, Commit, CommitRanking, CommitAnnual, CommitPeriod,
         CommitSearch, ReplaceScope, PersistLeaderboard, PersistRecent, StoreSnapshot, PersistStep
<1> QED
  <2>1. CASE UNCHANGED vars
    BY <1>8, <2>1 DEF vars
  <2>2. CASE MaterializeMatch \/ Tick
    BY <1>8, <2>2, Zenon DEF MaterializeMatch, Tick
  <2>3. ASSUME NEW r \in Refresher, BeginJob(r) \/ JobFails(r) PROVE FilesInv'
    BY <1>8, <2>3, Zenon DEF BeginJob, JobFails
  <2> QED
    BY <1>7, <1>9, <2>1, <2>2, <2>3, Zenon DEF Next

\* An empty payload replaces no file with content that nobody else stored to
\* since it was judged, whatever the other refreshers, the windows and kills do.
THEOREM ContentAlwaysSurvives == Spec => ContentSurvives
<1>1. FilesInv /\ [Next]_vars =>
        [\A r \in Refresher :
           backend = "sqlite" /\ r \notin raced /\ pstep[r] = "judge" /\ pstep'[r] = "write"
           => Empty(file) \/ payload[r] # {}]_fileVars
  <2> SUFFICES ASSUME FilesInv, [Next]_vars, NEW r \in Refresher,
                      r \notin raced, pstep[r] = "judge", pstep'[r] = "write", payload[r] = {}
               PROVE  Empty(file)
    OBVIOUS
  <2>1. ~ShouldPreserve(r)
    <3>1. CASE TruncateFile(r)
      BY <3>1 DEF TruncateFile
    <3>2. ASSUME NEW q \in Refresher, q # r \/ ~TruncateFile(q) PROVE PersistStep(q) => FALSE
      BY <3>2 DEF PersistStep, ReadDocument, PreserveDocument, TruncateFile, WriteDocument,
         UpsertRecord, Persisted, FilesInv
    <3>3. ASSUME NEW q \in Refresher, NEW kind, PersistPayload(q, kind) PROVE FALSE
      BY <3>3 DEF PersistPayload, FilesInv
    <3>4. ASSUME NEW q \in Refresher, Kill(q) PROVE FALSE
      BY <3>4 DEF Kill, Persisted, FilesInv
    <3>5. ~UNCHANGED pstep
      OBVIOUS
    <3> QED
      BY <3>1, <3>2, <3>3, <3>4, <3>5, Zenon
         DEF Next, vars, fileVars, BeginJob, JobStep, JobFails, MaterializeMatch, Tick,
             ReadWindow, ReadRows, Commit, CommitRanking, CommitAnnual, CommitPeriod,
             CommitSearch, ReplaceScope, PersistLeaderboard, PersistRecent, StoreSnapshot
  <2> QED
    BY <2>1 DEF ShouldPreserve, FilesInv
<1> QED
  BY <1>1, InitFiles, FilesStep, PTL DEF Spec, ContentSurvives

-----------------------------------------------------------------------------
(***************************************************************************)
(* A cycle that went well shows what the cycles have stored, for any       *)
(* schedule, number of retries and number of faults.  Matches are stored   *)
(* in the first two steps of an attempt only, and each model has a step    *)
(* after them that builds it whatever the capture has reported: so once    *)
(* that step of a clean attempt is over, nothing is missing any more.      *)
(***************************************************************************)
\* The step that builds the watched model has been taken in this attempt.
BuiltAt(models, steps) ==
  watched \in models /\ (pc \in steps \/ (pc = "sleep" /\ attempt > 0)) /\ clean => ~missing

PublicSteps == SlotJob \cup {"full", "recent"}

\* The public jobs run in the ticks without an attempt.
NoAttempt == pc \in {"wake"} \cup PublicSteps => attempt = 0

CycleInv ==
  /\ NoAttempt
  /\ BuiltAt(Prewarmed, {"tables", "rankings", "event", "maintenance"})
  /\ BuiltAt({"search", "period"}, {"rankings", "event", "maintenance"})
  /\ BuiltAt({"rankWeekly", "rankMonthly"}, {"event", "maintenance"})

LEMMA InitCycle == RunnerInit => CycleInv
BY DEF RunnerInit, CycleInv, NoAttempt, BuiltAt

\* A rebuild that went well leaves nothing of its models missing, and none leaves
\* more missing than before.
LEMMA RebuiltShows ==
  ASSUME NEW models, NEW outcome, Rebuilt(models, outcome), UNCHANGED watched
  PROVE  /\ missing' => missing
         /\ watched \in models /\ outcome = "ok" => ~missing'
BY DEF Rebuilt

LEMMA AttemptStep ==
  ASSUME CycleInv, CycleStep
  PROVE  CycleInv'
<1> USE DEF CycleInv, NoAttempt, BuiltAt, cycle, PublicSteps, SlotJob
<1>1. CASE CaptureRcon \/ Fallback
  BY <1>1 DEF CaptureRcon, Fallback
<1>2. CASE Snapshots
  <2>1. NeedsFallback \/ capture.usable
    BY DEF NeedsFallback
  <2>2. PICK models, o : CycleBuilds(models, o) /\ Prewarmed \subseteq models
    BY <1>2, <2>1 DEF Snapshots, FullMatrix, Prewarmed
  <2>3. /\ clean' => o = "ok"
        /\ watched \in models /\ o = "ok" => ~missing'
    BY <1>2, <2>2, RebuiltShows DEF CycleBuilds, Snapshots
  <2>4. pc' = "tables" /\ UNCHANGED watched
    BY <1>2 DEF Snapshots
  <2>5. NoAttempt'
    BY <2>2, <2>3, <2>4
  <2>6. BuiltAt(Prewarmed, {"tables", "rankings", "event", "maintenance"})'
    BY <2>2, <2>3, <2>4
  <2>7. BuiltAt({"search", "period"}, {"rankings", "event", "maintenance"})'
    BY <2>2, <2>3, <2>4
  <2>8. BuiltAt({"rankWeekly", "rankMonthly"}, {"event", "maintenance"})'
    BY <2>2, <2>3, <2>4
  <2> QED BY <2>5, <2>6, <2>7, <2>8
<1>3. CASE Tables
  <2>1. PICK o : CycleBuilds({"search", "period"}, o)
    BY <1>3 DEF Tables
  <2>2. pc = "tables" /\ pc' = "rankings" /\ UNCHANGED watched
    BY <1>3 DEF Tables
  <2>3. /\ clean' => clean /\ o = "ok"
        /\ missing' => missing
        /\ watched \in {"search", "period"} /\ o = "ok" => ~missing'
    BY <2>1, <2>2, RebuiltShows DEF CycleBuilds
  <2>4. NoAttempt'
    BY <2>2, <2>3
  <2>5. BuiltAt(Prewarmed, {"tables", "rankings", "event", "maintenance"})'
    BY <2>2, <2>3
  <2>6. BuiltAt({"search", "period"}, {"rankings", "event", "maintenance"})'
    BY <2>2, <2>3
  <2>7. BuiltAt({"rankWeekly", "rankMonthly"}, {"event", "maintenance"})'
    BY <2>2, <2>3
  <2> QED BY <2>4, <2>5, <2>6, <2>7
<1>4. CASE Rankings
  <2>1. PICK o : CycleBuilds({"rankWeekly", "rankMonthly"}, o)
    BY <1>4 DEF Rankings
  <2>2. pc = "rankings" /\ pc' = "event" /\ UNCHANGED watched
    BY <1>4 DEF Rankings
  <2>3. /\ clean' => clean /\ o = "ok"
        /\ missing' => missing
        /\ watched \in {"rankWeekly", "rankMonthly"} /\ o = "ok" => ~missing'
    BY <2>1, <2>2, RebuiltShows DEF CycleBuilds
  <2>4. NoAttempt'
    BY <2>2, <2>3
  <2>5. BuiltAt(Prewarmed, {"tables", "rankings", "event", "maintenance"})'
    BY <2>2, <2>3
  <2>6. BuiltAt({"search", "period"}, {"rankings", "event", "maintenance"})'
    BY <2>2, <2>3
  <2>7. BuiltAt({"rankWeekly", "rankMonthly"}, {"event", "maintenance"})'
    BY <2>2, <2>3
  <2> QED BY <2>4, <2>5, <2>6, <2>7
<1>5. CASE RecentAfterCapture
  <2>1. pc = "event" /\ pc' = "maintenance" /\ UNCHANGED watched
    BY <1>5 DEF RecentAfterCapture
  <2>2. CASE capture.inserted
    <3>1. PICK o : CycleBuilds({"recent"}, o)
      BY <1>5, <2>2 DEF RecentAfterCapture
    <3>2. (clean' => clean) /\ (missing' => missing)
      BY <2>1, <3>1, RebuiltShows DEF CycleBuilds
    <3> QED BY <2>1, <3>2
  <2>3. CASE ~capture.inserted
    BY <1>5, <2>1, <2>3 DEF RecentAfterCapture
  <2> QED BY <2>2, <2>3
<1>6. CASE Maintenance
  BY <1>6 DEF Maintenance, observer
<1> QED BY <1>1, <1>2, <1>3, <1>4, <1>5, <1>6 DEF CycleStep

LEMMA StepCycle == CycleInv /\ [RunnerNext]_(runnerVars) => CycleInv'
<1> SUFFICES ASSUME CycleInv, [RunnerNext]_(runnerVars) PROVE CycleInv'
  OBVIOUS
<1> USE DEF CycleInv, NoAttempt, BuiltAt, cycle, observer, PublicSteps, SlotJob
<1>1. CASE Wake
  BY <1>1 DEF Wake
<1>2. CASE Sleep
  BY <1>2 DEF Sleep
<1>3. CASE CycleRaises
  BY <1>3 DEF CycleRaises
<1>4. CASE PublicStep
  <2>1. /\ pc \in PublicSteps /\ UNCHANGED attempt
        /\ pc' \in PublicSteps \cup {"sleep"}
    BY <1>4 DEF PublicStep, PublicFull, PublicMonthlyRanking,
       PublicWeeklyRanking, PublicWeeklyHistorical, PublicMonthlyHistorical,
       PublicRecent, RunSlot
  <2> QED BY <2>1
<1>5. CASE Restart
  BY <1>5 DEF Restart
<1>6. CASE NewMatch \/ UNCHANGED runnerVars
  BY <1>6 DEF NewMatch, runnerVars
<1> QED BY <1>1, <1>2, <1>3, <1>4, <1>5, <1>6, AttemptStep DEF RunnerNext, Step

\* A cycle whose last attempt went well shows every match the cycles have stored.
THEOREM CleanCycleShows == RunnerSpec => []CleanCycleShowsAll
<1>1. CycleInv => CleanCycleShowsAll
  BY DEF CycleInv, BuiltAt, CleanCycleShowsAll, CycleModels
<1> QED BY InitCycle, StepCycle, <1>1, PTL DEF RunnerSpec

-----------------------------------------------------------------------------
(***************************************************************************)
(* A materialized row with both bounds is one match, and has all of its    *)
(* kills, for any log, lookback, backfill and retention, unless its start  *)
(* was stored after what follows it.                                       *)
(*                                                                         *)
(* Events are missing from the store in the middle of the log: retention   *)
(* keeps those of protected matches and deletes what is around them.  What *)
(* is inductive is that every critical line of the match of a stored start *)
(* that was polled is stored, or was stored by an earlier poll than the    *)
(* start and deleted since.  Retention deletes the critical lines in the   *)
(* order they were stored in, and of a protected match none; and no poll   *)
(* reads again what it deletes, so that no line is stored twice.           *)
(***************************************************************************)
IsBoundary(k) == log[k] \in {"match_start", "match_end"}

\* Line k is critical and of the match that the start i begins, its end included.
OfMatchFrom(i, k) ==
  /\ i < k /\ log[k] \in Critical
  /\ \A b \in (i + 1)..(k - 1) : ~IsBoundary(b)

Starts(events) == {i \in events : log[i] = "match_start"}

\* A row from a start that was stored to a later end.
HasBounds(r) ==
  /\ r.lo \in DOMAIN timestamp /\ r.lo \in DOMAIN log /\ r.hi \in DOMAIN log /\ r.lo < r.hi
  /\ log[r.lo] = "match_start" /\ log[r.hi] = "match_end"

NoneBetween(r) == \A b \in (r.lo + 1)..(r.hi - 1) : ~IsBoundary(b)

RowFits(r) == Bounded(r) => HasBounds(r) /\ (StartBackfilled(r) \/ NoneBetween(r))

CriticalOf(r) == {k \in r.lo..r.hi : log[k] \in Critical}

StoredFollow ==
  \A i \in Starts(stored), k \in 1..polled :
    OfMatchFrom(i, k) => /\ k \in DOMAIN timestamp
                         /\ k \in stored \/ timestamp[k] < timestamp[i]

OutOfReach(k) == k <= Len(log) - BackfillDepth /\ k <= Len(log) - Lookback

\* Critical lines that were stored and are not are out of reach of polls.
GoneForGood ==
  \A k \in DOMAIN timestamp \ stored : log[k] \in Critical => OutOfReach(k)

\* Critical lines that are to be deleted are out of reach of polls, and a start
\* that stays keeps what was not stored before it of its match.
EventsFit(events) ==
  /\ \A k \in events : log[k] \in Critical => OutOfReach(k)
  /\ \A i \in Starts(stored), k \in events :
       OfMatchFrom(i, k) => i \in events \/ timestamp[k] < timestamp[i]

Bounds == [lo : Nat, hi : Nat]
Rows == DOMAIN table \cup (IF derived = None THEN {} ELSE derived)

LogType ==
  /\ log \in Seq(Kind)
  /\ polled \in 0..Len(log)
  /\ stored \subseteq DOMAIN timestamp /\ DOMAIN timestamp \subseteq 1..polled
  /\ \A i \in DOMAIN timestamp : timestamp[i] \in Nat /\ i < timestamp[i]
  /\ polled = 0 \/ Len(log) <= polled + Lookback
  /\ lookback \in Nat
  /\ cleanup # None =>
       cleanup \in [stats : SUBSET Bounds, rows : SUBSET Bounds,
                    events : SUBSET DOMAIN timestamp]

StoreInv ==
  /\ LogType
  /\ StoredFollow
  /\ GoneForGood
  /\ cleanup # None => EventsFit(cleanup.events)

RowsInv == Rows \subseteq Bounds /\ \A r \in Rows : RowFits(r)

LogInv == StoreInv /\ RowsInv

\* What may become rows.
DerivedFit ==
  /\ Derived(stored) \subseteq Bounds
  /\ \A r \in Derived(stored) :
       /\ RowFits(r)
       /\ Bounded(r) => StartBackfilled(r) \/ CriticalOf(r) \subseteq stored

\* What a step does to the log, and to the times of critical lines.
LogGrows ==
  /\ log' \in Seq(Kind) /\ Len(log) <= Len(log')
  /\ \A k \in DOMAIN log : log'[k] = log[k]
TimesStay ==
  /\ DOMAIN timestamp \subseteq DOMAIN timestamp'
  /\ \A k \in DOMAIN timestamp : log[k] \in Critical => timestamp'[k] = timestamp[k]

-----------------------------------------------------------------------------
LEMMA Smallest ==
  ASSUME NEW S, S \subseteq Nat, S # {}
  PROVE  Min(S) \in S /\ \A x \in S : Min(S) <= x
<1> DEFINE R == OpToRel(<, Nat)
<1>1. \A x, y \in Nat : y < x => <<y, x>> \in R
  BY DEF OpToRel
<1>2. IsWellFoundedOn(R, Nat)
  BY NatLessThanWellFounded
<1> HIDE DEF R
<1>3. PICK m \in S : \A y \in S : <<y, m>> \notin R
  BY <1>2, WFMin
<1>4. ASSUME NEW x \in S
      PROVE  m <= x
  <2>1. x \in Nat /\ m \in Nat
    OBVIOUS
  <2>2. ~ (x < m)
    BY <1>1, <1>3, <2>1
  <2> QED
    BY <2>1, <2>2
<1> QED
  BY <1>4 DEF Min

LEMMA Largest ==
  ASSUME NEW last \in Nat, NEW S, S \subseteq 0..last, S # {}
  PROVE  Max(S) \in S /\ \A x \in S : x <= Max(S)
<1> DEFINE T == {last - x : x \in S}
<1>1. T \subseteq Nat /\ T # {}
  <2>1. ASSUME NEW x \in S
        PROVE  last - x \in Nat
    OBVIOUS
  <2>2. T \subseteq Nat
    BY <2>1
  <2>3. T # {}
    <3>1. PICK x \in S : TRUE
      OBVIOUS
    <3>2. last - x \in T
      OBVIOUS
    <3> QED
      BY <3>2
  <2> QED
    BY <2>2, <2>3
<1>2. \A x \in S : last - x \in T
  OBVIOUS
<1>3. \A y \in T : \E x \in S : y = last - x
  OBVIOUS
<1> HIDE DEF T
<1>4. PICK m \in T : \A y \in T : m <= y
  BY <1>1, Smallest
<1>5. PICK x \in S : m = last - x
  BY <1>3
<1>6. \A y \in S : x >= y
  BY <1>2, <1>4, <1>5
<1> QED
  BY <1>6 DEF Max

LEMMA DomainOfLog ==
  ASSUME LogType
  PROVE  /\ Len(log) \in Nat /\ DOMAIN log = 1..Len(log)
         /\ stored \subseteq DOMAIN timestamp /\ DOMAIN timestamp \subseteq DOMAIN log
         /\ polled \in Nat /\ polled <= Len(log)
BY DEF LogType

\* What the materialization derives with both bounds is a match, and all of its
\* critical lines are stored, if none was stored before its start.
LEMMA DerivedIsMatch ==
  ASSUME StoreInv, NEW r \in Derived(stored), Bounded(r)
  PROVE  /\ HasBounds(r)
         /\ StartBackfilled(r) \/ (NoneBetween(r) /\ CriticalOf(r) \subseteq stored)
<1>1. /\ Len(log) \in Nat /\ DOMAIN log = 1..Len(log) /\ polled \in Nat
      /\ stored \subseteq DOMAIN timestamp /\ DOMAIN timestamp \subseteq 1..polled
      /\ polled <= Len(log) /\ \A k \in DOMAIN timestamp : timestamp[k] \in Nat
  BY DomainOfLog DEF StoreInv, LogType
<1>2. PICK i \in Of({"match_start"}, stored) :
        r = [lo |-> i, hi |-> LET next == Following(i, stored)
                              IN IF next # 0 /\ log[next] = "match_end" THEN next ELSE 0]
  BY DEF Derived, Bounded
<1> DEFINE later == {b \in Boundaries(stored) : b > i}
           next == Min(later)
<1>3. Following(i, stored) = IF later = {} THEN 0 ELSE next
  BY DEF Following
<1> HIDE DEF later, next
<1>4. later # {} /\ r.lo = i /\ r.hi = next /\ log[next] = "match_end"
  BY <1>2, <1>3 DEF Bounded
<1>5. next \in later /\ \A b \in later : next <= b
  <2>1. later \subseteq Nat
    BY <1>1 DEF later, Boundaries, Of
  <2> QED
    BY <1>4, <2>1, Smallest DEF next
<1>6. /\ i \in stored /\ log[i] = "match_start" /\ i \in Starts(stored)
      /\ next \in stored /\ i < next
  BY <1>2, <1>5 DEF Of, Boundaries, later, Starts
<1>7. i \in 1..Len(log) /\ next \in 1..Len(log) /\ next <= polled
  BY <1>1, <1>6
<1>8. HasBounds(r)
  BY <1>1, <1>4, <1>6, <1>7 DEF HasBounds
\* What follows the start up to the next boundary that is stored.
<1>9. ASSUME ~StartBackfilled(r), NEW k \in i..next, k # i, OfMatchFrom(i, k)
      PROVE  k \in stored
  <2>1. k \in 1..polled /\ log[k] \in Critical
    BY <1>1, <1>7, <1>9 DEF OfMatchFrom
  <2>2. k \in DOMAIN timestamp /\ (k \in stored \/ timestamp[k] < timestamp[i])
    BY <1>6, <1>9, <2>1 DEF StoreInv, StoredFollow
  <2>3. ~(timestamp[k] < timestamp[i])
    BY <1>4, <1>9, <2>1, <2>2 DEF StartBackfilled
  <2> QED
    BY <2>2, <2>3
<1>10. ASSUME ~StartBackfilled(r) PROVE NoneBetween(r)
  <2> DEFINE B == {b \in (i + 1)..(next - 1) : IsBoundary(b)}
             e == Min(B)
  <2> SUFFICES ASSUME B # {} PROVE FALSE
    BY <1>4 DEF NoneBetween
  <2>1. B \subseteq Nat
    BY <1>7
  <2> HIDE DEF e
  <2>2. e \in B /\ \A b \in B : e <= b
    BY <2>1, Smallest DEF e
  <2>3. e \in i..next /\ i < e /\ e < next
    BY <1>1, <1>7, <2>2
  <2>4. OfMatchFrom(i, e)
    <3>1. log[e] \in Critical
      BY <2>2 DEF IsBoundary, Critical
    <3>2. \A b \in (i + 1)..(e - 1) : ~IsBoundary(b)
      BY <1>7, <2>2, <2>3
    <3> QED
      BY <2>3, <3>1, <3>2 DEF OfMatchFrom
  <2>5. e \in stored
    BY <1>7, <1>9, <1>10, <2>3, <2>4
  <2>6. e \in later
    BY <2>2, <2>3, <2>5 DEF later, Boundaries, Of, IsBoundary
  <2> QED
    BY <1>5, <1>7, <2>3, <2>6
<1>11. ASSUME ~StartBackfilled(r), NEW k \in CriticalOf(r) PROVE k \in stored
  <2>1. k \in i..next /\ log[k] \in Critical
    BY <1>4 DEF CriticalOf
  <2>2. CASE k = i
    BY <1>6, <2>2
  <2>3. CASE k # i
    <3>1. OfMatchFrom(i, k)
      BY <1>4, <1>7, <1>10, <1>11, <2>1, <2>3 DEF OfMatchFrom, NoneBetween
    <3> QED
      BY <1>9, <1>11, <2>1, <2>3, <3>1
  <2> QED
    BY <2>2, <2>3
<1> QED
  BY <1>8, <1>10, <1>11

LEMMA DerivedBounds ==
  ASSUME StoreInv
  PROVE  Derived(stored) \subseteq Bounds
<1>1. stored \subseteq Nat
  BY DEF StoreInv, LogType
<1>2. ASSUME NEW i \in stored
      PROVE  Following(i, stored) \in Nat
  <2> DEFINE later == {b \in Boundaries(stored) : b > i}
  <2>1. later \subseteq Nat
    BY <1>1 DEF Boundaries, Of
  <2> HIDE DEF later
  <2>2. later # {} => Min(later) \in Nat
    BY <2>1, Smallest
  <2>3. Following(i, stored) = IF later = {} THEN 0 ELSE Min(later)
    BY DEF Following, later
  <2> QED
    BY <2>2, <2>3
<1>3. ASSUME NEW r \in Derived(stored)
      PROVE  r \in Bounds
  <2>1. CASE \E i \in stored : \E hi \in {Following(i, stored), 0} : r = [lo |-> i, hi |-> hi]
    BY <1>1, <1>2, <2>1 DEF Bounds
  <2>2. CASE \E j \in stored : r = [lo |-> 0, hi |-> j]
    BY <1>1, <2>2 DEF Bounds
  <2> QED
    BY <1>3, <2>1, <2>2 DEF Derived, Of
<1> QED
  BY <1>3

LEMMA StoreFits == StoreInv => DerivedFit
BY DerivedIsMatch, DerivedBounds DEF DerivedFit, RowFits

LEMMA StoreFitsNext == StoreInv' => DerivedFit'
BY StoreFits, PTL

-----------------------------------------------------------------------------
\* A second that passes changes nothing of those before it.
LEMMA Appended ==
  ASSUME LogType, NEW kind \in Kind, log' = Append(log, kind)
  PROVE  LogGrows /\ Len(log') = Len(log) + 1
BY DEF LogType, LogGrows

LEMMA LogStays ==
  ASSUME LogType, log' = log
  PROVE  LogGrows
BY DomainOfLog DEF LogType, LogGrows

\* A row that was a match, or whose start was backfilled, stays what it is.
LEMMA RowStays ==
  ASSUME LogType, LogGrows, TimesStay, NEW r \in Bounds, RowFits(r)
  PROVE  /\ RowFits(r)'
         /\ Bounded(r) => (CriticalOf(r)' = CriticalOf(r) /\ (StartBackfilled(r) => StartBackfilled(r)'))
<1> SUFFICES ASSUME Bounded(r)
             PROVE  /\ HasBounds(r)' /\ (StartBackfilled(r)' \/ NoneBetween(r)')
                    /\ CriticalOf(r)' = CriticalOf(r) /\ (StartBackfilled(r) => StartBackfilled(r)')
  BY DEF RowFits, Bounded
<1>1. /\ Len(log) \in Nat /\ DOMAIN log = 1..Len(log) /\ DOMAIN timestamp \subseteq DOMAIN log
      /\ Len(log') \in Nat /\ DOMAIN log' = 1..Len(log') /\ Len(log) <= Len(log')
      /\ \A k \in DOMAIN log : log'[k] = log[k]
  BY DomainOfLog DEF LogGrows
<1>2. HasBounds(r) /\ r.lo \in 1..Len(log) /\ r.hi \in 1..Len(log)
  BY <1>1 DEF RowFits, HasBounds
<1>3. HasBounds(r)'
  BY <1>1, <1>2 DEF HasBounds, TimesStay
<1>4. \A k \in r.lo..r.hi : k \in DOMAIN log /\ log'[k] = log[k]
  BY <1>1, <1>2
<1>5. CriticalOf(r)' = CriticalOf(r)
  BY <1>4 DEF CriticalOf
<1>6. ASSUME StartBackfilled(r) PROVE StartBackfilled(r)'
  <2>1. PICK k \in DOMAIN timestamp \cap (r.lo..r.hi) :
          log[k] \in Critical /\ timestamp[k] < timestamp[r.lo]
    BY <1>6 DEF StartBackfilled
  <2>2. timestamp'[k] = timestamp[k] /\ timestamp'[r.lo] = timestamp[r.lo]
    BY <1>2, <2>1 DEF TimesStay, HasBounds, Critical
  <2>3. k \in DOMAIN timestamp' /\ log'[k] = log[k]
    BY <1>4, <2>1 DEF TimesStay
  <2> QED
    BY <2>1, <2>2, <2>3 DEF StartBackfilled
<1>7. NoneBetween(r) => NoneBetween(r)'
  BY <1>1, <1>2, <1>4 DEF NoneBetween, IsBoundary
<1> QED
  BY <1>3, <1>5, <1>6, <1>7 DEF RowFits

\* The rows that were there, or can be derived now, fit.
LEMMA TableKeeps ==
  ASSUME LogInv, StoreInv', LogGrows, TimesStay, Rows' \subseteq Rows \cup Derived(stored)'
  PROVE  LogInv'
<1>1. ASSUME NEW r \in Rows'
      PROVE  r \in Bounds /\ RowFits(r)'
  <2>1. CASE r \in Rows
    BY <2>1, RowStays DEF LogInv, StoreInv, RowsInv
  <2>2. CASE r \in Derived(stored)'
    BY <2>2, StoreFitsNext DEF DerivedFit
  <2> QED
    BY <1>1, <2>1, <2>2
<1> QED
  BY <1>1 DEF LogInv, RowsInv

LEMMA SameTimes == timestamp' = timestamp => TimesStay
BY DEF TimesStay

-----------------------------------------------------------------------------
\* Which lines are of which matches does not change as the log grows.
LEMMA SameMatches ==
  ASSUME LogType, LogGrows
  PROVE  /\ \A i \in DOMAIN log, k \in DOMAIN log : OfMatchFrom(i, k)' <=> OfMatchFrom(i, k)
         /\ \A k \in DOMAIN log : (log'[k] \in Critical) <=> (log[k] \in Critical)
         /\ \A k \in DOMAIN log : OutOfReach(k) => OutOfReach(k)'
<1>1. Len(log) \in Nat /\ DOMAIN log = 1..Len(log) /\ Len(log') \in Nat /\ Len(log) <= Len(log')
      /\ \A k \in DOMAIN log : log'[k] = log[k]
  BY DomainOfLog DEF LogGrows
<1>2. ASSUME NEW i \in DOMAIN log, NEW k \in DOMAIN log
      PROVE  OfMatchFrom(i, k)' <=> OfMatchFrom(i, k)
  BY <1>1 DEF OfMatchFrom, IsBoundary
<1>3. ASSUME NEW k \in DOMAIN log, OutOfReach(k) PROVE OutOfReach(k)'
  BY <1>1, <1>3, ALAssumption DEF OutOfReach
<1> QED
  BY <1>1, <1>2, <1>3

LEMMA LogKeeps ==
  ASSUME LogInv, Log
  PROVE  LogInv'
<1>1. PICK kind \in Kind : log' = Append(log, kind)
  BY ALAssumption DEF Log, Kind
<1>2. UNCHANGED <<polled, stored, timestamp, table, lookback, derived, cleanup>>
  BY DEF Log
<1>3. /\ LogType /\ Len(log) \in Nat /\ DOMAIN log = 1..Len(log)
      /\ stored \subseteq DOMAIN timestamp /\ DOMAIN timestamp \subseteq DOMAIN log
      /\ polled \in Nat /\ polled <= Len(log)
  BY DomainOfLog DEF LogInv, StoreInv
<1>4. LogGrows /\ Len(log') = Len(log) + 1 /\ \A k \in DOMAIN log : log'[k] = log[k]
  BY <1>1, <1>3, Appended DEF LogGrows
<1>5. LogType'
  <2>1. polled' = 0 \/ Len(log') <= polled' + Lookback
    BY <1>2, <1>3, <1>4, ALAssumption DEF Log
  <2>2. polled' \in 0..Len(log')
    BY <1>2, <1>3, <1>4
  <2>3. log' \in Seq(Kind)
    BY <1>4 DEF LogGrows
  <2> QED
    BY <1>2, <2>1, <2>2, <2>3 DEF LogInv, StoreInv, LogType
<1>6. Starts(stored)' = Starts(stored)
  BY <1>2, <1>3, <1>4 DEF Starts
<1>7. StoredFollow'
  <2>1. ASSUME NEW i \in Starts(stored), NEW k \in 1..polled, OfMatchFrom(i, k)'
        PROVE  k \in DOMAIN timestamp /\ (k \in stored \/ timestamp[k] < timestamp[i])
    <3>1. i \in DOMAIN log /\ k \in DOMAIN log
      BY <1>3 DEF Starts
    <3>2. OfMatchFrom(i, k)
      BY <1>3, <1>4, <2>1, <3>1, SameMatches
    <3> QED
      BY <3>2 DEF LogInv, StoreInv, StoredFollow
  <2> QED
    BY <1>2, <1>6, <2>1 DEF StoredFollow
<1>8. GoneForGood'
  BY <1>2, <1>3, <1>4, SameMatches DEF LogInv, StoreInv, GoneForGood
<1>9. cleanup' # None => EventsFit(cleanup.events)'
  <2> SUFFICES ASSUME cleanup # None PROVE EventsFit(cleanup.events)'
    BY <1>2
  <2>1. cleanup.events \subseteq DOMAIN log /\ EventsFit(cleanup.events)
    BY <1>3 DEF LogInv, StoreInv, LogType
  <2>2. \A k \in cleanup.events : log'[k] \in Critical => OutOfReach(k)'
    BY <1>3, <1>4, <2>1, SameMatches DEF EventsFit
  <2>3. ASSUME NEW i \in Starts(stored), NEW k \in cleanup.events, OfMatchFrom(i, k)'
        PROVE  i \in cleanup.events \/ timestamp[k] < timestamp[i]
    <3>1. i \in DOMAIN log /\ k \in DOMAIN log
      BY <1>3, <2>1 DEF Starts
    <3>2. OfMatchFrom(i, k)
      BY <1>3, <1>4, <2>3, <3>1, SameMatches
    <3> QED
      BY <2>1, <3>2 DEF EventsFit
  <2> QED
    BY <1>2, <1>6, <2>2, <2>3 DEF EventsFit
<1>10. StoreInv'
  BY <1>5, <1>7, <1>8, <1>9 DEF StoreInv
<1> QED
  BY <1>2, <1>4, <1>10, TableKeeps, SameTimes DEF Rows

\* What a poll that reads these lines does, the store and the log as they were
\* when none is new.
Adds(lines) ==
  /\ LogGrows /\ \A k \in DOMAIN log' : k \in DOMAIN log \/ log'[k] = "poll"
  /\ polled' = Len(log') /\ stored' = stored \cup lines
  /\ DOMAIN timestamp' = DOMAIN timestamp \cup lines
  /\ \A i \in DOMAIN timestamp : i \notin lines \ stored => timestamp'[i] = timestamp[i]
  /\ \A i \in lines \ stored : timestamp'[i] = Len(log') /\ i < Len(log')

LEMMA PollDoes ==
  ASSUME LogInv, NEW n, NEW lines, lines = Answer(n), Poll(n)
  PROVE  Adds(lines)
<1>1. /\ LogType /\ Len(log) \in Nat /\ DOMAIN log = 1..Len(log)
      /\ stored \subseteq DOMAIN timestamp
  BY DomainOfLog DEF LogInv, StoreInv
<1>2. CASE lines \subseteq stored
  <2>1. log' = log /\ stored' = stored /\ timestamp' = timestamp /\ polled' = Len(log')
    BY <1>2 DEF Poll, Persist
  <2>2. LogGrows
    BY <1>1, <2>1, LogStays
  <2> QED
    BY <1>1, <1>2, <2>1, <2>2 DEF Adds
<1>3. CASE ~(lines \subseteq stored)
  <2>1. /\ log' = Append(log, "poll") /\ polled' = Len(log') /\ stored' = stored \cup lines
        /\ timestamp' = [i \in DOMAIN timestamp \cup lines |->
                           IF i \in lines \ stored THEN Len(log) + 1 ELSE timestamp[i]]
    BY <1>3 DEF Poll, Persist
  <2>2. LogGrows /\ Len(log') = Len(log) + 1
    BY <1>1, <2>1, Appended DEF Kind
  <2>3. \A k \in DOMAIN log' : k \in DOMAIN log \/ log'[k] = "poll"
    BY <1>1, <2>1, <2>2 DEF LogType
  <2>4. \A i \in lines \ stored : i < Len(log')
    BY <1>1, <2>2 DEF Answer
  <2> QED
    BY <2>1, <2>2, <2>3, <2>4 DEF Adds
<1> QED
  BY <1>2, <1>3

\* A poll adds the end of the log, and what it reads again is not to be deleted.
LEMMA PollKeeps ==
  ASSUME LogInv, NEW n \in Nat, n >= Lookback, n = Lookback \/ n <= BackfillDepth,
         Poll(n), cleanup' = cleanup, lookback' \in Nat
  PROVE  StoreInv' /\ stored \subseteq stored' /\ LogGrows /\ TimesStay
<1> DEFINE lines == Answer(n)
<1>1. /\ LogType /\ Len(log) \in Nat /\ DOMAIN log = 1..Len(log)
      /\ stored \subseteq DOMAIN timestamp /\ DOMAIN timestamp \subseteq DOMAIN log
      /\ polled \in Nat /\ polled <= Len(log)
      /\ polled = 0 \/ Len(log) <= polled + Lookback
      /\ DOMAIN timestamp \subseteq 1..polled
      /\ \A i \in DOMAIN timestamp : timestamp[i] \in Nat /\ i < timestamp[i]
  BY DomainOfLog DEF LogInv, StoreInv, LogType
<1>2. /\ LogGrows /\ \A k \in DOMAIN log' : k \in DOMAIN log \/ log'[k] = "poll"
      /\ polled' = Len(log') /\ stored' = stored \cup lines
      /\ DOMAIN timestamp' = DOMAIN timestamp \cup lines
      /\ \A i \in DOMAIN timestamp : i \notin lines \ stored => timestamp'[i] = timestamp[i]
      /\ \A i \in lines \ stored : timestamp'[i] = Len(log') /\ i < Len(log')
  BY PollDoes DEF Adds
<1>3. /\ log' \in Seq(Kind) /\ Len(log') \in Nat /\ Len(log) <= Len(log')
      /\ DOMAIN log' = 1..Len(log') /\ \A k \in DOMAIN log : log'[k] = log[k]
  BY <1>2 DEF LogGrows
<1>4. ASSUME NEW i \in lines
      PROVE  i \in DOMAIN log /\ i \in 1..Len(log) /\ i > Len(log) - n
  BY <1>1 DEF Answer
<1>5. ASSUME NEW i \in DOMAIN log, i > Len(log) - n, log[i] # "poll"
      PROVE  i \in lines
  BY <1>5 DEF Answer
<1> HIDE DEF lines
\* What is out of reach is not read.
<1>6. ASSUME NEW k \in DOMAIN log, OutOfReach(k)
      PROVE  k \notin lines
  BY <1>1, <1>4, <1>6, ALAssumption DEF OutOfReach
<1>7. LogType'
  <2>1. ASSUME NEW i \in DOMAIN timestamp'
        PROVE  i \in 1..polled' /\ timestamp'[i] \in Nat /\ i < timestamp'[i]
    <3>1. CASE i \in lines \ stored
      BY <1>1, <1>2, <1>3, <1>4, <3>1
    <3>2. CASE i \notin lines \ stored
      <4>1. i \in DOMAIN timestamp
        BY <1>1, <1>2, <2>1, <3>2
      <4> QED
        BY <1>1, <1>2, <1>3, <3>2, <4>1
    <3> QED
      BY <3>1, <3>2
  <2>2. polled' \in 0..Len(log') /\ Len(log') <= polled' + Lookback
    BY <1>2, <1>3, ALAssumption
  <2>3. stored' \subseteq DOMAIN timestamp'
    BY <1>1, <1>2
  <2>4. cleanup' # None =>
          cleanup' \in [stats : SUBSET Bounds, rows : SUBSET Bounds,
                        events : SUBSET DOMAIN timestamp']
    BY <1>1, <1>2 DEF LogType
  <2> QED
    BY <1>3, <2>1, <2>2, <2>3, <2>4 DEF LogType
<1>8. TimesStay
  <2>1. ASSUME NEW k \in DOMAIN timestamp, log[k] \in Critical PROVE k \notin lines \ stored
    <3>1. k \notin stored => OutOfReach(k)
      BY <2>1 DEF LogInv, StoreInv, GoneForGood
    <3> QED
      BY <1>1, <1>6, <3>1
  <2> QED
    BY <1>2, <2>1 DEF TimesStay
<1>9. StoredFollow'
  <2> SUFFICES ASSUME NEW i \in stored', log'[i] = "match_start",
                      NEW k \in 1..Len(log'), OfMatchFrom(i, k)'
               PROVE  k \in DOMAIN timestamp' /\ (k \in stored' \/ timestamp'[k] < timestamp'[i])
    BY <1>2 DEF StoredFollow, Starts
  <2>1. i \in DOMAIN log /\ log[i] = "match_start"
    BY <1>1, <1>2, <1>3, <1>4
  <2>2. i < k /\ log'[k] \in Critical
    BY DEF OfMatchFrom
  <2>3. k \in DOMAIN log /\ log[k] \in Critical /\ log[k] # "poll"
    BY <1>1, <1>2, <1>3, <2>2 DEF Critical
  <2>4. OfMatchFrom(i, k)
    BY <1>1, <1>2, <2>1, <2>3, SameMatches
  <2>5. CASE k > Len(log) - n
    BY <1>1, <1>2, <1>5, <2>3, <2>5
  <2>6. CASE k <= Len(log) - n
    <3>1. i \notin lines /\ i \in stored
      BY <1>1, <1>2, <1>4, <2>1, <2>2, <2>3, <2>6
    <3>2. k \in 1..polled
      BY <1>1, <2>3, <2>6, <3>1, ALAssumption
    <3>3. k \in DOMAIN timestamp /\ (k \in stored \/ timestamp[k] < timestamp[i])
      BY <2>1, <2>4, <3>1, <3>2 DEF LogInv, StoreInv, StoredFollow, Starts
    <3>4. timestamp'[k] = timestamp[k] /\ timestamp'[i] = timestamp[i]
      BY <1>1, <1>8, <2>1, <2>3, <3>1, <3>3 DEF TimesStay, Critical
    <3> QED
      BY <1>2, <3>3, <3>4
  <2> QED
    BY <1>1, <2>3, <2>5, <2>6
<1>10. GoneForGood'
  <2>1. ASSUME NEW k \in DOMAIN timestamp' \ stored', log'[k] \in Critical
        PROVE  OutOfReach(k)'
    <3>1. k \in DOMAIN timestamp \ stored /\ k \in DOMAIN log /\ log[k] \in Critical
      BY <1>1, <1>2, <1>3, <2>1
    <3> QED
      BY <1>1, <1>2, <3>1, SameMatches DEF LogInv, StoreInv, GoneForGood
  <2> QED
    BY <2>1 DEF GoneForGood
<1>11. cleanup' # None => EventsFit(cleanup.events)'
  <2> SUFFICES ASSUME cleanup # None PROVE EventsFit(cleanup.events)'
    OBVIOUS
  <2>1. EventsFit(cleanup.events) /\ cleanup.events \subseteq DOMAIN timestamp
    BY <1>1 DEF LogInv, StoreInv, LogType
  <2>2. ASSUME NEW k \in cleanup.events, log'[k] \in Critical
        PROVE  OutOfReach(k) /\ OutOfReach(k)' /\ k \in DOMAIN log /\ log[k] \in Critical
    <3>1. k \in DOMAIN log /\ log[k] \in Critical
      BY <1>1, <1>3, <2>1, <2>2
    <3> QED
      BY <1>1, <1>2, <2>1, <3>1, SameMatches DEF EventsFit
  <2>3. ASSUME NEW i \in stored', log'[i] = "match_start",
               NEW k \in cleanup.events, OfMatchFrom(i, k)'
        PROVE  i \in cleanup.events \/ timestamp'[k] < timestamp'[i]
    <3>1. OutOfReach(k) /\ k \in DOMAIN log /\ i < k /\ log[k] \in Critical /\ k \in DOMAIN timestamp
      BY <2>1, <2>2, <2>3 DEF OfMatchFrom
    <3>2. i \in DOMAIN log /\ log[i] = "match_start"
      BY <1>1, <1>2, <1>3, <1>4, <2>3
    <3>3. i \notin lines
      <4>1. OutOfReach(i)
        BY <1>1, <3>1, <3>2, ALAssumption DEF OutOfReach
      <4> QED
        BY <1>6, <3>2, <4>1
    <3>4. i \in stored /\ OfMatchFrom(i, k)
      BY <1>1, <1>2, <2>3, <3>1, <3>2, <3>3, SameMatches
    <3>5. i \in cleanup.events \/ timestamp[k] < timestamp[i]
      BY <2>1, <3>2, <3>4 DEF EventsFit, Starts
    <3>6. timestamp'[k] = timestamp[k] /\ timestamp'[i] = timestamp[i]
      BY <1>1, <1>8, <3>1, <3>2, <3>4 DEF TimesStay, Critical
    <3> QED
      BY <3>5, <3>6
  <2> QED
    BY <2>2, <2>3 DEF EventsFit, Starts
<1> QED
  BY <1>2, <1>7, <1>8, <1>9, <1>10, <1>11 DEF StoreInv

\* The store is as it was.
LEMMA StoreStays ==
  ASSUME StoreInv, UNCHANGED <<log, polled, stored, timestamp, cleanup>>, lookback' \in Nat
  PROVE  StoreInv' /\ LogGrows /\ TimesStay
BY LogStays, SameTimes DEF StoreInv, LogType, StoredFollow, GoneForGood, EventsFit, Starts,
     OfMatchFrom, OutOfReach, IsBoundary

\* Retention keeps a match whose row is protected whole, and deletes the others
\* by the age that they have as stored.
LEMMA ExpiredFit ==
  ASSUME LogInv, NEW noncrit \in 0..(Len(log) - Lookback),
         NEW crit \in 0..Min({noncrit, Len(log) - BackfillDepth}),
         NEW protected, protected \subseteq DOMAIN table
  PROVE  EventsFit(ExpiredEvents(protected, crit, noncrit))
<1> DEFINE events == ExpiredEvents(protected, crit, noncrit)
<1>1. /\ Len(log) \in Nat /\ DOMAIN log = 1..Len(log)
      /\ stored \subseteq DOMAIN timestamp /\ DOMAIN timestamp \subseteq DOMAIN log
      /\ \A i \in DOMAIN timestamp : timestamp[i] \in Nat /\ i < timestamp[i]
  BY DomainOfLog DEF LogInv, StoreInv, LogType
<1>2. crit \in Nat /\ crit <= Len(log) - Lookback /\ crit <= Len(log) - BackfillDepth
  <2> DEFINE D == Len(log) - BackfillDepth
  <2>1. D \in Int /\ noncrit \in Nat /\ noncrit <= Len(log) - Lookback
    BY <1>1, ALAssumption
  <2> HIDE DEF D
  <2>2. Min({noncrit, D}) \in Int /\ Min({noncrit, D}) <= noncrit /\ Min({noncrit, D}) <= D
    <3>1. \E x \in {noncrit, D} : \A y \in {noncrit, D} : x <= y
      BY <2>1
    <3>2. /\ Min({noncrit, D}) \in {noncrit, D}
          /\ \A y \in {noncrit, D} : Min({noncrit, D}) <= y
      BY <3>1 DEF Min
    <3> QED
      BY <2>1, <3>2
  <2>3. crit \in 0..Min({noncrit, D})
    BY DEF D
  <2>4. crit \in Nat /\ crit <= noncrit /\ crit <= D
    BY <2>1, <2>2, <2>3
  <2> QED
    BY <1>1, <2>1, <2>4, ALAssumption DEF D
<1>3. ASSUME NEW k \in events, log[k] \in Critical
      PROVE  /\ k \in stored /\ timestamp[k] <= crit
             /\ \A r \in protected : Bounded(r) => k \notin r.lo..r.hi
  BY <1>3 DEF ExpiredEvents
<1>4. ASSUME NEW k \in events, log[k] \in Critical
      PROVE  OutOfReach(k)
  <2>1. k <= crit /\ k \in Nat
    BY <1>1, <1>2, <1>3, <1>4
  <2> QED
    BY <1>1, <1>2, <2>1, ALAssumption DEF OutOfReach
<1>5. ASSUME NEW i \in Starts(stored), NEW k \in events, OfMatchFrom(i, k),
             ~(timestamp[k] < timestamp[i])
      PROVE  i \in events
  <2>1. i \in stored /\ log[i] = "match_start" /\ i \in 1..Len(log)
    BY <1>1 DEF Starts
  <2>2. log[k] \in Critical /\ log[i] \in Critical /\ i < k
    BY <1>5, <2>1 DEF OfMatchFrom, Critical
  <2>3. timestamp[k] <= crit /\ k \in stored /\ k \in 1..Len(log)
    BY <1>1, <1>3, <2>2
  <2>4. timestamp[i] <= crit
    <3>1. timestamp[i] \in Nat /\ timestamp[k] \in Nat
      BY <1>1, <2>1, <2>3
    <3> QED
      BY <1>2, <1>5, <2>3, <3>1
  <2>5. ASSUME NEW r \in protected, Bounded(r), i \in r.lo..r.hi
        PROVE  FALSE
    <3>1. HasBounds(r)
      BY <2>5 DEF LogInv, RowsInv, RowFits, Rows
    <3>2. r.lo \in 1..Len(log) /\ r.hi \in 1..Len(log) /\ i # r.hi
      BY <1>1, <2>1, <3>1 DEF HasBounds
    <3>3. k \notin r.lo..r.hi
      BY <1>3, <2>2, <2>5
    <3>4. r.hi \in (i + 1)..(k - 1)
      BY <2>1, <2>2, <2>3, <2>5, <3>2, <3>3
    <3>5. IsBoundary(r.hi)
      BY <3>1 DEF HasBounds, IsBoundary
    <3> QED
      BY <1>5, <3>4, <3>5 DEF OfMatchFrom
  <2> QED
    BY <2>1, <2>2, <2>4, <2>5 DEF ExpiredEvents
<1> HIDE DEF events
<1>6. EventsFit(events)
  BY <1>4, <1>5 DEF EventsFit
<1> QED
  BY <1>6 DEF events

LEMMA PlanKeeps ==
  ASSUME LogInv, PlanCleanup
  PROVE  LogInv'
<1>1. UNCHANGED <<log, polled, stored, timestamp, table, lookback, derived>>
  BY DEF PlanCleanup
<1>2. PICK noncrit \in 0..(Len(log) - Lookback) :
        \E crit \in 0..Min({noncrit, Len(log) - BackfillDepth}), windowStart \in 0..Len(log),
           latest \in LastEnded(RecentKeep, Ended) :
          LET protected == latest \union {r \in Ended : EndedAt(r) > windowStart}
              plan == [stats  |-> Ended \ protected, rows |-> Ended \ protected,
                       events |-> ExpiredEvents(protected, crit, noncrit)]
          IN  cleanup' = plan
  BY DEF PlanCleanup
<1>3. PICK crit \in 0..Min({noncrit, Len(log) - BackfillDepth}), windowStart \in 0..Len(log),
           latest \in LastEnded(RecentKeep, Ended) :
        LET protected == latest \union {r \in Ended : EndedAt(r) > windowStart}
            plan == [stats  |-> Ended \ protected, rows |-> Ended \ protected,
                     events |-> ExpiredEvents(protected, crit, noncrit)]
        IN  cleanup' = plan
  BY <1>2
<1> DEFINE protected == latest \union {r \in Ended : EndedAt(r) > windowStart}
           expired == ExpiredEvents(protected, crit, noncrit)
<1>4. protected \subseteq DOMAIN table
  BY DEF LastEnded, Ended
<1> HIDE DEF protected
<1>5. EventsFit(expired)
  BY <1>4, ExpiredFit
<1>6. expired \subseteq DOMAIN timestamp /\ Ended \subseteq Bounds
  BY DEF LogInv, StoreInv, RowsInv, LogType, ExpiredEvents, Ended, Rows
<1> HIDE DEF expired
<1>7. cleanup' = [stats  |-> Ended \ protected, rows |-> Ended \ protected,
                  events |-> expired]
  BY <1>3 DEF protected, expired
<1>8. LogType'
  BY <1>1, <1>6, <1>7 DEF LogInv, StoreInv, LogType
<1>9. EventsFit(cleanup.events)'
  BY <1>1, <1>5, <1>7 DEF EventsFit, Starts, OfMatchFrom, IsBoundary, OutOfReach
<1>10. StoredFollow' /\ GoneForGood'
  BY <1>1 DEF LogInv, StoreInv, StoredFollow, GoneForGood, Starts, OfMatchFrom, IsBoundary, OutOfReach
<1>11. StoreInv'
  BY <1>8, <1>9, <1>10 DEF StoreInv
<1>12. LogGrows /\ TimesStay
  BY <1>1, LogStays, SameTimes DEF LogInv, StoreInv
<1> QED
  BY <1>1, <1>11, <1>12, TableKeeps DEF Rows

\* The lines of a plan that were stored first are deleted first, so a match
\* loses its start before what was stored with or after it.
LEMMA DeletedKeeps ==
  ASSUME LogInv, DeleteEvents
  PROVE  LogInv'
<1>1. PICK batch \in SUBSET cleanup.events :
        /\ \A i \in batch, j \in cleanup.events : StoredBefore(j, i) => j \in batch
        /\ stored' = stored \ batch
        /\ cleanup' = [cleanup EXCEPT !.events = @ \ batch]
  BY DEF DeleteEvents
<1>2. cleanup # None /\ UNCHANGED <<log, polled, timestamp, table, lookback, derived>>
  BY DEF DeleteEvents
<1>3. LogType'
  BY <1>1, <1>2 DEF LogInv, StoreInv, LogType
<1>4. cleanup'.events = cleanup.events \ batch /\ cleanup.events \subseteq DOMAIN timestamp
  BY <1>1, <1>2 DEF LogInv, StoreInv, LogType
<1>5. /\ \A i, k : OfMatchFrom(i, k)' <=> OfMatchFrom(i, k)
      /\ \A k : OutOfReach(k)' <=> OutOfReach(k)
      /\ Starts(stored)' = Starts(stored) \ batch
  BY <1>1, <1>2 DEF OfMatchFrom, IsBoundary, Starts, OutOfReach
<1>6. EventsFit(cleanup.events)
  BY <1>2 DEF LogInv, StoreInv
<1>7. StoredFollow'
  <2> SUFFICES ASSUME NEW i \in Starts(stored) \ batch, NEW k \in 1..polled,
                      OfMatchFrom(i, k)
               PROVE  k \in DOMAIN timestamp /\ (k \in stored \ batch \/ timestamp[k] < timestamp[i])
    BY <1>1, <1>2, <1>5 DEF StoredFollow
  <2>1. k \in DOMAIN timestamp /\ (k \in stored \/ timestamp[k] < timestamp[i])
    BY DEF LogInv, StoreInv, StoredFollow
  <2>2. ASSUME k \in batch, ~(timestamp[k] < timestamp[i])
        PROVE  FALSE
    <3>1. i \in cleanup.events
      BY <1>6, <2>2 DEF EventsFit
    <3>2. timestamp[i] \in Nat /\ timestamp[k] \in Nat /\ i < k
      BY <1>4, <2>1, <3>1 DEF LogInv, StoreInv, LogType, OfMatchFrom
    <3>3. StoredBefore(i, k)
      BY <2>2, <3>2 DEF StoredBefore
    <3> QED
      BY <1>1, <2>2, <3>1, <3>3
  <2> QED
    BY <2>1, <2>2
<1>8. GoneForGood'
  <2>1. \A k \in batch : log[k] \in Critical => OutOfReach(k)
    BY <1>1, <1>6 DEF EventsFit
  <2> QED
    BY <1>1, <1>2, <1>5, <2>1 DEF LogInv, StoreInv, GoneForGood
<1>9. EventsFit(cleanup.events)'
  BY <1>2, <1>4, <1>5, <1>6 DEF EventsFit
<1>10. StoreInv'
  BY <1>3, <1>7, <1>8, <1>9 DEF StoreInv
<1>11. LogGrows /\ TimesStay
  BY <1>2, LogStays, SameTimes DEF LogInv, StoreInv
<1> QED
  BY <1>2, <1>10, <1>11, TableKeeps DEF Rows

\* Less to delete, and fewer rows.
LEMMA CleanupKeeps ==
  ASSUME LogInv, UNCHANGED <<log, polled, stored, timestamp, lookback, derived>>,
         DOMAIN table' \subseteq DOMAIN table,
         \/ cleanup' = None
         \/ /\ cleanup # None
            /\ cleanup' \in [stats : SUBSET Bounds, rows : SUBSET Bounds, events : {cleanup.events}]
  PROVE  LogInv'
<1>1. LogType'
  BY DEF LogInv, StoreInv, LogType
<1>2. cleanup' # None => cleanup # None /\ cleanup'.events = cleanup.events
  OBVIOUS
<1>3. StoredFollow' /\ GoneForGood' /\ (cleanup' # None => EventsFit(cleanup.events)')
  BY <1>2 DEF LogInv, StoreInv, StoredFollow, GoneForGood, EventsFit, Starts, OfMatchFrom,
       IsBoundary, OutOfReach
<1>4. LogGrows /\ TimesStay /\ Rows' \subseteq Rows
  BY LogStays, SameTimes DEF LogInv, StoreInv, Rows
<1> QED
  BY <1>1, <1>3, <1>4, TableKeeps DEF StoreInv

LEMMA InitLog == AdminInit => LogInv
<1> SUFFICES ASSUME AdminInit PROVE LogInv
  OBVIOUS
<1>1. Len(log) = 0 /\ log \in Seq(Kind) /\ polled = 0 /\ stored = {} /\ Rows = {}
      /\ DOMAIN timestamp = {} /\ lookback = 0 /\ cleanup = None
  BY DEF AdminInit, Rows
<1> QED
  BY <1>1, ALAssumption DEF LogInv, StoreInv, RowsInv, LogType, StoredFollow, GoneForGood, Starts

LEMMA ScanKeeps ==
  ASSUME LogInv, Scan
  PROVE  LogInv' /\ stored \subseteq stored' /\ LogGrows /\ TimesStay
<1>1. lookback' = lookback + BackfillChunk /\ lookback' <= BackfillDepth
  BY DEF Scan, InRange
<1>2. lookback' \in Nat /\ lookback' >= Lookback
  BY <1>1, ALAssumption DEF LogInv, StoreInv, LogType
<1>3. UNCHANGED <<table, cleanup>> /\ derived = None /\ derived' = Derived(stored)'
  BY DEF Scan
<1>4. StoreInv' /\ stored \subseteq stored' /\ LogGrows /\ TimesStay
  <2>1. CASE Poll(lookback')
    BY <1>1, <1>2, <1>3, <2>1, PollKeeps
  <2>2. CASE UNCHANGED <<log, stored, timestamp, polled>>
    BY <1>2, <1>3, <2>2, StoreStays DEF LogInv
  <2> QED
    BY <2>1, <2>2 DEF Scan
<1>5. Rows' \subseteq Rows \cup Derived(stored)'
  BY <1>3 DEF Rows
<1> QED
  BY <1>3, <1>4, <1>5, TableKeeps

\* A write leaves rows that it derived, and those there were.
LEMMA WriteRows ==
  ASSUME Write \/ WriteFails
  PROVE  /\ UNCHANGED <<log, polled, stored, timestamp, lookback, cleanup>>
         /\ derived # None /\ derived' = None
         /\ DOMAIN table' \subseteq DOMAIN table \cup derived
BY DEF Write, WriteFails, Upserted, Replaced

LEMMA LogStep == LogInv /\ [AdminNext]_adminVars => LogInv' /\ LogGrows /\ TimesStay
<1> SUFFICES ASSUME LogInv, [AdminNext]_adminVars PROVE LogInv' /\ LogGrows /\ TimesStay
  OBVIOUS
<1>0. StoreInv /\ LogType
  BY DEF LogInv, StoreInv
<1>1. CASE Log
  <2>1. PICK kind \in Kind : log' = Append(log, kind)
    BY <1>1, ALAssumption DEF Log, Kind
  <2>2. timestamp' = timestamp
    BY <1>1 DEF Log
  <2> QED
    BY <1>0, <1>1, <2>1, <2>2, LogKeeps, Appended, SameTimes
<1>2. CASE Ingest \/ Refresh
  <2>1. Poll(Lookback) /\ UNCHANGED <<table, lookback, derived, cleanup>>
    BY <1>2 DEF Ingest, Refresh
  <2>2. StoreInv' /\ LogGrows /\ TimesStay
    BY <1>0, <2>1, PollKeeps, ALAssumption DEF LogType
  <2> QED
    BY <2>1, <2>2, TableKeeps DEF Rows
<1>3. CASE Scan
  BY <1>3, ScanKeeps
<1>4. CASE EndBackfill
  <2>1. UNCHANGED <<log, polled, stored, timestamp, table, derived, cleanup>> /\ lookback' \in Nat
    BY <1>4 DEF EndBackfill
  <2> QED
    BY <1>0, <2>1, StoreStays, TableKeeps DEF Rows
<1>5. CASE Derive
  <2>1. /\ UNCHANGED <<log, polled, stored, timestamp, table, lookback, cleanup>>
        /\ derived' = Derived(stored)'
    BY <1>5 DEF Derive, Derived, Of, Boundaries, Following, Previous
  <2>2. Rows' \subseteq Rows \cup Derived(stored)' /\ lookback' \in Nat
    BY <1>0, <2>1 DEF Rows, StoreInv, LogType
  <2> QED
    BY <1>0, <2>1, <2>2, StoreStays, TableKeeps
<1>6. CASE Write \/ WriteFails
  <2>1. Rows' \subseteq Rows /\ lookback' \in Nat
    BY <1>0, <1>6, WriteRows DEF Rows, StoreInv, LogType
  <2> QED
    BY <1>0, <1>6, <2>1, WriteRows, StoreStays, TableKeeps
<1>7. CASE PlanCleanup
  <2>1. log' = log /\ timestamp' = timestamp
    BY <1>7 DEF PlanCleanup
  <2> QED
    BY <1>0, <1>7, <2>1, PlanKeeps, LogStays, SameTimes
<1>8. CASE DeleteStats \/ DeleteMatches
  <2>1. /\ cleanup # None
        /\ cleanup \in [stats : SUBSET Bounds, rows : SUBSET Bounds, events : SUBSET DOMAIN timestamp]
    BY <1>0, <1>8 DEF DeleteStats, DeleteMatches, StoreInv, LogType
  <2>2. cleanup' \in [stats : SUBSET Bounds, rows : SUBSET Bounds, events : {cleanup.events}]
    BY <1>8, <2>1 DEF DeleteStats, DeleteMatches
  <2>3. /\ DOMAIN table' \subseteq DOMAIN table
        /\ UNCHANGED <<log, polled, stored, timestamp, lookback, derived>>
    BY <1>8 DEF DeleteStats, DeleteMatches
  <2> QED
    BY <1>0, <2>1, <2>2, <2>3, CleanupKeeps, LogStays, SameTimes
<1>9. CASE DeleteEvents
  <2>1. log' = log /\ timestamp' = timestamp
    BY <1>9 DEF DeleteEvents
  <2> QED
    BY <1>0, <1>9, <2>1, DeletedKeeps, LogStays, SameTimes
<1>10. CASE EndCleanup \/ CleanupDies
  <2>1. UNCHANGED <<log, polled, stored, timestamp, table, lookback, derived>> /\ cleanup' = None
    BY <1>10 DEF EndCleanup, CleanupDies
  <2> QED
    BY <1>0, <2>1, CleanupKeeps, LogStays, SameTimes
<1>11. CASE UNCHANGED adminVars
  <2>1. /\ UNCHANGED <<log, polled, stored, timestamp, table, lookback, derived, cleanup>>
        /\ lookback' \in Nat
    BY <1>0, <1>11 DEF adminVars, LogType
  <2> QED
    BY <1>0, <2>1, StoreStays, TableKeeps DEF Rows
<1> QED
  BY <1>1, <1>2, <1>3, <1>4, <1>5, <1>6, <1>7, <1>8, <1>9, <1>10, <1>11
     DEF AdminNext, Materialize, Cleanup

\* A match row that has both bounds is one match of the game unless its start was
\* stored late: for any lookback, backfill, retention and operators, whatever is
\* lost to failures.
THEOREM BoundedRowsAreMatches == AdminSpec => []BoundedRowIsMatch
<1>1. LogInv => BoundedRowIsMatch
  <2> SUFFICES ASSUME LogInv, NEW r \in DOMAIN table, Bounded(r), ~StartBackfilled(r)
               PROVE  /\ log[r.lo] = "match_start" /\ log[r.hi] = "match_end"
                      /\ Boundaries(r.lo..r.hi) = {r.lo, r.hi}
    BY DEF BoundedRowIsMatch
  <2>1. HasBounds(r) /\ NoneBetween(r)
    BY DEF LogInv, RowsInv, RowFits, Rows
  <2>2. r.lo \in Nat /\ r.hi \in Nat
    BY <2>1, DomainOfLog DEF LogInv, StoreInv, HasBounds
  <2> QED
    BY <2>1, <2>2 DEF HasBounds, NoneBetween, Boundaries, Of, IsBoundary
<1> QED
  BY <1>1, InitLog, LogStep, PTL DEF AdminSpec

-----------------------------------------------------------------------------
(* All the kills of a match: as long as no operator materializes while a   *)
(* cleanup runs, a row that stays has its critical lines in the store and  *)
(* out of the plan, if none of them was stored before its start.           *)

KillsInv ==
  /\ ~Operators
  /\ derived = None \/ cleanup = None
  /\ \A r \in Rows : Bounded(r) => StartBackfilled(r) \/ CriticalOf(r) \subseteq stored
  /\ cleanup # None => \A r \in DOMAIN table \ cleanup.rows :
       Bounded(r) => CriticalOf(r) \cap cleanup.events = {}

LEMMA InitKills == ~Operators /\ AdminInit => KillsInv
BY DEF AdminInit, KillsInv, Rows

LEMMA KillsKeep ==
  ASSUME LogInv, KillsInv, StoreInv', LogGrows, TimesStay, stored \subseteq stored',
         Rows' \subseteq Rows \cup Derived(stored)', derived' = None \/ cleanup' = None,
         \/ cleanup' = None
         \/ /\ cleanup # None /\ cleanup'.events = cleanup.events
            /\ DOMAIN table' \subseteq DOMAIN table
            /\ DOMAIN table' \ cleanup'.rows \subseteq DOMAIN table \ cleanup.rows
  PROVE  KillsInv'
<1>1. ASSUME NEW r \in Rows, Bounded(r)
      PROVE  CriticalOf(r)' = CriticalOf(r) /\ (StartBackfilled(r) => StartBackfilled(r)')
  BY <1>1, RowStays DEF LogInv, StoreInv, RowsInv
<1>2. ASSUME NEW r \in Rows', Bounded(r)
      PROVE  StartBackfilled(r)' \/ CriticalOf(r)' \subseteq stored'
  <2>1. CASE r \in Rows
    BY <1>1, <1>2, <2>1 DEF KillsInv
  <2>2. CASE r \in Derived(stored)'
    BY <1>2, <2>2, StoreFitsNext DEF DerivedFit, Bounded
  <2> QED
    BY <1>2, <2>1, <2>2
<1>3. cleanup' # None => \A r \in DOMAIN table' \ cleanup'.rows :
        Bounded(r) => CriticalOf(r)' \cap cleanup'.events = {}
  BY <1>1 DEF KillsInv, Rows
<1> QED
  BY <1>2, <1>3 DEF KillsInv, Bounded

\* The plan spares the matches whose rows it keeps.
LEMMA PlanKeepsKills ==
  ASSUME LogInv, KillsInv, PlanCleanup
  PROVE  KillsInv'
<1>1. UNCHANGED <<log, stored, timestamp, table, derived>> /\ derived = None
  BY DEF PlanCleanup, KillsInv, Unlocked
<1>2. PICK noncrit, crit, protected :
        cleanup' = [stats  |-> Ended \ protected, rows |-> Ended \ protected,
                    events |-> ExpiredEvents(protected, crit, noncrit)]
  BY DEF PlanCleanup
<1>3. ASSUME NEW r \in DOMAIN table \ cleanup'.rows, Bounded(r),
             NEW k \in CriticalOf(r), k \in cleanup'.events
      PROVE  FALSE
  <2>1. r \in protected
    BY <1>2, <1>3 DEF Ended, Bounded
  <2>2. log[k] \in Critical /\ k \in r.lo..r.hi
    BY DEF CriticalOf
  <2> QED
    BY <1>2, <1>3, <2>1, <2>2 DEF ExpiredEvents
<1>4. \A r : CriticalOf(r)' = CriticalOf(r) /\ (StartBackfilled(r)' <=> StartBackfilled(r))
  BY <1>1 DEF CriticalOf, StartBackfilled
<1> QED
  BY <1>1, <1>3, <1>4 DEF KillsInv, Rows, Bounded

LEMMA DeletedKeepsKills ==
  ASSUME LogInv, KillsInv, DeleteEvents
  PROVE  KillsInv'
<1>1. PICK batch \in SUBSET cleanup.events :
        stored' = stored \ batch /\ cleanup' = [cleanup EXCEPT !.events = @ \ batch]
  BY DEF DeleteEvents
<1>2. /\ cleanup # None /\ cleanup.rows = {} /\ derived = None
      /\ UNCHANGED <<log, timestamp, table, derived>>
  BY DEF DeleteEvents, MatchesFirst, KillsInv
<1>3. cleanup'.events = cleanup.events \ batch
  BY <1>1, <1>2 DEF LogInv, StoreInv, LogType
<1>4. Rows = DOMAIN table /\ Rows' = DOMAIN table
  BY <1>2 DEF Rows
<1>5. \A r : CriticalOf(r)' = CriticalOf(r) /\ (StartBackfilled(r)' <=> StartBackfilled(r))
  BY <1>2 DEF CriticalOf, StartBackfilled
<1>6. \A r \in DOMAIN table : Bounded(r) =>
        /\ StartBackfilled(r) \/ CriticalOf(r) \subseteq stored
        /\ CriticalOf(r) \cap cleanup.events = {}
  BY <1>2, <1>4 DEF KillsInv
<1> QED
  BY <1>1, <1>2, <1>3, <1>4, <1>5, <1>6 DEF KillsInv, Bounded

LEMMA KillsStep ==
  LogInv /\ LogInv' /\ LogGrows /\ TimesStay /\ KillsInv /\ [AdminNext]_adminVars => KillsInv'
<1> SUFFICES ASSUME LogInv, LogInv', LogGrows, TimesStay, KillsInv, [AdminNext]_adminVars
             PROVE  KillsInv'
  OBVIOUS
<1>0. StoreInv /\ StoreInv' /\ ~Operators
  BY DEF LogInv, KillsInv
<1>1. CASE Log
  <2>1. UNCHANGED <<stored, table, derived, cleanup>>
    BY <1>1 DEF Log
  <2> QED
    BY <1>0, <2>1, KillsKeep DEF Rows, KillsInv
<1>2. CASE Ingest \/ Refresh
  <2>1. stored \subseteq stored' /\ UNCHANGED <<table, derived, cleanup>>
    BY <1>2 DEF Ingest, Refresh, Poll, Persist
  <2> QED
    BY <1>0, <2>1, KillsKeep DEF Rows, KillsInv
<1>3. CASE Scan
  <2>1. /\ UNCHANGED <<table, cleanup>> /\ cleanup = None
        /\ derived' = Derived(stored)' /\ stored \subseteq stored'
    BY <1>0, <1>3, ScanKeeps DEF Scan
  <2> QED
    BY <1>0, <2>1, KillsKeep DEF Rows
<1>4. CASE EndBackfill
  BY <1>0, <1>4, KillsKeep DEF EndBackfill, Rows, KillsInv
<1>5. CASE Derive
  <2>1. /\ UNCHANGED <<log, stored, table, cleanup>> /\ cleanup = None
        /\ derived' = Derived(stored)'
    BY <1>0, <1>5 DEF Derive, Unlocked, Derived, Of, Boundaries, Following, Previous
  <2> QED
    BY <1>0, <2>1, KillsKeep DEF Rows
<1>6. CASE Write \/ WriteFails
  <2>1. cleanup' = None /\ Rows' \subseteq Rows /\ stored' = stored
    BY <1>6, WriteRows DEF Rows, KillsInv
  <2> QED
    BY <1>0, <2>1, KillsKeep
<1>7. CASE PlanCleanup
  BY <1>7, PlanKeepsKills
<1>8. CASE DeleteStats \/ DeleteMatches
  <2>1. cleanup # None /\ UNCHANGED <<stored, derived>>
    BY <1>8 DEF DeleteStats, DeleteMatches
  <2>2. /\ cleanup'.events = cleanup.events
        /\ DOMAIN table' \subseteq DOMAIN table
        /\ DOMAIN table' \ cleanup'.rows \subseteq DOMAIN table \ cleanup.rows
    <3>1. cleanup \in [stats : SUBSET Bounds, rows : SUBSET Bounds, events : SUBSET DOMAIN timestamp]
      BY <1>0, <2>1 DEF StoreInv, LogType
    <3> QED
      BY <1>8, <3>1 DEF DeleteStats, DeleteMatches
  <2> QED
    BY <1>0, <2>1, <2>2, KillsKeep DEF Rows, KillsInv
<1>9. CASE DeleteEvents
  BY <1>9, DeletedKeepsKills
<1>10. CASE EndCleanup \/ CleanupDies
  BY <1>0, <1>10, KillsKeep DEF EndCleanup, CleanupDies, Rows
<1>11. CASE UNCHANGED adminVars
  BY <1>0, <1>11, KillsKeep DEF adminVars, Rows, KillsInv
<1> QED
  BY <1>1, <1>2, <1>3, <1>4, <1>5, <1>6, <1>7, <1>8, <1>9, <1>10, <1>11
     DEF AdminNext, Materialize, Cleanup

\* What a row that is a match gets from a run are the kills of the match.
LEMMA StatsHaveKills ==
  ASSUME LogInv, KillsInv, NEW r \in Rows, Bounded(r), ~StartBackfilled(r)
  PROVE  Of({"kill"}, StatsOf(r)) = Of({"kill"}, r.lo..r.hi)
<1>1. /\ Len(log) \in Nat /\ DOMAIN log = 1..Len(log) /\ stored \subseteq 1..Len(log)
      /\ r.lo \in 1..Len(log) /\ r.hi \in 1..Len(log)
  BY DomainOfLog DEF LogInv, StoreInv, RowsInv, RowFits, HasBounds
<1>2. Of({"kill"}, r.lo..r.hi) \subseteq stored
  BY DEF KillsInv, CriticalOf, Of, Critical
<1>3. Between(r, Of(PlayerLines, stored)) = {i \in stored : log[i] \in PlayerLines /\ i \in r.lo..r.hi}
  BY <1>1 DEF Between, Of, Bounded
<1>4. Of({"kill"}, Between(r, Of(PlayerLines, stored))) = Of({"kill"}, r.lo..r.hi)
  BY <1>2, <1>3 DEF Of, PlayerLines, ConnectionLines
<1>5. Of({"kill"}, Prior(r, stored)) = {}
  <2> DEFINE before == {i \in Of(ConnectionLines, stored) : i < r.lo}
  <2>1. ASSUME NEW i \in before
        PROVE  i \in 0..Len(log)
    <3>1. i \in 1..Len(log)
      BY <1>1 DEF Of
    <3> QED
      BY <1>1, <3>1
  <2>2. Prior(r, stored) = IF before # {} THEN {Max(before)} ELSE {}
    BY DEF Prior
  <2>3. before # {} => Max(before) \in before
    BY <1>1, <2>1, Largest
  <2>4. \A i \in before : log[i] # "kill"
    BY DEF Of, ConnectionLines
  <2> HIDE DEF before
  <2> QED
    BY <2>2, <2>3, <2>4 DEF Of
<1>6. CASE Plays(r)
  BY <1>4, <1>5, <1>6 DEF StatsOf, Of
<1>7. CASE ~Plays(r)
  BY <1>4, <1>7 DEF StatsOf, Of, Plays
<1> QED
  BY <1>6, <1>7

\* A run of the workers that ends well leaves every match, unless its start was
\* stored late, with all of its kills and no other: for any lookback, backfill
\* and retention.
THEOREM RunsDeriveKills == ~Operators /\ AdminSpec => RunDerivesKills
<1> DEFINE Kills == Write => \A r \in DOMAIN table' : Bounded(r) /\ ~StartBackfilled(r) =>
                      Of({"kill"}, table'[r]) = Of({"kill"}, r.lo..r.hi)
<1>1. LogInv /\ KillsInv /\ [AdminNext]_adminVars => Kills
  <2> SUFFICES ASSUME LogInv, KillsInv, Write, NEW r \in DOMAIN table', Bounded(r), ~StartBackfilled(r)
               PROVE  Of({"kill"}, table'[r]) = Of({"kill"}, r.lo..r.hi)
    OBVIOUS
  <2>1. r \in Rows /\ table'[r] = StatsOf(r)
    BY DEF Write, Upserted, Replaced, Rows
  <2> QED
    BY <2>1, StatsHaveKills
<1>2. LogInv /\ KillsInv /\ [AdminNext]_adminVars => [Kills]_adminVars
  BY <1>1
<1> QED
  BY <1>2, InitLog, LogStep, InitKills, KillsStep, PTL DEF AdminSpec, RunDerivesKills

-----------------------------------------------------------------------------
(* The active time of a match.  The pass over its connection lines stands,  *)
(* after each second, where the player was and at the seconds he had been   *)
(* there.                                                                   *)

\* After line i the player is connected.
Here(i) ==
  \E j \in 1..i : log[j] = "connected" /\ \A k \in (j + 1)..i : log[k] # "disconnected"

\* That is what the last connection line up to it says.
LEMMA LastLine ==
  ASSUME LogType, NEW S \in SUBSET (1..Len(log)), NEW i \in 0..Len(log), 
         S = {j \in 1..Len(log) : log[j] \in ConnectionLines /\ j <= i}
  PROVE  /\ S # {} => Max(S) \in S
         /\ (S # {} /\ log[Max(S)] = "connected") <=> Here(i)
<1>1. Len(log) \in Nat
  BY DomainOfLog
<1>2. ASSUME S # {} PROVE Max(S) \in S /\ \A j \in S : j <= Max(S)
  BY <1>1, <1>2, Largest
<1>3. ASSUME S # {}, log[Max(S)] = "connected" PROVE Here(i)
  <2>1. Max(S) \in 1..i
    BY <1>1, <1>2, <1>3
  <2>2. ASSUME NEW k \in (Max(S) + 1)..i, log[k] = "disconnected" PROVE FALSE
    <3>1. k \in S /\ k > Max(S)
      BY <1>1, <2>1, <2>2 DEF ConnectionLines
    <3> QED
      BY <1>1, <1>2, <2>1, <3>1
  <2> QED
    BY <1>3, <2>1, <2>2 DEF Here
<1>4. ASSUME Here(i) PROVE S # {} /\ log[Max(S)] = "connected"
  <2>1. PICK j \in 1..i : log[j] = "connected" /\ \A k \in (j + 1)..i : log[k] # "disconnected"
    BY <1>4 DEF Here
  <2>2. j \in S
    BY <1>1, <2>1 DEF ConnectionLines
  <2>3. Max(S) \in j..i
    BY <1>1, <1>2, <2>2
  <2>4. Max(S) = j \/ Max(S) \in (j + 1)..i
    BY <1>1, <2>2, <2>3
  <2>5. log[Max(S)] \in ConnectionLines
    BY <1>2, <2>2
  <2> QED
    BY <2>1, <2>2, <2>4, <2>5 DEF ConnectionLines
<1> QED
  BY <1>2, <1>3, <1>4

\* A connection line says where he is, any other line leaves him there.
LEMMA HereNext ==
  ASSUME NEW i \in Nat
  PROVE  /\ log[i + 1] = "connected" => Here(i + 1)
         /\ log[i + 1] = "disconnected" => ~Here(i + 1)
         /\ log[i + 1] \notin ConnectionLines => (Here(i + 1) <=> Here(i))
<1>1. ASSUME log[i + 1] = "connected" PROVE Here(i + 1)
  <2>1. i + 1 \in 1..(i + 1) /\ \A k \in (i + 1 + 1)..(i + 1) : FALSE
    OBVIOUS
  <2> QED
    BY <1>1, <2>1 DEF Here
<1>2. ASSUME log[i + 1] = "disconnected", Here(i + 1) PROVE FALSE
  <2>1. PICK j \in 1..(i + 1) :
          log[j] = "connected" /\ \A k \in (j + 1)..(i + 1) : log[k] # "disconnected"
    BY <1>2 DEF Here
  <2>2. j # i + 1
    BY <1>2, <2>1
  <2>3. i + 1 \in (j + 1)..(i + 1)
    BY <2>2
  <2> QED
    BY <1>2, <2>1, <2>3
<1>3. ASSUME log[i + 1] \notin ConnectionLines PROVE Here(i + 1) <=> Here(i)
  <2>1. ASSUME Here(i + 1) PROVE Here(i)
    <3>1. PICK j \in 1..(i + 1) :
            log[j] = "connected" /\ \A k \in (j + 1)..(i + 1) : log[k] # "disconnected"
      BY <2>1 DEF Here
    <3>2. j # i + 1
      BY <1>3, <3>1 DEF ConnectionLines
    <3>3. j \in 1..i /\ \A k \in (j + 1)..i : k \in (j + 1)..(i + 1)
      BY <3>2
    <3> QED
      BY <3>1, <3>3 DEF Here
  <2>2. ASSUME Here(i) PROVE Here(i + 1)
    <3>1. PICK j \in 1..i : log[j] = "connected" /\ \A k \in (j + 1)..i : log[k] # "disconnected"
      BY <2>2 DEF Here
    <3>2. j \in 1..(i + 1) /\ \A k \in (j + 1)..(i + 1) : k = i + 1 \/ k \in (j + 1)..i
      BY <3>1
    <3> QED
      BY <1>3, <3>1, <3>2 DEF Here, ConnectionLines
  <2> QED
    BY <2>1, <2>2
<1> QED
  BY <1>1, <1>2, <1>3

\* The function that Intervals is defined by, up to line n.
PassSteps(r, events, n, f) ==
  f = [i \in r.lo..n |->
         LET acc == IF i = r.lo
                    THEN [open |-> IF \E k \in Of({"connected"}, events) : k < r.lo
                                   THEN r.lo ELSE 0, total |-> 0]
                    ELSE f[i - 1]
         IN  IF i \in Of(ConnectionLines, events) THEN Passed(acc, i) ELSE acc]

LEMMA PassDefined ==
  ASSUME NEW r, NEW events, r.lo \in Nat, r.hi \in Nat, r.lo <= r.hi
  PROVE  \E f : PassSteps(r, events, r.hi, f) /\ Intervals(r, events) = f[r.hi]
<1> DEFINE start == [open |-> IF \E k \in Of({"connected"}, events) : k < r.lo
                              THEN r.lo ELSE 0, total |-> 0]
           After(acc, i) == IF i \in Of(ConnectionLines, events) THEN Passed(acc, i) ELSE acc
           Steps(n, f) == f = [i \in r.lo..n |-> After(IF i = r.lo THEN start ELSE f[i - 1], i)]
           Missing == {n \in Nat : n >= r.lo /\ ~\E f : Steps(n, f)}
           g == CHOOSE f : Steps(r.hi, f)
<1>1. \A n, f : Steps(n, f) <=> PassSteps(r, events, n, f)
  BY DEF PassSteps
<1>2. r.lo \notin Missing
  <2> DEFINE f == [i \in r.lo..r.lo |-> After(start, i)]
  <2> HIDE DEF start, After
  <2>1. \A i \in r.lo..r.lo : i = r.lo
    OBVIOUS
  <2>2. f = [i \in r.lo..r.lo |-> After(IF i = r.lo THEN start ELSE f[i - 1], i)]
    BY <2>1
  <2> QED
    BY <2>2 DEF Steps
<1>3. ASSUME NEW n \in Nat, n >= r.lo, n \notin Missing
      PROVE  n + 1 \notin Missing
  <2> HIDE DEF start, After
  <2>1. PICK f : Steps(n, f)
    BY <1>3
  <2> DEFINE h == [i \in r.lo..(n + 1) |-> IF i = n + 1 THEN After(f[n], n + 1) ELSE f[i]]
  <2>2. \A i \in r.lo..(n + 1) : h[i] = After(IF i = r.lo THEN start ELSE h[i - 1], i)
    <3>1. \A i \in r.lo..n : f[i] = After(IF i = r.lo THEN start ELSE f[i - 1], i)
      BY <2>1
    <3>2. \A i \in r.lo..n : h[i] = f[i]
      BY <1>3
    <3>3. h[n + 1] = After(h[n], n + 1) /\ n + 1 # r.lo /\ (n + 1) - 1 = n
      BY <1>3, <3>2
    <3>4. \A i \in r.lo..n : i # r.lo => h[i - 1] = f[i - 1]
      BY <1>3, <3>2
    <3>5. \A i \in r.lo..(n + 1) : i \in r.lo..n \/ i = n + 1
      BY <1>3
    <3> HIDE DEF h
    <3>6. ASSUME NEW i \in r.lo..n PROVE h[i] = After(IF i = r.lo THEN start ELSE h[i - 1], i)
      BY <3>1, <3>2, <3>4
    <3>7. h[n + 1] = After(IF n + 1 = r.lo THEN start ELSE h[(n + 1) - 1], n + 1)
      BY <3>3
    <3> QED
      BY <3>5, <3>6, <3>7
  <2>3. h = [i \in r.lo..(n + 1) |-> h[i]]
    OBVIOUS
  <2> HIDE DEF h
  <2>4. Steps(n + 1, h)
    BY <2>2, <2>3
  <2> QED
    BY <2>4
<1>4. \E f : Steps(r.hi, f)
  <2> SUFFICES ASSUME r.hi \in Missing PROVE FALSE
    OBVIOUS
  <2>1. Missing \subseteq Nat /\ \A n \in Missing : n >= r.lo
    OBVIOUS
  <2> HIDE DEF Missing
  <2>2. PICK n \in Missing : \A k \in Missing : n <= k
    BY <2>1, Smallest
  <2>3. n - 1 \in Nat /\ n - 1 >= r.lo /\ n - 1 \notin Missing
    BY <1>2, <2>1, <2>2
  <2>4. (n - 1) + 1 = n
    BY <2>1
  <2> QED
    BY <1>3, <2>3, <2>4
<1>5. Intervals(r, events) = g[r.hi]
  BY DEF Intervals
<1> HIDE DEF start, After, Steps
<1>6. Steps(r.hi, g)
  BY <1>4
<1> QED
  BY <1>1, <1>5, <1>6

SecondsHere(lo, i) == Cardinality({k \in lo..(i - 1) : Here(k)})

LEMMA SecondPasses ==
  ASSUME NEW lo \in Nat
  PROVE  /\ SecondsHere(lo, lo) = 0
         /\ \A i \in Nat : i >= lo =>
              /\ SecondsHere(lo, i) \in Nat
              /\ SecondsHere(lo, i + 1) = SecondsHere(lo, i) + (IF Here(i) THEN 1 ELSE 0)
<1>1. SecondsHere(lo, lo) = 0
  <2>1. {k \in lo..(lo - 1) : Here(k)} = {}
    OBVIOUS
  <2> QED
    BY <2>1, FS_EmptySet DEF SecondsHere
<1>2. ASSUME NEW i \in Nat, i >= lo
      PROVE  /\ SecondsHere(lo, i) \in Nat
             /\ SecondsHere(lo, i + 1) = SecondsHere(lo, i) + (IF Here(i) THEN 1 ELSE 0)
  <2> DEFINE S == {k \in lo..(i - 1) : Here(k)}
             T == {k \in lo..((i + 1) - 1) : Here(k)}
  <2>1. IsFiniteSet(S) /\ Cardinality(S) \in Nat /\ i \notin S
    <3>1. IsFiniteSet(lo..(i - 1)) /\ S \subseteq lo..(i - 1)
      BY FS_Interval
    <3>2. i \notin lo..(i - 1)
      OBVIOUS
    <3> HIDE DEF S
    <3> QED
      BY <3>1, <3>2, FS_Subset, FS_CardinalityType
  <2>2. lo..((i + 1) - 1) = (lo..(i - 1)) \cup {i}
    BY <1>2
  <2>3. T = IF Here(i) THEN S \cup {i} ELSE S
    BY <2>2
  <2> HIDE DEF S, T
  <2>4. Cardinality(S \cup {i}) = Cardinality(S) + 1
    BY <2>1, FS_AddElement
  <2> QED
    BY <2>1, <2>3, <2>4 DEF SecondsHere, S, T
<1> QED
  BY <1>1, <1>2

\* After line i of the match r.
PassFits(r, i, acc) ==
  /\ acc \in [open : 0..i, total : Nat]
  /\ acc.open # 0 <=> Here(i)
  /\ acc.total + (IF acc.open = 0 THEN 0 ELSE i - acc.open) = SecondsHere(r.lo, i)

LEMMA PassGoesOn ==
  ASSUME NEW r, r.lo \in Nat, NEW i \in Nat, i >= r.lo, NEW acc, PassFits(r, i, acc)
  PROVE  PassFits(r, i + 1, IF log[i + 1] \in ConnectionLines THEN Passed(acc, i + 1) ELSE acc)
<1>1. acc \in [open : 0..i, total : Nat] /\ acc.open \in 0..i /\ acc.total \in Nat
      /\ (acc.open # 0 <=> Here(i))
      /\ acc.total + (IF acc.open = 0 THEN 0 ELSE i - acc.open) = SecondsHere(r.lo, i)
  BY DEF PassFits
<1>2. /\ SecondsHere(r.lo, i) \in Nat
      /\ SecondsHere(r.lo, i + 1) = SecondsHere(r.lo, i) + (IF Here(i) THEN 1 ELSE 0)
  BY SecondPasses
<1> HIDE DEF PassFits
<1>3. CASE log[i + 1] = "connected" /\ acc.open = 0
  <2>1. Passed(acc, i + 1) = [open |-> i + 1, total |-> acc.total]
    BY <1>3 DEF Passed
  <2>2. Here(i + 1) /\ log[i + 1] \in ConnectionLines
    BY <1>3, HereNext DEF ConnectionLines
  <2> QED
    BY <1>1, <1>2, <1>3, <2>1, <2>2 DEF PassFits
<1>4. CASE log[i + 1] = "disconnected" /\ acc.open # 0
  <2>1. Passed(acc, i + 1) = [open |-> 0, total |-> acc.total + (i + 1) - acc.open]
    BY <1>4 DEF Passed
  <2>2. ~Here(i + 1) /\ log[i + 1] \in ConnectionLines
    BY <1>4, HereNext DEF ConnectionLines
  <2>3. acc.total + (i + 1) - acc.open \in Nat
        /\ acc.total + (i + 1) - acc.open = SecondsHere(r.lo, i + 1)
    BY <1>1, <1>2, <1>4
  <2> QED
    BY <2>1, <2>2, <2>3 DEF PassFits
<1>5. CASE ~(log[i + 1] = "connected" /\ acc.open = 0) /\ ~(log[i + 1] = "disconnected" /\ acc.open # 0)
  <2>1. (IF log[i + 1] \in ConnectionLines THEN Passed(acc, i + 1) ELSE acc) = acc
    BY <1>5 DEF Passed
  <2>2. Here(i + 1) <=> Here(i)
    BY <1>1, <1>5, HereNext DEF ConnectionLines
  <2>3. acc.total + (IF acc.open = 0 THEN 0 ELSE (i + 1) - acc.open) = SecondsHere(r.lo, i + 1)
    BY <1>1, <1>2
  <2>4. acc \in [open : 0..(i + 1), total : Nat]
    BY <1>1
  <2> QED
    BY <1>1, <2>1, <2>2, <2>3, <2>4 DEF PassFits
<1> QED
  BY <1>3, <1>4, <1>5

LEMMA PassFollows ==
  ASSUME LogType, NEW r, NEW events, HasBounds(r), NEW f, PassSteps(r, events, r.hi, f),
         Of(ConnectionLines, r.lo..r.hi) \subseteq events,
         (\E k \in Of({"connected"}, events) : k < r.lo) <=> Here(r.lo)
  PROVE  PassFits(r, r.hi, f[r.hi])
<1>1. /\ r.lo \in Nat /\ r.hi \in Nat /\ r.lo > 0 /\ r.lo < r.hi
      /\ log[r.lo] = "match_start"
  BY DomainOfLog DEF HasBounds
<1>2. ASSUME NEW i \in r.lo..r.hi
      PROVE  i \in Of(ConnectionLines, events) <=> log[i] \in ConnectionLines
  BY DEF Of
<1>3. ASSUME NEW i \in r.lo..r.hi
      PROVE  f[i] = LET acc == IF i = r.lo
                               THEN [open |-> IF Here(r.lo) THEN r.lo ELSE 0, total |-> 0]
                               ELSE f[i - 1]
                    IN  IF log[i] \in ConnectionLines THEN Passed(acc, i) ELSE acc
  BY <1>2 DEF PassSteps
<1>4. PassFits(r, r.lo, f[r.lo])
  <2>1. f[r.lo] = [open |-> IF Here(r.lo) THEN r.lo ELSE 0, total |-> 0]
    BY <1>1, <1>3 DEF ConnectionLines
  <2>2. SecondsHere(r.lo, r.lo) = 0
    BY <1>1, SecondPasses
  <2> QED
    BY <1>1, <2>1, <2>2 DEF PassFits
<1>5. ASSUME NEW i \in r.lo..(r.hi - 1), PassFits(r, i, f[i])
      PROVE  PassFits(r, i + 1, f[i + 1])
  <2>1. i \in Nat /\ i >= r.lo /\ i + 1 \in r.lo..r.hi /\ i + 1 # r.lo /\ (i + 1) - 1 = i
    BY <1>1
  <2>2. f[i + 1] = IF log[i + 1] \in ConnectionLines THEN Passed(f[i], i + 1) ELSE f[i]
    BY <1>3, <2>1
  <2> QED
    BY <1>1, <1>5, <2>1, <2>2, PassGoesOn
<1> DEFINE Wrong == {i \in r.lo..r.hi : ~PassFits(r, i, f[i])}
<1> SUFFICES ASSUME r.hi \in Wrong PROVE FALSE
  BY <1>1
<1>6. Wrong \subseteq r.lo..r.hi /\ r.lo \notin Wrong
      /\ \A i \in r.lo..(r.hi - 1) : i \notin Wrong => i + 1 \notin Wrong
  BY <1>1, <1>4, <1>5
<1> HIDE DEF Wrong
<1>7. Wrong \subseteq Nat
  BY <1>1, <1>6
<1>8. PICK i \in Wrong : \A k \in Wrong : i <= k
  BY <1>7, Smallest
<1>9. i - 1 \in r.lo..(r.hi - 1) /\ i - 1 \notin Wrong /\ (i - 1) + 1 = i
  BY <1>1, <1>6, <1>7, <1>8
<1> QED
  BY <1>6, <1>8, <1>9

\* From all the connection lines, the pass has the seconds the player was there.
LEMMA ActiveIsOnline ==
  ASSUME LogInv, NEW r \in Rows, Bounded(r), Plays(r),
         Of(PlayerLines, r.lo..r.hi) \cup Prior(r, DOMAIN log) \subseteq stored,
         ActiveTime(r, StatsOf(r)).source = "connection_intervals"
  PROVE  ActiveTime(r, StatsOf(r)).seconds = Cardinality(Online(r))
<1> DEFINE events == StatsOf(r)
           before == {i \in Of(ConnectionLines, DOMAIN log) : i < r.lo}
<1>1. LogType /\ HasBounds(r) /\ Len(log) \in Nat /\ DOMAIN log = 1..Len(log) /\ stored \subseteq DOMAIN log
  BY DomainOfLog DEF LogInv, StoreInv, RowsInv, RowFits
<1>2. r.lo \in 1..Len(log) /\ r.hi \in 1..Len(log) /\ r.lo < r.hi /\ log[r.lo] = "match_start"
  BY <1>1 DEF HasBounds
<1>3. Prior(r, DOMAIN log) = IF before # {} THEN {Max(before)} ELSE {}
  BY DEF Prior
<1>4. before = {j \in 1..Len(log) : log[j] \in ConnectionLines /\ j <= r.lo - 1}
  BY <1>1, <1>2 DEF Of
<1>5. /\ before # {} => Max(before) \in before /\ \A j \in before : j <= Max(before)
      /\ (before # {} /\ log[Max(before)] = "connected") <=> Here(r.lo - 1)
  <2>1. before \in SUBSET (1..Len(log)) /\ r.lo - 1 \in 0..Len(log) /\ before \subseteq 0..Len(log)
    BY <1>1, <1>2, <1>4
  <2> HIDE DEF before
  <2> QED
    BY <1>1, <1>4, <2>1, LastLine, Largest
<1>6. Here(r.lo - 1) <=> Here(r.lo)
  <2>1. r.lo - 1 \in Nat /\ (r.lo - 1) + 1 = r.lo
    BY <1>2
  <2>2. log[r.lo] \notin ConnectionLines
    BY <1>2 DEF ConnectionLines
  <2> QED
    BY <2>1, <2>2, HereNext
\* The last line before the match that is stored is the last there is.
<1>7. Prior(r, stored) = Prior(r, DOMAIN log)
  <2> DEFINE kept == {i \in Of(ConnectionLines, stored) : i < r.lo}
  <2>1. Prior(r, stored) = IF kept # {} THEN {Max(kept)} ELSE {}
    BY DEF Prior
  <2>2. kept \subseteq before
    BY <1>1 DEF Of
  <2>3. CASE before = {}
    BY <1>3, <2>1, <2>2, <2>3
  <2>4. CASE before # {}
    <3>1. Max(before) \in kept
      <4>1. Max(before) \in stored /\ Max(before) \in before
        BY <1>3, <1>5, <2>4
      <4> QED
        BY <4>1 DEF Of
    <3>2. kept \subseteq 0..Len(log) /\ before \subseteq 0..Len(log)
      BY <1>1, <1>4, <2>2
    <3> HIDE DEF kept, before
    <3>3. Max(kept) \in kept /\ \A j \in kept : j <= Max(kept)
      BY <1>1, <3>1, <3>2, Largest
    <3>4. Max(kept) = Max(before)
      <4>1. Max(kept) <= Max(before) /\ Max(before) <= Max(kept)
        BY <1>5, <2>2, <2>4, <3>1, <3>3
      <4>2. Max(kept) \in 0..Len(log) /\ Max(before) \in 0..Len(log)
        BY <3>1, <3>2, <3>3
      <4> QED
        BY <1>1, <4>1, <4>2
    <3> QED
      BY <1>3, <2>1, <2>4, <3>1, <3>4
  <2> QED
    BY <2>3, <2>4
<1>8. events = Between(r, Of(PlayerLines, stored)) \cup Prior(r, DOMAIN log)
  BY <1>7 DEF StatsOf
<1>9. Of(ConnectionLines, r.lo..r.hi) \subseteq events
  <2>1. Of(ConnectionLines, r.lo..r.hi) \subseteq Of(PlayerLines, r.lo..r.hi)
    BY DEF Of, PlayerLines
  <2>2. Of(PlayerLines, r.lo..r.hi) \subseteq Between(r, Of(PlayerLines, stored))
    BY <1>2 DEF Of, Between
  <2> QED
    BY <1>8, <2>1, <2>2
<1>10. (\E k \in Of({"connected"}, events) : k < r.lo) <=> Here(r.lo)
  <2>1. \A k \in Between(r, Of(PlayerLines, stored)) : k >= r.lo
    BY <1>1, <1>2 DEF Between, Of
  <2>2. \A k \in events : k < r.lo <=> k \in Prior(r, DOMAIN log)
    <3>1. \A k \in Prior(r, DOMAIN log) : k < r.lo
      BY <1>3, <1>5
    <3>2. \A k \in events : k \in Nat
      BY <1>1, <1>3, <1>5, <1>8 DEF Between, Of
    <3> QED
      BY <1>2, <1>8, <2>1, <3>1, <3>2
  <2>3. (\E k \in Of({"connected"}, events) : k < r.lo)
          <=> \E k \in Prior(r, DOMAIN log) : log[k] = "connected"
    BY <1>8, <2>2 DEF Of
  <2> HIDE DEF before
  <2> QED
    BY <1>3, <1>5, <1>6, <2>3
<1>11. PICK f : PassSteps(r, events, r.hi, f) /\ Intervals(r, events) = f[r.hi]
  BY <1>2, PassDefined
<1> HIDE DEF events, before
<1>12. PassFits(r, r.hi, Intervals(r, events))
  BY <1>1, <1>9, <1>10, <1>11, PassFollows
<1>13. ActiveTime(r, events).seconds
         = Intervals(r, events).total
           + (IF Intervals(r, events).open = 0 THEN 0 ELSE r.hi - Intervals(r, events).open)
  BY DEF ActiveTime, events
<1>14. Online(r) = {k \in r.lo..(r.hi - 1) : Here(k)}
  <2>1. ASSUME NEW k \in r.lo..(r.hi - 1)
        PROVE  LET lines == {j \in Of(ConnectionLines, DOMAIN log) : j <= k}
               IN  (lines # {} /\ log[Max(lines)] = "connected") <=> Here(k)
    <3> DEFINE lines == {j \in Of(ConnectionLines, DOMAIN log) : j <= k}
    <3>1. lines = {j \in 1..Len(log) : log[j] \in ConnectionLines /\ j <= k}
      BY <1>1 DEF Of
    <3>2. lines \in SUBSET (1..Len(log)) /\ k \in 0..Len(log)
      BY <1>1, <1>2, <3>1
    <3> HIDE DEF lines
    <3>3. (lines # {} /\ log[Max(lines)] = "connected") <=> Here(k)
      BY <1>1, <3>1, <3>2, LastLine
    <3> QED
      BY <3>3 DEF lines
  <2> QED
    BY <2>1 DEF Online
<1> QED
  BY <1>12, <1>13, <1>14 DEF PassFits, SecondsHere, events

\* A run that ends well derives, for every match it has both bounds and all the
\* connection lines of, the time the player was there: for any log, lookback,
\* backfill, retention and operators.
THEOREM RunsDeriveActiveTime == AdminSpec => RunDerivesActiveTime
<1> DEFINE Times == Write => \A r \in DOMAIN table' : Bounded(r) =>
                      LET kept == Of(PlayerLines, r.lo..r.hi) \union Prior(r, DOMAIN log)
                          time == ActiveTime(r, table'[r])
                      IN  /\ table'[r] # {} /\ kept \subseteq stored
                          /\ time.source = "connection_intervals"
                          => time.seconds = Cardinality(Online(r))
<1>1. LogInv /\ [AdminNext]_adminVars => Times
  <2> SUFFICES ASSUME LogInv, Write, NEW r \in DOMAIN table', Bounded(r), table'[r] # {},
                      Of(PlayerLines, r.lo..r.hi) \union Prior(r, DOMAIN log) \subseteq stored,
                      ActiveTime(r, table'[r]).source = "connection_intervals"
               PROVE  ActiveTime(r, table'[r]).seconds = Cardinality(Online(r))
    BY Zenon
  <2>1. r \in Rows /\ table'[r] = StatsOf(r)
    BY DEF Write, Upserted, Replaced, Rows
  <2>2. Plays(r)
    BY <2>1 DEF StatsOf
  <2> QED
    BY <2>1, <2>2, ActiveIsOnline
<1>2. LogInv /\ [AdminNext]_adminVars => [Times]_adminVars
  BY <1>1
<1> QED
  BY <1>2, InitLog, LogStep, PTL DEF AdminSpec, RunDerivesActiveTime
=============================================================================
