------------------------- MODULE HistoricalIngestion -------------------------
(***************************************************************************)
(* The import of one server's match archive from the public scoreboard:    *)
(* the bootstrap that walks it page by page over several sessions and the  *)
(* incremental refresh that reads its head again                           *)
(* (historical_ingestion.py, historical_storage.py).                       *)
(*                                                                         *)
(* The archive is external.  Match i is the i-th it holds, and i stands    *)
(* for its end; pages go from the newest match to the oldest, and shift    *)
(* while a session reads them.  Sessions hold the writer lock, so there is *)
(* one at a time (WriterLock), and servers are imported one after another. *)
(* A session first tries the RCON capture (CaptureRun), which has no       *)
(* archive of matches: whatever comes of it, the pages are imported.  The  *)
(* progress row of refreshes is written but never read, and an operator's  *)
(* --start-page is left out: it skips what it says.                        *)
(***************************************************************************)
EXTENDS Integers, FiniteSets, FiniteSetsExt

CONSTANTS
  None,         \* no session, or no page loaded
  PageSizes,    \* --page-size
  PageLimits,   \* --max-pages
  Overlap,      \* --overlap-hours, in matches
  MaxMatches,   \* bound: matches archived
  MaxFails      \* bound: sessions that fail or die

ASSUME HIAssumption ==
  /\ PageSizes \subseteq Nat \ {0} /\ PageLimits \subseteq Nat \ {0}
  /\ Overlap \in Nat /\ MaxMatches \in Nat /\ MaxFails \in Nat
  /\ None \notin Int

VARIABLES
  archived,     \* matches in the archive
  stored,       \* historical_matches
  nextPage,     \* historical_backfill_progress of the bootstrap: next_page
  exhausted,    \* and archive_exhausted
  session,      \* the session in progress
  todo,         \* matches of its page still to be upserted, or None
  fails,
  base          \* history: the archive when the first bootstrap began

vars == <<archived, stored, nextPage, exhausted, session, todo, fails, base>>
progress == <<nextPage, exhausted>>

Match == 1..MaxMatches
\* With pages of size s, page p of the archive, and the pages before p.
Page(p, s) == {i \in 1..archived : archived - p * s < i /\ i <= archived - (p - 1) * s}
Before(p, s) == {i \in 1..archived : i > archived - (p - 1) * s}

\* What came of the RCON attempt; a session reads no page, 0, before it.
Outcome == {"skipped", "error", "empty", "partial"}
Session ==
  [mode : {"bootstrap", "incremental"}, primary : Outcome \union {"pending"}, page : Nat,
   size : PageSizes, left : Nat \ {0}, cutoff : Int, stop : BOOLEAN, began : Nat]

ASSUME NoneAssumption == None \notin Session /\ \A page \in SUBSET Match : page # None

Init ==
  /\ archived = 0 /\ stored = {}
  /\ nextPage = 1 /\ exhausted = FALSE
  /\ session = None /\ todo = None /\ fails = 0 /\ base = None

\* The game ends a match.
Archive ==
  /\ archived < MaxMatches
  /\ archived' = archived + 1
  /\ UNCHANGED <<stored, progress, session, todo, fails, base>>

-----------------------------------------------------------------------------
\* _run_ingestion, under the lock.
Begin(mode) ==
  /\ session = None
  /\ \E size \in PageSizes, left \in PageLimits :
       session' = [mode |-> mode, primary |-> "pending", page |-> 0, size |-> size,
                   left |-> left, cutoff |-> 0, stop |-> FALSE, began |-> 0]
  /\ UNCHANGED <<archived, stored, progress, todo, fails, base>>

Bootstrap == Begin("bootstrap")
Refresh == Begin("incremental")

\* _attempt_primary_rcon_writer: skipped when the scoreboard is the configured
\* source; the capture may raise, or capture no target.
AttemptPrimary ==
  /\ session # None /\ session.primary = "pending"
  /\ \E outcome \in Outcome : session' = [session EXCEPT !.primary = outcome]
  /\ UNCHANGED <<archived, stored, progress, todo, fails, base>>

\* _should_use_classic_fallback: every outcome selects the scoreboard.
SelectedSource(outcome) == IF outcome \in Outcome THEN "public-scoreboard" ELSE None

\* get_refresh_cutoff_for_server: from the newest match stored, if there is one.
Cutoff == IF stored = {} THEN 0 ELSE Max(stored) - Overlap

\* _resolve_start_page.
StartPage(mode) == IF mode = "bootstrap" THEN nextPage ELSE 1

\* start_ingestion_run and mark_backfill_progress_started; the cutoff and the
\* page are those of now, after the attempt.  began is history.
StartImport ==
  /\ session # None /\ session.page = 0
  /\ SelectedSource(session.primary) = "public-scoreboard"
  /\ session' = [session EXCEPT !.page = StartPage(session.mode), !.began = archived,
                                !.cutoff = IF session.mode = "bootstrap" THEN 0 ELSE Cutoff]
  /\ exhausted' = (exhausted /\ session.mode # "bootstrap")
  /\ base' = IF base = None /\ session.mode = "bootstrap" THEN archived ELSE base
  /\ UNCHANGED <<archived, stored, nextPage, todo, fails>>

-----------------------------------------------------------------------------
(* _ingest_server.                                                         *)

Importing == session # None /\ session.page # 0 /\ todo = None

\* Mutant: a page that is not full is taken for the end.
EndAtShortPage ==
  /\ Importing
  /\ Cardinality(Page(session.page, session.size)) < session.size
  /\ exhausted' = (exhausted \/ session.mode = "bootstrap")
  /\ session' = None
  /\ UNCHANGED <<archived, stored, nextPage, todo, fails, base>>
\* An empty page is past the end: finalize_backfill_progress with success.
EndOfArchive ==
  /\ Importing
  /\ Page(session.page, session.size) = {}
  /\ exhausted' = (exhausted \/ session.mode = "bootstrap")
  /\ session' = None
  /\ UNCHANGED <<archived, stored, nextPage, todo, fails, base>>

\* Mutant: a page that reaches the cutoff is not imported.
LoadNewPage ==
  /\ Importing
  /\ LET page == Page(session.page, session.size)
     IN  /\ page # {}
         /\ session' = [session EXCEPT !.stop = \E i \in page : i < session.cutoff]
         /\ todo' = IF session'.stop THEN {} ELSE page
  /\ UNCHANGED <<archived, stored, progress, fails, base>>
\* Mutant: the page counts as completed before its matches are stored.
LoadAndMarkPage ==
  /\ Importing
  /\ LET page == Page(session.page, session.size)
     IN  /\ page # {}
         /\ session' = [session EXCEPT !.stop = \E i \in page : i < session.cutoff]
         /\ todo' = {i \in page : i >= session.cutoff}
  /\ nextPage' = IF session.mode = "bootstrap" THEN session.page + 1 ELSE nextPage
  /\ UNCHANGED <<archived, stored, exhausted, fails, base>>
\* The matches before the cutoff are left out; the details of the others are
\* fetched, all of them before the first is stored.
LoadPage ==
  /\ Importing
  /\ LET page == Page(session.page, session.size)
     IN  /\ page # {}
         /\ session' = [session EXCEPT !.stop = \E i \in page : i < session.cutoff]
         /\ todo' = {i \in page : i >= session.cutoff}
  /\ UNCHANGED <<archived, stored, progress, fails, base>>

\* upsert_historical_match, a transaction of its own, newest match first.
UpsertMatch ==
  /\ todo # None /\ todo # {}
  /\ stored' = stored \union {Max(todo)}
  /\ todo' = todo \ {Max(todo)}
  /\ UNCHANGED <<archived, progress, session, fails, base>>

\* Mutant: sessions always begin with the first page.
ForgetPage ==
  /\ todo = {} /\ todo' = None
  /\ session' = IF session.stop \/ session.left = 1 THEN None
                ELSE [session EXCEPT !.page = @ + 1, !.left = @ - 1]
  /\ UNCHANGED <<archived, stored, progress, fails, base>>
\* mark_backfill_progress_page_completed; the session ends with success at the
\* cutoff or at its last page.
CompletePage ==
  /\ todo = {} /\ todo' = None
  /\ IF session.mode = "bootstrap"
     THEN nextPage' = session.page + 1 /\ exhausted' = FALSE
     ELSE UNCHANGED progress
  /\ session' = IF session.stop \/ session.left = 1 THEN None
                ELSE [session EXCEPT !.page = @ + 1, !.left = @ - 1]
  /\ UNCHANGED <<archived, stored, fails, base>>

\* A request fails for good, a payload is not what it should be, a statement
\* fails, or the process dies: what was stored stays.
Fail ==
  /\ session # None /\ fails < MaxFails
  /\ session' = None /\ todo' = None
  /\ fails' = fails + 1
  /\ UNCHANGED <<archived, stored, progress, base>>

-----------------------------------------------------------------------------
Ingest == AttemptPrimary \/ StartImport \/ EndOfArchive \/ LoadPage \/ UpsertMatch \/ CompletePage

Next == Archive \/ Bootstrap \/ Refresh \/ Ingest \/ Fail

Spec == Init /\ [][Next]_vars

\* A session that has begun goes on, in the same process; operators repeat the
\* bootstrap (docs/historical-coverage-report.md:111).
FairSpec == Spec /\ WF_vars(Ingest) /\ SF_vars(Bootstrap)

-----------------------------------------------------------------------------
(* Properties.                                                             *)

TypeOK ==
  /\ archived \in 0..MaxMatches /\ stored \subseteq 1..archived
  /\ nextPage \in Nat \ {0} /\ exhausted \in BOOLEAN
  /\ session \in Session \union {None}
  /\ todo = None \/ (session # None /\ todo \subseteq 1..archived)
  /\ fails \in 0..MaxFails /\ base \in (0..MaxMatches) \union {None}

\* "so bootstraps can resume safely" (historical_storage.py:335): no match that
\* the archive held when the first bootstrap began lies, unstored, before the
\* page the next session starts with, whatever was played and failed since.
ResumeSkipsNothing ==
  base # None =>
    \A s \in PageSizes : Before(nextPage, s) \intersect (1..base) \subseteq stored

\* "complete the archive by running sessions until archive_exhausted is true"
\* (docs/historical-coverage-report.md:111): when it is, the matches that the
\* archive held when the first session began are stored.
ExhaustedMeansComplete == exhausted => 1..base \subseteq stored

\* A refresh that ends well, and not at its page limit, has stored what the
\* archive held since the cutoff when it began, although pages shift under it.
RefreshReachesCutoff ==
  [][ /\ session # None /\ session' = None /\ fails' = fails
      /\ session.mode = "incremental" /\ (session.left > 1 \/ session.stop)
      => {i \in 1..session.began : i >= session.cutoff} \subseteq stored' ]_vars

\* Sessions that are repeated, each of a page at least, exhaust the archive.
BootstrapFinishes == base # None ~> exhausted
=============================================================================
