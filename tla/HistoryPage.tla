---------------------------- MODULE HistoryPage ----------------------------
(***************************************************************************)
(* The history page of the site.  historico.js draws a summary, a ranking  *)
(* board and the recent matches of the selected server from snapshots that *)
(* it caches and whose requests it shares by key; historico-recent-live.js *)
(* redraws the same list from fetches of its own, on timers that every     *)
(* click starts, on a minute's poll, and whenever it sees the other script *)
(* write there.  Neither knows of the other.                               *)
(*                                                                         *)
(* A board is a timeframe and a metric, as one value.  An answer of        *)
(* historico.js that has no rows is drawn and cached as one that has.      *)
(***************************************************************************)
EXTENDS Integers, Sequences

CONSTANTS
  Server, Board,   \* what the buttons select
  FirstServer, FirstBoard,  \* what the URL selects when the page is opened
  Delays,          \* refreshes a click starts: the length of REFRESH_DELAYS_MS
  MaxClicks,       \* bound: clicks of the visitor
  MaxFailures,     \* bound: answers that fail or have no rows
  None

ASSUME HistoryAssumption ==
  /\ FirstServer \in Server /\ FirstBoard \in Board
  /\ Delays \in Nat \ {0} /\ MaxClicks \in Nat /\ MaxFailures \in Nat

VARIABLES
  sel,       \* the selected server, which is also the URL's, and board
  cache,     \* the keys in summaryCache, recentMatchesCache and leaderboardCache
  pending,   \* pendingRequestCache: the keys that are being fetched
  waits,     \* the continuations that wait for a key
  panel,     \* what the summary and the board show, and of which key
  list,      \* what recent-matches-list shows, and of which server
  live,      \* recentMatchesState: items, and the request that is active
  timers,    \* per click: the server it forces and how many timers fired
  redraw,    \* the observer's redraw is queued
  clicks, failures

historyVars == <<sel, cache, pending, waits, panel, list, live, timers, redraw, clicks, failures>>

SummaryKey(s) == <<"summary", s>>
RecentKey(s) == <<"recent", s>>
BoardKey(s, b) == <<"board", s, b>>
Keys == {SummaryKey(s) : s \in Server} \cup {RecentKey(s) : s \in Server}
        \cup {BoardKey(s, b) : s \in Server, b \in Board}

View(state, of) == [state |-> state, of |-> of]
Nothing == View("loading", None)

\* hydrateSummary, hydrateWeeklyLeaderboard: what was answered, or a message that
\* it cannot be read.
Drawn(outcome, of) == View(IF outcome = "rows" THEN "ready" ELSE "message", of)

\* readCachedPayload: an entry that is found expired is deleted.
Lookup(keys) == \E gone \in SUBSET (cache \cap keys) : cache' = cache \ gone
Missing(keys) == keys \ cache'

\* What a click shows at once: the cached payload, or a placeholder.
AtOnce(key, of) == View(IF key \in cache' THEN "ready" ELSE "loading", of)

\* One continuation per key that is not cached, tagged with the request.
WaitsFor(keys) ==
  {[key |-> k, server |-> sel'.server, board |-> sel'.board, current |-> TRUE] :
    k \in Missing(keys)}
Superseded(ws) == {[w EXCEPT !.current = FALSE] : w \in ws}

\* Mutant: whoever asked draws the answer.
AlwaysActive(w) == TRUE
\* isActiveServerRequest, isActiveLeaderboardRequest: no later request took the
\* continuation's place, and the selection is the one it was asked for.
Active(w) == w.current /\ w.server = sel.server /\ w.board = sel.board

HistoryInit ==
  /\ sel = [server |-> FirstServer, board |-> FirstBoard]
  /\ cache = {}
  /\ LET keys == {SummaryKey(sel.server), RecentKey(sel.server), BoardKey(sel.server, sel.board)}
     IN  /\ pending = keys
         /\ waits = {[key |-> k, server |-> sel.server, board |-> sel.board, current |-> TRUE] :
                      k \in keys}
  /\ panel = [summary |-> Nothing, board |-> Nothing]
  /\ list = Nothing
  /\ live = [items |-> None, call |-> None]
  /\ timers = <<>>
  /\ redraw = FALSE
  /\ clicks = 0 /\ failures = 0

-----------------------------------------------------------------------------
(* historico.js                                                            *)

\* The observer only queues a redraw while the live script has items.
ListWritten(view) == list' = view /\ redraw' = (redraw \/ live.items # None)

\* hydrateRecentMatches
ListAnswered(outcome, s) == ListWritten(Drawn(outcome, s))

\* refreshServerContent: every earlier continuation is superseded.
RefreshServer ==
  LET s == sel'.server
      keys == {SummaryKey(s), RecentKey(s), BoardKey(s, sel'.board)}
  IN  /\ Lookup(keys)
      /\ waits' = Superseded(waits) \cup WaitsFor(keys)
      /\ pending' = pending \cup Missing(keys)
      /\ panel' = [summary |-> AtOnce(SummaryKey(s), SummaryKey(s)),
                   board |-> AtOnce(BoardKey(s, sel'.board), BoardKey(s, sel'.board))]
      /\ ListWritten(AtOnce(RecentKey(s), s))

\* A server button: the page ignores the selected one, the live script does not.
ClickServer(s) ==
  /\ clicks < MaxClicks
  /\ clicks' = clicks + 1
  /\ sel' = [sel EXCEPT !.server = s]
  /\ IF s = sel.server
     THEN UNCHANGED <<cache, pending, waits, panel, list, redraw>>
     ELSE RefreshServer
  /\ timers' = Append(timers, [server |-> s, fired |-> 0])
  /\ UNCHANGED <<live, failures>>

\* A timeframe or metric button, and refreshLeaderboardContent: continuations
\* for a board are superseded, the others stay.
ClickBoard(b) ==
  /\ clicks < MaxClicks /\ b # sel.board
  /\ clicks' = clicks + 1
  /\ sel' = [sel EXCEPT !.board = b]
  /\ LET key == BoardKey(sel.server, b)
         boards == {w \in waits : w.key[1] = "board"}
     IN  /\ Lookup({key})
         /\ waits' = (waits \ boards) \cup Superseded(boards) \cup WaitsFor({key})
         /\ pending' = pending \cup Missing({key})
         /\ panel' = [panel EXCEPT !.board = AtOnce(key, key)]
  /\ UNCHANGED <<list, live, timers, redraw, failures>>

Outcomes == {"rows"} \cup IF failures < MaxFailures THEN {"error"} ELSE {}
LiveOutcomes == {"rows"} \cup IF failures < MaxFailures THEN {"none", "error"} ELSE {}
Counted(outcome) == failures' = failures + IF outcome = "rows" THEN 0 ELSE 1

\* A fetch of getCachedJson ends: all that share it go on, in one task.  A
\* failure is not cached.
AnswerKey(key, outcome) ==
  /\ key \in pending
  /\ pending' = pending \ {key}
  /\ cache' = IF outcome = "error" THEN cache ELSE cache \cup {key}
  /\ waits' = {w \in waits : w.key # key}
  /\ Counted(outcome)
  /\ IF \E w \in waits : w.key = key /\ Active(w)
     THEN CASE key[1] = "recent" ->
                 ListAnswered(outcome, key[2]) /\ UNCHANGED panel
            [] key[1] # "recent" ->
                 panel' = [panel EXCEPT ![key[1]] = Drawn(outcome, key)] /\ UNCHANGED <<list, redraw>>
     ELSE UNCHANGED <<panel, list, redraw>>
  /\ UNCHANGED <<sel, live, timers, clicks>>

-----------------------------------------------------------------------------
(* historico-recent-live.js                                                *)

\* refreshDynamicRecentMatches: the answer of an earlier request is dropped.
LiveFetch(s) == live' = [live EXCEPT !.call = s]

\* The timers of a click fire in their order; those of an earlier click with the
\* same delay have fired by then.  Each forces the server of its click.
TimerFires(c) ==
  /\ timers[c].fired < Delays
  /\ \A d \in 1..(c - 1) : timers[d].fired > timers[c].fired
  /\ timers' = [timers EXCEPT ![c].fired = @ + 1]
  /\ LiveFetch(timers[c].server)
  /\ UNCHANGED <<sel, cache, pending, waits, panel, list, redraw, clicks, failures>>

\* Mutant: the interval is set again only by a fetch that succeeds.
PollsAfterSuccess == live.call = None /\ live.items # None
\* The timers of the page itself and the minute's interval, which read the URL;
\* what was fetched before has been answered by then.
Polls == live.call = None
LivePoll ==
  /\ Polls
  /\ LiveFetch(sel.server)
  /\ UNCHANGED <<sel, cache, pending, waits, panel, list, timers, redraw, clicks, failures>>

\* A failed fetch forgets the items but leaves the list as it is.
LiveAnswer(outcome) ==
  /\ live.call # None
  /\ Counted(outcome)
  /\ live' = [items |-> IF outcome = "rows" THEN live.call ELSE None, call |-> None]
  /\ list' = IF outcome = "error" THEN list ELSE Drawn(outcome, live.call)
  /\ UNCHANGED <<sel, cache, pending, waits, panel, timers, redraw, clicks>>

\* The observer's timeout: the live script's items take the list back.
Redraw ==
  /\ redraw
  /\ redraw' = FALSE
  /\ list' = IF live.items = None THEN list ELSE Drawn("rows", live.items)
  /\ UNCHANGED <<sel, cache, pending, waits, panel, live, timers, clicks, failures>>

-----------------------------------------------------------------------------
HistoryStep ==
  \/ \E key \in pending, outcome \in Outcomes : AnswerKey(key, outcome)
  \/ \E c \in DOMAIN timers : TimerFires(c)
  \/ \E outcome \in LiveOutcomes : LiveAnswer(outcome)
  \/ Redraw

HistoryNext ==
  \/ \E s \in Server : ClickServer(s)
  \/ \E b \in Board : ClickBoard(b)
  \/ HistoryStep \/ LivePoll

\* The visitor sees the selected server and board, or no rows.
HistoryShowsSelection ==
  /\ panel.summary.state = "ready" => panel.summary.of = SummaryKey(sel.server)
  /\ panel.board.state = "ready" => panel.board.of = BoardKey(sel.server, sel.board)

\* The board has been answered, and the list is the selected server's.
HistorySettled ==
  /\ panel.board.state # "loading"
  /\ list = Drawn("rows", sel.server)
=============================================================================
