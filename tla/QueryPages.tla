----------------------------- MODULE QueryPages -----------------------------
(***************************************************************************)
(* The ranking page (ranking.js), where every change of a filter aborts    *)
(* the request before it, and the player page (stats.js), where nothing    *)
(* guards an answer and one failure marks the backend as unavailable.      *)
(***************************************************************************)
EXTENDS Integers

CONSTANTS
  Filter, FirstFilter,  \* values of the ranking's form, and those of the URL
  Player,               \* what is searched for and then chosen
  MaxQueries,           \* bound: filters changed, searches, players chosen
  MaxQueryFailures,     \* bound: requests that fail
  NoRows

ASSUME QueryAssumption ==
  /\ FirstFilter \in Filter /\ NoRows \notin Filter \cup Player
  /\ MaxQueries \in Nat /\ MaxQueryFailures \in Nat

VARIABLES
  filter,    \* the values of the form's controls
  loads,     \* loadRanking calls: filter, where they are, whether aborted
  ranking,   \* ranking-state and the rows of the table
  online,    \* isBackendOnline
  asked,     \* stats.js: requests under way
  stats,     \* the states of the search, annual and profile panels
  results,   \* the player whose button is in the result list
  queries, queryFailures

rankingVars == <<filter, loads, ranking>>
statsVars == <<online, asked, stats, results>>
queryVars == <<rankingVars, statsVars, queries, queryFailures>>

Load(f) == [filter |-> f, at |-> "sent", aborted |-> FALSE]

QueryInit ==
  /\ filter = FirstFilter
  /\ loads = {Load(FirstFilter)}
  /\ ranking = [state |-> "loading", rows |-> NoRows]
  /\ online = FALSE
  /\ asked = {<<"health", NoRows>>}
  /\ stats = [search |-> "idle", annual |-> "idle", profile |-> "idle"]
  /\ results = NoRows
  /\ queries = 0 /\ queryFailures = 0

\* clearRankingSurface, renderEmptyState
Emptied == [state |-> "message", rows |-> NoRows]

Query == queries < MaxQueries /\ queries' = queries + 1
Succeeds == UNCHANGED queryFailures
Fails == queryFailures < MaxQueryFailures /\ queryFailures' = queryFailures + 1

-----------------------------------------------------------------------------
(* ranking.js                                                              *)

\* AbortController.abort: the requests end with an AbortError, which is ignored.
\* A response that is being read for its error message ends in safeParseJson,
\* which swallows the AbortError: its error is still drawn.
Abort(ls) == {[l EXCEPT !.aborted = TRUE] : l \in {m \in ls : m.at = "error"}}

\* loadRanking, from a change of the form: the rows stay while it loads.
ChangeFilter(f) ==
  /\ Query /\ f # filter
  /\ filter' = f
  /\ loads' = Abort(loads) \cup {Load(f)}
  /\ ranking' = [ranking EXCEPT !.state = "loading"]
  /\ UNCHANGED <<statsVars, queryFailures>>

\* The status and the headers arrive.
Respond(l) ==
  /\ l.at = "sent"
  /\ \/ Succeeds /\ loads' = (loads \ {l}) \cup {[l EXCEPT !.at = "body"]}
     \/ Fails /\ loads' = (loads \ {l}) \cup {[l EXCEPT !.at = "error"]}
  /\ UNCHANGED <<filter, ranking, statsVars, queries>>

\* renderRanking, of rows or of an answer without any.  What the abort ended has
\* ended before another response arrives.
DrawRanking(l) ==
  /\ l.at = "body" /\ ~\E m \in loads : m.aborted
  /\ loads' = loads \ {l}
  /\ Succeeds
  /\ ranking' \in {[state |-> "ready", rows |-> l.filter], Emptied}
  /\ UNCHANGED <<filter, statsVars, queries>>

\* The catch clause: the request or its body cannot be read.
RankingFails(l) ==
  /\ l.at \in {"sent", "body"} /\ ~\E m \in loads : m.aborted
  /\ Fails
  /\ loads' = loads \ {l}
  /\ ranking' = Emptied
  /\ UNCHANGED <<filter, statsVars, queries>>

\* handleRequestError, which does not look at the request's number.
DrawError(l) ==
  /\ l.at = "error"
  /\ loads' = loads \ {l}
  /\ ranking' = Emptied
  /\ Succeeds
  /\ UNCHANGED <<filter, statsVars, queries>>

RankingStep ==
  \E l \in loads : Respond(l) \/ DrawRanking(l) \/ RankingFails(l) \/ DrawError(l)
RankingNext == RankingStep \/ \E f \in Filter : ChangeFilter(f)

-----------------------------------------------------------------------------
(* stats.js                                                                *)

\* setSearchState, setAnnualState, setProfileState
Shown(panel, state) == [stats EXCEPT ![panel] = state]

\* markAsBackendUnavailable
Unavailable == [stats EXCEPT !.search = "message", !.annual = "message"]

\* refreshBackendHealth: a healthy backend is asked for the annual ranking.
HealthAnswer ==
  \E c \in {a \in asked : a[1] = "health"} :
    /\ \/ /\ Succeeds /\ asked' = (asked \ {c}) \cup {<<"annual", NoRows>>}
          /\ online' = TRUE /\ stats' = Shown("annual", "loading")
       \/ /\ Fails /\ asked' = asked \ {c}
          /\ online' = FALSE /\ stats' = Unavailable
    /\ UNCHANGED <<rankingVars, results, queries>>

\* loadAnnualRanking: rows or a message, or a failure.
AnnualAnswer ==
  \E c \in {a \in asked : a[1] = "annual"} :
    /\ asked' = asked \ {c}
    /\ \/ Succeeds /\ stats' = Shown("annual", "ready") /\ UNCHANGED online
       \/ Fails /\ stats' = Unavailable /\ online' = FALSE
    /\ UNCHANGED <<rankingVars, results, queries>>

\* searchPlayers
Search(p) ==
  /\ Query
  /\ IF online
     THEN /\ asked' = asked \cup {<<"search", p>>}
          /\ stats' = [stats EXCEPT !.search = "loading", !.profile = "idle"]
          /\ results' = NoRows
     ELSE stats' = Unavailable /\ UNCHANGED <<asked, results>>
  /\ UNCHANGED <<rankingVars, online, queryFailures>>

\* A player, none or an aggregate problem; or a failure, which has isBackendOnline
\* FALSE until a profile is read or the page is opened again.
SearchAnswer ==
  \E c \in {a \in asked : a[1] = "search"} :
    /\ asked' = asked \ {c}
    /\ \/ /\ Succeeds /\ UNCHANGED online
          /\ \/ stats' = Shown("search", "ready") /\ results' = c[2]
             \/ stats' = Shown("search", "message") /\ UNCHANGED results
       \/ Fails /\ stats' = Unavailable /\ online' = FALSE /\ UNCHANGED results
    /\ UNCHANGED <<rankingVars, queries>>

\* loadPlayerProfile, from a button of the result list.
Choose ==
  /\ results # NoRows /\ Query
  /\ IF online
     THEN /\ asked' = asked \cup {<<"profile", results>>}
          /\ stats' = Shown("profile", "loading")
     ELSE stats' = Unavailable /\ UNCHANGED asked
  /\ UNCHANGED <<rankingVars, online, results, queryFailures>>

\* fetchPlayerProfile of one window: an aggregate problem is an error of its own.
WindowAnswer == {"data", "unavailable", "error"}

\* Promise.allSettled of the weekly and the monthly window: one that is read is
\* enough; two unavailable aggregates do not blame the backend, anything else does.
ProfileAnswer ==
  \E c \in {a \in asked : a[1] = "profile"} :
    /\ asked' = asked \ {c}
    /\ \E weekly, monthly \in WindowAnswer :
         LET windows == {weekly, monthly} IN
         /\ IF windows = {"data"} THEN Succeeds ELSE Fails
         /\ CASE "data" \in windows -> stats' = Shown("profile", "ready") /\ online' = TRUE
              [] windows = {"unavailable"} ->
                   stats' = Shown("profile", "message") /\ UNCHANGED online
              [] OTHER -> stats' = [Unavailable EXCEPT !.profile = "message"] /\ online' = FALSE
    /\ UNCHANGED <<rankingVars, results, queries>>

StatsStep == HealthAnswer \/ AnnualAnswer \/ SearchAnswer \/ ProfileAnswer
StatsNext == StatsStep \/ Choose \/ \E p \in Player : Search(p)

\* The table that is announced as ready is that of the form's values.
RankingShowsSelection == ranking.state = "ready" => ranking.rows = filter

RankingSettled == ranking.state # "loading"
StatsSettled == \A panel \in DOMAIN stats : stats[panel] # "loading"
=============================================================================
