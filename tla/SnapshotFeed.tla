---------------------------- MODULE SnapshotFeed ----------------------------
(***************************************************************************)
(* The current-match page of the browser: the poller and the snapshot      *)
(* state of frontend/assets/js/current-match-snapshot.js, and the kill     *)
(* feed frontend/assets/js/partida-actual.js draws from them.              *)
(*                                                                         *)
(* The backend is external: it logs kills, starts matches, names a match   *)
(* canonically or ephemerally as map_history is readable or not, and       *)
(* answers a request with its current snapshot, with the one it keeps for  *)
(* outages, or with an error.                                              *)
(*                                                                         *)
(* Kill i is the i-th kill logged; log[i] gives its match and the second   *)
(* of its timestamp.  What else a snapshot holds (players, score,          *)
(* countdown) does not reach the kill feed and is left out.                *)
(***************************************************************************)
EXTENDS Integers, FiniteSets, SequencesExt

CONSTANTS
  KillLimit,    \* CURRENT_MATCH_KILL_FEED_LIMIT (18)
  Window,       \* kills a snapshot holds: CRCON_LOG_STREAM_BUFFER_SIZE (18)
  MaxKills,     \* bound: kills logged
  MaxSec,       \* bound: seconds in which they happen, from 0
  MaxMatch,     \* bound: matches played
  MaxStarts     \* bound: calls of start()

ASSUME SFAssumption ==
  /\ KillLimit \in Nat \ {0} /\ Window \in Nat \ {0}
  /\ MaxKills \in Nat /\ MaxSec \in Nat /\ MaxMatch \in Nat \ {0} /\ MaxStarts \in Nat

VARIABLES
  log, match, kind,           \* the backend: kills, current match, its identity
  kept,                       \* the backend's last good snapshot
  stopped, timerSet, timeouts,  \* poller: stopped, timer # null, pending timeouts
  cycle,                      \* poller: what inFlight waits for, or "idle"
  response,                   \* the answer on its way to the browser
  starts,                     \* number of start() calls
  client,                     \* snapshotState of partida-actual.js
  shown                       \* killFeedState.byId, what is on the page

backend == <<log, match, kind, kept>>
poller == <<stopped, timerSet, timeouts, cycle, response, starts>>
feedVars == <<backend, poller, client, shown>>

Kind == {"canonical", "ephemeral"}
Kills == 1..MaxKills
NoSnapshot == [match |-> 0]

\* The numbers of a finite set as they rise.
Rising(S) ==
  [k \in 1..Cardinality(S) |-> CHOOSE i \in S : Cardinality({j \in S : j < i}) = k - 1]

\* The kills of match m among the first n: what the combat aggregate counts.
Logged(m, n) == {i \in 1..n : log[i].match = m}

\* The newest of them, oldest first, at most Window: of the log stream's buffer,
\* or of the log table.
WindowOf(m, n) ==
  Rising({i \in Logged(m, n) : Cardinality({j \in Logged(m, n) : j > i}) < Window})

\* The snapshot _refresh makes of what it has read: the window of the match it has
\* identified, truncated when there are more kills than it lists ...
Current == [match |-> match, kind |-> kind, kills |-> WindowOf(match, Len(log)),
            truncated |-> Cardinality(Logged(match, Len(log))) > Window]
\* ... and while it cannot read the kills.
Unread == {[Current EXCEPT !.kills = <<>>, !.truncated = t] : t \in BOOLEAN}

\* A known kill: the event and its index in the snapshot it last came in.
Entry == [id : Kills, order : 0..(Window - 1)]
Ids(entries) == {entries[k].id : k \in DOMAIN entries}

FeedInit ==
  /\ log = <<>> /\ match = 1 /\ kind \in Kind
  /\ kept = NoSnapshot
  /\ stopped = TRUE /\ timerSet = FALSE /\ timeouts = 0 /\ cycle = "idle" /\ starts = 0
  /\ response = NoSnapshot
  /\ client = [match |-> 0, kind |-> "", version |-> <<>>, cursor |-> 0, known |-> <<>>]
  /\ shown = <<>>

-----------------------------------------------------------------------------
(* The backend.                                                            *)

\* A kill, in the second of the last one or in a later second.
LogKill ==
  /\ Len(log) < MaxKills
  /\ \E sec \in IF log = <<>> THEN {0} ELSE Last(log).sec..Min({Last(log).sec + 1, MaxSec}) :
       log' = Append(log, [match |-> match, sec |-> sec])
  /\ UNCHANGED <<match, kind, kept, poller, client, shown>>

StartMatch ==
  /\ match < MaxMatch
  /\ match' = match + 1
  /\ kind' \in Kind
  /\ UNCHANGED <<log, kept, poller, client, shown>>

\* map_history gets the match, or cannot be read for a while.
Rename ==
  /\ kind' \in Kind \ {kind}
  /\ UNCHANGED <<log, match, kept, poller, client, shown>>

-----------------------------------------------------------------------------
(* createSnapshotPoller.                                                   *)

\* runCycle: nothing when stopped, the promise of the cycle that runs, or a
\* new request.
RunCycle == IF stopped \/ cycle # "idle" THEN cycle ELSE "sent"

Start ==
  /\ starts < MaxStarts
  /\ stopped
  /\ stopped' = FALSE
  /\ starts' = starts + 1
  /\ cycle' = IF cycle = "idle" THEN "sent" ELSE cycle
  /\ UNCHANGED <<backend, timerSet, timeouts, response, client, shown>>

\* Mutant: stop leaves the pending timer alone.
StopLeavesTimer ==
  /\ ~stopped
  /\ stopped' = TRUE
  /\ UNCHANGED <<backend, timerSet, timeouts, cycle, response, starts, client, shown>>
Stop ==
  /\ ~stopped
  /\ stopped' = TRUE
  /\ timeouts' = IF timerSet THEN timeouts - 1 ELSE timeouts
  /\ timerSet' = FALSE
  /\ UNCHANGED <<backend, cycle, response, starts, client, shown>>

TimeoutFires ==
  /\ timeouts > 0
  /\ timeouts' = timeouts - 1
  /\ timerSet' = FALSE
  /\ cycle' = RunCycle
  /\ UNCHANGED <<backend, stopped, response, starts, client, shown>>

\* The finally clause of the cycle: the poller is released and, unless it was
\* stopped, the next cycle is scheduled.
Finally ==
  /\ cycle' = "idle" /\ response' = NoSnapshot
  /\ timerSet' = (timerSet \/ ~stopped)
  /\ timeouts' = IF stopped THEN timeouts ELSE timeouts + 1
  /\ UNCHANGED <<stopped, starts>>

-----------------------------------------------------------------------------
(* processCurrentMatchSnapshot.                                            *)

\* match_id names match and kind; isIdentityStabilization compares server,
\* layer and start.
Classify(s) ==
  CASE client.match = 0                                          -> "initial"
    [] client.match = s.match /\ client.kind = s.kind            -> "same-match"
    [] client.match = s.match /\ client.kind = "ephemeral"
         /\ s.kind = "canonical"                                 -> "identity-stabilized"
    [] OTHER                                                     -> "new-match"

\* normalizeSnapshotKills: every kill remembers its index in this snapshot.
Incoming(s) == [k \in DOMAIN s.kills |-> [id |-> s.kills[k], order |-> k - 1]]

\* mergeSnapshotKills: a Map keeps the place of the first insertion and the
\* value of the last one.
Merge(current, incoming) ==
  LET newer(e) == {k \in DOMAIN incoming : incoming[k].id = e.id}
      added == Rising({k \in DOMAIN incoming : incoming[k].id \notin Ids(current)})
  IN
  [k \in DOMAIN current |-> IF newer(current[k]) = {} THEN current[k]
                            ELSE incoming[CHOOSE j \in newer(current[k]) : TRUE]]
    \o [k \in DOMAIN added |-> incoming[added[k]]]

\* compareSnapshotKills, by timestamp and then by index; Array.sort is stable.
Before(entries, j, k) ==
  LET a == log[entries[j].id].sec * Window + entries[j].order
      b == log[entries[k].id].sec * Window + entries[k].order
  IN a < b \/ (a = b /\ j < k)
Sorted(entries) ==
  LET rank(k) == Cardinality({j \in DOMAIN entries : Before(entries, j, k)})
  IN [n \in DOMAIN entries |-> entries[CHOOSE k \in DOMAIN entries : rank(k) = n - 1]]
Newest(entries) == LET n == Len(entries)
                   IN SubSeq(entries, IF n > KillLimit THEN n - KillLimit + 1 ELSE 1, n)

\* Mutant: the window is never resynchronized.
NeverLost(s) == FALSE
\* continuityLost: a truncated window that no longer holds the last cursor.
ContinuityLost(s) ==
  /\ Classify(s) = "same-match" /\ s.truncated
  /\ client.cursor # 0 /\ client.cursor \notin ToSet(s.kills)

\* What the window is made of: the snapshot alone, or with what was known.
Gathered(s) ==
  IF Classify(s) # "same-match" \/ ContinuityLost(s)
  THEN Incoming(s) ELSE Merge(client.known, Incoming(s))

\* _snapshot_version: a hash of the identity, the newest cursor, the truncation
\* and of players and score, which may change or not.
Version(s) == <<s.match, s.kind, IF s.kills = <<>> THEN 0 ELSE Last(s.kills), s.truncated>>

Process(s, known) ==
  client' = [match |-> s.match, kind |-> s.kind, version |-> Version(s),
             cursor |-> IF known = <<>> THEN 0 ELSE Last(known).id, known |-> known]

\* renderKillFeed of partida-actual.js.  What adaptSnapshotKillFeed passes on
\* has no match_id or map, so the context signature is the server's slug for
\* every match and an empty feed leaves a stored one in place.
Render(known) == shown' = IF known = <<>> THEN shown ELSE known

-----------------------------------------------------------------------------
\* The backend answers with a new snapshot, which it keeps, or with the one it
\* kept when the refresh fails.  (A refresh for another client has the effect of
\* one whose answer this client loses.)
Answer ==
  /\ cycle = "sent"
  /\ kept' \in ({Current, kept} \cup Unread) \ {NoSnapshot}
  /\ response' = kept'
  /\ cycle' = "answered"
  /\ UNCHANGED <<log, match, kind, stopped, timerSet, timeouts, starts, client, shown>>

\* applySnapshot: the snapshot is processed and drawn, unless the poller was
\* stopped meanwhile or the version is the one already drawn; the cycle ends.
Receive ==
  /\ cycle = "answered"
  /\ IF stopped
     THEN UNCHANGED <<client, shown>>
     ELSE \E all \in {Gathered(response)} : \E known \in {Newest(Sorted(all))} :
            /\ Process(response, known)
            /\ \/ Render(known)
               \/ /\ Classify(response) = "same-match" /\ client.version = Version(response)
                  /\ UNCHANGED shown
  /\ Finally
  /\ UNCHANGED backend

\* Mutant: a failed request ends the cycle without scheduling the next one.
FailForGood ==
  /\ cycle \in {"sent", "answered"}
  /\ cycle' = "idle" /\ response' = NoSnapshot
  /\ UNCHANGED <<backend, stopped, timerSet, timeouts, starts, client, shown>>
\* An HTTP or network error: handleError only notes it.
Fail ==
  /\ cycle \in {"sent", "answered"}
  /\ Finally
  /\ UNCHANGED <<backend, client, shown>>

-----------------------------------------------------------------------------
Backend == LogKill \/ StartMatch \/ Rename

FeedNext == Backend \/ Start \/ Stop \/ TimeoutFires \/ Answer \/ Receive \/ Fail

FeedSpec == FeedInit /\ [][FeedNext]_feedVars

\* Timers fire, and a browser ends every request with a response or an error.
FairFeed == FeedSpec /\ WF_feedVars(TimeoutFires) /\ WF_feedVars(Answer \/ Receive \/ Fail)

-----------------------------------------------------------------------------
(* Properties.                                                             *)

TypeOK ==
  /\ log \in Seq([match : 1..MaxMatch, sec : 0..MaxSec]) /\ Len(log) <= MaxKills
  /\ match \in 1..MaxMatch /\ kind \in Kind
  /\ stopped \in BOOLEAN /\ timerSet \in BOOLEAN /\ timeouts \in 0..MaxStarts
  /\ cycle \in {"idle", "sent", "answered"} /\ starts \in 0..MaxStarts
  /\ client.match \in 0..MaxMatch /\ client.cursor \in 0..MaxKills
  /\ \A feed \in {client.known, shown} :
       feed \in Seq(Entry) /\ Len(feed) <= KillLimit

\* The client's window holds kills of one match, the one it believes in, each
\* once, through every match change, renaming and stale answer.
FeedOfMatch ==
  /\ \A i \in Ids(client.known) : log[i].match = client.match
  /\ Cardinality(Ids(client.known)) = Len(client.known)

\* No kill is missing between two kills of the window, but for kills of the
\* same second as the older one: polls that come too late resynchronize.
FeedHasNoHole ==
  \A i, j \in Ids(client.known) : \A k \in i..j :
    log[k].match = client.match => k \in Ids(client.known) \/ log[k].sec = log[i].sec

\* lastEventCursor, by which a gap is detected, is the newest kill known.
CursorIsNewest == \A i \in Ids(client.known) : i <= client.cursor

\* What mergeKillWindows keeps through missed, late, repeated and partly
\* overlapping answers and through changes of the match's identity.
FeedConsistent == TypeOK /\ FeedOfMatch /\ FeedHasNoHole /\ CursorIsNewest

\* However start, stop, timeouts and answers interleave there is one chain of
\* cycles: never a timer beside a request, nor a second timer.
OneChain == timeouts + (IF cycle = "idle" THEN 0 ELSE 1) <= 1

\* A poller that runs always comes to its next request (tests/
\* current-match-snapshot.test.js:577 tests one failure).
PollingGoesOn == ~stopped ~> (stopped \/ cycle = "sent")
=============================================================================
