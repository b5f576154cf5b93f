--------------------------- MODULE ParityObserver ---------------------------
(***************************************************************************)
(* CurrentMatchParityObserver of backend/app/observe_current_match_parity: *)
(* one target of the command that polls a server for a bounded time, tells *)
(* its matches apart, and reconciles every match that ended with the       *)
(* finished map the scoreboard lists for it.  The targets of a run share   *)
(* nothing but the clock.                                                  *)
(*                                                                         *)
(* CRCON is external: matches follow one another, finished maps are listed *)
(* late, and each of its calls may fail.  Between two matches public info  *)
(* still names the last one, or answers without a layer.  ParityEvidence   *)
(* has what a poll adds up.                                                *)
(***************************************************************************)
EXTENDS FinalMatches, Sequences

CONSTANTS
  Layers,       \* the layers that are played
  Ttl,          \* CURRENT_MATCH_CACHE_TTL_SECONDS, in ticks
  Failure,      \* a call that raised
  MaxNow,       \* bound: ticks of the clock
  MaxMatch,     \* bound: matches played
  MaxKills      \* bound: kills of the player

VARIABLES
  now,          \* the clock
  played,       \* CRCON: the matches so far, the last one being played
  kills,        \* CRCON: the player's kills
  listed,       \* CRCON: the finished maps the scoreboard lists
  cache,        \* the service's cached snapshot and its expiry
  lastGood,     \* the service's _last_good_by_server
  publicError, liveError,  \* _RecordingApi: the last call of each kind failed
  liveStats,    \* _RecordingApi.live_stats
  pc,           \* where the poll is
  reading,      \* what the poll's reads gave so far
  machine,      \* MatchStateMachine
  transitionAt, \* TargetEvidence._transition_started_at
  lastLive,     \* FinalMatchVerifier._last_live
  pending,      \* pending_final_match_ids
  todo,         \* those of them this poll has still to verify
  reports       \* final_reports (their maps are completed_map_ids)

world == <<now, played, kills, listed>>
service == <<cache, lastGood, publicError, liveError, liveStats>>
runtime == <<machine, transitionAt, lastLive, pending, reports>>
vars == <<world, service, pc, reading, runtime, todo>>

Matches == 1..MaxMatch
Instant == 0..MaxNow
Playing == Len(played)
Identified == {m \in 1..Playing : played[m].ended = None}

Live == [of : Matches, read : Nat, kills : Nat]
\* players: the live stats answered; of, read, kills: where its counters are
\* from; stale: a copy of the last good one under a new observed_at.
Snapshot == [id : Matches, players : BOOLEAN, of : Matches, read : Nat, kills : Nat,
             observed : Nat, stale : BOOLEAN]
Entry == [value : Snapshot, expires : Nat]
Report == [match : Matches, map : Matches, live : Snapshot, close : BOOLEAN,
           told : BOOLEAN, verdict : {"nothing", "exact", "expected", "unexplained"}]

ObserverParameters ==
  /\ VerifierParameters
  /\ Ttl \in Nat \ {0} /\ MaxNow \in Nat /\ MaxMatch \in Nat \ {0} /\ MaxKills \in Nat
  /\ Failure \notin Nat \cup {None}
  /\ None \notin Nat /\ None \notin Live \cup Snapshot \cup Entry

TypeOK ==
  /\ now \in Instant
  /\ played \in Seq([layer : Layers, start : Instant, ended : Instant \cup {None}])
  /\ Playing \in Matches
  /\ kills \subseteq Matches \X Instant
  /\ listed \subseteq 1..Playing
  /\ cache \in Entry \cup {None}
  /\ lastGood \in Snapshot \cup {None}
  /\ publicError \in BOOLEAN /\ liveError \in BOOLEAN
  /\ liveStats \in Live \cup {None}
  /\ pc \in {"wait", "stats"}
  /\ reading \in [info : Matches \cup {None, Failure}, observed : Instant]
  /\ machine \in [current : Matches \cup {None}, nextPending : BOOLEAN,
                  endedWithoutNext : BOOLEAN]
  /\ transitionAt \in Instant \cup {None}
  /\ lastLive \in [Matches -> Snapshot \cup {None}]
  /\ pending \subseteq Matches /\ todo \subseteq pending
  /\ reports \subseteq Report

NothingRead == [info |-> None, observed |-> 0]

Init ==
  /\ now = 0
  /\ \E l \in Layers : played = <<[layer |-> l, start |-> 0, ended |-> None]>>
  /\ kills = {} /\ listed = {}
  /\ cache = None /\ lastGood = None
  /\ publicError = FALSE /\ liveError = FALSE /\ liveStats = None
  /\ pc = "wait" /\ reading = NothingRead
  /\ machine = [current |-> None, nextPending |-> FALSE, endedWithoutNext |-> FALSE]
  /\ transitionAt = None
  /\ lastLive = [m \in Matches |-> None]
  /\ pending = {} /\ todo = {} /\ reports = {}

-----------------------------------------------------------------------------
(* CRCON.                                                                  *)

\* Time passes; the player may score in the match being played.
Tick ==
  /\ now < MaxNow
  /\ now' = now + 1
  /\ \/ UNCHANGED kills
     \/ /\ Identified # {} /\ Cardinality(kills) < MaxKills
        /\ kills' = kills \cup {<<Playing, now + 1>>}
  /\ UNCHANGED <<played, listed, service, pc, reading, runtime, todo>>

MatchEnds ==
  /\ Identified # {}
  /\ played' = [played EXCEPT ![Playing].ended = now]
  /\ UNCHANGED <<now, kills, listed, service, pc, reading, runtime, todo>>

NextMatch ==
  /\ Identified = {} /\ Playing < MaxMatch
  /\ played[Playing].start < now
  /\ \E l \in Layers :
       played' = Append(played, [layer |-> l, start |-> now, ended |-> None])
  /\ UNCHANGED <<now, kills, listed, service, pc, reading, runtime, todo>>

Lists ==
  /\ \E m \in 1..Playing : /\ m \notin Identified \cup listed
                           /\ listed' = listed \cup {m}
  /\ UNCHANGED <<now, played, kills, service, pc, reading, runtime, todo>>

-----------------------------------------------------------------------------
(* get_snapshot of the observer's service (no database, one caller).       *)

\* The counters of the newest live stats replace those of the snapshot's
\* players (_with_stateless_live_combat).
WithLiveCombat(s, live) ==
  IF live = None \/ ~s.players THEN s
  ELSE [s EXCEPT !.of = live.of, !.read = live.read, !.kills = live.kills]

Cached(s) == [value |-> s, expires |-> now + Ttl]
Hit == IF cache = None THEN FALSE ELSE cache.expires > now

\* A copy of the last good snapshot, observed now.
Stale == [lastGood EXCEPT !.observed = now, !.stale = TRUE]
\* What get_snapshot gives when the refresh raised: the last good snapshot.
Fallback == IF lastGood = None THEN None ELSE Stale

-----------------------------------------------------------------------------
(* MatchStateMachine.                                                      *)

Happened(state, m, ended) == [state |-> state, match |-> m, ended |-> ended]
Outcome(after, event) == [machine |-> after, event |-> event]

\* step: the machine after a match, or none, was seen ...
Seen(id) ==
  IF id = None
  THEN [current |-> None, nextPending |-> machine.nextPending /\ machine.current = None,
        endedWithoutNext |-> machine.endedWithoutNext \/ machine.current # None]
  ELSE [current |-> id,
        nextPending |-> IF machine.current = None THEN machine.nextPending
                        ELSE id # machine.current,
        endedWithoutNext |-> machine.endedWithoutNext /\ machine.current # None]
\* ... and what it tells.
Told(id) ==
  IF id = None
  THEN IF machine.current = None THEN Happened("PRE_MATCH", None, None)
       ELSE Happened("MATCH_ENDED", None, machine.current)
  ELSE IF machine.current = None
  THEN Happened(IF machine.endedWithoutNext THEN "NEXT_MATCH" ELSE "MATCH_RUNNING", id, None)
  ELSE IF id # machine.current THEN Happened("MAP_TRANSITION", id, machine.current)
  ELSE Happened(IF machine.nextPending THEN "NEXT_MATCH" ELSE "MATCH_RUNNING", id, None)

\* unavailable: an outage is no end of the match.
Outage ==
  Happened(IF machine.current = None THEN "PRE_MATCH" ELSE "MATCH_RUNNING",
           machine.current, None)

\* add_transition: when a transition began, until the next match is settled.
TransitionFrom(e, t) ==
  CASE e.state = "MAP_TRANSITION" -> t
    [] e.state = "NEXT_MATCH" -> None
    [] OTHER -> transitionAt

-----------------------------------------------------------------------------
(* _poll_target.                                                           *)

\* The match that ended is to be verified, in this poll or a later one.
PendingAfter(e) == pending \cup ({e.ended} \ {None})

\* Mutant: a stale snapshot is taken for no match.
LifecycleFresh(s, outage) ==
  LET id == IF s = None THEN None ELSE IF s.stale THEN None ELSE s.id
  IN Outcome(Seen(id), Told(id))
\* Nothing and an error: an outage.  Else the machine takes a step.
Lifecycle(s, outage) ==
  LET id == IF s = None THEN None ELSE s.id
  IN IF s = None /\ outage
     THEN Outcome(machine, Outage)
     ELSE Outcome(Seen(id), Told(id))

\* What follows once the poll that began at t has a snapshot or none: the
\* lifecycle moves on, the observation is kept, and every pending match is to
\* be verified.
Proceeds(s, t, outage) ==
  /\ LET happened == Lifecycle(s, outage)
     IN /\ machine' = happened.machine
        /\ transitionAt' = TransitionFrom(happened.event, t)
        /\ pending' = PendingAfter(happened.event)
  /\ todo' = pending'
  /\ lastLive' = IF s = None THEN lastLive ELSE Recorded(lastLive, s)
  /\ pc' = "wait"
  /\ reading' = NothingRead

\* The poll is answered from the cache ...
PollCached ==
  /\ pc = "wait" /\ todo = {}
  /\ Hit
  /\ Proceeds(WithLiveCombat(cache.value, liveStats), now, publicError \/ liveError)
  /\ UNCHANGED <<world, service, reports>>

\* What public info names: the match, the last one for a while after its end or
\* none, or an error.
Named == {Failure, Playing} \cup (IF Identified = {} THEN {None} ELSE {})

\* ... or drops an expired entry and reads public info.
PollInfo ==
  /\ pc = "wait" /\ todo = {}
  /\ ~Hit
  /\ cache' = None
  /\ \E info \in Named :
       /\ reading' = [info |-> info, observed |-> now]
       /\ publicError' = (info = Failure)
  /\ pc' = "stats"
  /\ UNCHANGED <<world, lastGood, liveError, liveStats, runtime, todo>>

\* The live stats answer or fail; then the refresh succeeds when public info
\* identified a match, and the last good snapshot stands in when it did not.
PollStats ==
  /\ pc = "stats"
  /\ \E failed \in BOOLEAN :
       LET live == IF failed THEN None
                   ELSE [of |-> Playing, read |-> now,
                         kills |-> KillsUntil(kills, Playing, now)]
           good == [id |-> reading.info, players |-> ~failed,
                    of |-> IF failed THEN reading.info ELSE Playing,
                    read |-> IF failed THEN reading.observed ELSE now,
                    kills |-> IF failed THEN 0 ELSE live.kills,
                    observed |-> reading.observed, stale |-> FALSE]
           s == IF reading.info \in Matches THEN good ELSE Fallback
       IN /\ liveError' = failed
          /\ liveStats' = live
          /\ lastGood' = IF reading.info \in Matches THEN good ELSE lastGood
          /\ cache' = IF s = None THEN None ELSE Cached(s)
          /\ Proceeds(IF s = None THEN None ELSE WithLiveCombat(s, live),
                      reading.observed, publicError \/ failed)
  /\ UNCHANGED <<world, publicError, reports>>

\* add_final_report: one report for a map.
WithReport(r) == IF \E x \in reports : x.map = r.map THEN reports ELSE reports \cup {r}

\* One pending match is verified; the scoreboard may fail to answer.  It stays
\* pending until a finished map was compared with it.
Verify ==
  /\ \E m \in todo, answers \in BOOLEAN, told \in BOOLEAN :
       LET live == lastLive[m]
           k == IF live = None \/ ~answers THEN None ELSE PickedMap(played, listed, live)
       IN /\ told => k # None
          /\ todo' = todo \ {m}
          /\ pending' = IF k = None THEN pending ELSE pending \ {m}
          /\ reports' = IF k = None THEN reports
                        ELSE WithReport(FinalReport(played, kills, live, k, told))
  /\ UNCHANGED <<world, service, pc, reading, machine, transitionAt, lastLive>>

Next ==
  \/ Tick \/ MatchEnds \/ NextMatch \/ Lists
  \/ PollCached \/ PollInfo \/ PollStats \/ Verify

Spec == Init /\ [][Next]_vars

-----------------------------------------------------------------------------
(* Properties.                                                             *)

\* Two finished maps the verifier cannot tell apart: a layer that was started
\* again within the tolerance.
Twins(m, k) ==
  /\ played[m].layer = played[k].layer
  /\ Apart(played[m].start, played[k].start) <= Tolerance

\* [1] Every match the observer has seen is the one it holds current, or waits to
\* be verified, or has its report; one without any has lost it to a twin whose
\* map was reported before.
MatchesAccounted ==
  \A m \in Matches : lastLive[m] # None =>
    \/ m = machine.current
    \/ m \in pending
    \/ \E r \in reports : Twins(m, r.map)

\* [2] An outage, or an answer between two matches, ends nothing: what has ended
\* is never current again, is not running, and was seen while it lasted.
EndedStaysEnded ==
  LET ended == pending \cup {r.match : r \in reports}
  IN /\ machine.current \notin ended
     /\ \A m \in ended : lastLive[m] # None /\ played[m].ended # None

\* [3] The state machine waits for the settled next match exactly while the
\* evidence has the instant the transition began, so a convergence time is
\* never measured from an older transition.
ConvergenceFromItsTransition == machine.nextPending <=> transitionAt # None

\* The observer follows every match: none that it saw is forgotten [1], none is
\* taken for ended that is not [2], and a change of match is one transition [3].
EveryMatchFollowed == MatchesAccounted /\ EndedStaysEnded /\ ConvergenceFromItsTransition

\* [4] A finished map is compared with the match it is, or with a twin of it.
ReportOfItsMatch == \A r \in reports : Twins(r.match, r.map)

\* [5] What may make a difference unexplained although nothing was miscounted: a
\* stale observation under a new time, counters read after the match had
\* changed, a twin's map, no list of encounters, and a kill in the second of
\* the observation.  Nothing else does.
UnexplainedHasCause ==
  \A r \in reports : r.verdict = "unexplained" =>
    \/ r.live.stale
    \/ r.live.of # r.match
    \/ r.map # r.match
    \/ ~r.told
    \/ \E k \in kills : /\ k[1] = r.map
                        /\ k[2] > r.live.observed
                        /\ (k[2] - played[r.map].start) \div Second
                           = (r.live.observed - played[r.map].start) \div Second

\* A final report is about its match or a twin of it [4], and accuses the numbers
\* only where they were miscounted or could not be compared [5].
ReportsExplained == ReportOfItsMatch /\ UnexplainedHasCause
=============================================================================
