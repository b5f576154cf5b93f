----------------------------- MODULE LiveFields -----------------------------
(***************************************************************************)
(* What the current-match page shows beside the kill feed when it polls    *)
(* snapshots (current-match-snapshot.js, partida-actual.js): the score and *)
(* the players, of which a degraded snapshot of the same match keeps those *)
(* shown before, and the countdown, which goes on from a basis.            *)
(* SnapshotFeed has the kill feed and the poller, which is a loop here.    *)
(*                                                                         *)
(* The backend is external: it answers with a snapshot of the match that   *)
(* is played, with what it can read of it, or with the last good one.      *)
(* A reading of the live data is the match and how often they had changed. *)
(***************************************************************************)
EXTENDS Integers

CONSTANTS
  Unknown,           \* a field that a snapshot has not, or a list that is empty
  MaxChanges,        \* bound: changes of the match, its name and its live data
  MaxOutages         \* bound: requests that fail, fields unread, stale snapshots

ASSUME FieldsAssumption == MaxChanges \in Nat /\ MaxOutages \in Nat

VARIABLES
  playing,   \* the backend: the match, how it is named, its live data
  lastGood,  \* the snapshot it keeps for outages
  answer,    \* the snapshot on its way to the page, or Unknown
  held,      \* snapshotState: lastGoodSnapshot, its version, countdownBasis
  onPage,    \* the live data that are drawn
  changes, outages

fieldVars == <<playing, lastGood, answer, held, onPage, changes, outages>>

Naming == {"canonical", "ephemeral"}
NoMatch == 0

FieldsInit ==
  /\ playing = [match |-> 1, kind |-> "canonical", live |-> [match |-> 1, reading |-> 0]]
  /\ lastGood = Unknown /\ answer = Unknown
  /\ held = [match |-> NoMatch, kind |-> "", live |-> Unknown, version |-> Unknown,
             deadline |-> Unknown]
  /\ onPage = Unknown
  /\ changes = 0 /\ outages = 0

\* The next match starts, map_history becomes readable or not, or the live data
\* change: the server may empty as well.
Reality ==
  /\ changes < MaxChanges /\ changes' = changes + 1
  /\ \E m \in {playing.match, playing.match + 1}, k \in Naming :
       playing' \in [match : {m}, kind : {k},
                     live : {[match |-> m, reading |-> changes'], Unknown}]
  /\ UNCHANGED <<lastGood, answer, held, onPage, outages>>

\* A snapshot of now; without its live data, or with them, it may be degraded.
SnapshotOf(live, left, degraded) ==
  [match |-> playing.match, kind |-> playing.kind, live |-> live, left |-> left,
   degraded |-> degraded]

Complete == SnapshotOf(playing.live, [match |-> playing.match], FALSE)

Answers ==
  /\ answer = Unknown
  /\ \/ answer' = Complete /\ lastGood' = answer' /\ UNCHANGED outages
     \/ /\ outages < MaxOutages /\ outages' = outages + 1
        /\ \/ /\ \E live \in {playing.live, Unknown},
                    left \in {[match |-> playing.match], Unknown} :
                  answer' = SnapshotOf(live, left, TRUE)
              /\ lastGood' = answer'
           \/ /\ lastGood # Unknown
              /\ answer' = [lastGood EXCEPT !.degraded = TRUE]
              /\ UNCHANGED lastGood
  /\ UNCHANGED <<playing, held, onPage, changes>>

\* classifySnapshotTransition, as far as it matters here: the first snapshot, a
\* change of name and a new match start afresh.
SameMatch(s) == held.match = s.match /\ held.kind = s.kind

\* preserveDegradedSnapshotFields.
Preserved(s) ==
  IF s.live = Unknown /\ s.degraded /\ SameMatch(s) THEN held.live ELSE s.live

\* rebaseCountdown: without remaining_seconds the basis stays, but not that of
\* another match.
Rebased(s) ==
  IF s.left # Unknown THEN s.left ELSE IF SameMatch(s) THEN held.deadline ELSE Unknown

\* _snapshot_version hashes all of it but the countdown.
VersionOf(s) == [s EXCEPT !.left = Unknown]

\* applySnapshot: what has not changed its version is not drawn again, unless
\* kills have, which the version hashes too.
Apply ==
  /\ answer # Unknown
  /\ held' = [match |-> answer.match, kind |-> answer.kind, live |-> Preserved(answer),
              version |-> VersionOf(answer), deadline |-> Rebased(answer)]
  /\ onPage' \in {Preserved(answer)} \union
                 (IF SameMatch(answer) /\ held.version = VersionOf(answer) THEN {onPage} ELSE {})
  /\ answer' = Unknown
  /\ UNCHANGED <<playing, lastGood, changes, outages>>

\* recordSnapshotFailure: what is shown stays.
SnapshotFails ==
  /\ answer # Unknown
  /\ outages < MaxOutages /\ outages' = outages + 1
  /\ answer' = Unknown
  /\ UNCHANGED <<playing, lastGood, held, onPage, changes>>

FieldsStep == Answers \/ Apply \/ SnapshotFails
FieldsNext == Reality \/ FieldsStep

\* What was kept of an earlier answer is of the match that is shown, through
\* degraded and late answers and changes of name, and what is drawn is what the
\* page holds.
FieldsOfMatch ==
  /\ \A field \in {held.live, held.deadline} : field # Unknown => field.match = held.match
  /\ onPage = held.live

FieldsSettled ==
  /\ held.match = playing.match /\ held.kind = playing.kind
  /\ onPage = playing.live
=============================================================================
