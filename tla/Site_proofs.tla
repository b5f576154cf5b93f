---------------------------- MODULE Site_proofs ----------------------------
(***************************************************************************)
(* What the site shows is of what the visitor has selected, and no panel   *)
(* goes back to an earlier answer: for any servers, boards, filters and    *)
(* matches, and whatever the order of clicks, timers and answers.  Then    *)
(* SnapshotFeed: one chain of cycles for any number of starts, and the     *)
(* feed FeedConsistent for any length of the window and of the page's      *)
(* list.                                                                   *)
(***************************************************************************)
EXTENDS Site, SnapshotFeed, FiniteSetTheorems, TLAPS

-----------------------------------------------------------------------------
(* The history page: a continuation waits for a key of the server and the  *)
(* board it was asked for.                                                 *)

KeysOf(s, b) == {SummaryKey(s), RecentKey(s), BoardKey(s, b)}

Wait == [key : Keys, server : Server, board : Board, current : BOOLEAN]
PanelView == [state : {"loading", "ready", "message"}, of : Keys \cup {None}]

HistoryInv ==
  /\ sel \in [server : Server, board : Board]
  /\ waits \subseteq Wait
  /\ \A w \in waits : w.key \in KeysOf(w.server, w.board)
  /\ panel \in [summary : PanelView, board : PanelView]
  /\ HistoryShowsSelection

LEMMA KeysAreKeys ==
  ASSUME NEW s \in Server, NEW b \in Board
  PROVE  KeysOf(s, b) \subseteq Keys
BY DEF KeysOf, Keys

LEMMA InitHistory == HistoryInit => HistoryInv
<1> SUFFICES ASSUME HistoryInit PROVE HistoryInv
  OBVIOUS
<1>1. FirstServer \in Server /\ FirstBoard \in Board
  BY HistoryAssumption
<1>2. sel = [server |-> FirstServer, board |-> FirstBoard]
  BY DEF HistoryInit
<1>3. waits = {[key |-> k, server |-> FirstServer, board |-> FirstBoard, current |-> TRUE] :
                k \in KeysOf(FirstServer, FirstBoard)}
  BY <1>2 DEF HistoryInit, KeysOf
<1>4. KeysOf(FirstServer, FirstBoard) \subseteq Keys
  BY <1>1, KeysAreKeys
<1>5. panel = [summary |-> Nothing, board |-> Nothing] /\ Nothing = View("loading", None)
  BY DEF HistoryInit, Nothing
<1>6. ASSUME NEW w \in waits
      PROVE  w \in Wait /\ w.key \in KeysOf(w.server, w.board)
  <2>1. PICK k \in KeysOf(FirstServer, FirstBoard) :
          w = [key |-> k, server |-> FirstServer, board |-> FirstBoard, current |-> TRUE]
    BY <1>3
  <2> QED
    BY <1>1, <1>4, <2>1 DEF Wait
<1>7. /\ panel \in [summary : PanelView, board : PanelView]
      /\ panel.summary.state = "loading" /\ panel.board.state = "loading"
  BY <1>5 DEF PanelView, View
<1> QED
  BY <1>1, <1>2, <1>6, <1>7 DEF HistoryInv, HistoryShowsSelection

\* Superseding a continuation leaves it the key, server and board it has.
LEMMA SupersededStays ==
  ASSUME NEW ws, ws \subseteq Wait, \A w \in ws : w.key \in KeysOf(w.server, w.board)
  PROVE  /\ Superseded(ws) \subseteq Wait
         /\ \A w \in Superseded(ws) : w.key \in KeysOf(w.server, w.board)
<1> SUFFICES ASSUME NEW w \in ws
             PROVE  /\ [w EXCEPT !.current = FALSE] \in Wait
                    /\ [w EXCEPT !.current = FALSE].key = w.key
                    /\ [w EXCEPT !.current = FALSE].server = w.server
                    /\ [w EXCEPT !.current = FALSE].board = w.board
  BY DEF Superseded
<1> QED
  BY DEF Wait

\* The continuations of a click wait for keys of what is then selected.
LEMMA WaitsFit ==
  ASSUME NEW keys, sel' \in [server : Server, board : Board],
         keys \subseteq KeysOf(sel'.server, sel'.board)
  PROVE  /\ WaitsFor(keys) \subseteq Wait
         /\ \A w \in WaitsFor(keys) : w.key \in KeysOf(w.server, w.board)
<1>1. keys \subseteq Keys
  BY KeysAreKeys
<1>2. ASSUME NEW w \in WaitsFor(keys)
      PROVE  w \in Wait /\ w.key \in KeysOf(w.server, w.board)
  <2>1. PICK k \in keys :
          w = [key |-> k, server |-> sel'.server, board |-> sel'.board, current |-> TRUE]
    BY DEF WaitsFor, Missing
  <2>2. sel'.server \in Server /\ sel'.board \in Board /\ k \in Keys
    BY <1>1
  <2> QED
    BY <2>1, <2>2 DEF Wait
<1> QED
  BY <1>2

LEMMA ServerClicked ==
  ASSUME HistoryInv, NEW s \in Server, ClickServer(s)
  PROVE  HistoryInv'
<1>1. sel' \in [server : Server, board : Board] /\ sel'.server = s /\ sel'.board = sel.board
  BY DEF ClickServer, HistoryInv
<1>2. CASE s = sel.server
  BY <1>1, <1>2 DEF ClickServer, HistoryInv, HistoryShowsSelection
<1>3. CASE s # sel.server
  <2> DEFINE keys == KeysOf(s, sel'.board)
  <2>1. /\ waits' = Superseded(waits) \cup WaitsFor(keys)
        /\ panel' = [summary |-> AtOnce(SummaryKey(s), SummaryKey(s)),
                     board |-> AtOnce(BoardKey(s, sel'.board), BoardKey(s, sel'.board))]
    BY <1>1, <1>3 DEF ClickServer, RefreshServer, KeysOf
  <2>2. /\ Superseded(waits) \subseteq Wait
        /\ \A w \in Superseded(waits) : w.key \in KeysOf(w.server, w.board)
    BY SupersededStays DEF HistoryInv
  <2>3. /\ WaitsFor(keys) \subseteq Wait
        /\ \A w \in WaitsFor(keys) : w.key \in KeysOf(w.server, w.board)
    BY <1>1, WaitsFit
  <2>4. SummaryKey(s) \in Keys /\ BoardKey(s, sel'.board) \in Keys
    BY <1>1 DEF Keys
  <2>5. /\ panel' \in [summary : PanelView, board : PanelView]
        /\ panel'.summary.of = SummaryKey(s) /\ panel'.board.of = BoardKey(s, sel'.board)
    BY <2>1, <2>4 DEF AtOnce, View, PanelView
  <2> QED
    BY <1>1, <2>1, <2>2, <2>3, <2>5 DEF HistoryInv, HistoryShowsSelection
<1> QED
  BY <1>2, <1>3

LEMMA BoardClicked ==
  ASSUME HistoryInv, NEW b \in Board, ClickBoard(b)
  PROVE  HistoryInv'
<1> DEFINE key == BoardKey(sel.server, b)
           boards == {w \in waits : w.key[1] = "board"}
<1>1. /\ sel' \in [server : Server, board : Board]
      /\ sel'.server = sel.server /\ sel'.board = b
  BY DEF ClickBoard, HistoryInv
<1>2. /\ waits' = (waits \ boards) \cup Superseded(boards) \cup WaitsFor({key})
      /\ panel' = [panel EXCEPT !.board = AtOnce(key, key)]
  BY DEF ClickBoard
<1>3. boards \subseteq waits
  OBVIOUS
<1> HIDE DEF boards
<1>4. /\ Superseded(boards) \subseteq Wait
      /\ \A w \in Superseded(boards) : w.key \in KeysOf(w.server, w.board)
  BY <1>3, SupersededStays DEF HistoryInv
<1>5. key \in KeysOf(sel'.server, sel'.board) /\ key \in Keys
  BY <1>1 DEF KeysOf, HistoryInv, Keys
<1>6. /\ WaitsFor({key}) \subseteq Wait
      /\ \A w \in WaitsFor({key}) : w.key \in KeysOf(w.server, w.board)
  BY <1>1, <1>5, WaitsFit
<1>7. waits' \subseteq Wait /\ \A w \in waits' : w.key \in KeysOf(w.server, w.board)
  BY <1>2, <1>4, <1>6 DEF HistoryInv
<1>8. /\ panel' \in [summary : PanelView, board : PanelView]
      /\ panel'.summary = panel.summary /\ panel'.board.of = key
  BY <1>2, <1>5 DEF AtOnce, View, PanelView, HistoryInv
<1> QED
  BY <1>1, <1>7, <1>8 DEF HistoryInv, HistoryShowsSelection

\* An answer is drawn by a continuation that is still active, so by one of the
\* current selection.
LEMMA KeyAnswered ==
  ASSUME HistoryInv, NEW key, NEW outcome, AnswerKey(key, outcome)
  PROVE  HistoryInv'
<1>1. sel' = sel /\ waits' \subseteq waits
  BY DEF AnswerKey
<1>2. CASE panel' = panel
  BY <1>1, <1>2 DEF HistoryInv, HistoryShowsSelection
<1>3. CASE panel' # panel
  <2>1. PICK w \in waits : w.key = key /\ Active(w)
    BY <1>3 DEF AnswerKey
  <2>2. key \in KeysOf(sel.server, sel.board) /\ key \in Keys
    BY <2>1 DEF Active, HistoryInv, Wait
  <2>3. key[1] # "recent" /\ panel' = [panel EXCEPT ![key[1]] = Drawn(outcome, key)]
    BY <1>3, <2>1 DEF AnswerKey
  <2>4. Drawn(outcome, key) \in PanelView /\ Drawn(outcome, key).of = key
    BY <2>2 DEF Drawn, View, PanelView
  <2>5. CASE key = SummaryKey(sel.server)
    <3>1. panel' = [panel EXCEPT !.summary = Drawn(outcome, key)]
      BY <2>3, <2>5 DEF SummaryKey
    <3> QED
      BY <1>1, <2>4, <2>5, <3>1 DEF HistoryInv, HistoryShowsSelection
  <2>6. CASE key = BoardKey(sel.server, sel.board)
    <3>1. panel' = [panel EXCEPT !.board = Drawn(outcome, key)]
      BY <2>3, <2>6 DEF BoardKey
    <3> QED
      BY <1>1, <2>4, <2>6, <3>1 DEF HistoryInv, HistoryShowsSelection
  <2>7. key # RecentKey(sel.server)
    BY <2>3 DEF RecentKey
  <2> QED
    BY <2>2, <2>5, <2>6, <2>7 DEF KeysOf
<1> QED
  BY <1>2, <1>3

LEMMA HistoryStays ==
  ASSUME HistoryInv, UNCHANGED <<sel, waits, panel>>
  PROVE  HistoryInv'
BY DEF HistoryInv, HistoryShowsSelection

LEMMA HistoryStepKeeps ==
  ASSUME HistoryInv, HistoryNext
  PROVE  HistoryInv'
<1>1. ASSUME NEW key \in pending, NEW outcome \in Outcomes, AnswerKey(key, outcome)
      PROVE  HistoryInv'
  BY <1>1, KeyAnswered
<1>2. ASSUME NEW c \in DOMAIN timers, TimerFires(c)
      PROVE  HistoryInv'
  BY <1>2, HistoryStays DEF TimerFires
<1>3. ASSUME NEW outcome \in LiveOutcomes, LiveAnswer(outcome)
      PROVE  HistoryInv'
  BY <1>3, HistoryStays DEF LiveAnswer
<1>4. CASE Redraw
  BY <1>4, HistoryStays DEF Redraw
<1>5. CASE LivePoll
  BY <1>5, HistoryStays DEF LivePoll
<1> QED
  BY <1>1, <1>2, <1>3, <1>4, <1>5, ServerClicked, BoardClicked DEF HistoryNext, HistoryStep
-----------------------------------------------------------------------------
(* The ranking page: a request that no abort has reached is of the form's  *)
(* values.                                                                 *)

LoadRecord == [filter : Filter, at : {"sent", "body", "error"}, aborted : BOOLEAN]

RankingInv ==
  /\ loads \subseteq LoadRecord
  /\ \A l \in loads : ~l.aborted => l.filter = filter
  /\ filter \in Filter
  /\ ranking \in [state : {"loading", "ready", "message"}, rows : Filter \cup {NoRows}]
  /\ RankingShowsSelection

LEMMA InitRanking == QueryInit => RankingInv
BY QueryAssumption DEF QueryInit, RankingInv, RankingShowsSelection, LoadRecord, Load

\* What a change of the form leaves of the requests is aborted.
LEMMA AbortReaches ==
  ASSUME NEW ls, ls \subseteq LoadRecord
  PROVE  Abort(ls) \subseteq LoadRecord /\ \A l \in Abort(ls) : l.aborted
<1>1. ASSUME NEW l \in Abort(ls)
      PROVE  l \in LoadRecord /\ l.aborted
  <2>1. PICK m \in ls : l = [m EXCEPT !.aborted = TRUE]
    BY DEF Abort
  <2> QED
    BY <2>1 DEF LoadRecord
<1> QED
  BY <1>1

LEMMA FilterChanged ==
  ASSUME RankingInv, NEW f \in Filter, ChangeFilter(f)
  PROVE  RankingInv'
<1>1. filter' = f /\ loads' = Abort(loads) \cup {Load(f)}
  BY DEF ChangeFilter
<1>2. Abort(loads) \subseteq LoadRecord /\ \A l \in Abort(loads) : l.aborted
  BY AbortReaches DEF RankingInv
<1>3. Load(f) \in LoadRecord /\ Load(f).filter = f
  BY DEF Load, LoadRecord
<1>4. /\ ranking' \in [state : {"loading", "ready", "message"}, rows : Filter \cup {NoRows}]
      /\ ranking'.state = "loading"
  BY DEF ChangeFilter, RankingInv
<1> QED
  BY <1>1, <1>2, <1>3, <1>4 DEF RankingInv, RankingShowsSelection

LEMMA Responded ==
  ASSUME RankingInv, NEW l \in loads, Respond(l)
  PROVE  RankingInv'
<1>1. l \in LoadRecord /\ (~l.aborted => l.filter = filter)
  BY DEF RankingInv
<1>2. PICK at \in {"body", "error"} : loads' = (loads \ {l}) \cup {[l EXCEPT !.at = at]}
  BY DEF Respond
<1>3. /\ [l EXCEPT !.at = at] \in LoadRecord
      /\ [l EXCEPT !.at = at].filter = l.filter
      /\ [l EXCEPT !.at = at].aborted = l.aborted
  BY <1>1 DEF LoadRecord
<1>4. filter' = filter /\ ranking' = ranking
  BY DEF Respond
<1> QED
  BY <1>1, <1>2, <1>3, <1>4 DEF RankingInv, RankingShowsSelection

\* Rows are drawn when no aborted request is left, and those are of the form.
LEMMA RankingDrawn ==
  ASSUME RankingInv, NEW l \in loads, DrawRanking(l)
  PROVE  RankingInv'
<1>1. l \in LoadRecord /\ l.filter = filter
  BY DEF RankingInv, DrawRanking
<1>2. /\ loads' = loads \ {l} /\ filter' = filter
      /\ ranking' \in {[state |-> "ready", rows |-> filter], [state |-> "message", rows |-> NoRows]}
  BY <1>1 DEF DrawRanking, Emptied
<1> QED
  BY <1>2 DEF RankingInv, RankingShowsSelection

LEMMA RankingEmptied ==
  ASSUME RankingInv, NEW l \in loads, RankingFails(l) \/ DrawError(l)
  PROVE  RankingInv'
<1>1. /\ loads' = loads \ {l} /\ filter' = filter
      /\ ranking' = [state |-> "message", rows |-> NoRows]
  BY DEF RankingFails, DrawError, Emptied
<1> QED
  BY <1>1 DEF RankingInv, RankingShowsSelection

LEMMA RankingStepKeeps ==
  ASSUME RankingInv, RankingNext
  PROVE  RankingInv'
BY FilterChanged, Responded, RankingDrawn, RankingEmptied DEF RankingNext, RankingStep

LEMMA RankingStays ==
  ASSUME RankingInv, UNCHANGED rankingVars
  PROVE  RankingInv'
BY DEF RankingInv, RankingShowsSelection, rankingVars

-----------------------------------------------------------------------------
(* Polled panels: a panel has one request at a time, and its answer is no  *)
(* older than what is drawn.                                               *)

PanelInv ==
  /\ truth \in Nat \ {NotServed}
  /\ calls \in [Panel -> SUBSET (0..truth)]
  /\ drawn \in [Panel -> 0..truth]
  /\ \A p \in Panel : \A v, w \in calls[p] : v = w
  /\ \A p \in Panel : \A v \in calls[p] \ {NotServed} : drawn[p] <= v

LEMMA InitPanel == PanelInit => PanelInv
BY DEF PanelInit, PanelInv, NotServed

\* One step keeps the invariant and draws nothing older.
PanelsAdvance == PanelInv' /\ \A p \in Panel : drawn'[p] >= drawn[p]

LEMMA PanelStays ==
  ASSUME PanelInv, UNCHANGED panelVars
  PROVE  PanelsAdvance
BY DEF PanelInv, panelVars, PanelsAdvance

LEMMA PanelStepKeeps ==
  ASSUME PanelInv, NEW panels \in SUBSET Panel, PanelNext(panels)
  PROVE  PanelsAdvance
<1> USE DEF PanelInv, PanelsAdvance, NotServed
<1>1. CASE Change
  BY <1>1 DEF Change
<1>2. ASSUME NEW p \in panels, Poll(p)
      PROVE  PanelsAdvance
  BY <1>2 DEF Poll
<1>3. ASSUME NEW p \in panels, Serve(p)
      PROVE  PanelsAdvance
  BY <1>3 DEF Serve
<1>4. ASSUME NEW p \in panels, Deliver(p)
      PROVE  PanelsAdvance
  BY <1>4 DEF Deliver, Ends
<1>5. ASSUME NEW p \in panels, PanelFails(p)
      PROVE  PanelsAdvance
  BY <1>5 DEF PanelFails, Ends
<1>6. CASE DeliverNoKills
  <2>1. PICK v \in calls["feed"] : calls' = [calls EXCEPT !["feed"] = @ \ {v}]
    BY <1>6 DEF DeliverNoKills, Ends
  <2>2. truth' = truth /\ drawn' = drawn
    BY <1>6 DEF DeliverNoKills
  <2>3. \A p \in Panel : calls'[p] \subseteq calls[p]
    BY <2>1
  <2>4. calls' \in [Panel -> SUBSET (0..truth)]
    BY <2>1 DEF Panel, MatchPanels
  <2> QED
    BY <2>2, <2>3, <2>4
<1> QED
  BY <1>1, <1>2, <1>3, <1>4, <1>5, <1>6 DEF PanelNext, PanelStep

-----------------------------------------------------------------------------
(* The fields of the current match: every snapshot is of one match, and    *)
(* what the page holds is of the match it shows.                           *)

IsOf(field, m) == field # Unknown => field.match = m

Live == [match : Nat, reading : Nat] \cup {Unknown}
Left == [match : Nat] \cup {Unknown}
Snapshot == [match : Nat \ {NoMatch}, kind : Naming, live : Live, left : Left,
             degraded : BOOLEAN]

SnapshotOfOne(s) ==
  /\ s \in Snapshot
  /\ IsOf(s.live, s.match) /\ IsOf(s.left, s.match)

\* When the version was not of a degraded snapshot without live data, the live
\* data that are held are those it was made from.
VersionHeld ==
  \A s : SnapshotOfOne(s) /\ SameMatch(s) /\ held.version = VersionOf(s)
          /\ ~(s.live = Unknown /\ s.degraded) => held.live = s.live

FieldsInv ==
  /\ changes \in Nat
  /\ playing \in [match : Nat \ {NoMatch}, kind : Naming, live : Live]
  /\ IsOf(playing.live, playing.match)
  /\ lastGood # Unknown => SnapshotOfOne(lastGood)
  /\ answer # Unknown => SnapshotOfOne(answer)
  /\ FieldsOfMatch
  /\ VersionHeld

LEMMA InitFields == FieldsInit => FieldsInv
<1> SUFFICES ASSUME FieldsInit PROVE FieldsInv
  OBVIOUS
<1>1. /\ playing = [match |-> 1, kind |-> "canonical", live |-> [match |-> 1, reading |-> 0]]
      /\ changes = 0
      /\ held.match = NoMatch /\ held.live = Unknown /\ held.deadline = Unknown
      /\ onPage = Unknown /\ answer = Unknown /\ lastGood = Unknown
  BY DEF FieldsInit
<1>2. /\ playing \in [match : Nat \ {NoMatch}, kind : Naming, live : Live]
      /\ IsOf(playing.live, playing.match)
  BY <1>1 DEF NoMatch, Naming, Live, IsOf
<1>3. VersionHeld
  BY <1>1 DEF VersionHeld, SameMatch, SnapshotOfOne, Snapshot
<1>4. FieldsOfMatch
  BY <1>1 DEF FieldsOfMatch
<1> QED
  BY <1>1, <1>2, <1>3, <1>4 DEF FieldsInv

LEMMA DegradedIsOfOne ==
  ASSUME NEW s, SnapshotOfOne(s)
  PROVE  SnapshotOfOne([s EXCEPT !.degraded = TRUE])
BY DEF SnapshotOfOne, Snapshot, IsOf

\* A next match, its name and its live data: what was answered and what is held
\* stay.
LEMMA RealityKeeps ==
  ASSUME FieldsInv, Reality
  PROVE  FieldsInv'
<1>1. UNCHANGED <<lastGood, answer, held, onPage>>
  BY DEF Reality
<1>2. /\ changes' \in Nat
      /\ playing' \in [match : Nat \ {NoMatch}, kind : Naming, live : Live]
      /\ IsOf(playing'.live, playing'.match)
  <2>1. PICK m \in {playing.match, playing.match + 1}, k \in Naming :
          playing' \in [match : {m}, kind : {k},
                        live : {[match |-> m, reading |-> changes'], Unknown}]
    BY DEF Reality
  <2>2. m \in Nat \ {NoMatch}
    BY DEF FieldsInv, NoMatch
  <2>3. changes' \in Nat
    BY DEF Reality, FieldsInv
  <2> QED
    BY <2>1, <2>2, <2>3 DEF IsOf, Live
<1> QED
  BY <1>1, <1>2 DEF FieldsInv, FieldsOfMatch, VersionHeld, SameMatch, SnapshotOfOne, IsOf, VersionOf

LEMMA AnswersKeeps ==
  ASSUME FieldsInv, Answers
  PROVE  FieldsInv'
<1>1. UNCHANGED <<playing, held, onPage, changes>>
  BY DEF Answers
<1>2. ASSUME NEW data \in {playing.live, Unknown},
             NEW left \in {[match |-> playing.match], Unknown}, NEW degraded \in BOOLEAN
      PROVE  SnapshotOfOne(SnapshotOf(data, left, degraded))
  BY DEF FieldsInv, SnapshotOf, SnapshotOfOne, Snapshot, Left, Live, IsOf
<1>3. lastGood # Unknown => SnapshotOfOne([lastGood EXCEPT !.degraded = TRUE])
  BY DegradedIsOfOne DEF FieldsInv
<1>4. SnapshotOfOne(answer') /\ (lastGood' = answer' \/ lastGood' = lastGood)
  BY <1>2, <1>3 DEF Answers, Complete
<1>5. /\ lastGood' # Unknown => SnapshotOfOne(lastGood')
      /\ answer' # Unknown => SnapshotOfOne(answer')
  BY <1>4 DEF FieldsInv
<1> QED
  BY <1>1, <1>5 DEF FieldsInv, FieldsOfMatch, VersionHeld, SameMatch, SnapshotOfOne, IsOf, VersionOf

\* A snapshot that is applied: what it has not is taken from the same match, and
\* what is not drawn again is drawn already.
LEMMA ApplyKeeps ==
  ASSUME FieldsInv, Apply
  PROVE  FieldsInv'
<1>1. SnapshotOfOne(answer)
  BY DEF Apply, FieldsInv
<1>2. /\ held' = [match |-> answer.match, kind |-> answer.kind, live |-> Preserved(answer),
                  version |-> VersionOf(answer), deadline |-> Rebased(answer)]
      /\ UNCHANGED <<playing, lastGood, changes>> /\ answer' = Unknown
  BY DEF Apply
<1>3. IsOf(Preserved(answer), answer.match)
  BY <1>1 DEF Preserved, SameMatch, SnapshotOfOne, IsOf, FieldsInv, FieldsOfMatch
<1>4. IsOf(Rebased(answer), answer.match)
  BY <1>1 DEF Rebased, SameMatch, SnapshotOfOne, IsOf, FieldsInv, FieldsOfMatch
<1>5. onPage' = Preserved(answer)
  <2>1. CASE onPage' = Preserved(answer)
    BY <2>1
  <2>2. CASE SameMatch(answer) /\ held.version = VersionOf(answer) /\ onPage' = onPage
    <3>1. onPage = held.live
      BY DEF FieldsInv, FieldsOfMatch
    <3>2. ~(answer.live = Unknown /\ answer.degraded) => held.live = answer.live
      BY <1>1, <2>2 DEF FieldsInv, VersionHeld
    <3> QED
      BY <2>2, <3>1, <3>2 DEF Preserved
  <2> QED
    BY <2>1, <2>2 DEF Apply
<1>6. VersionHeld'
  <2>1. ASSUME NEW s, SnapshotOfOne(s), VersionOf(answer) = VersionOf(s),
               ~(s.live = Unknown /\ s.degraded)
        PROVE  Preserved(answer) = s.live
    <3>1. answer.live = s.live /\ answer.degraded = s.degraded
      BY <1>1, <2>1 DEF VersionOf, SnapshotOfOne, Snapshot
    <3> QED
      BY <2>1, <3>1 DEF Preserved
  <2> QED
    BY <1>2, <2>1 DEF VersionHeld, SnapshotOfOne, IsOf, VersionOf, SameMatch
<1> QED
  BY <1>2, <1>3, <1>4, <1>5, <1>6 DEF FieldsInv, FieldsOfMatch, SnapshotOfOne, IsOf

LEMMA FieldsStay ==
  ASSUME FieldsInv, UNCHANGED <<playing, lastGood, held, onPage, changes>>,
         answer' \in {answer, Unknown}
  PROVE  FieldsInv'
BY DEF FieldsInv, FieldsOfMatch, VersionHeld, SameMatch, SnapshotOfOne, IsOf, VersionOf

LEMMA FieldsStepKeeps ==
  ASSUME FieldsInv, FieldsNext
  PROVE  FieldsInv'
BY RealityKeeps, AnswersKeeps, ApplyKeeps, FieldsStay
   DEF FieldsNext, FieldsStep, SnapshotFails

-----------------------------------------------------------------------------
(* The site: every step is one of the open page and leaves the state of    *)
(* the others alone.                                                       *)

SiteInv == HistoryInv /\ RankingInv /\ PanelInv /\ FieldsInv

LEMMA InitSite == Init => SiteInv
BY InitHistory, InitRanking, InitPanel, InitFields DEF Init, SiteInv

LEMMA HistoryAlone ==
  ASSUME HistoryInv, UNCHANGED historyVars
  PROVE  HistoryInv'
BY HistoryStays DEF historyVars

LEMMA FieldsAlone ==
  ASSUME FieldsInv, UNCHANGED fieldVars
  PROVE  FieldsInv'
BY FieldsStay DEF fieldVars

LEMMA StatsLeaveRanking ==
  ASSUME StatsNext
  PROVE  UNCHANGED rankingVars
BY DEF StatsNext, StatsStep, HealthAnswer, AnnualAnswer, SearchAnswer, ProfileAnswer,
       Choose, Search

LEMMA SiteStep ==
  ASSUME SiteInv, [Next]_siteVars
  PROVE  SiteInv' /\ \A p \in Panel : drawn'[p] >= drawn[p]
<1> USE DEF SiteInv
<1>1. CASE History(HistoryNext)
  BY <1>1, HistoryStepKeeps, RankingStays, PanelStays, FieldsAlone
     DEF History, queryVars, PanelsAdvance
<1>2. CASE Ranking(RankingNext)
  BY <1>2, HistoryAlone, RankingStepKeeps, PanelStays, FieldsAlone
     DEF Ranking, PanelsAdvance
<1>3. CASE Stats(StatsNext)
  BY <1>3, HistoryAlone, StatsLeaveRanking, RankingStays, PanelStays, FieldsAlone
     DEF Stats, PanelsAdvance
<1>4. CASE Panels(PanelNext(PanelsOf))
  <2>1. PanelsOf \in SUBSET Panel
    BY DEF PanelsOf, Panel
  <2> QED
    BY <1>4, <2>1, HistoryAlone, RankingStays, PanelStepKeeps, FieldsAlone
       DEF Panels, queryVars, PanelsAdvance
<1>5. CASE Fields(FieldsNext)
  BY <1>5, HistoryAlone, RankingStays, PanelStays, FieldsStepKeeps
     DEF Fields, queryVars, PanelsAdvance
<1>6. CASE UNCHANGED siteVars
  BY <1>6, HistoryAlone, RankingStays, PanelStays, FieldsAlone
     DEF siteVars, queryVars, PanelsAdvance
<1> QED
  BY <1>1, <1>2, <1>3, <1>4, <1>5, <1>6 DEF Next

\* Whatever the order of clicks, timers and answers, what is announced as ready is
\* what is selected, and the fields of the current match are of the match shown.
THEOREM ShownIsSelectedAlways == Spec => []ShownIsSelected
<1>1. SiteInv => ShownIsSelected
  BY DEF SiteInv, ShownIsSelected, HistoryInv, RankingInv, FieldsInv
<1>2. SiteInv /\ [Next]_siteVars => SiteInv'
  BY SiteStep
<1> QED
  BY <1>1, <1>2, InitSite, PTL DEF Spec

\* No panel of any page is drawn from an earlier answer than the one it shows.
THEOREM PanelsMoveForward == Spec => NeverGoesBack
<1>1. SiteInv /\ [Next]_siteVars => SiteInv'
  BY SiteStep
<1>2. SiteInv /\ [Next]_siteVars => [\A p \in Panel : drawn'[p] >= drawn[p]]_panelVars
  BY SiteStep
<1> QED
  BY <1>1, <1>2, InitSite, PTL DEF Spec, NeverGoesBack

-----------------------------------------------------------------------------
(* OneChain.  What is inductive is stronger: a running poller that waits   *)
(* for no answer has exactly one timer pending, any other poller has none. *)

ChainInv ==
  /\ stopped \in BOOLEAN /\ timerSet \in BOOLEAN
  /\ cycle \in {"idle", "sent", "answered"}
  /\ timeouts = IF timerSet THEN 1 ELSE 0
  /\ timerSet => ~stopped /\ cycle = "idle"
  /\ ~stopped /\ cycle = "idle" => timerSet

LEMMA FinallyStep ==
  ASSUME ChainInv, cycle # "idle", Finally
  PROVE  ChainInv'
<1>1. timerSet = FALSE /\ timeouts = 0
  BY DEF ChainInv
<1>2. cycle' = "idle" /\ stopped' = stopped
  BY DEF Finally
<1>3. CASE stopped
  <2>1. timerSet' = FALSE /\ timeouts' = 0
    BY <1>1, <1>3 DEF Finally
  <2> QED
    BY <1>2, <1>3, <2>1 DEF ChainInv
<1>4. CASE ~stopped
  <2>1. timeouts' = 1
    BY <1>1, <1>4 DEF Finally
  <2>2. timerSet' = TRUE
    <3>1. timerSet' = (timerSet \/ ~stopped)
      BY DEF Finally
    <3> QED
      BY <3>1, <1>4, Zenon
  <2> QED
    BY <1>2, <1>4, <2>1, <2>2 DEF ChainInv
<1> QED
  BY <1>3, <1>4

LEMMA ChainStep == ChainInv /\ [FeedNext]_feedVars => ChainInv'
<1> SUFFICES ASSUME ChainInv, [FeedNext]_feedVars PROVE ChainInv'
  OBVIOUS
<1> USE DEF ChainInv
<1>1. CASE Backend
  BY <1>1 DEF Backend, LogKill, StartMatch, Rename, poller
<1>2. CASE Start
  BY <1>2 DEF Start
<1>3. CASE Stop
  <2>1. stopped' = TRUE /\ timerSet' = FALSE /\ cycle' = cycle
    BY <1>3 DEF Stop
  <2>2. timeouts' = 0
    BY <1>3 DEF Stop
  <2> QED
    BY <2>1, <2>2
<1>4. CASE TimeoutFires
  <2>1. timerSet /\ ~stopped /\ cycle = "idle"
    BY <1>4 DEF TimeoutFires
  <2>2. timeouts = 1
    BY <2>1
  <2>3. timeouts' = 0 /\ timerSet' = FALSE /\ cycle' = "sent" /\ stopped' = stopped
    BY <1>4, <2>1, <2>2 DEF TimeoutFires, RunCycle
  <2> QED
    BY <2>3, <2>1
<1>5. CASE Answer
  BY <1>5 DEF Answer
<1>6. CASE Receive
  BY <1>6, FinallyStep DEF Receive
<1>7. CASE Fail
  BY <1>7, FinallyStep DEF Fail
<1>8. CASE UNCHANGED feedVars
  BY <1>8 DEF feedVars, poller
<1> QED
  BY <1>1, <1>2, <1>3, <1>4, <1>5, <1>6, <1>7, <1>8 DEF FeedNext

\* However start(), stop(), timeouts and answers interleave, the poller of the
\* current-match page runs at most one chain of cycles.
THEOREM OneChainAlways == FeedSpec => []OneChain
<1>1. FeedInit => ChainInv
  BY DEF FeedInit, ChainInv
<1>2. ChainInv => OneChain
  BY DEF ChainInv, OneChain
<1> QED
  BY <1>1, <1>2, ChainStep, PTL DEF FeedSpec

-----------------------------------------------------------------------------
(* Ranks: in a strict order of a finite set every place is taken once.      *)

StrictOrder(S, R) ==
  /\ \A i \in S : <<i, i>> \notin R
  /\ \A i, j \in S : i # j => <<i, j>> \in R \/ <<j, i>> \in R
  /\ \A i, j, k \in S : <<i, j>> \in R /\ <<j, k>> \in R => <<i, k>> \in R
Rank(S, R, i) == Cardinality({j \in S : <<j, i>> \in R})
Place(S, R, k) == CHOOSE i \in S : Rank(S, R, i) = k - 1

LEMMA RankRises ==
  ASSUME NEW S, IsFiniteSet(S), NEW R, StrictOrder(S, R), NEW i \in S
  PROVE  /\ Rank(S, R, i) \in Nat /\ Rank(S, R, i) < Cardinality(S)
         /\ \A j \in S : <<i, j>> \in R => Rank(S, R, i) < Rank(S, R, j)
<1> DEFINE below(j) == {k \in S : <<k, j>> \in R}
<1>1. \A j \in S : IsFiniteSet(below(j)) /\ Cardinality(below(j)) \in Nat
  BY FS_Subset, FS_CardinalityType
<1>2. i \notin below(i)
  BY DEF StrictOrder
<1>3. ASSUME NEW T, IsFiniteSet(T), below(i) \subseteq T, i \in T
      PROVE  Cardinality(below(i)) < Cardinality(T)
  <2>1. below(i) # T
    BY <1>2, <1>3
  <2>2. Cardinality(T) \in Nat
    BY <1>3, FS_CardinalityType
  <2> HIDE DEF below
  <2>3. Cardinality(below(i)) <= Cardinality(T) /\ Cardinality(below(i)) # Cardinality(T)
    BY <1>3, <2>1, FS_Subset
  <2> QED
    BY <1>1, <2>2, <2>3
<1>4. Cardinality(below(i)) < Cardinality(S)
  BY <1>3
<1>5. ASSUME NEW j \in S, <<i, j>> \in R
      PROVE  Cardinality(below(i)) < Cardinality(below(j))
  <2>1. below(i) \subseteq below(j) /\ i \in below(j)
    BY <1>5 DEF StrictOrder
  <2> QED
    BY <1>1, <1>3, <2>1
<1> QED
  BY <1>1, <1>4, <1>5 DEF Rank

LEMMA RanksAreTaken ==
  ASSUME NEW S, IsFiniteSet(S), NEW R, StrictOrder(S, R)
  PROVE  \A k \in 1..Cardinality(S) : \E i \in S : Rank(S, R, i) = k - 1
<1> DEFINE n == Cardinality(S)
           rank == [i \in S |-> Rank(S, R, i)]
<1>1. n \in Nat
  BY FS_CardinalityType
<1>2. IsFiniteSet(0..(n - 1)) /\ Cardinality(0..(n - 1)) = n
  BY <1>1, FS_Interval
<1>3. \A i \in S : Rank(S, R, i) \in Nat /\ Rank(S, R, i) < n
  BY RankRises
<1> HIDE DEF n
<1>4. rank \in [S -> 0..(n - 1)]
  BY <1>1, <1>3
<1>5. ASSUME NEW i \in S, NEW j \in S, rank[i] = rank[j]
      PROVE  i = j
  <2>1. <<i, j>> \in R => Rank(S, R, i) < Rank(S, R, j)
    BY RankRises
  <2>2. <<j, i>> \in R => Rank(S, R, j) < Rank(S, R, i)
    BY RankRises
  <2>3. Rank(S, R, i) = Rank(S, R, j)
    BY <1>5
  <2>4. <<i, j>> \notin R /\ <<j, i>> \notin R
    BY <1>3, <2>1, <2>2, <2>3
  <2> QED
    BY <2>4 DEF StrictOrder
<1>6. rank \in Injection(S, 0..(n - 1))
  BY <1>4, <1>5 DEF Injection, IsInjective
<1> HIDE DEF rank
<1>7. rank \in Surjection(S, 0..(n - 1))
  BY <1>2, <1>6, FS_Injection DEF n
<1>8. \A k \in 0..(n - 1) : \E i \in S : rank[i] = k
  BY <1>7 DEF Surjection
<1>9. \A k \in 1..n : k - 1 \in 0..(n - 1)
  BY <1>1
<1> QED
  BY <1>8, <1>9 DEF rank, n

\* The places are a permutation of the set, in its order.
LEMMA Places ==
  ASSUME NEW S, IsFiniteSet(S), NEW R, StrictOrder(S, R)
  PROVE  /\ Cardinality(S) \in Nat
         /\ \A k \in 1..Cardinality(S) : Place(S, R, k) \in S
         /\ \A i \in S : \E k \in 1..Cardinality(S) : i = Place(S, R, k)
         /\ \A k, l \in 1..Cardinality(S) :
              k < l => <<Place(S, R, k), Place(S, R, l)>> \in R
         /\ \A k, l \in 1..Cardinality(S) : k # l => Place(S, R, k) # Place(S, R, l)
<1> DEFINE n == Cardinality(S)
<1>1. n \in Nat
  BY FS_CardinalityType
<1> HIDE DEF n
<1>2. \A k \in 1..n : Place(S, R, k) \in S /\ Rank(S, R, Place(S, R, k)) = k - 1
  BY RanksAreTaken DEF Place, n
<1>3. \A i, j \in S : <<i, j>> \in R => Rank(S, R, i) < Rank(S, R, j)
  BY RankRises
<1>4. \A i \in S : Rank(S, R, i) \in Nat /\ Rank(S, R, i) < n
  BY RankRises DEF n
<1>5. ASSUME NEW i \in S, NEW j \in S, Rank(S, R, i) = Rank(S, R, j)
      PROVE  i = j
  <2>1. <<i, j>> \notin R /\ <<j, i>> \notin R
    BY <1>3, <1>4, <1>5
  <2> QED
    BY <2>1 DEF StrictOrder
<1>6. ASSUME NEW i \in S
      PROVE  \E k \in 1..n : i = Place(S, R, k)
  <2> DEFINE k == Rank(S, R, i) + 1
  <2>1. k \in 1..n /\ Rank(S, R, i) = k - 1
    BY <1>1, <1>4
  <2> HIDE DEF k
  <2>2. i = Place(S, R, k)
    BY <1>2, <1>5, <2>1
  <2> QED
    BY <2>1, <2>2
<1>7. ASSUME NEW k \in 1..n, NEW l \in 1..n, k < l
      PROVE  <<Place(S, R, k), Place(S, R, l)>> \in R /\ Place(S, R, k) # Place(S, R, l)
  <2> DEFINE i == Place(S, R, k)
             j == Place(S, R, l)
  <2>1. i \in S /\ j \in S /\ Rank(S, R, i) = k - 1 /\ Rank(S, R, j) = l - 1
    BY <1>2
  <2> HIDE DEF i, j
  <2>2. i # j
    BY <1>1, <1>7, <2>1
  <2>3. <<j, i>> \notin R
    BY <1>1, <1>3, <1>7, <2>1
  <2>4. <<i, j>> \in R
    BY <2>1, <2>2, <2>3 DEF StrictOrder
  <2> QED
    BY <2>2, <2>4 DEF i, j
<1>8. \A k, l \in 1..n : k # l => Place(S, R, k) # Place(S, R, l)
  <2> SUFFICES ASSUME NEW k \in 1..n, NEW l \in 1..n, k # l
               PROVE  Place(S, R, k) # Place(S, R, l)
    OBVIOUS
  <2>1. k < l \/ l < k
    BY <1>1
  <2> QED
    BY <1>7, <2>1
<1> QED
  BY <1>1, <1>2, <1>6, <1>7, <1>8 DEF n

-----------------------------------------------------------------------------
(* Rising, and the window of a match.                                      *)

LEMMA RisingRises ==
  ASSUME NEW n \in Nat, NEW S \in SUBSET (1..n)
  PROVE  /\ Rising(S) \in Seq(S) /\ Len(Rising(S)) = Cardinality(S) /\ Cardinality(S) \in Nat
         /\ \A k, l \in DOMAIN Rising(S) : k < l => Rising(S)[k] < Rising(S)[l]
         /\ \A i \in S : \E k \in DOMAIN Rising(S) : i = Rising(S)[k]
<1> DEFINE R == {p \in S \X S : p[1] < p[2]}
<1>1. IsFiniteSet(S)
  <2>1. IsFiniteSet(1..n)
    BY FS_Interval
  <2> QED
    BY <2>1, FS_Subset
<1>2. \A i, j \in S : <<i, j>> \in R <=> i < j
  OBVIOUS
<1>3. \A i \in S : {j \in S : <<j, i>> \in R} = {j \in S : j < i}
  BY <1>2
<1> HIDE DEF R
<1>4. StrictOrder(S, R)
  BY <1>2 DEF StrictOrder
<1>5. \A k : Place(S, R, k) = CHOOSE i \in S : Cardinality({j \in S : j < i}) = k - 1
  BY <1>3 DEF Place, Rank
<1>6. /\ DOMAIN Rising(S) = 1..Cardinality(S)
      /\ Rising(S) = [k \in 1..Cardinality(S) |-> Rising(S)[k]]
      /\ \A k \in 1..Cardinality(S) : Rising(S)[k] = Place(S, R, k)
  <2>1. Rising(S) = [k \in 1..Cardinality(S) |->
                       CHOOSE i \in S : Cardinality({j \in S : j < i}) = k - 1]
    BY DEF Rising
  <2> QED
    BY <1>5, <2>1, Zenon
<1>7. /\ Cardinality(S) \in Nat
      /\ \A k \in 1..Cardinality(S) : Place(S, R, k) \in S
      /\ \A i \in S : \E k \in 1..Cardinality(S) : i = Place(S, R, k)
      /\ \A k, l \in 1..Cardinality(S) : k < l => <<Place(S, R, k), Place(S, R, l)>> \in R
  BY <1>1, <1>4, Places
<1>8. Rising(S) \in Seq(S) /\ Len(Rising(S)) = Cardinality(S)
  BY <1>6, <1>7
<1>9. ASSUME NEW k \in DOMAIN Rising(S), NEW l \in DOMAIN Rising(S), k < l
      PROVE  Rising(S)[k] < Rising(S)[l]
  <2>1. Place(S, R, k) \in S /\ Place(S, R, l) \in S
        /\ <<Place(S, R, k), Place(S, R, l)>> \in R
    BY <1>6, <1>7, <1>9
  <2> QED
    BY <1>2, <1>6, <2>1
<1>10. \A i \in S : \E k \in DOMAIN Rising(S) : i = Rising(S)[k]
  BY <1>6, <1>7
<1> QED
  BY <1>7, <1>8, <1>9, <1>10

LEMMA RisingInterval ==
  ASSUME NEW a \in Nat \ {0}, NEW b \in Nat, a <= b
  PROVE  Rising(a..b) = [k \in 1..(b - a + 1) |-> a + k - 1]
<1>1. Cardinality(a..b) = b - a + 1
  BY FS_Interval
<1>2. ASSUME NEW i \in a..b
      PROVE  Cardinality({j \in a..b : j < i}) = i - a
  <2>1. {j \in a..b : j < i} = a..(i - 1)
    OBVIOUS
  <2>2. Cardinality(a..(i - 1)) = i - a
    BY FS_Interval
  <2> QED
    BY <2>1, <2>2
<1>3. ASSUME NEW k \in 1..(b - a + 1)
      PROVE  (CHOOSE i \in a..b : Cardinality({j \in a..b : j < i}) = k - 1) = a + k - 1
  <2>1. ASSUME NEW i \in a..b
        PROVE  Cardinality({j \in a..b : j < i}) = k - 1 <=> i = a + k - 1
    <3>1. Cardinality({j \in a..b : j < i}) = i - a
      BY <1>2
    <3> QED
      BY <3>1
  <2>2. a + k - 1 \in a..b
    OBVIOUS
  <2> QED
    BY <2>1, <2>2
<1> QED
  BY <1>1, <1>3 DEF Rising

-----------------------------------------------------------------------------
(* What holds of the backend's log, of its snapshots and of the client.    *)

LogFits ==
  /\ log \in Seq([match : 1..MaxMatch, sec : 0..MaxSec]) /\ Len(log) <= MaxKills
  /\ \A i, j \in DOMAIN log :
       i <= j => log[i].match <= log[j].match /\ log[i].sec <= log[j].sec
  /\ match \in 1..MaxMatch /\ kind \in Kind
  /\ \A i \in DOMAIN log : log[i].match <= match

\* A snapshot holds consecutive kills of its match, and every one up to the last
\* but when it is truncated and full.
SnapFits(s) ==
  /\ s \in [match : 1..MaxMatch, kind : Kind, kills : Seq(Kills), truncated : BOOLEAN]
  /\ Len(s.kills) <= Window
  /\ \A k \in DOMAIN s.kills :
       /\ s.kills[k] = s.kills[1] + k - 1
       /\ s.kills[k] \in DOMAIN log /\ log[s.kills[k]].match = s.match
  /\ s.kills # <<>> /\ (Len(s.kills) < Window \/ ~s.truncated) =>
       \A i \in DOMAIN log : log[i].match = s.match => s.kills[1] <= i

\* Entries of kills of match m, each once, with no hole.
Fits(es, m) ==
  /\ es \in Seq(Entry)
  /\ \A k, l \in DOMAIN es : es[k].id = es[l].id => k = l
  /\ \A i \in Ids(es) : i \in DOMAIN log /\ log[i].match = m
  /\ \A i, j \in Ids(es) : \A k \in i..j :
       log[k].match = m => k \in Ids(es) \/ log[k].sec = log[i].sec

\* The entry at t is of the newest kill, and the last in the sort's order.
NewestAt(es, t) ==
  \A k \in DOMAIN es : es[k].id <= es[t].id /\ (k # t => Before(es, k, t))

DrawnFeed(es, m) ==
  /\ Fits(es, m) /\ Len(es) <= KillLimit
  /\ es # <<>> => NewestAt(es, Len(es))

\* Nothing the client knows of the match is newer than the snapshot.
Fresh(s) ==
  s.kills # <<>> /\ s.match = client.match => \A i \in Ids(client.known) : i <= Last(s.kills)

KeptFits == kept # NoSnapshot => SnapFits(kept) /\ Fresh(kept)
AnswerIsKept == cycle = "answered" => response = kept /\ kept # NoSnapshot
ClientFits ==
  /\ client.match \in 0..MaxMatch /\ DrawnFeed(client.known, client.match)
  /\ client.cursor = IF client.known = <<>> THEN 0 ELSE Last(client.known).id
ShownFits == shown \in Seq(Entry) /\ Len(shown) <= KillLimit
StartsFit == starts \in 0..MaxStarts /\ (starts = 0 => stopped)

FeedInv ==
  LogFits /\ KeptFits /\ AnswerIsKept /\ ClientFits /\ ShownFits /\ StartsFit

LEMMA SeqElements ==
  ASSUME NEW S, NEW q \in Seq(S)
  PROVE  \A k \in DOMAIN q : q[k] \in S
OBVIOUS

LEMMA LogTypes ==
  ASSUME LogFits
  PROVE  /\ Len(log) \in Nat /\ DOMAIN log = 1..Len(log)
         /\ \A k \in DOMAIN log : log[k].match \in Nat /\ log[k].sec \in Nat
<1>1. log \in Seq([match : 1..MaxMatch, sec : 0..MaxSec])
  BY DEF LogFits
<1>2. \A k \in DOMAIN log : log[k] \in [match : 1..MaxMatch, sec : 0..MaxSec]
  BY <1>1, SeqElements
<1> QED
  BY <1>1, <1>2, SFAssumption

\* The kills of a match are consecutive, and the window ends with the newest.
LEMMA LoggedTogether ==
  ASSUME LogFits, NEW m \in Nat, NEW i \in Logged(m, Len(log)), NEW j \in Logged(m, Len(log))
  PROVE  i..j \subseteq Logged(m, Len(log))
<1> SUFFICES ASSUME NEW k \in i..j PROVE k \in 1..Len(log) /\ log[k].match = m
  BY DEF Logged
<1>1. Len(log) \in Nat /\ DOMAIN log = 1..Len(log)
  BY DEF LogFits
<1>2. i \in 1..Len(log) /\ j \in 1..Len(log) /\ log[i].match = m /\ log[j].match = m
  BY DEF Logged
<1>3. k \in 1..Len(log) /\ i <= k /\ k <= j
  BY <1>1, <1>2
<1>4. log[i].match <= log[k].match /\ log[k].match <= log[j].match
  BY <1>1, <1>2, <1>3 DEF LogFits
<1>5. log[k].match \in Nat
  BY <1>1, <1>3, LogTypes
<1> QED
  BY <1>2, <1>3, <1>4, <1>5

LEMMA WindowEndsLog ==
  ASSUME LogFits, NEW m \in Nat, Logged(m, Len(log)) # {}
  PROVE  \E a, lo, b \in 1..Len(log) :
           /\ Logged(m, Len(log)) = a..b /\ a <= lo /\ lo <= b
           /\ WindowOf(m, Len(log)) = [k \in 1..(b - lo + 1) |-> lo + k - 1]
           /\ b - lo + 1 <= Window
           /\ b - lo + 1 < Window \/ Cardinality(a..b) <= Window => lo = a
<1> DEFINE n == Len(log)
           L == Logged(m, n)
           r == Rising(L)
<1>1. n \in Nat /\ L \in SUBSET (1..n) /\ L # {}
  BY DEF LogFits, Logged
<1> HIDE DEF n, L
<1>0. \A i \in L : i \in Int
  BY <1>1
<1>2. /\ r \in Seq(L) /\ Len(r) = Cardinality(L) /\ Cardinality(L) \in Nat
      /\ \A k, l \in DOMAIN r : k < l => r[k] < r[l]
      /\ \A i \in L : \E k \in DOMAIN r : i = r[k]
  BY <1>1, RisingRises
<1> DEFINE a == r[1]
           b == r[Len(r)]
<1> HIDE DEF r
<1>3. Len(r) \in Nat \ {0} /\ DOMAIN r = 1..Len(r)
  <2>1. Len(r) \in Nat /\ DOMAIN r = 1..Len(r)
    BY <1>2
  <2>2. PICK i \in L : TRUE
    BY <1>1
  <2>3. PICK k \in 1..Len(r) : i = r[k]
    BY <1>2, <2>1
  <2> QED
    BY <2>1, <2>3
<1>4. a \in L /\ b \in L
  BY <1>2, <1>3
<1>5. ASSUME NEW i \in L
      PROVE  a <= i /\ i <= b
  <2>1. PICK k \in 1..Len(r) : i = r[k]
    BY <1>2, <1>3
  <2>2. k = 1 \/ a < i
    BY <1>2, <1>3, <2>1
  <2>3. k = Len(r) \/ i < b
    BY <1>2, <1>3, <2>1
  <2>4. i \in Int /\ a \in Int /\ b \in Int
    BY <1>0, <1>4, Zenon
  <2>5. (k = 1 => i = a) /\ (k = Len(r) => i = b)
    BY <2>1
  <2> HIDE DEF a, b
  <2> QED
    BY <2>2, <2>3, <2>4, <2>5
<1> HIDE DEF a, b
<1>6. L = a..b
  <2>1. a..b \subseteq L
    BY <1>4, LoggedTogether DEF L, n
  <2>2. \A i \in L : i \in Int /\ a <= i /\ i <= b
    BY <1>0, <1>5, Zenon
  <2>3. L \subseteq a..b
    BY <2>2
  <2> QED
    BY <2>1, <2>3, Zenon
<1>7. a \in 1..n /\ b \in 1..n /\ a <= b
  BY <1>1, <1>4, <1>5
<1>8. Window \in Nat \ {0}
  BY SFAssumption
<1> DEFINE lo == IF b - a + 1 > Window THEN b - Window + 1 ELSE a
<1>9. /\ lo \in 1..n /\ a <= lo /\ lo <= b /\ b - lo + 1 <= Window
      /\ b - lo + 1 < Window \/ b - a + 1 <= Window => lo = a
      /\ \A i \in a..b : b - i < Window <=> lo <= i
  BY <1>1, <1>7, <1>8
<1> HIDE DEF lo
<1>10. ASSUME NEW i \in a..b
       PROVE  Cardinality({j \in L : j > i}) = b - i
  <2>1. a \in Int /\ b \in Int /\ i \in Int /\ a <= i /\ i <= b
    BY <1>7
  <2>2. {j \in L : j > i} = (i + 1)..b
    BY <1>6, <2>1
  <2>3. Cardinality((i + 1)..b) = IF i + 1 > b THEN 0 ELSE b - (i + 1) + 1
    BY <2>1, FS_Interval
  <2>4. Cardinality((i + 1)..b) = b - i
    BY <2>1, <2>3
  <2> QED
    BY <2>2, <2>4
<1>11. {i \in L : Cardinality({j \in L : j > i}) < Window} = lo..b
  <2>1. \A i \in a..b : Cardinality({j \in L : j > i}) < Window <=> lo <= i
    BY <1>9, <1>10
  <2>2. {i \in L : Cardinality({j \in L : j > i}) < Window} = {i \in a..b : lo <= i}
    BY <1>6, <2>1
  <2>3. {i \in a..b : lo <= i} = lo..b
    BY <1>7, <1>9
  <2> QED
    BY <2>2, <2>3
<1>12. WindowOf(m, n) = Rising(lo..b)
  BY <1>11 DEF WindowOf, L
<1>13. Rising(lo..b) = [k \in 1..(b - lo + 1) |-> lo + k - 1]
  BY <1>7, <1>9, RisingInterval
<1>14. Cardinality(a..b) = b - a + 1
  BY <1>7, FS_Interval
<1>15. /\ L = a..b /\ WindowOf(m, n) = [k \in 1..(b - lo + 1) |-> lo + k - 1]
       /\ b - lo + 1 < Window \/ Cardinality(a..b) <= Window => lo = a
  BY <1>6, <1>9, <1>12, <1>13, <1>14
<1>16. a \in 1..n /\ lo \in 1..n /\ b \in 1..n /\ a <= lo /\ lo <= b /\ b - lo + 1 <= Window
  BY <1>7, <1>9
<1> QED
  BY <1>15, <1>16 DEF L, n

\* What the backend reads now fits its log, and it is never older than what the
\* client knows.
LEMMA CurrentFits ==
  ASSUME LogFits, DrawnFeed(client.known, client.match)
  PROVE  SnapFits(Current) /\ Fresh(Current)
<1> DEFINE L == Logged(match, Len(log))
<1>1. match \in Nat /\ Len(log) \in Nat /\ DOMAIN log = 1..Len(log) /\ Len(log) <= MaxKills
  BY SFAssumption DEF LogFits
<1>2. Current = [match |-> match, kind |-> kind, kills |-> WindowOf(match, Len(log)),
                 truncated |-> Cardinality(L) > Window]
  BY DEF Current
<1>3. \A i : i \in L <=> i \in DOMAIN log /\ log[i].match = match
  BY <1>1 DEF Logged
<1>4. \A i \in Ids(client.known) : i \in DOMAIN log /\ log[i].match = client.match
  BY DEF DrawnFeed, Fits
<1>5. Window \in Nat \ {0}
  BY SFAssumption
<1>6. match \in 1..MaxMatch /\ kind \in Kind
  BY DEF LogFits
<1>7. CASE L = {}
  <2>1. {i \in L : Cardinality({j \in L : j > i}) < Window} = {}
    BY <1>7
  <2>2. WindowOf(match, Len(log)) = Rising({})
    BY <2>1 DEF WindowOf
  <2>3. Rising({}) = <<>>
    BY FS_EmptySet DEF Rising
  <2>4. Current.kills = <<>>
    BY <1>2, <2>2, <2>3
  <2>5. Current \in [match : 1..MaxMatch, kind : Kind, kills : Seq(Kills), truncated : BOOLEAN]
    <3>1. <<>> \in Seq(Kills)
      OBVIOUS
    <3>2. WindowOf(match, Len(log)) \in Seq(Kills)
      BY <2>2, <2>3, <3>1
    <3> HIDE DEF L
    <3> QED
      BY <1>2, <1>6, <3>2
  <2> QED
    BY <1>5, <2>4, <2>5 DEF SnapFits, Fresh
<1>8. CASE L # {}
  <2>1. PICK a, lo, b \in 1..Len(log) :
           /\ L = a..b /\ a <= lo /\ lo <= b
           /\ WindowOf(match, Len(log)) = [k \in 1..(b - lo + 1) |-> lo + k - 1]
           /\ b - lo + 1 <= Window
           /\ b - lo + 1 < Window \/ Cardinality(a..b) <= Window => lo = a
    BY <1>1, <1>8, WindowEndsLog
  <2> DEFINE w == [k \in 1..(b - lo + 1) |-> lo + k - 1]
  <2>2. /\ w \in Seq(Kills) /\ Len(w) = b - lo + 1 /\ DOMAIN w = 1..(b - lo + 1)
        /\ \A k \in DOMAIN w : w[k] = lo + k - 1
    BY <1>1, <2>1, SFAssumption DEF Kills
  <2>3. Cardinality(a..b) \in Nat
    <3>1. a \in Int /\ b \in Int /\ a <= b
      BY <1>1, <2>1
    <3> QED
      BY <3>1, FS_Interval
  <2>4. /\ Current.match = match /\ Current.kills = w
        /\ Current.truncated = (Cardinality(a..b) > Window)
    BY <1>2, <2>1
  <2>5. Current \in [match : 1..MaxMatch, kind : Kind, kills : Seq(Kills), truncated : BOOLEAN]
    BY <1>2, <1>6, <2>1, <2>2
  <2> HIDE DEF w, L
  <2>6. w[1] = lo /\ w[Len(w)] = b /\ Last(w) = b /\ w # <<>>
    <3>1. lo \in Int /\ b \in Int /\ lo <= b
      BY <1>1, <2>1
    <3>2. 1 \in DOMAIN w /\ Len(w) \in DOMAIN w /\ Len(w) = b - lo + 1
      BY <2>2, <3>1
    <3>3. w[1] = lo /\ w[Len(w)] = b
      BY <2>2, <3>1, <3>2
    <3> QED
      BY <3>2, <3>3 DEF Last
  <2>7. \A k \in DOMAIN w : w[k] \in a..b
    BY <2>1, <2>2
  <2>8. \A i \in DOMAIN log : log[i].match = match => a <= i /\ i <= b
    BY <1>3, <2>1
  <2>9. SnapFits(Current)
    <3>1. Len(w) <= Window
      BY <2>1, <2>2
    <3>2. \A k \in DOMAIN w : w[k] = w[1] + k - 1
                              /\ w[k] \in DOMAIN log /\ log[w[k]].match = match
      BY <1>3, <2>1, <2>2, <2>6, <2>7
    <3>3. Len(w) < Window \/ ~Current.truncated => lo = a
      <4>1. Current.truncated <=> Cardinality(a..b) > Window
        BY <2>4
      <4>2. ~Current.truncated => Cardinality(a..b) <= Window
        BY <1>5, <2>3, <4>1
      <4> QED
        BY <2>1, <2>2, <4>2
    <3> QED
      BY <2>4, <2>5, <2>6, <2>8, <3>1, <3>2, <3>3 DEF SnapFits
  <2>10. Fresh(Current)
    BY <1>4, <2>4, <2>6, <2>8 DEF Fresh
  <2> QED
    BY <2>9, <2>10
<1> QED
  BY <1>7, <1>8

-----------------------------------------------------------------------------
(* The sort, and the cut to the newest entries.                            *)

Weight(e) == log[e.id].sec * Window + e.order

LEMMA EarlierWeighsLess ==
  ASSUME NEW w \in Nat, NEW a \in Nat, NEW b \in Nat, NEW o \in 0..(w - 1), NEW p \in 0..(w - 1),
         a < b
  PROVE  a * w + o < b * w + p
<1>1. PICK d \in Nat : b = a + 1 + d
  <2>1. b - a - 1 \in Nat /\ b = a + 1 + (b - a - 1)
    OBVIOUS
  <2> QED
    BY <2>1
<1>2. b * w = a * w + w + d * w
  BY <1>1
<1>3. a * w \in Nat /\ d * w \in Nat /\ b * w \in Nat
  BY <1>1
<1> QED
  BY <1>2, <1>3

LEMMA IntervalSize ==
  ASSUME NEW n \in Nat
  PROVE  IsFiniteSet(1..n) /\ Cardinality(1..n) = n
<1>1. IsFiniteSet(1..n) /\ Cardinality(1..n) = IF 1 > n THEN 0 ELSE n - 1 + 1
  BY FS_Interval
<1> QED
  BY <1>1

LEMMA WeightsFollow ==
  ASSUME LogFits, NEW e \in Entry, NEW f \in Entry, e.id \in DOMAIN log, f.id \in DOMAIN log
  PROVE  /\ Weight(e) \in Nat /\ Weight(f) \in Nat
         /\ Weight(e) <= Weight(f) => log[e.id].sec <= log[f.id].sec
         /\ log[e.id].sec < log[f.id].sec => Weight(e) < Weight(f)
         /\ log[e.id].sec = log[f.id].sec /\ e.order <= f.order => Weight(e) <= Weight(f)
<1> DEFINE a == log[e.id].sec
           b == log[f.id].sec
<1>1. a \in Nat /\ b \in Nat
  BY LogTypes
<1>2. Window \in Nat /\ e.order \in 0..(Window - 1) /\ f.order \in 0..(Window - 1)
  BY SFAssumption DEF Entry
<1>3. Weight(e) = a * Window + e.order /\ Weight(f) = b * Window + f.order
  BY DEF Weight
<1> HIDE DEF a, b
<1>4. (a < b => Weight(e) < Weight(f)) /\ (b < a => Weight(f) < Weight(e))
  BY <1>1, <1>2, <1>3, EarlierWeighsLess
<1>5. a * Window \in Nat /\ b * Window \in Nat /\ (a = b => a * Window = b * Window)
  BY <1>1, <1>2
<1>6. Weight(e) \in Nat /\ Weight(f) \in Nat
  BY <1>2, <1>3, <1>5
<1>7. a = b /\ e.order <= f.order => Weight(e) <= Weight(f)
  BY <1>2, <1>3, <1>5
<1>8. Weight(e) <= Weight(f) => a <= b
  BY <1>1, <1>4, <1>6
<1> QED
  BY <1>4, <1>6, <1>7, <1>8 DEF a, b

LEMMA BeforeByWeight ==
  ASSUME NEW es, NEW j, NEW k
  PROVE  Before(es, j, k) <=> \/ Weight(es[j]) < Weight(es[k])
                              \/ Weight(es[j]) = Weight(es[k]) /\ j < k
BY DEF Before, Weight

\* Sorting permutes the entries into the order of Before.
LEMMA SortedSorts ==
  ASSUME LogFits, NEW es \in Seq(Entry), \A i \in Ids(es) : i \in DOMAIN log
  PROVE  \E p \in [1..Len(es) -> 1..Len(es)] :
           /\ Sorted(es) = [n \in 1..Len(es) |-> es[p[n]]]
           /\ \A k \in 1..Len(es) : \E n \in 1..Len(es) : p[n] = k
           /\ \A m, n \in 1..Len(es) : m < n => Before(es, p[m], p[n]) /\ p[m] # p[n]
<1> DEFINE D == DOMAIN es
           R == {q \in D \X D : Before(es, q[1], q[2])}
<1>1. Len(es) \in Nat /\ D = 1..Len(es) /\ (\A k \in D : es[k] \in Entry)
  BY SeqElements
<1>2. \A k \in D : es[k].id \in DOMAIN log
  BY DEF Ids
<1>3. \A j, k \in D : <<j, k>> \in R <=> Before(es, j, k)
  OBVIOUS
<1>4. \A k \in D : {j \in D : <<j, k>> \in R} = {j \in D : Before(es, j, k)}
  BY <1>3
<1> HIDE DEF R, D
<1>5. StrictOrder(D, R)
  <2>1. \A k \in D : Weight(es[k]) \in Nat /\ k \in Nat
    BY <1>1, <1>2, WeightsFollow
  <2>2. \A j, k \in D : <<j, k>> \in R <=> \/ Weight(es[j]) < Weight(es[k])
                                           \/ Weight(es[j]) = Weight(es[k]) /\ j < k
    BY <1>3, BeforeByWeight
  <2> QED
    BY <2>1, <2>2 DEF StrictOrder
<1>6. IsFiniteSet(D) /\ 1..Cardinality(D) = D
  <2>1. Cardinality(1..Len(es)) = Len(es) /\ IsFiniteSet(1..Len(es))
    BY <1>1, IntervalSize
  <2> QED
    BY <1>1, <2>1
<1>7. /\ \A n \in D : Place(D, R, n) \in D
      /\ \A k \in D : \E n \in D : k = Place(D, R, n)
      /\ \A m, n \in D : m < n => <<Place(D, R, m), Place(D, R, n)>> \in R
      /\ \A m, n \in D : m # n => Place(D, R, m) # Place(D, R, n)
  <2>1. /\ \A n \in 1..Cardinality(D) : Place(D, R, n) \in D
        /\ \A k \in D : \E n \in 1..Cardinality(D) : k = Place(D, R, n)
        /\ \A m, n \in 1..Cardinality(D) : m < n => <<Place(D, R, m), Place(D, R, n)>> \in R
        /\ \A m, n \in 1..Cardinality(D) : m # n => Place(D, R, m) # Place(D, R, n)
    BY <1>5, <1>6, Places
  <2> QED
    BY <1>6, <2>1
<1> DEFINE p == [n \in D |-> Place(D, R, n)]
<1>8. Sorted(es) = [n \in D |-> es[p[n]]]
  <2>1. \A n : Place(D, R, n)
               = CHOOSE k \in D : Cardinality({j \in D : Before(es, j, k)}) = n - 1
    BY <1>4 DEF Place, Rank
  <2>2. Sorted(es) = [n \in D |->
          es[CHOOSE k \in D : Cardinality({j \in D : Before(es, j, k)}) = n - 1]]
    BY DEF Sorted, D
  <2>3. Sorted(es) = [n \in D |-> es[Place(D, R, n)]]
    BY <2>1, <2>2, Zenon
  <2>4. \A n \in D : p[n] = Place(D, R, n)
    OBVIOUS
  <2> HIDE DEF p
  <2> QED
    BY <2>3, <2>4, Zenon
<1>9. \A n \in D : p[n] = Place(D, R, n)
  OBVIOUS
<1>10. p \in [D -> D]
  BY <1>7
<1> HIDE DEF p
<1>11. \A k \in D : \E n \in D : p[n] = k
  BY <1>7, <1>9
<1>12. \A m, n \in D : m < n => Before(es, p[m], p[n]) /\ p[m] # p[n]
  <2> SUFFICES ASSUME NEW m \in D, NEW n \in D, m < n
               PROVE  Before(es, p[m], p[n]) /\ p[m] # p[n]
    OBVIOUS
  <2>1. m # n
    BY <1>1
  <2> QED
    BY <1>3, <1>7, <1>9, <1>10, <2>1
<1> QED
  BY <1>1, <1>8, <1>10, <1>11, <1>12

LEMMA SubSeqIs ==
  ASSUME NEW S, NEW s \in Seq(S), NEW d \in 0..Len(s)
  PROVE  /\ SubSeq(s, d + 1, Len(s)) \in Seq(S) /\ Len(SubSeq(s, d + 1, Len(s))) = Len(s) - d
         /\ \A k \in 1..(Len(s) - d) : SubSeq(s, d + 1, Len(s))[k] = s[d + k]
OBVIOUS

\* Of entries that fit, with the newest kill last in the sort's order, the page
\* keeps entries that fit and end with that kill.
LEMMA NewestSorted ==
  ASSUME LogFits, NEW m, NEW es, Fits(es, m),
         es # <<>> => \E t \in DOMAIN es : NewestAt(es, t)
  PROVE  /\ DrawnFeed(Newest(Sorted(es)), m)
         /\ Ids(Newest(Sorted(es))) \subseteq Ids(es)
<1> DEFINE n == Len(es)
           d == IF n > KillLimit THEN n - KillLimit ELSE 0
           q == Newest(Sorted(es))
<1>1. /\ es \in Seq(Entry) /\ n \in Nat /\ DOMAIN es = 1..n
      /\ \A k \in 1..n : es[k] \in Entry /\ es[k].id \in Ids(es)
                         /\ es[k].id \in DOMAIN log /\ log[es[k].id].match = m
      /\ \A i \in Ids(es) : i \in DOMAIN log
      /\ \A i \in Ids(es) : \E k \in 1..n : i = es[k].id
  BY SeqElements DEF Fits, Ids
<1>2. PICK p \in [1..n -> 1..n] :
        /\ Sorted(es) = [k \in 1..n |-> es[p[k]]]
        /\ \A k \in 1..n : \E l \in 1..n : p[l] = k
        /\ \A k, l \in 1..n : k < l => Before(es, p[k], p[l]) /\ p[k] # p[l]
  BY <1>1, SortedSorts
<1>3. KillLimit \in Nat \ {0}
  BY SFAssumption
<1> HIDE DEF n
<1>4. d \in Nat /\ d <= n /\ n - d <= KillLimit /\ (n > 0 => d < n)
  BY <1>1, <1>3
<1>5. Sorted(es) \in Seq(Entry) /\ Len(Sorted(es)) = n
      /\ \A k \in 1..n : Sorted(es)[k] = es[p[k]]
  <2>1. \A k \in 1..n : es[p[k]] \in Entry
    BY <1>1, <1>2
  <2> QED
    BY <1>1, <1>2, <2>1
<1>6. q = SubSeq(Sorted(es), d + 1, n)
  <2>1. q = SubSeq(Sorted(es), IF n > KillLimit THEN n - KillLimit + 1 ELSE 1, n)
    BY <1>5 DEF Newest
  <2>2. (IF n > KillLimit THEN n - KillLimit + 1 ELSE 1) = d + 1
    BY <1>1, <1>3
  <2> QED
    BY <2>1, <2>2
<1> HIDE DEF d, q
<1>7. /\ q \in Seq(Entry) /\ Len(q) = n - d /\ DOMAIN q = 1..(n - d)
      /\ \A k \in 1..(n - d) : d + k \in 1..n /\ q[k] = es[p[d + k]] /\ p[d + k] \in 1..n
  <2>1. d \in 0..n /\ n \in Nat /\ n - d \in Nat
    BY <1>1, <1>4
  <2>2. q \in Seq(Entry) /\ Len(q) = n - d /\ \A k \in 1..(n - d) : q[k] = Sorted(es)[d + k]
    BY <1>5, <1>6, <2>1, SubSeqIs
  <2>3. \A k \in 1..(n - d) : d + k \in 1..n
    BY <1>1, <1>4
  <2>4. DOMAIN q = 1..(n - d)
    BY <2>2
  <2>5. \A k \in 1..(n - d) : q[k] = es[p[d + k]] /\ p[d + k] \in 1..n
    BY <1>2, <1>5, <2>2, <2>3
  <2> QED
    BY <2>2, <2>3, <2>4, <2>5
<1>0. \A k \in 1..n : Weight(es[k]) \in Nat
  BY <1>1, WeightsFollow
<1>8. ASSUME NEW j \in 1..n, NEW k \in 1..n, Before(es, j, k)
      PROVE  log[es[j].id].sec <= log[es[k].id].sec
  <2>1. Weight(es[j]) \in Nat /\ Weight(es[k]) \in Nat /\ Weight(es[j]) <= Weight(es[k])
    BY <1>0, <1>8, BeforeByWeight
  <2> QED
    BY <1>1, <2>1, WeightsFollow
<1>9. \A k \in DOMAIN q : q[k].id \in Ids(es)
  BY <1>1, <1>7
<1>10. Ids(q) \subseteq Ids(es)
  BY <1>9 DEF Ids
\* What is cut off comes before what is kept.
<1>11. ASSUME NEW i \in Ids(q), NEW k \in Ids(es), k \notin Ids(q)
       PROVE  log[k].sec <= log[i].sec
  <2>1. PICK a \in DOMAIN q : i = q[a].id
    BY DEF Ids
  <2>2. PICK b \in 1..n : k = es[b].id
    BY <1>1
  <2>3. PICK c \in 1..n : p[c] = b
    BY <1>2
  <2>4. c <= d
    <3> SUFFICES ASSUME c > d PROVE FALSE
      BY <1>4
    <3>1. c - d \in DOMAIN q /\ d + (c - d) = c
      BY <1>1, <1>4, <1>7
    <3>2. q[c - d] = es[b]
      BY <1>7, <2>3, <3>1
    <3> QED
      BY <1>11, <2>2, <3>1, <3>2 DEF Ids
  <2>5. d + a \in 1..n /\ c < d + a /\ q[a] = es[p[d + a]] /\ p[d + a] \in 1..n
    BY <1>4, <1>7, <2>1, <2>4
  <2>6. Before(es, b, p[d + a])
    BY <1>2, <2>3, <2>5
  <2> QED
    BY <1>8, <2>1, <2>2, <2>5, <2>6
<1>12. Fits(q, m)
  <2>1. ASSUME NEW k \in DOMAIN q, NEW l \in DOMAIN q, q[k].id = q[l].id
        PROVE  k = l
    <3>1. p[d + k] = p[d + l]
      BY <1>1, <1>7, <2>1 DEF Fits
    <3>2. ~(d + k < d + l) /\ ~(d + l < d + k)
      BY <1>2, <1>7, <3>1
    <3> QED
      BY <1>4, <1>7, <3>2
  <2>2. \A i \in Ids(q) : i \in DOMAIN log /\ log[i].match = m
    BY <1>10 DEF Fits
  <2>3. ASSUME NEW i \in Ids(q), NEW j \in Ids(q), NEW k \in i..j, log[k].match = m
        PROVE  k \in Ids(q) \/ log[k].sec = log[i].sec
    <3>1. i \in Ids(es) /\ j \in Ids(es)
      BY <1>10
    <3>2. k \in Ids(es) \/ log[k].sec = log[i].sec
      BY <2>3, <3>1 DEF Fits
    <3>3. i \in DOMAIN log /\ j \in DOMAIN log /\ DOMAIN log = 1..Len(log) /\ Len(log) \in Nat
      BY <1>1, <3>1, LogTypes
    <3>4. k \in DOMAIN log /\ i <= k
      BY <3>3
    <3>5. log[i].sec <= log[k].sec /\ log[i].sec \in Nat /\ log[k].sec \in Nat
      BY <3>3, <3>4, LogTypes DEF LogFits
    <3>6. k \in Ids(es) /\ k \notin Ids(q) => log[k].sec <= log[i].sec
      BY <1>11
    <3> QED
      BY <3>2, <3>5, <3>6
  <2> QED
    BY <1>7, <2>1, <2>2, <2>3 DEF Fits
<1>13. ASSUME q # <<>>
       PROVE  NewestAt(q, Len(q))
  <2>1. n - d \in 1..(n - d) /\ Len(q) = n - d /\ d + (n - d) = n /\ n \in 1..n
    BY <1>1, <1>4, <1>7, <1>13
  <2>2. PICK t \in 1..n : NewestAt(es, t)
    BY <1>1, <2>1
  <2>3. q[Len(q)] = es[p[n]] /\ p[n] \in 1..n
    BY <1>7, <2>1
  <2>4. p[n] = t
    <3>1. PICK c \in 1..n : p[c] = t
      BY <1>2
    <3>2. c < n => Before(es, t, p[n]) /\ p[n] # t
      BY <1>2, <2>1, <3>1
    <3>3. p[n] # t => Before(es, p[n], t)
      BY <1>1, <2>2, <2>3 DEF NewestAt
    <3>4. ~(Before(es, t, p[n]) /\ Before(es, p[n], t))
      <4>1. Weight(es[t]) \in Nat /\ Weight(es[p[n]]) \in Nat
        BY <1>0, <2>3
      <4> QED
        BY <2>3, <4>1, BeforeByWeight
    <3>5. c = n
      BY <1>1, <3>2, <3>3, <3>4
    <3> QED
      BY <3>1, <3>5
  <2>5. ASSUME NEW k \in DOMAIN q
        PROVE  q[k].id <= q[Len(q)].id /\ (k # Len(q) => Before(q, k, Len(q)))
    <3>1. d + k \in 1..n /\ q[k] = es[p[d + k]] /\ p[d + k] \in 1..n
      BY <1>7
    <3>2. q[k].id <= q[Len(q)].id
      BY <1>1, <2>2, <2>3, <2>4, <3>1 DEF NewestAt
    <3>3. CASE k # Len(q)
      <4>1. d + k < n /\ k < Len(q)
        BY <1>4, <1>7, <2>1, <3>3
      <4>2. Before(es, p[d + k], p[n])
        BY <1>2, <2>1, <3>1, <4>1
      <4>3. /\ Weight(es[p[d + k]]) \in Nat /\ Weight(es[p[n]]) \in Nat
            /\ Weight(es[p[d + k]]) <= Weight(es[p[n]])
        BY <1>0, <2>3, <3>1, <4>2, BeforeByWeight
      <4>4. Weight(q[k]) \in Nat /\ Weight(q[Len(q)]) \in Nat /\ Weight(q[k]) <= Weight(q[Len(q)])
        BY <2>3, <3>1, <4>3
      <4>5. Before(q, k, Len(q))
        BY <4>1, <4>4, BeforeByWeight
      <4> QED
        BY <3>2, <4>5
    <3> QED
      BY <3>2, <3>3
  <2> QED
    BY <2>5 DEF NewestAt
<1>14. Len(q) <= KillLimit
  BY <1>4, <1>7
<1> QED
  BY <1>10, <1>12, <1>13, <1>14 DEF DrawnFeed, q

-----------------------------------------------------------------------------
(* What a snapshot brings, alone or merged with what is known.             *)

LEMMA IncomingIs ==
  ASSUME NEW s, SnapFits(s)
  PROVE  LET w == Incoming(s) IN
         /\ w \in Seq(Entry) /\ Len(w) = Len(s.kills) /\ Len(w) <= Window
         /\ s.kills \in Seq(Kills)
         /\ \A k \in DOMAIN w : w[k].id = s.kills[k] /\ w[k].order = k - 1
         /\ \A k \in DOMAIN w : w[k].id = s.kills[1] + k - 1
         /\ \A k \in DOMAIN w : w[k].id \in DOMAIN log /\ log[w[k].id].match = s.match
         /\ s.kills # <<>> => Len(w) >= 1 /\ Last(s.kills) = w[Len(w)].id
                              /\ w[Len(w)].id = s.kills[1] + Len(w) - 1
<1> DEFINE w == Incoming(s)
<1>1. s.kills \in Seq(Kills) /\ Len(s.kills) \in Nat /\ DOMAIN s.kills = 1..Len(s.kills)
      /\ Len(s.kills) <= Window
  BY DEF SnapFits
<1>2. Window \in Nat /\ \A k \in 1..Len(s.kills) : s.kills[k] \in Kills
  BY <1>1, SFAssumption, SeqElements
<1>3. w = [k \in 1..Len(s.kills) |-> [id |-> s.kills[k], order |-> k - 1]]
  BY <1>1 DEF Incoming
<1>4. \A k \in 1..Len(s.kills) : [id |-> s.kills[k], order |-> k - 1] \in Entry
  BY <1>1, <1>2 DEF Entry
<1>5. w \in Seq(Entry) /\ Len(w) = Len(s.kills) /\ DOMAIN w = 1..Len(s.kills)
  BY <1>1, <1>3, <1>4
<1>6. \A k \in DOMAIN w : w[k].id = s.kills[k] /\ w[k].order = k - 1
  BY <1>3
<1> HIDE DEF w
<1>7. \A k \in DOMAIN w : s.kills[k] = s.kills[1] + k - 1
                          /\ s.kills[k] \in DOMAIN log /\ log[s.kills[k]].match = s.match
  BY <1>1, <1>5 DEF SnapFits
<1>8. ASSUME s.kills # <<>>
      PROVE  Len(w) >= 1 /\ Len(w) \in DOMAIN w /\ Last(s.kills) = w[Len(w)].id
  <2>1. Len(w) >= 1 /\ Len(w) \in DOMAIN w
    BY <1>1, <1>5, <1>8
  <2> QED
    BY <1>5, <1>6, <2>1 DEF Last
<1> QED
  BY <1>1, <1>5, <1>6, <1>7, <1>8 DEF w

LEMMA IncomingFits ==
  ASSUME LogFits, NEW s, SnapFits(s)
  PROVE  /\ Fits(Incoming(s), s.match)
         /\ Incoming(s) # <<>> => \E t \in DOMAIN Incoming(s) : NewestAt(Incoming(s), t)
<1> DEFINE w == Incoming(s)
           lo == s.kills[1]
<1>1. /\ w \in Seq(Entry) /\ Len(w) \in Nat /\ DOMAIN w = 1..Len(w)
      /\ \A k \in DOMAIN w : w[k].id = lo + k - 1 /\ w[k].order = k - 1
      /\ \A k \in DOMAIN w : w[k].id \in DOMAIN log /\ log[w[k].id].match = s.match
      /\ \A k \in DOMAIN w : w[k] \in Entry
  BY IncomingIs, SeqElements
<1> HIDE DEF w
<1>2. DOMAIN log = 1..Len(log) /\ Len(log) \in Nat
  BY LogTypes
<1>3. ASSUME w # <<>> PROVE lo \in Nat /\ 1 \in DOMAIN w
  <2>1. 1 \in DOMAIN w
    BY <1>1, <1>3
  <2>2. w[1].id = lo + 1 - 1 /\ w[1].id = s.kills[1] /\ w[1].id \in DOMAIN log
    BY <1>1, <2>1, IncomingIs DEF w
  <2> QED
    BY <1>2, <2>1, <2>2
<1>4. Fits(w, s.match)
  <2>1. ASSUME NEW k \in DOMAIN w, NEW l \in DOMAIN w, w[k].id = w[l].id
        PROVE  k = l
    <3>1. lo \in Nat /\ k \in Nat /\ l \in Nat
      BY <1>1, <1>3
    <3>2. w[k].id = lo + k - 1 /\ w[l].id = lo + l - 1
      BY <1>1
    <3> HIDE DEF lo
    <3>3. lo + k - 1 = lo + l - 1
      BY <2>1, <3>2, Zenon
    <3> QED
      BY <3>1, <3>3
  <2>2. ASSUME NEW i \in Ids(w), NEW j \in Ids(w), NEW k \in i..j
        PROVE  k \in Ids(w)
    <3>1. PICK a \in DOMAIN w : i = w[a].id
      BY DEF Ids
    <3>2. PICK b \in DOMAIN w : j = w[b].id
      BY DEF Ids
    <3>3. lo \in Nat /\ a \in 1..Len(w) /\ b \in 1..Len(w)
      BY <1>1, <1>3
    <3>4. i = lo + a - 1 /\ j = lo + b - 1
      BY <1>1, <3>1, <3>2
    <3> HIDE DEF lo
    <3>5. k - lo + 1 \in 1..Len(w) /\ lo + (k - lo + 1) - 1 = k
      BY <1>1, <3>3, <3>4
    <3>6. w[k - lo + 1].id = k
      BY <1>1, <3>5
    <3> QED
      BY <1>1, <3>5, <3>6 DEF Ids
  <2>3. \A i \in Ids(w) : i \in DOMAIN log /\ log[i].match = s.match
    BY <1>1 DEF Ids
  <2> QED
    BY <1>1, <2>1, <2>2, <2>3 DEF Fits
<1>5. ASSUME w # <<>> PROVE NewestAt(w, Len(w))
  <2>1. lo \in Nat /\ Len(w) \in DOMAIN w
    BY <1>1, <1>3, <1>5
  <2> HIDE DEF lo
  <2> SUFFICES ASSUME NEW k \in DOMAIN w
               PROVE  w[k].id <= w[Len(w)].id /\ (k # Len(w) => Before(w, k, Len(w)))
    BY DEF NewestAt
  <2>2. w[k].id <= w[Len(w)].id /\ w[k].order <= w[Len(w)].order
    <3>1. k \in Nat /\ Len(w) \in Nat /\ k <= Len(w)
      BY <1>1
    <3>2. lo + k - 1 <= lo + Len(w) - 1 /\ k - 1 <= Len(w) - 1
      BY <2>1, <3>1
    <3>3. /\ w[k].id = lo + k - 1 /\ w[k].order = k - 1
          /\ w[Len(w)].id = lo + Len(w) - 1 /\ w[Len(w)].order = Len(w) - 1
      BY <1>1, <2>1
    <3> QED
      BY <3>2, <3>3
  <2>3. k # Len(w) => k < Len(w)
    BY <1>1
  <2>4. w[k].id \in DOMAIN log /\ w[Len(w)].id \in DOMAIN log
    BY <1>1, <2>1
  <2>5. log[w[k].id].sec <= log[w[Len(w)].id].sec
        /\ log[w[k].id].sec \in Nat /\ log[w[Len(w)].id].sec \in Nat
    BY <2>2, <2>4, LogTypes DEF LogFits
  <2>6. Weight(w[k]) <= Weight(w[Len(w)]) /\ Weight(w[k]) \in Nat /\ Weight(w[Len(w)]) \in Nat
    <3>1. w[k] \in Entry /\ w[Len(w)] \in Entry
      BY <1>1, <2>1
    <3> QED
      BY <2>2, <2>4, <2>5, <3>1, WeightsFollow
  <2> QED
    BY <2>2, <2>3, <2>6, BeforeByWeight
<1>6. w # <<>> => Len(w) \in DOMAIN w
  BY <1>1
<1> QED
  BY <1>4, <1>5, <1>6 DEF w

LEMMA ConcatIs ==
  ASSUME NEW S, NEW s \in Seq(S), NEW t \in Seq(S)
  PROVE  /\ s \o t \in Seq(S) /\ Len(s \o t) = Len(s) + Len(t)
         /\ \A k \in 1..Len(s) : (s \o t)[k] = s[k]
         /\ \A k \in 1..Len(t) : (s \o t)[Len(s) + k] = t[k]
OBVIOUS

\* A merge keeps the entries known in their places, with the incoming value where
\* there is one, and adds the others at the end.
LEMMA MergeIs ==
  ASSUME NEW c \in Seq(Entry), NEW w \in Seq(Entry),
         \A k, l \in DOMAIN c : c[k].id = c[l].id => k = l,
         \A k, l \in DOMAIN w : w[k].id = w[l].id => k = l
  PROVE  LET M == Merge(c, w) IN
         /\ M \in Seq(Entry) /\ Len(c) <= Len(M)
         /\ \A k \in DOMAIN c : k \in DOMAIN M /\ M[k].id = c[k].id
         /\ \A k \in DOMAIN c : c[k].id \notin Ids(w) => M[k] = c[k]
         /\ \A k \in DOMAIN M, j \in DOMAIN w : M[k].id = w[j].id => M[k] = w[j]
         /\ \A k \in DOMAIN M : k \notin DOMAIN c =>
              M[k].id \in Ids(w) /\ M[k].id \notin Ids(c)
         /\ \A k, l \in DOMAIN M : M[k].id = M[l].id => k = l
         /\ Ids(M) = Ids(c) \cup Ids(w)
         /\ Len(w) = 0 => Len(M) = Len(c)
<1> DEFINE newer(e) == {k \in DOMAIN w : w[k].id = e.id}
           old == [k \in DOMAIN c |-> IF newer(c[k]) = {} THEN c[k]
                                      ELSE w[CHOOSE j \in newer(c[k]) : TRUE]]
           A == {k \in DOMAIN w : w[k].id \notin Ids(c)}
           added == Rising(A)
           new == [k \in DOMAIN added |-> w[added[k]]]
           M == Merge(c, w)
<1>1. M = old \o new
  BY DEF Merge
<1>2. /\ Len(c) \in Nat /\ DOMAIN c = 1..Len(c) /\ \A k \in DOMAIN c : c[k] \in Entry
      /\ Len(w) \in Nat /\ DOMAIN w = 1..Len(w) /\ \A k \in DOMAIN w : w[k] \in Entry
  BY SeqElements
<1>3. /\ added \in Seq(A) /\ Len(added) \in Nat /\ DOMAIN added = 1..Len(added)
      /\ \A k, l \in DOMAIN added : k < l => added[k] < added[l]
      /\ \A i \in A : \E k \in DOMAIN added : i = added[k]
      /\ \A k \in DOMAIN added : added[k] \in A
  <2>1. A \in SUBSET (1..Len(w))
    BY <1>2
  <2> HIDE DEF A
  <2>2. /\ added \in Seq(A) /\ Len(added) = Cardinality(A)
        /\ \A k, l \in DOMAIN added : k < l => added[k] < added[l]
        /\ \A i \in A : \E k \in DOMAIN added : i = added[k]
    BY <1>2, <2>1, RisingRises
  <2> HIDE DEF added
  <2>3. \A k \in DOMAIN added : added[k] \in A
    BY <2>2, SeqElements
  <2> QED
    BY <2>2, <2>3
<1>4. /\ \A k : k \in A <=> k \in DOMAIN w /\ w[k].id \notin Ids(c)
  OBVIOUS
<1>5. ASSUME NEW k \in DOMAIN c
      PROVE  /\ old[k] \in Entry /\ old[k].id = c[k].id
             /\ c[k].id \notin Ids(w) => old[k] = c[k]
             /\ \A j \in DOMAIN w : c[k].id = w[j].id => old[k] = w[j]
  <2>1. CASE newer(c[k]) = {}
    <3>1. \A j \in DOMAIN w : c[k].id # w[j].id
      BY <2>1
    <3>2. old[k] = c[k]
      BY <2>1
    <3> HIDE DEF old
    <3> QED
      BY <1>2, <3>1, <3>2
  <2>2. CASE newer(c[k]) # {}
    <3> DEFINE j == CHOOSE j \in newer(c[k]) : TRUE
    <3>1. j \in newer(c[k])
      BY <2>2
    <3>2. old[k] = w[j]
      BY <2>2
    <3> HIDE DEF old, j
    <3>3. j \in DOMAIN w /\ w[j].id = c[k].id
      BY <3>1
    <3>4. c[k].id \in Ids(w)
      BY <3>3 DEF Ids
    <3> QED
      BY <1>2, <3>2, <3>3, <3>4
  <2> QED
    BY <2>1, <2>2
<1>6. old \in Seq(Entry) /\ Len(old) = Len(c)
  <2>1. old = [k \in 1..Len(c) |-> old[k]]
    BY <1>2
  <2> HIDE DEF old
  <2> QED
    BY <1>2, <1>5, <2>1
<1>7. new \in Seq(Entry) /\ Len(new) = Len(added) /\ \A k \in 1..Len(added) : new[k] = w[added[k]]
  <2>1. \A k \in 1..Len(added) : w[added[k]] \in Entry
    BY <1>2, <1>3, <1>4
  <2> HIDE DEF added
  <2> QED
    BY <1>3, <2>1
<1> HIDE DEF old, new, added, A
<1>8. /\ M \in Seq(Entry) /\ Len(M) = Len(c) + Len(added)
      /\ DOMAIN M = 1..(Len(c) + Len(added))
      /\ \A k \in 1..Len(c) : M[k] = old[k]
      /\ \A k \in 1..Len(added) : M[Len(c) + k] = new[k]
  <2>1. /\ M \in Seq(Entry) /\ Len(M) = Len(old) + Len(new)
        /\ \A k \in 1..Len(old) : M[k] = old[k]
        /\ \A k \in 1..Len(new) : M[Len(old) + k] = new[k]
    <3>1. old \in Seq(Entry) /\ new \in Seq(Entry)
      BY <1>6, <1>7
    <3> HIDE DEF M
    <3> QED
      BY <1>1, <3>1, ConcatIs
  <2> HIDE DEF M
  <2>2. DOMAIN M = 1..Len(M)
    BY <2>1
  <2> QED
    BY <1>6, <1>7, <2>1, <2>2
<1> HIDE DEF M
<1>9. ASSUME NEW k \in DOMAIN M, k \notin DOMAIN c
      PROVE  /\ k - Len(c) \in DOMAIN added /\ added[k - Len(c)] \in DOMAIN w
             /\ M[k] = w[added[k - Len(c)]] /\ M[k].id \notin Ids(c)
  <2>1. k - Len(c) \in 1..Len(added) /\ Len(c) + (k - Len(c)) = k
    BY <1>2, <1>3, <1>8, <1>9
  <2>2. M[k] = new[k - Len(c)]
    BY <1>8, <2>1
  <2> QED
    BY <1>3, <1>4, <1>7, <2>1, <2>2
<1>10. \A k \in DOMAIN c : k \in DOMAIN M /\ M[k] = old[k] /\ M[k].id = c[k].id
  BY <1>2, <1>3, <1>5, <1>8
<1>11. ASSUME NEW k \in DOMAIN M, NEW j \in DOMAIN w, M[k].id = w[j].id
       PROVE  M[k] = w[j]
  <2>1. CASE k \in DOMAIN c
    BY <1>5, <1>10, <1>11, <2>1
  <2>2. CASE k \notin DOMAIN c
    BY <1>9, <1>11, <2>2
  <2> QED
    BY <2>1, <2>2
<1>12. ASSUME NEW k \in DOMAIN M, NEW l \in DOMAIN M, M[k].id = M[l].id
       PROVE  k = l
  <2>1. CASE k \in DOMAIN c /\ l \in DOMAIN c
    BY <1>10, <1>12, <2>1
  <2>2. CASE k \in DOMAIN c /\ l \notin DOMAIN c
    BY <1>9, <1>10, <1>12, <2>2 DEF Ids
  <2>3. CASE k \notin DOMAIN c /\ l \in DOMAIN c
    BY <1>9, <1>10, <1>12, <2>3 DEF Ids
  <2>4. CASE k \notin DOMAIN c /\ l \notin DOMAIN c
    <3>1. added[k - Len(c)] = added[l - Len(c)]
      BY <1>9, <1>12, <2>4
    <3>2. k - Len(c) \in DOMAIN added /\ l - Len(c) \in DOMAIN added
      BY <1>9, <2>4
    <3>3. \A a \in DOMAIN added : added[a] \in Nat
      BY <1>2, <1>3, <1>4
    <3>4. ~(k - Len(c) < l - Len(c)) /\ ~(l - Len(c) < k - Len(c))
      BY <1>3, <3>1, <3>2, <3>3
    <3> QED
      BY <1>2, <1>3, <1>8, <3>4
  <2> QED
    BY <2>1, <2>2, <2>3, <2>4
<1>13. \A k \in DOMAIN M : k \notin DOMAIN c => M[k].id \in Ids(w) /\ M[k].id \notin Ids(c)
  BY <1>9 DEF Ids
<1>14. Ids(M) = Ids(c) \cup Ids(w)
  <2>1. ASSUME NEW k \in DOMAIN M PROVE M[k].id \in Ids(c) \cup Ids(w)
    BY <1>10, <1>13 DEF Ids
  <2>2. ASSUME NEW k \in DOMAIN c PROVE \E l \in DOMAIN M : c[k].id = M[l].id
    BY <1>10
  <2>3. ASSUME NEW j \in DOMAIN w PROVE \E l \in DOMAIN M : w[j].id = M[l].id
    <3>1. CASE w[j].id \in Ids(c)
      <4>1. PICK k \in DOMAIN c : w[j].id = c[k].id
        BY <3>1 DEF Ids
      <4> QED
        BY <2>2, <4>1
    <3>2. CASE w[j].id \notin Ids(c)
      <4>1. PICK k \in DOMAIN added : j = added[k]
        BY <1>3, <1>4, <3>2
      <4>2. Len(c) + k \in DOMAIN M /\ M[Len(c) + k] = w[j]
        BY <1>2, <1>3, <1>7, <1>8, <4>1
      <4> QED
        BY <4>2
    <3> QED
      BY <3>1, <3>2
  <2> QED
    BY <2>1, <2>2, <2>3 DEF Ids
<1>15. ASSUME Len(w) = 0 PROVE Len(M) = Len(c)
  <2>1. DOMAIN added = {}
    BY <1>2, <1>3, <1>4, <1>15
  <2>2. Len(added) = 0
    BY <1>3, <2>1
  <2> QED
    BY <1>2, <1>8, <2>2
<1>16. \A k \in DOMAIN c : c[k].id \notin Ids(w) => M[k] = c[k]
  BY <1>5, <1>10
<1>17. Len(c) <= Len(M)
  BY <1>2, <1>3, <1>8
<1> QED
  BY <1>8, <1>10, <1>11, <1>12, <1>13, <1>14, <1>15, <1>16, <1>17 DEF M

\* Merging what is known with a snapshot of the same match that is not older and,
\* when truncated, still holds the cursor.
LEMMA MergeFits ==
  ASSUME LogFits, NEW s, SnapFits(s), s.match = client.match, Fresh(s),
         DrawnFeed(client.known, client.match),
         client.cursor = IF client.known = <<>> THEN 0 ELSE Last(client.known).id,
         ~s.truncated \/ client.cursor = 0 \/ client.cursor \in ToSet(s.kills)
  PROVE  LET M == Merge(client.known, Incoming(s)) IN
         /\ Fits(M, s.match)
         /\ M # <<>> => \E t \in DOMAIN M : NewestAt(M, t)
         /\ s.kills # <<>> => \A i \in Ids(M) : i <= Last(s.kills)
<1> DEFINE c == client.known
           w == Incoming(s)
           M == Merge(c, w)
           lo == s.kills[1]
           hi == Last(s.kills)
<1>1. /\ c \in Seq(Entry) /\ Len(c) \in Nat /\ DOMAIN c = 1..Len(c)
      /\ \A k, l \in DOMAIN c : c[k].id = c[l].id => k = l
      /\ \A i \in Ids(c) : i \in DOMAIN log /\ log[i].match = s.match
      /\ c # <<>> => NewestAt(c, Len(c))
  BY DEF DrawnFeed, Fits
<1>2. /\ w \in Seq(Entry) /\ Len(w) \in Nat /\ DOMAIN w = 1..Len(w) /\ Len(w) <= Window
      /\ Len(w) = Len(s.kills) /\ s.kills \in Seq(Kills)
      /\ \A k \in DOMAIN w : w[k].id = lo + k - 1 /\ w[k].order = k - 1
      /\ s.kills # <<>> => Len(w) \in DOMAIN w /\ hi = w[Len(w)].id /\ hi = lo + Len(w) - 1
  BY IncomingIs
<1>3. /\ \A k, l \in DOMAIN w : w[k].id = w[l].id => k = l
      /\ \A i \in Ids(w) : i \in DOMAIN log /\ log[i].match = s.match
  BY IncomingFits DEF Fits
<1> HIDE DEF w, M
<1>4. /\ M \in Seq(Entry) /\ Len(c) <= Len(M) /\ Len(M) \in Nat /\ DOMAIN M = 1..Len(M)
      /\ \A k \in DOMAIN c : k \in DOMAIN M /\ M[k].id = c[k].id
      /\ \A k \in DOMAIN c : c[k].id \notin Ids(w) => M[k] = c[k]
      /\ \A k \in DOMAIN M, j \in DOMAIN w : M[k].id = w[j].id => M[k] = w[j]
      /\ \A k \in DOMAIN M : k \notin DOMAIN c => M[k].id \in Ids(w) /\ M[k].id \notin Ids(c)
      /\ \A k, l \in DOMAIN M : M[k].id = M[l].id => k = l
      /\ Ids(M) = Ids(c) \cup Ids(w)
      /\ Len(w) = 0 => Len(M) = Len(c)
  <2>1. /\ M \in Seq(Entry) /\ Len(c) <= Len(M)
        /\ \A k \in DOMAIN c : k \in DOMAIN M /\ M[k].id = c[k].id
        /\ \A k \in DOMAIN c : c[k].id \notin Ids(w) => M[k] = c[k]
        /\ \A k \in DOMAIN M, j \in DOMAIN w : M[k].id = w[j].id => M[k] = w[j]
        /\ \A k \in DOMAIN M : k \notin DOMAIN c => M[k].id \in Ids(w) /\ M[k].id \notin Ids(c)
        /\ \A k, l \in DOMAIN M : M[k].id = M[l].id => k = l
        /\ Ids(M) = Ids(c) \cup Ids(w)
        /\ Len(w) = 0 => Len(M) = Len(c)
    BY <1>1, <1>2, <1>3, MergeIs DEF M
  <2>2. Len(M) \in Nat /\ DOMAIN M = 1..Len(M)
    BY <2>1
  <2> QED
    BY <2>1, <2>2
<1> HIDE DEF c
<1>5. /\ DOMAIN log = 1..Len(log) /\ Len(log) \in Nat
      /\ \A i, j \in DOMAIN log : i <= j => log[i].sec <= log[j].sec
      /\ \A i \in DOMAIN log : log[i].sec \in Nat
  BY LogTypes DEF LogFits
<1>6. \A i \in Ids(M) : i \in DOMAIN log /\ i \in Nat /\ log[i].match = s.match
  <2>1. \A i \in Ids(M) : i \in Ids(c) \/ i \in Ids(w)
    BY <1>4
  <2>2. \A i \in Ids(M) : i \in DOMAIN log /\ log[i].match = s.match
    BY <1>1, <1>3, <2>1
  <2> QED
    BY <1>5, <2>2
<1>7. CASE s.kills = <<>>
  <2>1. Len(w) = 0 /\ Ids(w) = {}
    BY <1>2, <1>7 DEF Ids
  <2>2. Ids(M) = Ids(c) /\ Len(M) = Len(c) /\ \A k \in DOMAIN M : M[k] = c[k]
    BY <1>1, <1>4, <2>1
  <2>3. Fits(M, s.match)
    BY <1>4, <1>6, <2>2 DEF Fits, DrawnFeed, c
  <2>4. ASSUME M # <<>> PROVE \E t \in DOMAIN M : NewestAt(M, t)
    <3>1. Len(M) \in DOMAIN M /\ c # <<>>
      BY <1>1, <1>4, <2>2, <2>4
    <3>2. NewestAt(c, Len(M))
      BY <1>1, <2>2, <3>1
    <3>3. \A k \in DOMAIN M : Before(M, k, Len(M)) <=> Before(c, k, Len(M))
      BY <2>2, <3>1, BeforeByWeight
    <3>4. NewestAt(M, Len(M))
      BY <1>1, <1>4, <2>2, <3>1, <3>2, <3>3 DEF NewestAt
    <3> QED
      BY <3>1, <3>4
  <2> QED
    BY <1>7, <2>3, <2>4 DEF M, c, w
<1>8. CASE s.kills # <<>>
  <2>1. Len(w) \in DOMAIN w /\ hi = w[Len(w)].id /\ hi = lo + Len(w) - 1 /\ Len(w) >= 1
        /\ 1 \in DOMAIN w
    BY <1>2, <1>8
  <2>2. hi \in Ids(w) /\ lo \in Ids(w) /\ lo \in Nat /\ hi \in Nat
    <3>1. w[1].id = lo
      <4>1. w[1].id = s.kills[1]
        BY <2>1, IncomingIs DEF w
      <4> QED
        BY <4>1
    <3>2. hi \in Ids(w) /\ lo \in Ids(w)
      BY <2>1, <3>1 DEF Ids
    <3> QED
      BY <1>3, <1>5, <3>2
  <2>3. \A i \in Ids(c) : i <= hi
    BY <1>8 DEF Fresh, c
  <2> HIDE DEF lo, hi
  <2>4. ASSUME NEW k \in lo..hi PROVE k - lo + 1 \in DOMAIN w /\ w[k - lo + 1].id = k
    <3>1. k - lo + 1 \in DOMAIN w /\ lo + (k - lo + 1) - 1 = k
      BY <1>2, <2>1, <2>2
    <3> QED
      BY <1>2, <3>1
  <2>5. \A k \in lo..hi : k \in Ids(w)
    BY <2>4 DEF Ids
  <2>6. \A i \in Ids(w) : lo <= i /\ i <= hi
    <3> SUFFICES ASSUME NEW k \in DOMAIN w PROVE lo <= w[k].id /\ w[k].id <= hi
      BY DEF Ids
    <3>1. w[k].id = lo + k - 1 /\ k \in 1..Len(w)
      BY <1>2
    <3> QED
      BY <1>2, <2>1, <2>2, <3>1
  <2>7. \A i \in Ids(M) : i <= hi
    BY <1>4, <2>3, <2>6
  \* What is older than the snapshot is known only while the snapshot is full.
  <2>8. ASSUME NEW i \in DOMAIN log, log[i].match = s.match, i < lo
        PROVE  Len(w) = Window /\ s.truncated
    <3>1. ~(Len(s.kills) < Window \/ ~s.truncated)
      BY <1>5, <1>8, <2>2, <2>8 DEF SnapFits, lo
    <3> QED
      BY <1>2, <3>1, SFAssumption
  <2>9. Fits(M, s.match)
    <3>1. ASSUME NEW i \in Ids(M), NEW j \in Ids(M), NEW k \in i..j, log[k].match = s.match
          PROVE  k \in Ids(M) \/ log[k].sec = log[i].sec
      <4>1. k \in DOMAIN log /\ i \in Nat /\ k \in Nat /\ i <= k /\ k <= hi
        <5>1. i \in 1..Len(log) /\ j \in 1..Len(log) /\ j <= hi
          BY <1>5, <1>6, <2>7
        <5>2. k \in Int /\ i <= k /\ k <= j
          BY <5>1
        <5> QED
          BY <1>5, <2>2, <5>1, <5>2
      <4>2. CASE lo <= k
        <5>1. k \in Ids(w)
          BY <2>2, <2>5, <4>1, <4>2
        <5> QED
          BY <1>4, <5>1
      <4>3. CASE k < lo
        <5>1. s.truncated
          BY <2>8, <3>1, <4>1, <4>3
        <5>2. i \in Ids(c)
          BY <1>4, <2>2, <2>6, <4>1, <4>3
        <5>3. c # <<>> /\ Len(c) \in DOMAIN c
          BY <1>1, <5>2 DEF Ids
        <5>4. client.cursor = c[Len(c)].id /\ client.cursor \in Ids(c)
          BY <5>3 DEF Last, c, Ids
        <5>5. client.cursor \in Nat \ {0}
          BY <1>1, <1>5, <5>4
        <5>6. client.cursor \in ToSet(s.kills)
          BY <5>1, <5>5
        <5>7. client.cursor \in Ids(w)
          <6>1. PICK a \in DOMAIN s.kills : client.cursor = s.kills[a]
            BY <5>6 DEF ToSet
          <6>2. a \in DOMAIN w /\ w[a].id = s.kills[a]
            BY <1>2, IncomingIs DEF w
          <6> QED
            BY <6>1, <6>2 DEF Ids
        <5>8. k \in i..client.cursor
          BY <2>2, <2>6, <4>1, <4>3, <5>5, <5>7
        <5>9. k \in Ids(c) \/ log[k].sec = log[i].sec
          BY <3>1, <5>2, <5>4, <5>8 DEF DrawnFeed, Fits, c
        <5> QED
          BY <1>4, <5>9
      <4> QED
        BY <2>2, <4>1, <4>2, <4>3
    <3> QED
      BY <1>4, <1>6, <3>1 DEF Fits
  <2>10. PICK t \in DOMAIN M : M[t].id = hi
    <3>1. hi \in Ids(M)
      BY <1>4, <2>2
    <3> QED
      BY <3>1 DEF Ids
  <2>11. M[t] = w[Len(w)] /\ w[Len(w)].order = Len(w) - 1
    <3>1. M[t].id = w[Len(w)].id
      BY <2>1, <2>10
    <3>2. M[t] = w[Len(w)]
      BY <1>4, <2>1, <3>1
    <3>3. w[Len(w)].order = Len(w) - 1
      BY <1>2, <2>1
    <3> QED
      BY <3>2, <3>3
  <2>12. NewestAt(M, t)
    <3> SUFFICES ASSUME NEW k \in DOMAIN M
                 PROVE  M[k].id <= M[t].id /\ (k # t => Before(M, k, t))
      BY DEF NewestAt
    <3>1. M[k].id \in Ids(M) /\ M[t].id \in Ids(M)
      BY DEF Ids
    <3>2. M[k].id <= M[t].id
      BY <2>7, <2>10, <3>1
    <3>3. M[k].id \in DOMAIN log /\ M[t].id \in DOMAIN log /\ M[k] \in Entry /\ M[t] \in Entry
      BY <1>4, <1>6, <3>1, SeqElements
    <3>4. log[M[k].id].sec <= log[M[t].id].sec
      BY <1>5, <3>2, <3>3
    <3>5. ASSUME k # t PROVE M[k].order <= M[t].order /\ (M[k].order = M[t].order => k < t)
      <4>1. M[t].order = Len(w) - 1
        BY <2>11
      <4>2. M[k].id # hi
        BY <1>4, <2>10, <3>5
      <4>3. CASE M[k].id \in Ids(w)
        <5>1. PICK j \in DOMAIN w : M[k].id = w[j].id
          BY <4>3 DEF Ids
        <5>2. j # Len(w) /\ M[k] = w[j] /\ w[j].order = j - 1
          BY <1>2, <1>4, <2>1, <4>2, <5>1
        <5>3. j - 1 < Len(w) - 1
          BY <1>2, <5>2
        <5> QED
          BY <1>2, <4>1, <5>2, <5>3
      <4>4. CASE M[k].id \notin Ids(w)
        <5>1. k \in DOMAIN c /\ M[k].id \in Ids(c)
          BY <1>4, <4>4 DEF Ids
        <5>2. M[k].id < lo
          BY <1>6, <2>2, <2>5, <2>7, <3>1, <4>4
        <5>3. Len(w) = Window
          BY <1>6, <2>8, <3>1, <5>2
        <5>4. M[k].order \in 0..(Window - 1)
          BY <3>3 DEF Entry
        <5>5. k < t
          <6>1. CASE t \in DOMAIN c
            <7>1. NewestAt(c, Len(c)) /\ Len(c) \in DOMAIN c
              BY <1>1, <6>1
            <7>2. hi <= c[Len(c)].id
              BY <1>4, <2>10, <6>1, <7>1 DEF NewestAt
            <7>3. c[Len(c)].id \in Ids(c)
              BY <7>1 DEF Ids
            <7>4. c[Len(c)].id <= hi /\ c[Len(c)].id \in Nat
              BY <1>1, <1>5, <2>3, <7>3
            <7>5. c[Len(c)].id = c[t].id
              BY <1>4, <2>2, <2>10, <6>1, <7>2, <7>4
            <7>6. t = Len(c)
              BY <1>1, <6>1, <7>1, <7>5
            <7> QED
              BY <1>1, <3>5, <5>1, <7>6
          <6>2. CASE t \notin DOMAIN c
            <7>1. t \in 1..Len(M) /\ t \notin 1..Len(c) /\ k \in 1..Len(c)
              BY <1>1, <1>4, <5>1, <6>2
            <7>2. Len(c) \in Nat /\ Len(M) \in Nat
              BY <1>1, <1>4
            <7> QED
              BY <7>1, <7>2
          <6> QED
            BY <6>1, <6>2
        <5> QED
          BY <4>1, <5>3, <5>4, <5>5, SFAssumption
      <4> QED
        BY <4>3, <4>4
    <3>6. Weight(M[k]) \in Nat /\ Weight(M[t]) \in Nat
      BY <3>3, WeightsFollow
    <3>7. CASE log[M[k].id].sec < log[M[t].id].sec
      BY <3>2, <3>3, <3>7, WeightsFollow, BeforeByWeight
    <3>8. CASE log[M[k].id].sec = log[M[t].id].sec /\ k # t
      <4> DEFINE base == log[M[t].id].sec * Window
      <4>1. Weight(M[k]) = base + M[k].order /\ Weight(M[t]) = base + M[t].order
        BY <3>8 DEF Weight
      <4>2. base \in Nat
        BY <1>5, <3>3, SFAssumption
      <4> HIDE DEF base
      <4>3. M[k].order \in Nat /\ M[t].order \in Nat
        BY <3>3, SFAssumption DEF Entry
      <4>4. \/ Weight(M[k]) < Weight(M[t])
            \/ Weight(M[k]) = Weight(M[t]) /\ k < t
        BY <3>5, <3>8, <4>1, <4>2, <4>3
      <4> QED
        BY <3>2, <4>4, BeforeByWeight
    <3> QED
      BY <1>5, <3>2, <3>3, <3>4, <3>7, <3>8
  <2> QED
    BY <2>7, <2>9, <2>12 DEF M, c, w, hi
<1> QED
  BY <1>7, <1>8

-----------------------------------------------------------------------------
(* The steps.                                                              *)

\* The log keeps what it has.
LogExtends ==
  /\ DOMAIN log' = 1..Len(log') /\ Len(log') \in Nat
  /\ \A k \in DOMAIN log : k \in DOMAIN log' /\ log'[k] = log[k]

LEMMA SameLogExtends ==
  ASSUME LogFits, UNCHANGED log
  PROVE  LogExtends
BY LogTypes DEF LogExtends

LEMMA DrawnStays ==
  ASSUME LogFits, LogExtends, NEW es, NEW m, DrawnFeed(es, m)
  PROVE  DrawnFeed(es, m)'
<1>1. /\ es \in Seq(Entry) /\ Len(es) \in Nat /\ DOMAIN es = 1..Len(es) /\ Len(es) <= KillLimit
      /\ \A k, l \in DOMAIN es : es[k].id = es[l].id => k = l
      /\ \A i \in Ids(es) : i \in DOMAIN log /\ log[i].match = m
      /\ \A i, j \in Ids(es) : \A k \in i..j :
           log[k].match = m => k \in Ids(es) \/ log[k].sec = log[i].sec
      /\ es # <<>> => NewestAt(es, Len(es))
  BY DEF DrawnFeed, Fits
<1>2. DOMAIN log = 1..Len(log) /\ Len(log) \in Nat
  BY LogTypes
<1>3. \A k \in DOMAIN log : k \in DOMAIN log' /\ log'[k] = log[k]
  BY DEF LogExtends
<1>4. \A i \in Ids(es) : i \in DOMAIN log' /\ log'[i].match = m
  BY <1>1, <1>3
<1>5. ASSUME NEW i \in Ids(es), NEW j \in Ids(es), NEW k \in i..j, log'[k].match = m
      PROVE  k \in Ids(es) \/ log'[k].sec = log'[i].sec
  <2>1. i \in 1..Len(log) /\ j \in 1..Len(log)
    BY <1>1, <1>2
  <2>2. k \in DOMAIN log /\ i \in DOMAIN log
    BY <1>2, <2>1
  <2>3. log'[k] = log[k] /\ log'[i] = log[i]
    BY <1>3, <2>2
  <2> QED
    BY <1>1, <1>5, <2>3
<1>6. Fits(es, m)'
  BY <1>1, <1>4, <1>5 DEF Fits, Ids
<1>7. ASSUME es # <<>> PROVE NewestAt(es, Len(es))'
  <2>1. Len(es) \in DOMAIN es
    BY <1>1, <1>7
  <2>2. \A k \in DOMAIN es : es[k].id \in DOMAIN log
    BY <1>1 DEF Ids
  <2>3. \A k \in DOMAIN es : log'[es[k].id] = log[es[k].id]
    BY <1>3, <2>2
  <2>4. \A k \in DOMAIN es : Before(es, k, Len(es))' <=> Before(es, k, Len(es))
    BY <2>1, <2>3 DEF Before
  <2>5. \A k \in DOMAIN es : es[k].id <= es[Len(es)].id /\ (k # Len(es) => Before(es, k, Len(es)))
    BY <1>1, <1>7 DEF NewestAt
  <2>6. \A k \in DOMAIN es : es[k].id <= es[Len(es)].id
                             /\ (k # Len(es) => Before(es, k, Len(es))')
    BY <2>4, <2>5
  <2> QED
    BY <2>6 DEF NewestAt
<1> QED
  BY <1>1, <1>6, <1>7 DEF DrawnFeed

LEMMA SnapStays ==
  ASSUME LogFits, LogExtends, NEW s, SnapFits(s)
  PROVE  SnapFits(s)'
<1>1. /\ s \in [match : 1..MaxMatch, kind : Kind, kills : Seq(Kills), truncated : BOOLEAN]
      /\ Len(s.kills) <= Window
      /\ \A k \in DOMAIN s.kills :
           /\ s.kills[k] = s.kills[1] + k - 1
           /\ s.kills[k] \in DOMAIN log /\ log[s.kills[k]].match = s.match
      /\ s.kills # <<>> /\ (Len(s.kills) < Window \/ ~s.truncated) =>
           \A i \in DOMAIN log : log[i].match = s.match => s.kills[1] <= i
  BY DEF SnapFits
<1>2. DOMAIN log = 1..Len(log) /\ Len(log) \in Nat /\ DOMAIN log' = 1..Len(log')
      /\ Len(log') \in Nat /\ \A k \in DOMAIN log : k \in DOMAIN log' /\ log'[k] = log[k]
  BY LogTypes DEF LogExtends
<1>3. \A k \in DOMAIN s.kills : s.kills[k] \in DOMAIN log' /\ log'[s.kills[k]].match = s.match
  BY <1>1, <1>2
<1>4. ASSUME s.kills # <<>>, Len(s.kills) < Window \/ ~s.truncated,
             NEW i \in DOMAIN log', log'[i].match = s.match
      PROVE  s.kills[1] <= i
  <2>1. CASE i \in DOMAIN log
    BY <1>1, <1>2, <1>4, <2>1
  <2>2. CASE i \notin DOMAIN log
    <3>1. 1 \in DOMAIN s.kills
      BY <1>1, <1>4
    <3>2. s.kills[1] \in 1..Len(log)
      BY <1>1, <1>2, <3>1
    <3>3. i \in 1..Len(log') /\ i \notin 1..Len(log)
      BY <1>2, <1>4, <2>2
    <3> QED
      BY <1>2, <3>2, <3>3
  <2> QED
    BY <2>1, <2>2
<1> QED
  BY <1>1, <1>3, <1>4 DEF SnapFits

LEMMA InitFeed == FeedInit => FeedInv
<1> SUFFICES ASSUME FeedInit PROVE FeedInv
  OBVIOUS
<1>1. log = <<>> /\ match = 1 /\ kind \in Kind /\ kept = NoSnapshot /\ cycle = "idle"
      /\ starts = 0 /\ stopped = TRUE /\ shown = <<>>
      /\ client.match = 0 /\ client.cursor = 0 /\ client.known = <<>>
  BY DEF FeedInit
<1>2. /\ KillLimit \in Nat \ {0} /\ Window \in Nat \ {0}
      /\ MaxKills \in Nat /\ MaxSec \in Nat /\ MaxMatch \in Nat \ {0} /\ MaxStarts \in Nat
  BY SFAssumption
<1>3. LogFits
  BY <1>1, <1>2 DEF LogFits
<1>4. DrawnFeed(<<>>, 0)
  BY <1>2 DEF DrawnFeed, Fits, Ids
<1>5. ClientFits
  BY <1>1, <1>2, <1>4 DEF ClientFits
<1> QED
  BY <1>1, <1>2, <1>3, <1>5 DEF FeedInv, KeptFits, AnswerIsKept, ShownFits, StartsFit

LEMMA ClientStays ==
  ASSUME FeedInv, LogExtends, UNCHANGED client
  PROVE  ClientFits'
<1>1. PICK known, m : known = client.known /\ m = client.match
  OBVIOUS
<1>2. DrawnFeed(known, m)'
  BY <1>1, DrawnStays DEF FeedInv, ClientFits
<1>3. client'.known = known /\ client'.match = m
  BY <1>1
<1>4. DrawnFeed(client.known, client.match)'
  BY <1>2, <1>3
<1> QED
  BY <1>4 DEF FeedInv, ClientFits

LEMMA KeptStays ==
  ASSUME FeedInv, LogExtends, UNCHANGED <<client, kept>>
  PROVE  KeptFits'
<1> SUFFICES ASSUME kept # NoSnapshot PROVE SnapFits(kept)' /\ Fresh(kept)'
  BY DEF KeptFits
<1>1. SnapFits(kept) /\ Fresh(kept)
  BY DEF FeedInv, KeptFits
<1>2. PICK s : s = kept
  OBVIOUS
<1>3. SnapFits(s)'
  BY <1>1, <1>2, SnapStays DEF FeedInv
<1>4. SnapFits(kept)'
  BY <1>2, <1>3
<1>5. Fresh(kept)'
  BY <1>1 DEF Fresh, Ids
<1> QED
  BY <1>4, <1>5

LEMMA SecondsLog ==
  ASSUME LogFits, LogKill
  PROVE  LogFits' /\ LogExtends
<1>1. PICK sec \in IF log = <<>> THEN {0} ELSE Last(log).sec..Min({Last(log).sec + 1, MaxSec}) :
        log' = Append(log, [match |-> match, sec |-> sec])
  BY DEF LogKill
<1>2. Len(log) \in Nat /\ DOMAIN log = 1..Len(log)
      /\ \A k \in DOMAIN log : log[k].match \in Nat /\ log[k].sec \in Nat
  BY LogTypes
<1>3. /\ log \in Seq([match : 1..MaxMatch, sec : 0..MaxSec]) /\ Len(log) < MaxKills
      /\ \A i, j \in DOMAIN log :
           i <= j => log[i].match <= log[j].match /\ log[i].sec <= log[j].sec
      /\ match \in 1..MaxMatch /\ kind \in Kind
      /\ MaxSec \in Nat /\ MaxMatch \in Nat /\ MaxKills \in Nat
      /\ \A i \in DOMAIN log : log[i].match <= match
  BY SFAssumption DEF LogFits, LogKill
<1>4. sec \in 0..MaxSec /\ \A k \in DOMAIN log : log[k].sec <= sec
  <2>1. CASE log = <<>>
    BY <1>1, <1>2, <1>3, <2>1
  <2>2. CASE log # <<>>
    <3>1. Len(log) \in DOMAIN log /\ Last(log) = log[Len(log)]
      BY <1>2, <2>2 DEF Last
    <3>2. Last(log).sec \in Nat /\ Last(log).sec <= MaxSec
      <4>1. log[Len(log)] \in [match : 1..MaxMatch, sec : 0..MaxSec]
        BY <1>3, <3>1, SeqElements
      <4> QED
        BY <1>3, <3>1, <4>1
    <3>3. ASSUME NEW a \in Nat, NEW b \in Nat
          PROVE  Min({a, b}) \in Nat /\ Min({a, b}) <= b
      <4>1. \E x \in {a, b} : \A y \in {a, b} : x <= y
        <5>1. CASE a <= b
          BY <5>1
        <5>2. CASE b <= a
          BY <5>2
        <5> QED
          BY <5>1, <5>2
      <4>2. Min({a, b}) \in {a, b} /\ \A y \in {a, b} : Min({a, b}) <= y
        BY <4>1 DEF Min
      <4> QED
        BY <4>2
    <3>4. Last(log).sec + 1 \in Nat
      BY <3>2
    <3>5. Min({Last(log).sec + 1, MaxSec}) \in Nat /\ Min({Last(log).sec + 1, MaxSec}) <= MaxSec
      BY <1>3, <3>3, <3>4
    <3>6. sec \in Last(log).sec..Min({Last(log).sec + 1, MaxSec})
      BY <1>1, <2>2
    <3>7. sec \in 0..MaxSec /\ Last(log).sec <= sec
      BY <1>3, <3>2, <3>5, <3>6
    <3>8. ASSUME NEW k \in DOMAIN log PROVE log[k].sec <= sec
      <4>0. k <= Len(log)
        BY <1>2
      <4>1. log[k].sec <= log[Len(log)].sec
        BY <1>3, <3>1, <4>0, Zenon
      <4> QED
        BY <1>2, <1>3, <3>1, <3>2, <3>7, <4>1
    <3> QED
      BY <3>7, <3>8
  <2> QED
    BY <2>1, <2>2
<1> DEFINE e == [match |-> match, sec |-> sec]
<1>5. e \in [match : 1..MaxMatch, sec : 0..MaxSec] /\ e.match = match /\ e.sec = sec
  BY <1>3, <1>4
<1> HIDE DEF e
<1>6. /\ log' \in Seq([match : 1..MaxMatch, sec : 0..MaxSec]) /\ Len(log') = Len(log) + 1
      /\ DOMAIN log' = 1..(Len(log) + 1) /\ log'[Len(log) + 1] = e
      /\ \A k \in 1..Len(log) : log'[k] = log[k]
  BY <1>1, <1>2, <1>3, <1>5 DEF e
<1>7. match' = match /\ kind' = kind
  BY DEF LogKill
<1>8. ASSUME NEW i \in DOMAIN log', NEW j \in DOMAIN log', i <= j
      PROVE  log'[i].match <= log'[j].match /\ log'[i].sec <= log'[j].sec
  <2>1. CASE j \in DOMAIN log
    <3>1. i \in DOMAIN log
      BY <1>2, <1>6, <1>8, <2>1
    <3>2. log'[i] = log[i] /\ log'[j] = log[j]
      BY <1>2, <1>6, <2>1, <3>1
    <3>3. log[i].match <= log[j].match /\ log[i].sec <= log[j].sec
      BY <1>3, <1>8, <2>1, <3>1, Zenon
    <3> QED
      BY <3>2, <3>3
  <2>2. CASE j \notin DOMAIN log /\ i \in DOMAIN log
    <3>1. j = Len(log) + 1 /\ log'[j] = e /\ log'[i] = log[i]
      BY <1>2, <1>6, <2>2
    <3> QED
      BY <1>3, <1>4, <1>5, <2>2, <3>1
  <2>3. CASE j \notin DOMAIN log /\ i \notin DOMAIN log
    <3>1. j = Len(log) + 1 /\ i = Len(log) + 1
      BY <1>2, <1>6, <2>3
    <3> QED
      BY <1>3, <1>4, <1>5, <1>6, <3>1
  <2> QED
    BY <2>1, <2>2, <2>3
<1>9. ASSUME NEW i \in DOMAIN log' PROVE log'[i].match <= match
  <2>1. CASE i \in DOMAIN log
    BY <1>2, <1>3, <1>6, <2>1
  <2>2. CASE i \notin DOMAIN log
    <3>1. log'[i] = e
      BY <1>2, <1>6, <2>2
    <3> QED
      BY <1>3, <1>5, <3>1
  <2> QED
    BY <2>1, <2>2
<1>10. Len(log') <= MaxKills
  BY <1>2, <1>3, <1>6
<1>11. LogFits'
  BY <1>3, <1>6, <1>7, <1>8, <1>9, <1>10 DEF LogFits
<1>12. LogExtends
  BY <1>2, <1>6 DEF LogExtends
<1> QED
  BY <1>11, <1>12

LEMMA BackendKeeps ==
  ASSUME FeedInv, Backend
  PROVE  FeedInv'
<1>1. UNCHANGED <<kept, poller, client, shown>>
  BY DEF Backend, LogKill, StartMatch, Rename
<1>2. LogFits' /\ LogExtends
  <2>1. LogFits
    BY DEF FeedInv
  <2>2. CASE LogKill
    BY <2>1, <2>2, SecondsLog
  <2>3. CASE StartMatch
    <3>1. match' = match + 1 /\ match' \in 1..MaxMatch /\ kind' \in Kind /\ log' = log
      BY <2>1, <2>3, SFAssumption DEF StartMatch, LogFits
    <3>2. \A i \in DOMAIN log : log[i].match <= match'
      <4>1. \A i \in DOMAIN log : log[i].match \in Nat /\ log[i].match <= match
        BY <2>1, LogTypes DEF LogFits
      <4>2. match \in Nat
        BY <2>1, SFAssumption DEF LogFits
      <4> QED
        BY <3>1, <4>1, <4>2
    <3>3. LogFits'
      BY <2>1, <3>1, <3>2 DEF LogFits
    <3> QED
      BY <2>1, <3>1, <3>3, SameLogExtends
  <2>4. CASE Rename
    <3>1. match' = match /\ kind' \in Kind /\ log' = log
      BY <2>4 DEF Rename
    <3>2. LogFits'
      BY <2>1, <3>1 DEF LogFits
    <3> QED
      BY <2>1, <3>1, <3>2, SameLogExtends
  <2> QED
    BY <2>2, <2>3, <2>4 DEF Backend
<1>3. ClientFits' /\ KeptFits'
  BY <1>1, <1>2, ClientStays, KeptStays
<1>4. AnswerIsKept' /\ ShownFits' /\ StartsFit'
  BY <1>1 DEF FeedInv, AnswerIsKept, ShownFits, StartsFit, poller
<1> QED
  BY <1>2, <1>3, <1>4 DEF FeedInv

\* A poller step that leaves the backend and the page alone.
LEMMA PollerKeeps ==
  ASSUME FeedInv, UNCHANGED <<backend, client, shown>>, AnswerIsKept', StartsFit'
  PROVE  FeedInv'
<1>1. log' = log /\ match' = match /\ kind' = kind /\ UNCHANGED <<client, kept>>
  BY DEF backend
<1>2. LogFits'
  BY <1>1 DEF FeedInv, LogFits
<1>3. LogExtends
  BY <1>1, SameLogExtends DEF FeedInv
<1>4. ClientFits' /\ KeptFits'
  BY <1>1, <1>3, ClientStays, KeptStays
<1>5. ShownFits'
  BY DEF FeedInv, ShownFits
<1> QED
  BY <1>2, <1>4, <1>5 DEF FeedInv

LEMMA AnswerKeeps ==
  ASSUME FeedInv, Answer
  PROVE  FeedInv'
<1>1. /\ kept' \in ({Current, kept} \cup Unread) \ {NoSnapshot}
      /\ response' = kept' /\ cycle' = "answered"
      /\ UNCHANGED <<log, match, kind, stopped, timerSet, timeouts, starts, client, shown>>
  BY DEF Answer
<1>2. LogFits /\ KeptFits /\ ClientFits /\ ShownFits /\ StartsFit
  BY DEF FeedInv
<1>3. SnapFits(Current) /\ Fresh(Current)
  BY <1>2, CurrentFits DEF ClientFits
<1>4. ASSUME NEW s \in Unread PROVE SnapFits(s) /\ Fresh(s)
  <2>1. PICK t \in BOOLEAN : s = [Current EXCEPT !.kills = <<>>, !.truncated = t]
    BY DEF Unread
  <2>2. s \in [match : 1..MaxMatch, kind : Kind, kills : Seq(Kills), truncated : BOOLEAN]
        /\ s.kills = <<>>
    <3>1. <<>> \in Seq(Kills)
      OBVIOUS
    <3>2. s = [match |-> match, kind |-> kind, kills |-> <<>>, truncated |-> t]
      BY <2>1 DEF Current
    <3>3. match \in 1..MaxMatch /\ kind \in Kind /\ t \in BOOLEAN
      BY <1>2, <2>1 DEF LogFits
    <3>4. s.kills = <<>>
      BY <3>2
    <3> QED
      BY <3>1, <3>2, <3>3, <3>4
  <2> QED
    BY <2>2, SFAssumption DEF SnapFits, Fresh
<1>5. PICK s : s = kept' /\ SnapFits(s) /\ Fresh(s)
  BY <1>1, <1>2, <1>3, <1>4 DEF KeptFits
<1>6. LogExtends
  BY <1>1, <1>2, SameLogExtends
<1>7. SnapFits(s)'
  BY <1>2, <1>5, <1>6, SnapStays
<1>8. SnapFits(kept)'
  BY <1>5, <1>7
<1>9. Fresh(kept)'
  BY <1>1, <1>5 DEF Fresh, Ids
<1>10. LogFits'
  BY <1>1, <1>2 DEF LogFits
<1>11. ClientFits'
  BY <1>1, <1>6, ClientStays
<1>12. AnswerIsKept' /\ ShownFits' /\ StartsFit'
  BY <1>1, <1>2 DEF AnswerIsKept, ShownFits, StartsFit
<1> QED
  BY <1>8, <1>9, <1>10, <1>11, <1>12 DEF FeedInv, KeptFits

LEMMA ReceiveKeeps ==
  ASSUME FeedInv, Receive
  PROVE  FeedInv'
<1>1. cycle = "answered" /\ Finally /\ UNCHANGED backend
  BY DEF Receive
<1>2. LogFits /\ KeptFits /\ ClientFits /\ ShownFits /\ StartsFit /\ response = kept
      /\ kept # NoSnapshot
  BY <1>1 DEF FeedInv, AnswerIsKept
<1>3. AnswerIsKept' /\ StartsFit'
  BY <1>1, <1>2 DEF Finally, AnswerIsKept, StartsFit
<1>4. CASE stopped
  BY <1>3, <1>4, PollerKeeps DEF Receive
<1>5. CASE ~stopped
  <2>1. PICK all \in {Gathered(response)} : \E known \in {Newest(Sorted(all))} :
            /\ Process(response, known)
            /\ \/ Render(known)
               \/ /\ Classify(response) = "same-match" /\ client.version = Version(response)
                  /\ UNCHANGED shown
    BY <1>5 DEF Receive
  <2>2. PICK known \in {Newest(Sorted(all))} :
            /\ Process(response, known)
            /\ \/ Render(known)
               \/ /\ Classify(response) = "same-match" /\ client.version = Version(response)
                  /\ UNCHANGED shown
    BY <2>1
  <2>3. PICK s : s = response
    OBVIOUS
  <2>4. SnapFits(s) /\ Fresh(s)
    BY <1>2, <2>3 DEF KeptFits
  <2>5. /\ client'.match = s.match /\ client'.known = known
        /\ client'.cursor = IF known = <<>> THEN 0 ELSE Last(known).id
    BY <2>2, <2>3 DEF Process
  <2>6. /\ Fits(all, s.match)
        /\ all # <<>> => \E t \in DOMAIN all : NewestAt(all, t)
        /\ s.kills # <<>> => \A i \in Ids(all) : i <= Last(s.kills)
    <3>1. CASE Classify(s) # "same-match" \/ ContinuityLost(s)
      <4>1. all = Incoming(s)
        BY <2>1, <2>3, <3>1 DEF Gathered
      <4>2. ASSUME s.kills # <<>>, NEW k \in DOMAIN Incoming(s)
            PROVE  Incoming(s)[k].id <= Last(s.kills)
        <5> DEFINE w == Incoming(s)
        <5>1. /\ Len(w) \in Nat /\ DOMAIN w = 1..Len(w) /\ Len(w) >= 1
              /\ Last(s.kills) = w[Len(w)].id /\ w[k].id = s.kills[1] + k - 1
              /\ w[Len(w)].id = s.kills[1] + Len(w) - 1
              /\ w[1].id = s.kills[1] /\ w[1].id \in DOMAIN log
          <6>1. w \in Seq(Entry) /\ Len(w) >= 1
            BY <2>4, <4>2, IncomingIs
          <6>2. Len(w) \in Nat /\ DOMAIN w = 1..Len(w) /\ 1 \in DOMAIN w
            BY <6>1
          <6> QED
            BY <2>4, <4>2, <6>1, <6>2, IncomingIs
        <5>2. s.kills[1] \in Nat
          BY <1>2, <5>1, LogTypes
        <5>3. k \in 1..Len(w)
          BY <4>2, <5>1
        <5> HIDE DEF w
        <5>4. s.kills[1] + k - 1 <= s.kills[1] + Len(w) - 1
          BY <5>1, <5>2, <5>3
        <5> QED
          BY <5>1, <5>4 DEF w
      <4> QED
        BY <1>2, <2>4, <4>1, <4>2, IncomingFits DEF Ids
    <3>2. CASE Classify(s) = "same-match" /\ ~ContinuityLost(s)
      <4>1. all = Merge(client.known, Incoming(s))
        BY <2>1, <2>3, <3>2 DEF Gathered
      <4>2. client.match = s.match
        BY <3>2 DEF Classify
      <4>3. ~s.truncated \/ client.cursor = 0 \/ client.cursor \in ToSet(s.kills)
        BY <3>2 DEF ContinuityLost
      <4> QED
        BY <1>2, <2>4, <4>1, <4>2, <4>3, MergeFits DEF ClientFits
    <3> QED
      BY <3>1, <3>2
  <2>7. DrawnFeed(known, s.match) /\ Ids(known) \subseteq Ids(all)
    BY <1>2, <2>2, <2>6, NewestSorted
  <2>8. log' = log /\ match' = match /\ kind' = kind /\ kept' = kept
    BY <1>1 DEF backend
  <2>9. LogFits' /\ LogExtends
    <3>1. LogFits'
      BY <1>2, <2>8 DEF LogFits
    <3> QED
      BY <1>2, <2>8, <3>1, SameLogExtends
  <2>10. PICK m : m = s.match
    OBVIOUS
  <2>11. DrawnFeed(known, m)' /\ SnapFits(s)'
    BY <1>2, <2>4, <2>7, <2>9, <2>10, DrawnStays, SnapStays
  <2>12. DrawnFeed(client.known, client.match)' /\ SnapFits(kept)'
    BY <1>2, <2>3, <2>5, <2>8, <2>10, <2>11
  <2>13. ClientFits'
    <3>1. s.match \in 0..MaxMatch
      BY <2>4 DEF SnapFits
    <3> QED
      BY <2>5, <2>12, <3>1 DEF ClientFits
  <2>14. Fresh(kept)'
    <3>1. kept' = s
      BY <1>2, <2>3, <2>8
    <3>2. s.kills # <<>> => \A i \in Ids(known) : i <= Last(s.kills)
      BY <2>6, <2>7
    <3> QED
      BY <2>5, <3>1, <3>2 DEF Fresh, Ids
  <2>15. ShownFits'
    <3>1. known \in Seq(Entry) /\ Len(known) <= KillLimit
      BY <2>7 DEF DrawnFeed, Fits
    <3>2. shown' = known \/ shown' = shown
      BY <2>2 DEF Render
    <3> QED
      BY <1>2, <3>1, <3>2 DEF ShownFits
  <2> QED
    BY <1>3, <2>9, <2>12, <2>13, <2>14, <2>15 DEF FeedInv, KeptFits
<1> QED
  BY <1>4, <1>5

LEMMA FeedStep == FeedInv /\ [FeedNext]_feedVars => FeedInv'
<1> SUFFICES ASSUME FeedInv, [FeedNext]_feedVars PROVE FeedInv'
  OBVIOUS
<1>1. CASE Backend
  BY <1>1, BackendKeeps
<1>2. CASE Start
  <2>1. AnswerIsKept'
    BY <1>2 DEF Start, FeedInv, AnswerIsKept, backend
  <2>2. StartsFit'
    BY <1>2, SFAssumption DEF Start, FeedInv, StartsFit
  <2> QED
    BY <1>2, <2>1, <2>2, PollerKeeps DEF Start
<1>3. CASE Stop
  BY <1>3, PollerKeeps DEF Stop, FeedInv, AnswerIsKept, StartsFit, backend
<1>4. CASE TimeoutFires
  <2>1. AnswerIsKept' /\ StartsFit'
    BY <1>4 DEF TimeoutFires, RunCycle, FeedInv, AnswerIsKept, StartsFit, backend
  <2> QED
    BY <1>4, <2>1, PollerKeeps DEF TimeoutFires
<1>5. CASE Answer
  BY <1>5, AnswerKeeps
<1>6. CASE Receive
  BY <1>6, ReceiveKeeps
<1>7. CASE Fail
  <2>1. AnswerIsKept' /\ StartsFit'
    BY <1>7 DEF Fail, Finally, FeedInv, AnswerIsKept, StartsFit, backend
  <2> QED
    BY <1>7, <2>1, PollerKeeps DEF Fail
<1>8. CASE UNCHANGED feedVars
  BY <1>8, PollerKeeps DEF feedVars, backend, poller, FeedInv, AnswerIsKept, StartsFit
<1> QED
  BY <1>1, <1>2, <1>3, <1>4, <1>5, <1>6, <1>7, <1>8 DEF FeedNext

\* What is drawn is counted once.
LEMMA IdsCount ==
  ASSUME NEW es \in Seq(Entry), \A k, l \in DOMAIN es : es[k].id = es[l].id => k = l
  PROVE  Cardinality(Ids(es)) = Len(es)
<1> DEFINE f == [k \in 1..Len(es) |-> es[k].id]
<1>1. Len(es) \in Nat /\ DOMAIN es = 1..Len(es)
  OBVIOUS
<1>2. f \in Bijection(1..Len(es), Ids(es))
  <2>1. \A k \in 1..Len(es) : f[k] = es[k].id
    OBVIOUS
  <2>2. f \in [1..Len(es) -> Ids(es)]
    BY <1>1 DEF Ids
  <2> HIDE DEF f
  <2>3. f \in Injection(1..Len(es), Ids(es))
    BY <1>1, <2>1, <2>2 DEF Injection, IsInjective
  <2>4. f \in Surjection(1..Len(es), Ids(es))
    BY <1>1, <2>1, <2>2 DEF Surjection, Ids
  <2> QED
    BY <2>3, <2>4 DEF Bijection
<1>3. ExistsBijection(1..Len(es), Ids(es))
  BY <1>2 DEF ExistsBijection
<1> QED
  BY <1>1, <1>3, IntervalSize, FS_Bijection

LEMMA FeedInvConsistent == FeedInv /\ ChainInv => FeedConsistent
<1> SUFFICES ASSUME FeedInv, ChainInv PROVE FeedConsistent
  OBVIOUS
<1>1. LogFits /\ ClientFits /\ ShownFits /\ StartsFit
  BY DEF FeedInv
<1>2. Fits(client.known, client.match) /\ Len(client.known) <= KillLimit
      /\ (client.known # <<>> => NewestAt(client.known, Len(client.known)))
  BY <1>1 DEF ClientFits, DrawnFeed
<1>3. DOMAIN log = 1..Len(log) /\ Len(log) \in Nat /\ Len(log) <= MaxKills
  BY <1>1, LogTypes DEF LogFits
<1>4. client.known \in Seq(Entry) /\ Len(client.known) \in Nat
      /\ DOMAIN client.known = 1..Len(client.known)
      /\ \A i \in Ids(client.known) : i \in DOMAIN log /\ log[i].match = client.match
  BY <1>2 DEF Fits
<1>5. client.known # <<>> =>
        Len(client.known) \in DOMAIN client.known /\ Last(client.known).id \in Ids(client.known)
        /\ Last(client.known) = client.known[Len(client.known)]
  BY <1>4 DEF Last, Ids
<1>6. TypeOK
  <2>1. timeouts \in 0..MaxStarts
    BY <1>1, SFAssumption DEF ChainInv, StartsFit
  <2>2. client.cursor \in 0..MaxKills
    BY <1>1, <1>3, <1>4, <1>5, SFAssumption DEF ClientFits
  <2> QED
    BY <1>1, <1>2, <1>4, <2>1, <2>2 DEF TypeOK, LogFits, ClientFits, ShownFits, StartsFit, ChainInv
<1>7. FeedOfMatch
  BY <1>2, <1>4, IdsCount DEF FeedOfMatch, Fits
<1>8. FeedHasNoHole
  BY <1>2 DEF FeedHasNoHole, Fits
<1>9. CursorIsNewest
  <2> SUFFICES ASSUME NEW k \in DOMAIN client.known
               PROVE  client.known[k].id <= client.cursor
    BY DEF CursorIsNewest, Ids
  <2>1. client.known # <<>>
    BY <1>4
  <2>2. client.cursor = client.known[Len(client.known)].id
    BY <1>1, <1>5, <2>1 DEF ClientFits
  <2> QED
    BY <1>2, <2>1, <2>2 DEF NewestAt
<1> QED
  BY <1>6, <1>7, <1>8, <1>9 DEF FeedConsistent

\* THEOREM: what the page lists of the current match is of that match, each kill
\* once, without a hole but among kills of one second, and the cursor names the
\* newest kill known; through late, repeated, kept, renamed, truncated and lost
\* answers, and whatever the sizes of window and list.
THEOREM FeedAlwaysConsistent == FeedSpec => []FeedConsistent
<1> DEFINE Inv == FeedInv /\ ChainInv
<1>1. FeedInit => Inv
  BY InitFeed DEF FeedInit, ChainInv
<1>2. Inv /\ [FeedNext]_feedVars => Inv'
  BY FeedStep, ChainStep
<1>3. Inv => FeedConsistent
  BY FeedInvConsistent
<1> QED
  BY <1>1, <1>2, <1>3, PTL DEF FeedSpec
=============================================================================
