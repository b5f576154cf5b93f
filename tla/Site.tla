-------------------------------- MODULE Site --------------------------------
(***************************************************************************)
(* The pages of the site, of which the visitor has one open: its script is *)
(* one thread, whose tasks are clicks, timers and answers of the backend.  *)
(***************************************************************************)
EXTENDS HistoryPage, QueryPages, PolledPanels, LiveFields

VARIABLE page

siteVars == <<page, historyVars, queryVars, panelVars, fieldVars>>

Init ==
  /\ page \in {"history", "ranking", "stats", "home", "match", "snapshot", "detail"}
  /\ HistoryInit /\ QueryInit /\ PanelInit /\ FieldsInit

History(A) == page = "history" /\ A /\ UNCHANGED <<page, queryVars, panelVars, fieldVars>>
Ranking(A) == page = "ranking" /\ A /\ UNCHANGED <<page, historyVars, panelVars, fieldVars>>
Stats(A) == page = "stats" /\ A /\ UNCHANGED <<page, historyVars, panelVars, fieldVars>>
Panels(A) == A /\ UNCHANGED <<page, historyVars, queryVars, fieldVars>>
Fields(A) == page = "snapshot" /\ A /\ UNCHANGED <<page, historyVars, queryVars, panelVars>>

PanelsOf == CASE page = "home" -> HomePanels
              [] page = "match" -> MatchPanels
              [] page = "detail" -> DetailPanels
              [] OTHER -> {}

Next == \/ History(HistoryNext) \/ Ranking(RankingNext) \/ Stats(StatsNext)
        \/ PanelsOf # {} /\ Panels(PanelNext(PanelsOf))
        \/ Fields(FieldsNext)

Spec == Init /\ [][Next]_siteVars

\* Every request ends, as the browser's requests do at the latest with its own
\* timeout; timers fire and intervals go on; the visitor owes nothing.
Fairness ==
  /\ \A key \in Keys : WF_siteVars(History(\E outcome \in Outcomes : AnswerKey(key, outcome)))
  /\ WF_siteVars(History(\E c \in DOMAIN timers : TimerFires(c)))
  /\ WF_siteVars(History(\E outcome \in LiveOutcomes : LiveAnswer(outcome)))
  /\ WF_siteVars(History(Redraw))
  /\ WF_siteVars(History(LivePoll))
  /\ WF_siteVars(Ranking(RankingStep))
  /\ WF_siteVars(Stats(StatsStep))
  /\ \A p \in Panel : WF_siteVars(p \in PanelsOf /\ Panels(PanelStep(p)))
  /\ WF_siteVars(Fields(FieldsStep))

FairSpec == Spec /\ Fairness

-----------------------------------------------------------------------------
\* A summary, board or table that is announced as ready is the one of the current
\* selection, whatever the order of clicks and answers (isActiveServerRequest,
\* isActiveLeaderboardRequest, requestId and AbortController of loadRanking), and
\* the fields of the current match are of the match shown.
ShownIsSelected ==
  CASE page = "history" -> HistoryShowsSelection
    [] page = "ranking" -> RankingShowsSelection
    [] page = "snapshot" -> FieldsOfMatch
    [] OTHER -> TRUE

\* When the visitor stops, every panel of the page gets to an answer, and those
\* that are polled to the latest one, though requests fail, timers of earlier
\* clicks ask for other servers and two scripts write one list.  The summary of
\* the history page is left out: it may go on loading for ever.
PagesSettle ==
  <>[](CASE page = "history" -> HistorySettled
         [] page = "ranking" -> RankingSettled
         [] page = "stats" -> StatsSettled
         [] page = "snapshot" -> FieldsSettled
         [] OTHER -> PanelsSettled(PanelsOf))
=============================================================================
