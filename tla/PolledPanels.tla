---------------------------- MODULE PolledPanels ----------------------------
(***************************************************************************)
(* Panels that a page asks for on a timer: the servers of the home page    *)
(* (main.js) and, when the page does not use the snapshot transport, the   *)
(* match, the kill feed and the players of the current-match page          *)
(* (partida-actual.js).  Each has a timer and an in-flight flag of its     *)
(* own.  The home page's health and trailer and the match detail           *)
(* (historico-partida.js) are asked for once.                              *)
(*                                                                         *)
(* truth counts the changes of what the backend would answer.              *)
(***************************************************************************)
EXTENDS Integers

CONSTANTS
  MaxTruth,           \* bound: changes of the backend's data
  MaxPanelFailures    \* bound: requests that fail, and feeds without kills

ASSUME PanelAssumption == MaxTruth \in Nat /\ MaxPanelFailures \in Nat

VARIABLES
  truth,     \* the version of what the backend answers now
  calls,     \* per panel: its requests, as the version they were answered from
  drawn,     \* per panel: the version of the last answer that was drawn
  view,      \* per panel: "loading", "ready" or "message"
  panelFailures

panelVars == <<truth, calls, drawn, view, panelFailures>>

HomePanels == {"servers", "health", "trailer"}
MatchPanels == {"match", "feed", "players"}
DetailPanels == {"detail"}
Panel == HomePanels \cup MatchPanels \cup DetailPanels
Polled == {"servers"} \cup MatchPanels
NotServed == 0  \* the backend has not yet read what it will answer

PanelInit ==
  /\ truth = 1
  /\ calls = [p \in Panel |-> {NotServed}]
  /\ drawn = [p \in Panel |-> 0]
  /\ view = [p \in Panel |-> "loading"]
  /\ panelFailures = 0

Change == /\ truth < MaxTruth
          /\ truth' = truth + 1
          /\ UNCHANGED <<calls, drawn, view, panelFailures>>

\* Mutant: the timer does not look at the flag.
PollAnyway(p) ==
  /\ p \in Polled
  /\ calls' = [calls EXCEPT ![p] = @ \cup {NotServed}]
  /\ UNCHANGED <<truth, drawn, view, panelFailures>>
\* setInterval: nothing is asked while the panel's request is in flight.
Poll(p) ==
  /\ p \in Polled /\ calls[p] = {}
  /\ calls' = [calls EXCEPT ![p] = {NotServed}]
  /\ UNCHANGED <<truth, drawn, view, panelFailures>>

\* The backend reads its data; the answer may be long under way.
Serve(p) ==
  /\ NotServed \in calls[p]
  /\ calls' = [calls EXCEPT ![p] = (@ \ {NotServed}) \cup {truth}]
  /\ UNCHANGED <<truth, drawn, view, panelFailures>>

Ends(p, v) == calls' = [calls EXCEPT ![p] = @ \ {v}]

\* hydrateServers, fetchHealth, hydrateTrailer, renderCurrentMatch, renderKillFeed,
\* renderPlayerStats, renderMatchDetail.
Deliver(p) ==
  \E v \in calls[p] \ {NotServed} :
    /\ Ends(p, v)
    /\ drawn' = [drawn EXCEPT ![p] = v]
    /\ view' = [view EXCEPT ![p] = "ready"]
    /\ UNCHANGED <<truth, panelFailures>>

\* A feed without kills keeps the stored ones while the match is the same.
DeliverNoKills ==
  \E v \in calls["feed"] \ {NotServed} :
    /\ panelFailures < MaxPanelFailures /\ panelFailures' = panelFailures + 1
    /\ Ends("feed", v)
    /\ view' = [view EXCEPT !["feed"] = IF drawn["feed"] = 0 THEN "message" ELSE "ready"]
    /\ UNCHANGED <<truth, drawn>>

\* A request fails.  The servers are replaced by a message; the panels of the
\* match keep what they show beside theirs.
PanelFails(p) ==
  \E v \in calls[p] :
    /\ panelFailures < MaxPanelFailures /\ panelFailures' = panelFailures + 1
    /\ Ends(p, v)
    /\ view' = [view EXCEPT ![p] = "message"]
    /\ UNCHANGED <<truth, drawn>>

PanelStep(p) == Poll(p) \/ Serve(p) \/ Deliver(p) \/ PanelFails(p)
PanelNext(panels) ==
  \/ Change
  \/ \E p \in panels : PanelStep(p)
  \/ "feed" \in panels /\ DeliverNoKills

\* What a panel shows is never replaced by an earlier answer.
NeverGoesBack == [][\A p \in Panel : drawn'[p] >= drawn[p]]_panelVars

PanelsSettled(panels) ==
  \A p \in panels : /\ view[p] # "loading"
                    /\ p \in Polled => view[p] = "ready" /\ drawn[p] = truth
=============================================================================
