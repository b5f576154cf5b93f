---------------------------- MODULE FinalMatches ----------------------------
(***************************************************************************)
(* FinalMatchVerifier of backend/app/services/current_match_shadow.py: the *)
(* newest live observation it keeps of every match, the finished map of    *)
(* the scoreboard it picks for one, and what it says of the difference.    *)
(*                                                                         *)
(* A match stands for its identity; one player takes part in all of them   *)
(* and only his kills are compared, so that an observation is told by the  *)
(* match and the instant its counters were read at.                        *)
(***************************************************************************)
EXTENDS Integers, FiniteSets, FiniteSetsExt

CONSTANTS
  Tolerance,    \* FINAL_MATCH_TOLERANCE_SECONDS, in ticks
  Window,       \* FINAL_LIVE_WINDOW_SECONDS, in ticks
  Second,       \* ticks in the whole seconds the scoreboard gives an encounter
  None          \* Python's None

\* What the code's own constants are.
VerifierParameters == Tolerance \in Nat /\ Window \in Nat /\ Second \in Nat \ {0}

-----------------------------------------------------------------------------
(* record_live.                                                            *)

\* The snapshot replaces none, or one that was not observed after it.
KeepsSnapshot(lastLive, s) ==
  lastLive[s.id] = None \/ lastLive[s.id].observed <= s.observed

Recorded(lastLive, s) ==
  IF KeepsSnapshot(lastLive, s) THEN [lastLive EXCEPT ![s.id] = s] ELSE lastLive

-----------------------------------------------------------------------------
(* verify, over the matches played ([layer, start, ended]) and the kills   *)
(* scored in them (pairs of a match and an instant).                       *)

Apart(i, j) == IF i < j THEN j - i ELSE i - j
Later(i, j) == IF i < j THEN j - i ELSE 0

\* _same_layer, _starts_close and the end of the finished map k.
CouldBe(played, k, live) ==
  /\ played[k].layer = played[live.id].layer
  /\ Apart(played[k].start, played[live.id].start) <= Tolerance
  /\ live.observed <= played[k].ended + Tolerance

\* The first that fits of a page that lists the newest first.
PickedMap(played, listed, live) ==
  LET fitting == {k \in listed : CouldBe(played, k, live)}
  IN IF fitting = {} THEN None ELSE Max(fitting)

KillsUntil(kills, m, t) == Cardinality({k \in kills : k[1] = m /\ k[2] <= t})

\* The kills the encounters place after the observation: they are dated in
\* whole seconds of the match, the observation is not.
Evidenced(played, kills, m, t) ==
  Cardinality({k \in kills :
    /\ k[1] = m
    /\ ((k[2] - played[m].start) \div Second) * Second > t - played[m].start})

\* Mutant: the encounters before the observation are asked for.
VerdictStrict(live, final, close, evidenced) ==
  IF ~live.players THEN "nothing"
  ELSE IF final = live.kills THEN "exact"
  ELSE IF final > live.kills /\ (~close \/ evidenced > final - live.kills) THEN "expected"
  ELSE "unexplained"
\* What the report says of the player's kills: a loss is never explained, a
\* gain is when the observation is old or later encounters account for it.
Verdict(live, final, close, evidenced) ==
  IF ~live.players THEN "nothing"
  ELSE IF final = live.kills THEN "exact"
  ELSE IF final > live.kills /\ (~close \/ evidenced >= final - live.kills) THEN "expected"
  ELSE "unexplained"

\* The report on the live observation of a match against the finished map k;
\* "told" says whether its detail lists the player's encounters.
FinalReport(played, kills, live, k, told) ==
  LET final == Cardinality({x \in kills : x[1] = k})
      close == Later(live.observed, played[k].ended) <= Window
      evidenced == IF told THEN Evidenced(played, kills, k, live.observed) ELSE 0
  IN [match |-> live.id, map |-> k, live |-> live, close |-> close, told |-> told,
      verdict |-> Verdict(live, final, close, evidenced)]
=============================================================================
