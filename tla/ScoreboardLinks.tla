--------------------------- MODULE ScoreboardLinks ---------------------------
(***************************************************************************)
(* Which match of the public scoreboard an RCON match is linked to         *)
(* (rcon_scoreboard_correlation.py).  The candidates are the matches that  *)
(* HistoricalIngestion has stored under SQLite and, under PostgreSQL, the  *)
(* rows of rcon_scoreboard_match_candidates: a copy made by the first read *)
(* that finds none, and added to by an operator's tool                     *)
(* (scoreboard_candidate_backfill.py), which takes no writer lock.  Of the *)
(* sessions only what they store counts here.                              *)
(*                                                                         *)
(* An RCON match is known by a window.  The lines of the AdminLog bear the *)
(* time of the poll that brought them, so a window of AdminLog lags behind *)
(* the match, by less than half of it here; a window of samples lies       *)
(* inside the match.  Windows that two matches were merged into are left   *)
(* out, as are candidates with an untrusted URL or without a time.         *)
(***************************************************************************)
EXTENDS HistoricalIngestion

CONSTANTS
  Played,          \* of each match, its map, start, end and result
  Near, Far,       \* 1800 and 3600 seconds, in ticks
  MinConfidence,   \* MIN_CONFIDENCE_SCORE
  CandidateLimit,  \* MAX_CANDIDATES
  LongestLag,      \* bound: from a line to the poll that brings it
  MaxToolPages     \* bound: pages read by the tool

VARIABLES
  postgres,   \* use_postgres_rcon_storage()
  copied,     \* rcon_scoreboard_match_candidates
  details,    \* the tool's matches of its page that are still to be stored
  toolPages   \* pages it has read

linkVars == <<postgres, copied, details, toolPages>>
allVars == <<vars, linkVars>>

ASSUME PlayedAssumption ==
  /\ \A i \in Match : Played[i].start \in Int /\ Played[i].end \in Int /\ Played[i].result # None
  /\ \A i, j \in Match : i < j => Played[i].end <= Played[j].start
  /\ LongestLag \in Nat
  /\ \A i \in Match : 2 * LongestLag < Played[i].end - Played[i].start
ASSUME ConfidenceAssumption ==
  /\ Near \in Nat /\ LongestLag <= Near /\ Far \in Nat
  /\ MinConfidence = 5
  /\ CandidateLimit \in Nat \ {0} /\ MaxToolPages \in Nat

-----------------------------------------------------------------------------
(* Windows. *)

\* build_materialized_scoreboard_correlation_input.  Boundaries that one poll has
\* brought are told apart by the server's clock: a window of the same form.
AdminLogWindows(i) ==
  {[map |-> Played[i].map, start |-> Played[i].start + a, end |-> Played[i].end + b,
    result |-> Played[i].result, alike |-> {}] : a, b \in 0..LongestLag}

\* get_rcon_historical_match_detail of a session of two samples or more: no result;
\* alike are the candidates whose number of players is near, at worst the others.
SessionWindows(i) ==
  {w \in {[map |-> Played[i].map, start |-> p, end |-> q, result |-> None, alike |-> s] :
            p, q \in Played[i].start..Played[i].end, s \in {{}, Match \ {i}}} :
     w.start < w.end}

-----------------------------------------------------------------------------
(* _score_candidate: what candidate c, a match, has in common with window w. *)

Length(c) == c.end - c.start

\* Mutant: one that ends as the other begins overlaps it.
Touching(c, w) == c.start <= w.end /\ w.start <= c.end
\* _overlap_seconds
Overlapping(c, w) == c.start < w.end /\ w.start < c.end

AroundMiddle(c, w) == 2 * c.start <= w.start + w.end /\ w.start + w.end <= 2 * c.end

\* An edge of one is within d of an edge of the other.
EdgesWithin(c, w, d) ==
  \E x \in {c.start, c.end}, y \in {w.start, w.end} : x - y <= d /\ y - x <= d

LengthsAgree(c, w) ==
  \/ Length(c) - Length(w) <= Near /\ Length(w) - Length(c) <= Near
  \/ Overlapping(c, w) /\ Length(w) <= Length(c)

Swapped(result) == <<result[2], result[1]>>

ResultPoints(c, w) ==
  IF w.result = None THEN 0
  ELSE IF c.result = w.result THEN 2 ELSE IF c.result = Swapped(w.result) THEN 1 ELSE 0

Points(fact, points) == IF fact THEN points ELSE 0

Score(i, w) ==
  LET c == Played[i] IN
    Points(Overlapping(c, w), 3) + Points(AroundMiddle(c, w), 2)
    + (IF EdgesWithin(c, w, Near) THEN 2 ELSE Points(EdgesWithin(c, w, Far), 1))
    + Points(LengthsAgree(c, w), 1) + ResultPoints(c, w) + Points(i \in w.alike, 1)

\* A candidate of another map has no score.
Scores(w) == [i \in Match |-> IF Played[i].map = w.map THEN Score(i, w) ELSE 0]

\* What the windows of a match may score: all that the choice of a link looks at.
AdminLogScores == [i \in Match |-> {Scores(w) : w \in AdminLogWindows(i)}]
SessionScores == [i \in Match |-> {Scores(w) : w \in SessionWindows(i)}]

-----------------------------------------------------------------------------
(* The candidates and the choice. *)

\* ORDER BY ended_at DESC LIMIT
Latest(matches) ==
  {i \in matches : Cardinality({j \in matches : j > i}) < CandidateLimit}

\* _list_persisted_scoreboard_candidates
Candidates == Latest(IF copied = {} THEN stored ELSE copied)

\* A tie is ambiguous.
Best(scores, i) == \A j \in Candidates \ {i} : scores[j] < scores[i]

\* resolve_rcon_scoreboard_correlation
Linkable(scores) == {i \in Candidates : scores[i] >= MinConfidence /\ Best(scores, i)}

\* The first read under PostgreSQL copies what SQLite has; later ones do not look.
CopyCandidates ==
  /\ postgres /\ copied = {} /\ stored # {}
  /\ copied' = Candidates
  /\ UNCHANGED <<vars, postgres, details, toolPages>>

\* A match is stored; nothing else of the ingestion changes.
StoreMatch(i) ==
  /\ stored' = stored \cup {i}
  /\ UNCHANGED <<archived, progress, session, todo, fails, base, postgres, copied, toolPages>>

\* What a session does to the candidates: it stores matches, for the first time or
\* again, in any order.
SessionStores ==
  /\ \E i \in 1..archived : StoreMatch(i)
  /\ UNCHANGED details

-----------------------------------------------------------------------------
(* run_backfill, for a range of times. *)

\* The matches of a page that lie in the range become candidates, those whose own
\* insert does not fail; under SQLite, where there is no table for them, none does.
ToolPage ==
  /\ details = {} /\ toolPages < MaxToolPages
  /\ toolPages' = toolPages + 1
  /\ \E size \in PageSizes, p, from, to \in 1..archived :
       LET inRange == Page(p, size) \cap from..to IN
       /\ inRange # {}
       /\ details' = inRange
       /\ \E inserted \in SUBSET inRange :
            copied' = IF postgres THEN copied \cup inserted ELSE copied
  /\ UNCHANGED <<vars, postgres>>

\* Their details are fetched together and stored one after the other.
ToolDetail ==
  /\ details # {} /\ details' = details \ {Max(details)}
  /\ StoreMatch(Max(details))

\* The details cannot be fetched, or one of them is not stored and is passed over.
ToolFails ==
  /\ details # {} /\ details' \in {{}, details \ {Max(details)}}
  /\ UNCHANGED <<vars, postgres, copied, toolPages>>

-----------------------------------------------------------------------------
LinkInit ==
  /\ Init
  /\ postgres \in BOOLEAN /\ copied = {}
  /\ details = {} /\ toolPages = 0

Tool == ToolPage \/ ToolFails \/ ToolDetail

LinkNext ==
  \/ Archive /\ UNCHANGED linkVars
  \/ SessionStores \/ CopyCandidates \/ Tool

LinkSpec == LinkInit /\ [][LinkNext]_allVars

-----------------------------------------------------------------------------
(* Properties.                                                             *)

\* "strong evidence" (rcon_scoreboard_correlation.py:33): an RCON match whose own
\* match is a candidate is linked to it and to no other, whatever matches of its
\* map were played before and after.  When it is not a candidate, the window of
\* a session is not linked at all.  (A window of AdminLog may be linked to a
\* neighbour on the same map then.)
LinkedToItsOwn ==
  \A i \in 1..archived :
    IF i \in Candidates
    THEN \A s \in AdminLogScores[i] \cup SessionScores[i] : Linkable(s) = {i}
    ELSE \A s \in SessionScores[i] : Linkable(s) = {}
=============================================================================
