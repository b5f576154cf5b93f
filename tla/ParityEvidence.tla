--------------------------- MODULE ParityEvidence ---------------------------
(***************************************************************************)
(* TargetEvidence of backend/app/observe_current_match_parity.py: what the *)
(* polls of one target add up to, with its PlayerSetStabilizer and the     *)
(* _Metric of one statistic.  ParityObserver has the poll itself; here a   *)
(* poll is what observe_poll is called with.                               *)
(***************************************************************************)
EXTENDS Integers, FiniteSets, Sequences

CONSTANTS
  Player,               \* the salted keys of the players
  StabilizationPolls,   \* --stabilization-polls
  MaxPolls              \* bound: synchronized polls

\* main() refuses fewer than two.
EvidenceParameters ==
  /\ IsFiniteSet(Player)
  /\ StabilizationPolls \in Nat \ {0, 1} /\ MaxPolls \in Nat

VARIABLES
  runs,         \* _legacy_runs and _crcon_runs: polls in a row, 0 for no entry
  totals,       \* player_set_totals
  metric,       \* comparisons, exact, differing, eventually_consistent
  differenceRuns, systematic,   \* _difference_runs (0: no entry), _systematic
  seen          \* history: how the players stood in each synchronized poll

vars == <<runs, totals, metric, differenceRuns, systematic, seen>>

Side == {"legacy", "crcon"}
\* How the two sources stand to one player: neither, one, or both has him, and
\* then his statistic is the same, another, or missing on a side.
Standing == {"absent", "legacy", "crcon", "same", "other", "missing"}
TotalKinds == {"transient", "persistent"} \X Side

TypeOK ==
  /\ runs \in [Side -> [Player -> 0..MaxPolls]]
  /\ totals \in [TotalKinds -> Nat]
  /\ metric \in [comparisons : Nat, exact : Nat, differing : Nat, eventually : Nat]
  /\ differenceRuns \in [Player -> 0..MaxPolls]
  /\ systematic \subseteq Player
  /\ seen \in Seq([Player -> Standing])

Init ==
  /\ runs = [s \in Side |-> [p \in Player |-> 0]]
  /\ totals = [k \in TotalKinds |-> 0]
  /\ metric = [comparisons |-> 0, exact |-> 0, differing |-> 0, eventually |-> 0]
  /\ differenceRuns = [p \in Player |-> 0]
  /\ systematic = {}
  /\ seen = <<>>

\* Mutant: a key that is no longer in the set keeps its run.
AdvancedKept(run, current) ==
  [p \in Player |-> IF p \in current THEN run[p] + 1 ELSE run[p]]
\* PlayerSetStabilizer._advance.
Advanced(run, current) == [p \in Player |-> IF p \in current THEN run[p] + 1 ELSE 0]

\* PlayerSetStabilizer.observe: the keys only one side has, by side.
Stabilized(next) ==
  [k \in TotalKinds |->
     Cardinality({p \in Player :
       /\ next[k[2]][p] > 0
       /\ (next[k[2]][p] >= StabilizationPolls) <=> (k[1] = "persistent")})]

\* _Metric.observe: the run of each player's differences ...
RunsAfter(standing) ==
  [p \in Player |-> CASE standing[p] = "other" -> differenceRuns[p] + 1
                      [] standing[p] = "same" -> 0
                      [] OTHER -> differenceRuns[p]]
\* ... the players whose run is long enough ...
SystematicAfter(standing, next) ==
  (systematic \ {p \in Player : standing[p] = "same"})
    \cup {p \in Player : standing[p] = "other" /\ next[p] >= StabilizationPolls}
\* ... and the sums.
MetricAfter(standing) ==
  LET same == {p \in Player : standing[p] = "same"}
      other == {p \in Player : standing[p] = "other"}
  IN [comparisons |-> metric.comparisons + Cardinality(same \cup other),
      exact |-> metric.exact + Cardinality(same),
      differing |-> metric.differing + Cardinality(other),
      eventually |-> metric.eventually
                       + Cardinality({p \in same : differenceRuns[p] > 0})]

\* observe_poll, when both sides answered and their timestamps are no further
\* apart than the tolerance.  Any other poll leaves the players alone: it only
\* adds to counters of polls and of match fields that nothing here tells apart.
ObservePoll ==
  /\ Len(seen) < MaxPolls
  /\ \E standing \in [Player -> Standing] :
       LET nextRuns == [s \in Side |-> Advanced(runs[s], {p \in Player : standing[p] = s})]
           nextDiffers == RunsAfter(standing)
           stabilized == Stabilized(nextRuns)
       IN /\ runs' = nextRuns
          /\ totals' = [k \in TotalKinds |-> totals[k] + stabilized[k]]
          /\ metric' = MetricAfter(standing)
          /\ differenceRuns' = nextDiffers
          /\ systematic' = SystematicAfter(standing, nextDiffers)
          /\ seen' = Append(seen, standing)

Next == ObservePoll
Spec == Init /\ [][Next]_vars

-----------------------------------------------------------------------------
(* Properties, over the history of the synchronized polls.                 *)

\* The polls in which the player differed since he last agreed; polls he was not
\* in, or had no value in, neither add to them nor end them.
Differing(p) ==
  {i \in 1..Len(seen) : seen[i][p] = "other" /\ \A j \in i..Len(seen) : seen[j][p] # "same"}

\* A difference is systematic exactly while the player has differed at least
\* StabilizationPolls times since he last agreed, whatever came before or between.
SystematicIsLastRun ==
  \A p \in Player : p \in systematic <=> Cardinality(Differing(p)) >= StabilizationPolls

\* In the i-th poll the player agrees, after a difference with no agreement between.
Converges(p, i) ==
  /\ seen[i][p] = "same"
  /\ \E j \in 1..i : seen[j][p] = "other" /\ \A k \in j..i : seen[k][p] = "same" => k = i

\* Every run of differences that ended in agreement converged once, so those
\* that differ now and those that converged make up all the runs there were.
ConvergedOnce ==
  metric.eventually =
    Cardinality({x \in Player \X (1..Len(seen)) : Converges(x[1], x[2])})

\* The player stood alone on a side in the n synchronized polls up to the i-th.
Alone(p, s, i, n) == i >= n /\ \A j \in (i - n + 1)..i : seen[j][p] = s

\* Persistent counts a player once for each synchronized poll that found him
\* on one side only for the StabilizationPolls-th time in a row or more;
\* transient has the others.
PersistentIsSurvived ==
  \A s \in Side :
    /\ totals[<<"persistent", s>>] =
         Cardinality({x \in Player \X (1..Len(seen)) : Alone(x[1], s, x[2], StabilizationPolls)})
    /\ totals[<<"transient", s>>] + totals[<<"persistent", s>>] =
         Cardinality({x \in Player \X (1..Len(seen)) : seen[x[2]][x[1]] = s})

\* What the evidence says of the players is what the history of the synchronized
\* polls was, however absences and missing values interrupt it.
EvidenceIsHistory == SystematicIsLastRun /\ ConvergedOnce /\ PersistentIsSurvived
=============================================================================
