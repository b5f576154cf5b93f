---------------------------- MODULE MCCrconReads ----------------------------
(* Model checking of what reads CRCON and the game servers.  A behaviour has
   one of four parts, and the variables of the others stay as they begin:
   "reads", the services of CrconReads: two requests of one service with one
   connection, two servers, and answers kept for one or two seconds.  Each
   cached kind can be asked twice, so that one request fills what another one
   finds; the kinds that differ in one step only are asked by one of the two;
   "list", the server list of the legacy source (get_server_list_source),
   ServerSnapshots;  "observer", ParityObserver;  "evidence", ParityEvidence. *)
EXTENDS CrconReads, TLC

CONSTANTS r1, r2, s1, s2

MCServer == <<s1, s2>>
Both == {<<"summary", MCServer>>, <<"recent", MCServer>>, <<"detail", <<s1>>>>,
         <<"search", MCServer>>, <<"servers", MCServer>>}
MCOffered == r1 :> Both \cup {<<"weekly", MCServer>>}
             @@ r2 :> Both \cup {<<"ranking", MCServer>>, <<"profile", MCServer>>, <<"recent", <<s1>>>>}
MCThread == {r1, r2}
MCTtl == [k \in Kinds |-> IF k = "detail" THEN 2 ELSE 1]

CONSTANTS Controlled, GameServer, Loop, Request, MaxRuns,
          Failure, Layers, Tolerance, Window, Second, SnapshotTtl, MaxMatch, MaxKills, MaxNow,
          Player, StabilizationPolls, MaxPolls

VARIABLES kind, mode, stored, loop, request, answer,
          played, kills, listed, snapshot, lastSnapshot, publicError, liveError, liveStats,
          poll, reading, machine, transitionAt, lastLive, pending, todo, reports,
          runs, totals, metric, differenceRuns, systematic, seen,
          part

List == INSTANCE ServerSnapshots WITH Server <- GameServer, Interval <- SnapshotTtl
Observer == INSTANCE ParityObserver WITH
              Ttl <- SnapshotTtl, cache <- snapshot, lastGood <- lastSnapshot, pc <- poll
Evidence == INSTANCE ParityEvidence

ASSUME ListAssumption == List!ServerListParameters
ASSUME ObserverAssumption == Observer!ObserverParameters
ASSUME EvidenceAssumption == Evidence!EvidenceParameters

listVars == <<kind, mode, stored, loop, request, answer>>
observerVars == <<played, kills, listed, snapshot, lastSnapshot, publicError, liveError,
                  liveStats, poll, reading, machine, transitionAt, lastLive, pending,
                  todo, reports>>
evidenceVars == <<runs, totals, metric, differenceRuns, systematic, seen>>
readVars == <<poolVars, family, schema, finished, req, cache, lastGood, lock>>

MCInit ==
  /\ part \in {"reads", "list", "observer", "evidence"}
  /\ Init /\ List!Init /\ Observer!Init /\ Evidence!Init
  \* What a part does not use begins in one way.
  /\ part # "reads" => family = {"search"}
  /\ part # "list" => kind = "rcon" /\ \A l \in Loop : mode[l] = "auto"

Reads(A) == part = "reads" /\ A /\ UNCHANGED <<listVars, observerVars, evidenceVars, part>>
Lists(A) == part = "list" /\ A /\ UNCHANGED <<readVars, observerVars, evidenceVars, part>>
Observes(A) == part = "observer" /\ A /\ UNCHANGED <<readVars, listVars, evidenceVars, part>>
AddsUp(A) == /\ part = "evidence" /\ A
             /\ UNCHANGED <<readVars, listVars, observerVars, now, part>>

MCNext == Reads(Next) \/ Lists(List!Next) \/ Observes(Observer!Next) \/ AddsUp(Evidence!Next)

MCSpec == MCInit /\ [][MCNext]_<<vars, listVars, observerVars, evidenceVars, part>>

\* GET /api/servers of the legacy source: see ServerSnapshots.
ServerListHonest == List!ServerListHonest
\* The observer's polls: see ParityObserver.
EveryMatchFollowed == Observer!EveryMatchFollowed
\* The observer's final reports: see ParityObserver.
ReportsExplained == Observer!ReportsExplained
\* The observer's evidence: see ParityEvidence.
EvidenceIsHistory == Evidence!EvidenceIsHistory

\* The layers are only compared with one another.
Symm == Permutations(Layers)
=============================================================================
