-------------------------- MODULE ServerSnapshots --------------------------
(***************************************************************************)
(* The stored server list: the collector and its refresh loop              *)
(* (backend/app/collector.py, scheduler.py) that store snapshots of the    *)
(* servers (storage.py, postgres_display_storage.py), and GET /api/servers *)
(* (api/payloads/servers.py), which answers from them while they are       *)
(* recent and asks the servers itself when they are not (data_sources.py:  *)
(* RCON first, A2S behind it).                                             *)
(*                                                                         *)
(* The game servers are external: any of them may answer a query or let it *)
(* time out.  A snapshot stands for its server, instant and origin.        *)
(***************************************************************************)
EXTENDS Integers, FiniteSets, FiniteSetsExt

CONSTANTS
  Server,       \* the servers configured as targets, of RCON and of A2S
  Controlled,   \* the servers of CONTROLLED_RAW_SERVER_SOURCE
  Loop,         \* the collector's refresh loops
  Request,      \* requests for the server list
  MaxRuns,      \* --max-runs of the loops
  Interval,     \* HLL_BACKEND_REFRESH_INTERVAL_SECONDS, in ticks
  MaxNow        \* bound: ticks of the clock

ServerListParameters ==
  /\ MaxRuns \in Nat /\ Interval \in Nat \ {0} /\ MaxNow \in Nat
  /\ Server \cap Controlled = {} /\ Controlled # {}

VARIABLES
  now,          \* the clock
  kind,         \* HLL_BACKEND_LIVE_DATA_SOURCE
  mode,         \* --source of each loop
  stored,       \* the rows of server_snapshots
  loop,         \* each loop: what it does, its runs, the batch it has to store
  request,      \* each request: what it does, and what it read
  answer        \* the last answer of each request; known: history, a snapshot of
                \* a real server was stored when it was asked for

vars == <<now, kind, mode, stored, loop, request, answer>>

Instant == 0..MaxNow
Origin == {"real-a2s", "real-rcon", "controlled-fallback"}
Item == [server : Server \cup Controlled, at : Instant, origin : Origin]
Label == {"none-yet", "persisted-fresh-snapshot", "persisted-stale-snapshot",
          "real-time-refresh", "no-snapshot-available"}

TypeOK ==
  /\ now \in Instant
  /\ kind \in {"a2s", "rcon"}
  /\ mode \in [Loop -> {"auto", "a2s", "controlled"}]
  /\ stored \subseteq Item
  /\ loop \in [Loop -> [pc : {"waiting", "storing", "dead"}, runs : 0..MaxRuns,
                        batch : SUBSET Item]]
  /\ request \in [Request -> [pc : {"idle", "rcon", "probed", "a2s"},
                              read : SUBSET Item, at : Instant, known : BOOLEAN]]
  /\ answer \in [Request -> [label : Label, items : SUBSET Item, asked : Instant, known : BOOLEAN,
                             failed : SUBSET {"a2s", "rcon"}]]

Idle == [pc |-> "idle", read |-> {}, at |-> 0, known |-> FALSE]

Init ==
  /\ now = 0
  /\ kind \in {"a2s", "rcon"}
  /\ mode \in [Loop -> {"auto", "a2s", "controlled"}]
  /\ stored = {}
  /\ loop = [l \in Loop |-> [pc |-> "waiting", runs |-> 0, batch |-> {}]]
  /\ request = [r \in Request |-> Idle]
  /\ answer = [r \in Request |-> [label |-> "none-yet", items |-> {}, asked |-> 0,
                                  known |-> FALSE, failed |-> {}]]

Tick == /\ now < MaxNow
        /\ now' = now + 1
        /\ UNCHANGED <<kind, mode, stored, loop, request, answer>>

Captured(servers, at, origin) ==
  {[server |-> s, at |-> at, origin |-> origin] : s \in servers}

\* query_server_info: any of the servers answer in time, with or without a
\* challenge first; the others raise.
Answering == SUBSET Server

-----------------------------------------------------------------------------
(* The collector and its loop.                                             *)

\* collect_server_snapshots: what the targets answered, under the time all of
\* them were asked by; the controlled source when it is chosen, or when none
\* answered and it may stand in.
Collected(source, fallback, answering) ==
  IF source = "controlled" \/ (source = "auto" /\ fallback /\ answering = {})
  THEN Captured(Controlled, now, "controlled-fallback")
  ELSE Captured(answering, now, "real-a2s")

\* A run of the loop probes its targets ...
Collect(l) ==
  /\ loop[l].pc = "waiting" /\ loop[l].runs < MaxRuns
  /\ \E answering \in Answering :
       loop' = [loop EXCEPT ![l] = [pc |-> "storing", runs |-> @.runs + 1,
                                    batch |-> Collected(mode[l], TRUE, answering)]]
  /\ UNCHANGED <<now, kind, mode, stored, request, answer>>

\* persist_snapshot_batch: one row for each snapshot, in one transaction.
StoredWith(batch) == stored \cup batch

\* ... and stores what they answered ...
Store(l) ==
  /\ loop[l].pc = "storing"
  /\ stored' = StoredWith(loop[l].batch)
  /\ loop' = [loop EXCEPT ![l].pc = "waiting", ![l].batch = {}]
  /\ UNCHANGED <<now, kind, mode, request, answer>>

\* ... or ends the loop: a failing storage is not caught.
StoreFails(l) ==
  /\ loop[l].pc = "storing"
  /\ loop' = [loop EXCEPT ![l].pc = "dead", ![l].batch = {}]
  /\ UNCHANGED <<now, kind, mode, stored, request, answer>>

-----------------------------------------------------------------------------
(* GET /api/servers.                                                       *)

\* list_latest_snapshots: the newest row of every server.
LatestStored ==
  {row \in stored : \A other \in stored : other.server = row.server => other.at <= row.at}

\* Mutant: the items are taken as they come.
PrimaryAny(items) == items
\* _select_primary_snapshot_items: those of the configured source, or, when it
\* has none, all of them.
Primary(items) ==
  LET preferred == {i \in items : i.origin = IF kind = "rcon" THEN "real-rcon" ELSE "real-a2s"}
  IN IF preferred = {} THEN items ELSE preferred

LastAt(items) == Max({i.at : i \in items})

\* Not _should_refresh_snapshot: the newest item is no older than Interval.
Recent(items) == IF items = {} THEN FALSE ELSE now - LastAt(items) <= Interval

\* A request made now, with what it read.
Asking(pc, items) ==
  [pc |-> pc, read |-> items, at |-> now,
   known |-> \E i \in stored : i.origin = "real-a2s"]

Answered(r, asking, label, items, failed) ==
  /\ request' = [request EXCEPT ![r] = Idle]
  /\ answer' = [answer EXCEPT ![r] = [label |-> label, items |-> items, failed |-> failed,
                                      asked |-> asking.at, known |-> asking.known]]

\* The stored items answer while they are recent; otherwise the live source is
\* asked.
Ask(r) ==
  /\ request[r].pc = "idle"
  /\ LET items == Primary(LatestStored)
     IN IF Recent(items)
        THEN Answered(r, Asking("idle", items), "persisted-fresh-snapshot", items, {})
        ELSE /\ request' = [request EXCEPT ![r] =
                  Asking(IF kind = "rcon" THEN "rcon" ELSE "a2s", items)]
             /\ UNCHANGED answer
  /\ UNCHANGED <<now, kind, mode, stored, loop>>

\* RconLiveDataSource.collect_snapshots: the servers that gave a status, under
\* the time the collection began at.
RconBatch(answering, began) == Captured(answering, began, "real-rcon")

\* RconFirstLiveDataSource: the servers that answer RCON, or A2S when none did.
AskRcon(r) ==
  /\ request[r].pc = "rcon"
  /\ \E answering \in Answering :
       IF answering = {}
       THEN /\ request' = [request EXCEPT ![r].pc = "probed"]
            /\ UNCHANGED answer
       ELSE Answered(r, request[r], "real-time-refresh",
                     Primary(RconBatch(answering, request[r].at)), {})
  /\ UNCHANGED <<now, kind, mode, stored, loop>>

\* What the stored items answer when the refresh got nothing.
Degraded(r, failed) ==
  Answered(r, request[r], IF request[r].read = {} THEN "no-snapshot-available"
                          ELSE "persisted-stale-snapshot", request[r].read, failed)

\* A2SLiveDataSource: the collector without its controlled source.
LiveBatch(answering) == Collected("a2s", FALSE, answering)

\* A2S is asked; what it captures is dated when all were asked.
AskA2S(r) ==
  /\ request[r].pc \in {"a2s", "probed"}
  /\ \E answering \in Answering :
       LET items == Primary(LiveBatch(answering))
       IN IF items = {}
          THEN Degraded(r, IF request[r].pc = "probed" THEN {"a2s", "rcon"} ELSE {"a2s"})
          ELSE Answered(r, request[r], "real-time-refresh", items,
                        IF request[r].pc = "probed" THEN {"rcon"} ELSE {})
  /\ UNCHANGED <<now, kind, mode, stored, loop>>

Next ==
  \/ Tick
  \/ \E l \in Loop : Collect(l) \/ Store(l) \/ StoreFails(l)
  \/ \E r \in Request : Ask(r) \/ AskRcon(r) \/ AskA2S(r)

Spec == Init /\ [][Next]_vars

-----------------------------------------------------------------------------
(* Properties.                                                             *)

Foreign(items) == \E i \in items : i.server \in Controlled

\* [1] With A2S as the live source, what was asked for once a real snapshot was
\* stored shows no controlled server, whatever the loops stored before and since.
ControlledGivesWay ==
  \A r \in Request : (kind = "a2s" /\ answer[r].known) => ~Foreign(answer[r].items)

\* [2] What was asked of the servers themselves shows no controlled server, and
\* nothing older than the request.
LiveAnswersAreReal ==
  \A r \in Request : answer[r].label = "real-time-refresh" =>
    \A i \in answer[r].items : i.server \in Server /\ i.at >= answer[r].asked

\* [3] Old items are only shown after every source of the live kind was asked and
\* none of its servers answered; items called fresh were asked for while the
\* newest of them was no older than the interval.
OldOnlyWhenAllFailed ==
  \A r \in Request :
    /\ (answer[r].items # {} /\ answer[r].asked - LastAt(answer[r].items) > Interval)
         => answer[r].label = "persisted-stale-snapshot"
    /\ answer[r].label = "persisted-stale-snapshot"
         => answer[r].failed = IF kind = "rcon" THEN {"a2s", "rcon"} ELSE {"a2s"}

\* GET /api/servers shows real servers as soon as there are any [1], the servers
\* as they are when it asks them [2], and old rows when nothing else is left [3].
ServerListHonest == ControlledGivesWay /\ LiveAnswersAreReal /\ OldOnlyWhenAllFailed
=============================================================================
