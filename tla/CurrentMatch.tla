---------------------------- MODULE CurrentMatch ----------------------------
(***************************************************************************)
(* CurrentMatchSnapshotService of backend/app/services/current_match.py    *)
(* for one configured server: request threads that ask for the snapshot of *)
(* the match being played, the TTL cache they share, the single flight     *)
(* that lets one of them refresh it, and the last good snapshot they fall  *)
(* back on.  Every key of the service's dictionaries is a server slug, so  *)
(* the servers differ in nothing and one of them is modelled.              *)
(*                                                                         *)
(* The CRCON API and database are external: the match goes on, the API may *)
(* answer or fail at every call, and map_history may lag behind the match. *)
(***************************************************************************)
EXTENDS Integers, FiniteSets

CONSTANTS
  Request,      \* request threads
  Ttl,          \* CURRENT_MATCH_CACHE_TTL_SECONDS, in ticks
  MaxNow,       \* bound: ticks of the clock
  MaxMatch,     \* bound: matches played
  None,         \* Python's None
  Failure       \* the exception a flight ended with

ASSUME CMAssumption ==
  /\ Ttl \in Nat \ {0} /\ MaxNow \in Nat /\ MaxMatch \in Nat \ {0}

VARIABLES
  now,          \* the clock
  match,        \* CRCON: the match being played
  mapped,       \* CRCON: the match of the newest open row of map_history
  cache,        \* the cache entry of the server: value and expiry
  flight,       \* the request that leads the registered flight
  lastMatch,    \* _last_match_by_server
  lastGood,     \* _last_good_by_server
  pc,           \* where each request is
  on,           \* the leader whose event a request waits for
  got,          \* what a request holds: None, Failure or a snapshot
  seen,         \* what the leader's reads returned so far
  answer        \* the last answer of each request

world == <<now, match, mapped>>
service == <<cache, flight, lastMatch, lastGood>>
local == <<pc, on, got, seen, answer>>
vars == <<world, service, local>>

Matches == 1..MaxMatch
Instant == 0..MaxNow
\* cm1.<map id> when map_history has the match, em1.<hash> until then.
Identity == Matches \X {"canonical", "ephemeral"}

\* What of a snapshot the properties tell apart: its identity, the match its
\* players were read in (None: live stats failed), observed_at, the
\* observed_at of the refresh its data come from, and the stale mark.
Snapshot == [id : Identity, players : Matches \cup {None},
             observed : Instant, read : Instant, stale : BOOLEAN]
\* The model values are none of the data they stand beside.
ASSUME NoneAssumption ==
  /\ None \notin Request \cup Identity \cup Snapshot
  /\ None \notin [value : Snapshot, expires : 0..(MaxNow + Ttl)]
  /\ Failure \notin Snapshot /\ Failure # None

Outcome == Snapshot \cup {None, Failure}
Reads == [at : Instant, info : Matches \cup {None}, stats : Matches \cup {None}]
NothingRead == [at |-> 0, info |-> None, stats |-> None]

\* A request that leads a flight, from its registration to its removal.
Leading == {"recheck", "info", "stats", "map", "put", "pop"}
Refreshing == {"info", "stats", "map"}
Step == Leading \cup {"idle", "miss", "wait", "set", "woken", "failed", "stalePut"}

TypeOK ==
  /\ now \in Instant /\ match \in Matches /\ mapped \in 0..MaxMatch
  /\ cache \in [value : Snapshot, expires : 0..(MaxNow + Ttl)] \cup {None}
  /\ flight \in Request \cup {None}
  /\ lastMatch \in Identity \cup {None}
  /\ lastGood \in Snapshot \cup {None}
  /\ pc \in [Request -> Step]
  /\ on \in [Request -> Request \cup {None}]
  /\ got \in [Request -> Outcome]
  /\ seen \in [Request -> Reads]
  /\ answer \in [Request -> Outcome]

Init ==
  /\ now = 0 /\ match = 1 /\ mapped \in {0, 1}
  /\ cache = None /\ flight = None /\ lastMatch = None /\ lastGood = None
  /\ pc = [r \in Request |-> "idle"]
  /\ on = [r \in Request |-> None]
  /\ got = [r \in Request |-> None]
  /\ seen = [r \in Request |-> NothingRead]
  /\ answer = [r \in Request |-> None]

-----------------------------------------------------------------------------
(* The cache.                                                              *)

\* TtlCache.get: an entry is served strictly before it expires ...
Hit == cache # None /\ cache.expires > now
\* ... and is deleted when found expired.
Lookup == IF Hit THEN cache ELSE None
Put(snapshot) == [value |-> snapshot, expires |-> now + Ttl]

-----------------------------------------------------------------------------
(* The world.                                                              *)

Tick == /\ now < MaxNow
        /\ now' = now + 1
        /\ UNCHANGED <<match, mapped, service, local>>

\* The next match starts; its row of map_history appears at once or later.
MatchChange == /\ match < MaxMatch
               /\ match' = match + 1
               /\ UNCHANGED <<now, mapped, service, local>>

MapRow == /\ mapped < match
          /\ mapped' = match
          /\ UNCHANGED <<now, match, service, local>>

-----------------------------------------------------------------------------
(* get_snapshot.                                                           *)

\* A request arrives and is answered from the cache, or misses.
Ask(r) ==
  /\ pc[r] = "idle"
  /\ cache' = Lookup
  /\ IF Hit THEN /\ answer' = [answer EXCEPT ![r] = cache.value]
                 /\ UNCHANGED pc
            ELSE /\ pc' = [pc EXCEPT ![r] = "miss"]
                 /\ UNCHANGED answer
  /\ UNCHANGED <<world, flight, lastMatch, lastGood, on, got, seen>>

\* Mutant: every caller leads a flight of its own.
JoinAlone(r) ==
  /\ pc[r] = "miss"
  /\ flight' = r
  /\ pc' = [pc EXCEPT ![r] = "recheck"]
  /\ UNCHANGED <<world, cache, lastMatch, lastGood, on, got, seen, answer>>
\* _SingleFlight.run: lead a new flight or wait for the registered one.
Join(r) ==
  /\ pc[r] = "miss"
  /\ IF flight = None
     THEN /\ flight' = r
          /\ pc' = [pc EXCEPT ![r] = "recheck"]
          /\ UNCHANGED on
     ELSE /\ pc' = [pc EXCEPT ![r] = "wait"]
          /\ on' = [on EXCEPT ![r] = flight]
          /\ UNCHANGED flight
  /\ UNCHANGED <<world, cache, lastMatch, lastGood, got, seen, answer>>

\* _refresh_and_cache: the leader looks at the cache again and, on a miss,
\* takes observed_at and starts to read.
Recheck(r) ==
  /\ pc[r] = "recheck"
  /\ cache' = Lookup
  /\ IF Hit THEN /\ got' = [got EXCEPT ![r] = cache.value]
                 /\ pc' = [pc EXCEPT ![r] = "pop"]
                 /\ UNCHANGED seen
            ELSE /\ seen' = [seen EXCEPT ![r] = [NothingRead EXCEPT !.at = now]]
                 /\ pc' = [pc EXCEPT ![r] = "info"]
                 /\ UNCHANGED got
  /\ UNCHANGED <<world, flight, lastMatch, lastGood, on, answer>>

\* get_public_info: the current match, or an exception that is recorded.
ReadInfo(r) ==
  /\ pc[r] = "info"
  /\ \E read \in {match, None} : seen' = [seen EXCEPT ![r].info = read]
  /\ pc' = [pc EXCEPT ![r] = "stats"]
  /\ UNCHANGED <<world, service, on, got, answer>>

\* get_live_game_stats: a second call, which may find the next match.
ReadStats(r) ==
  /\ pc[r] = "stats"
  /\ \E read \in {match, None} : seen' = [seen EXCEPT ![r].stats = read]
  /\ pc' = [pc EXCEPT ![r] = "map"]
  /\ UNCHANGED <<world, service, on, got, answer>>

\* find_current_map: the open row of the match public info named or, when
\* public info failed, whichever row is open.
OpenMap(info) == IF mapped # 0 /\ (info = None \/ info = mapped) THEN mapped ELSE None

\* The identity of a snapshot; None when neither source names a match.
IdentityOf(info, map) ==
  CASE map # None                  -> <<map, "canonical">>
    [] map = None /\ info # None   -> <<info, "ephemeral">>
    [] OTHER                       -> None

\* Mutant: a failed flight is removed but its event is never set.
FailSilently(r) ==
  /\ got' = [got EXCEPT ![r] = Failure]
  /\ flight' = None
  /\ pc' = [pc EXCEPT ![r] = "failed"]
  /\ UNCHANGED <<world, cache, lastMatch, lastGood, on, answer>>
\* No source names the match: CurrentMatchUnavailableError ends the flight.
Fail(r) ==
  /\ got' = [got EXCEPT ![r] = Failure]
  /\ pc' = [pc EXCEPT ![r] = "pop"]
  /\ UNCHANGED <<world, service, on, answer>>

\* Mutant: the new snapshot is cached but never kept as the last good one.
RecordMatchOnly(r, snapshot) ==
  /\ cache' = IF lastMatch \in {None, snapshot.id} THEN cache ELSE None
  /\ lastMatch' = snapshot.id
  /\ got' = [got EXCEPT ![r] = snapshot]
  /\ pc' = [pc EXCEPT ![r] = "put"]
  /\ UNCHANGED <<world, flight, lastGood, on, answer>>
\* The critical section of _identity_lock in _refresh_and_cache.
Record(r, snapshot) ==
  /\ cache' = IF lastMatch \in {None, snapshot.id} THEN cache ELSE None
  /\ lastMatch' = snapshot.id
  /\ lastGood' = snapshot
  /\ got' = [got EXCEPT ![r] = snapshot]
  /\ pc' = [pc EXCEPT ![r] = "put"]
  /\ UNCHANGED <<world, flight, on, answer>>

\* What the reads of a refresh amount to.
SnapshotOf(id, reads) ==
  [id |-> id, players |-> reads.stats, observed |-> reads.at, read |-> reads.at,
   stale |-> FALSE]

Refreshed(r, id) == IF id = None THEN Fail(r) ELSE Record(r, SnapshotOf(id, seen[r]))

\* The rest of _refresh: the database is asked for the map, or fails, and the
\* identity is chosen; the snapshot is recorded or the refresh fails.
Identify(r) ==
  /\ pc[r] = "map"
  /\ seen' = [seen EXCEPT ![r] = NothingRead]
  /\ \E map \in {OpenMap(seen[r].info), None} :
       Refreshed(r, IdentityOf(seen[r].info, map))

\* self._cache.put, after _identity_lock is released.
PutFresh(r) ==
  /\ pc[r] = "put"
  /\ cache' = Put(got[r])
  /\ pc' = [pc EXCEPT ![r] = "pop"]
  /\ UNCHANGED <<world, flight, lastMatch, lastGood, on, got, seen, answer>>

\* The finally clause of run: the flight is removed under the lock ...
Pop(r) ==
  /\ pc[r] = "pop"
  /\ flight' = None
  /\ pc' = [pc EXCEPT ![r] = "set"]
  /\ UNCHANGED <<world, cache, lastMatch, lastGood, on, got, seen, answer>>

\* ... and its event is set: the waiters see the leader's result or error.
SetEvent(r) ==
  /\ pc[r] = "set"
  /\ LET done == {r} \cup {w \in Request : pc[w] = "wait" /\ on[w] = r} IN
     /\ pc' = [q \in Request |-> IF q \in done THEN "woken" ELSE pc[q]]
     /\ got' = [q \in Request |-> IF q \in done THEN got[r] ELSE got[q]]
     /\ on' = [q \in Request |-> IF q \in done THEN None ELSE on[q]]
  /\ UNCHANGED <<world, service, seen, answer>>

\* run returns the result, or raises the error into get_snapshot's handler.
Resume(r) ==
  /\ pc[r] = "woken"
  /\ IF got[r] = Failure
     THEN /\ pc' = [pc EXCEPT ![r] = "failed"]
          /\ UNCHANGED <<got, answer>>
     ELSE /\ answer' = [answer EXCEPT ![r] = got[r]]
          /\ got' = [got EXCEPT ![r] = None]
          /\ pc' = [pc EXCEPT ![r] = "idle"]
  /\ UNCHANGED <<world, service, on, seen>>

\* The last good snapshot, marked stale and observed now.
Stale(snapshot) == [snapshot EXCEPT !.observed = now, !.stale = TRUE]

\* The handler reads the last good snapshot under _identity_lock, and raises
\* again when there is none.
FallBack(r) ==
  /\ pc[r] = "failed"
  /\ IF lastGood = None
     THEN /\ answer' = [answer EXCEPT ![r] = Failure]
          /\ got' = [got EXCEPT ![r] = None]
          /\ pc' = [pc EXCEPT ![r] = "idle"]
     ELSE /\ got' = [got EXCEPT ![r] = Stale(lastGood)]
          /\ pc' = [pc EXCEPT ![r] = "stalePut"]
          /\ UNCHANGED answer
  /\ UNCHANGED <<world, service, on, seen>>

\* It caches and returns its stale copy, outside every lock.
PutStale(r) ==
  /\ pc[r] = "stalePut"
  /\ cache' = Put(got[r])
  /\ answer' = [answer EXCEPT ![r] = got[r]]
  /\ got' = [got EXCEPT ![r] = None]
  /\ pc' = [pc EXCEPT ![r] = "idle"]
  /\ UNCHANGED <<world, flight, lastMatch, lastGood, on, seen>>

-----------------------------------------------------------------------------
Continue(r) ==
  \/ Join(r) \/ Recheck(r) \/ ReadInfo(r) \/ ReadStats(r) \/ Identify(r)
  \/ PutFresh(r) \/ Pop(r) \/ SetEvent(r) \/ Resume(r) \/ FallBack(r) \/ PutStale(r)

Next == \/ Tick \/ MatchChange \/ MapRow
        \/ \E r \in Request : Ask(r) \/ Continue(r)

Spec == Init /\ [][Next]_vars

\* A request that was accepted keeps running: every upstream call of a refresh
\* carries a timeout (crcon/api.py:57, statement_timeout of the repository).
FairSpec == Spec /\ \A r \in Request : WF_vars(Continue(r))

-----------------------------------------------------------------------------
(* Safety.                                                                 *)

\* At most one request refreshes the server, whatever the interleaving of
\* arrivals, failures and wake-ups.
OneRefresh ==
  \A r, q \in Request : pc[r] \in Leading /\ pc[q] \in Leading => r = q

\* A request that waits for a flight has a leader that has not yet set the
\* event, so no waiter is left behind by a success, a failure or a new flight.
WaitersHaveLeader ==
  \A r \in Request : pc[r] = "wait" =>
    /\ on[r] # None
    /\ pc[on[r]] \in Leading \cup {"set"}

\* The single flight: one leader at a time, and none of those that wait for it
\* is forgotten (_SingleFlight.run and its finally clause).
FlightSound == OneRefresh /\ WaitersHaveLeader

\* CRCON is read only while no snapshot of an earlier refresh can be served
\* from the cache: only a stale copy may be live there (the second look at the
\* cache in _refresh_and_cache).
RefreshOnlyOnMiss ==
  \A r \in Request : pc[r] \in Refreshing /\ Hit => cache.value.stale

\* A fresh snapshot in the cache is the last good one, the one an outage will
\* fall back on.
FreshIsLastGood ==
  cache # None /\ ~cache.value.stale => cache.value = lastGood

\* What the two locks of the service keep in step though the cache is written
\* after the last good snapshot and looked at before the flight.
CacheAgrees == FreshIsLastGood /\ RefreshOnlyOnMiss

IsFresh(a) == a \notin {None, Failure} /\ ~a.stale

\* Time does not run backwards for anybody: the last good snapshot is never
\* replaced by an older one, and the fresh answers a client gets never go back to
\* an earlier refresh, though a waiter may read its result long after later
\* flights ended (_refresh_and_cache, _SingleFlight.run).
NeverOlder ==
  [][/\ lastGood # None => lastGood' # None /\ lastGood'.observed >= lastGood.observed
     /\ \A r \in Request : IsFresh(answer[r]) /\ IsFresh(answer'[r])
          => answer'[r].observed >= answer[r].observed]_vars

-----------------------------------------------------------------------------
(* Liveness.                                                               *)

\* Every request is answered.
RequestEnds == \A r \in Request : pc[r] # "idle" ~> pc[r] = "idle"

=============================================================================
