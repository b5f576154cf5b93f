----------------------------- MODULE CrconReads -----------------------------
(* The public pages' reads of CRCON: services/historical_aggregates.py (server
   summary, rankings, player profile, from the CRCON database), services/
   history.py (recent matches and match detail, from the CRCON API with player
   counts and identities from the database), services/player_search.py (API)
   and services/servers.py (live state of the servers, API), with their caches
   (crcon/cache.py) and, for the first two, the connection pool of ReadPool.

   Each request is a thread of the HTTP server.  A step is a cache access, a
   critical section, one API call or one move in the pool; the services differ
   in the order of these steps, and a behaviour is about one service.

   What CRCON knows is, for each server, the times at which its matches
   finished; the k-th match of server s is the pair <<s, k>>.  The API and the
   database tell the same.  An answer is the set of finished matches that its
   numbers or its list are made of, and the servers it could not ask.         *)
EXTENDS ReadPool, Sequences

CONSTANTS Server,       \* enabled targets, in the order they are asked: a sequence
          Ttl,          \* seconds an answer of each kind is kept
          LongestRead,  \* longest time from a request's first read to its answer
          Offered,      \* for each thread, the requests it may be: kind and targets
          WeekLength, MaxTime, MaxMatches

ServerSet == {Server[i] : i \in 1..Len(Server)}
AggregateKinds == {"summary", "ranking", "weekly", "profile"}
HistoryKinds == {"recent", "detail"}
Kinds == AggregateKinds \cup HistoryKinds \cup {"search", "servers"}

ASSUME ReadsAssumption == /\ LongestRead \in Nat \ {0} /\ WeekLength \in Nat \ {0}
                          /\ Ttl \in [Kinds -> Nat] /\ MaxTime \in Nat /\ MaxMatches \in Nat

(* A request names the targets it is about: without any, the services answer at
   once; the detail is that of a match of one server.                         *)
ASSUME OfferedAssumption ==
  \A t \in Thread : \A ask \in Offered[t] :
    /\ ask \in Kinds \X Seq(ServerSet) /\ ask[2] # <<>>
    /\ ask[1] = "detail" => Len(ask[2]) = 1

VARIABLES family,    \* the kinds of the service in question
          schema,    \* the database has the tables and columns that aggregates need
          now, finished,
          req,       \* the requests
          cache,     \* key -> answer and its expiry
          lastGood,  \* the server list's last answer of each server
          lock       \* who holds the server list's lock

serviceVars == <<family, schema, now, finished, req, cache, lastGood, lock>>
vars == <<poolVars, serviceVars>>

NoAsk == [stage |-> "idle", kind |-> "none", todo |-> <<>>, turn |-> 1,
          at |-> 0, rows |-> {}, missing |-> {}, state |-> "none"]

Init == /\ PoolInit
        /\ family \in {AggregateKinds, HistoryKinds, {"search"}, {"servers"}}
        /\ schema \in (IF family = AggregateKinds THEN BOOLEAN ELSE {TRUE})
        /\ now = 0 /\ lock = None
        /\ finished = [s \in ServerSet |-> <<>>]
        /\ req = [t \in Thread |-> NoAsk]
        /\ cache = [k \in {} |-> NoAsk]
        /\ lastGood = [s \in ServerSet |-> {}]

-----------------------------------------------------------------------------
(* What CRCON answers.                                                        *)
MatchesOf(s) == {<<s, k>> : k \in 1..Len(finished[s])}
EndOf(m) == finished[m[1]][m[2]]

WeekStart(time) == (time \div WeekLength) * WeekLength

(* build_window: the current week runs to the moment of the request; the other
   windows contain every match here.                                          *)
InWindow(kind, time, m) ==
  kind \in {"weekly", "profile"} => WeekStart(time) <= EndOf(m) /\ EndOf(m) < time

Asked(q) == {q.todo[i] : i \in 1..Len(q.todo)}

SummaryRows(q) == UNION {MatchesOf(s) : s \in Asked(q)}
RankingRows(q) == {m \in SummaryRows(q) : InWindow(q.kind, q.at, m)}
ProfileRows(q) == RankingRows(q)

DbRows(q) == CASE q.kind = "summary" -> SummaryRows(q)
               [] q.kind \in {"ranking", "weekly"} -> RankingRows(q)
               [] q.kind = "profile" -> ProfileRows(q)
               [] OTHER -> q.rows

(* What one API call adds to the request's answer; the detail is that of the
   server's first match, and has no row while the match is played. *)
ApiRows(q, s) == IF q.kind = "detail" THEN MatchesOf(s) \cap {<<s, 1>>} ELSE MatchesOf(s)

-----------------------------------------------------------------------------
(* Arrivals: the route and the payload builder up to the service's method.    *)
Arrives(t, kinds) ==
  \E ask \in Offered[t] :
    /\ req[t].stage = "idle" /\ ask[1] \in family \cap kinds
    /\ req' = [req EXCEPT ![t] =
                 [NoAsk EXCEPT !.stage = IF family = AggregateKinds THEN "gate" ELSE "lookup",
                               !.kind = ask[1], !.todo = ask[2]]]
    /\ UNCHANGED <<family, schema, now, finished, cache, lastGood, lock>>

ArriveSummary(t) == Arrives(t, {"summary"}) /\ Ask(t)
ArriveRanking(t) == Arrives(t, {"ranking", "weekly"}) /\ Ask(t)
ArriveProfile(t) == Arrives(t, {"profile"}) /\ Ask(t)
ArriveRecent(t) == Arrives(t, {"recent"}) /\ UNCHANGED poolVars
ArriveDetail(t) == Arrives(t, {"detail"}) /\ UNCHANGED poolVars
ArriveSearch(t) == Arrives(t, {"search"}) /\ UNCHANGED poolVars
ArriveServers(t) == Arrives(t, {"servers"}) /\ UNCHANGED poolVars

-----------------------------------------------------------------------------
(* Answers and the cache.                                                     *)
Answered(q, state, rows, missing) ==
  [q EXCEPT !.stage = "answered", !.at = now, !.state = state, !.rows = rows, !.missing = missing]

(* The key of a week's answer contains the moment of the request, so no other
   request finds it: it only takes a place, from the entry used least lately. *)
Keyed(q) == q.kind \in {"summary", "ranking", "recent", "detail", "servers"}
Key(q) == <<q.kind, q.todo>>

Put(q, rows, missing, since) ==
  IF Keyed(q)
  THEN cache' = [k \in DOMAIN cache \cup {Key(q)} |->
                   IF k = Key(q) THEN [rows |-> rows, missing |-> missing, until |-> since + Ttl[q.kind]]
                   ELSE cache[k]]
  ELSE \E kept \in {DOMAIN cache} \cup {DOMAIN cache \ {k} : k \in DOMAIN cache} :
          cache' = [k \in kept |-> cache[k]]

Hit(q) == Keyed(q) /\ Key(q) \in DOMAIN cache /\ cache[Key(q)].until > now

AnswerCached(t) ==
  /\ req' = [req EXCEPT ![t] = Answered(@, "available", cache[Key(@)].rows, cache[Key(@)].missing)]
  /\ UNCHANGED cache

AnswerNone(t) == req' = [req EXCEPT ![t] = Answered(@, "unavailable", {}, Asked(@))] /\ UNCHANGED cache

(* Mutant: the detail of a match is stored whether it has ended or not. *)
AnswerStored(t, rows, missing) ==
  LET q == req[t] IN
  /\ req' = [req EXCEPT ![t] = Answered(q, "available", rows, missing)]
  /\ IF q.kind = "search" \/ (q.kind = "profile" /\ rows = {})
     THEN UNCHANGED cache
     ELSE Put(q, rows, missing, now)

(* The new answer is stored, unless there is nothing that should be kept: a
   profile without matches, a match still played, a search.                   *)
AnswerNew(t, rows, missing) ==
  LET q == req[t] IN
  /\ req' = [req EXCEPT ![t] = Answered(q, "available", rows, missing)]
  /\ IF q.kind = "search" \/ (q.kind \in {"profile", "detail"} /\ rows = {})
     THEN UNCHANGED cache
     ELSE Put(q, rows, missing, IF q.kind = "servers" THEN q.at ELSE now)

Quiet == UNCHANGED <<family, schema, now, finished, lastGood, lock>>

-----------------------------------------------------------------------------
(* The steps of the services.                                                 *)

(* The probe of the database answered, and what it lists is enough. *)
Capable(t) == result[t] = "rows" /\ schema

(* _schema_gate, first in every aggregate: it needs a connection of its own.  *)
Gate(t) == /\ req[t].stage = "gate" /\ pc[t] = "out"
           /\ IF Capable(t)
              THEN req' = [req EXCEPT ![t].stage = "lookup"] /\ UNCHANGED cache
              ELSE AnswerNone(t)
           /\ Quiet /\ UNCHANGED poolVars

Lookup(t) ==
  LET q == req[t] IN
  /\ q.stage = "lookup"
  /\ IF Hit(q) THEN AnswerCached(t) /\ UNCHANGED poolVars
     ELSE /\ UNCHANGED cache
          /\ \/ /\ q.kind \in AggregateKinds
                /\ req' = [req EXCEPT ![t] = [q EXCEPT !.stage = "read", !.at = now]]
                /\ Ask(t)
             \/ /\ q.kind \in HistoryKinds \cup {"search"}
                /\ req' = [req EXCEPT ![t] = [q EXCEPT !.stage = "api", !.at = now]]
                /\ UNCHANGED poolVars
             \/ /\ q.kind = "servers"
                /\ req' = [req EXCEPT ![t].stage = "lock"]
                /\ UNCHANGED poolVars
  /\ Quiet

(* get_server_list under its lock: look again, then refresh. *)
Refresh(t) ==
  LET q == req[t] IN
  /\ q.stage = "lock" /\ lock = None
  /\ IF Hit(q) THEN AnswerCached(t) /\ UNCHANGED lock
     ELSE /\ lock' = t
          /\ req' = [req EXCEPT ![t] = [q EXCEPT !.stage = "api", !.at = now]]
          /\ UNCHANGED cache
  /\ UNCHANGED <<family, schema, now, finished, lastGood, poolVars>>

(* One call of the API for the server whose turn it is; a call that fails or
   times out leaves that server out.                                          *)
Turn(q) == q.todo[q.turn]

Found(t, rows) ==
  LET q == req[t] IN
  req' = [req EXCEPT ![t] =
            [q EXCEPT !.rows = @ \cup rows,
                      !.turn = @ + 1,
                      !.stage = IF q.turn = Len(q.todo) THEN "gathered" ELSE "api"]]

(* A search by name finds nobody on this server: it is followed by one by id. *)
NobodyByName(t) ==
  LET q == req[t] IN
  /\ q.stage = "api" /\ q.kind = "search" /\ MatchesOf(Turn(q)) = {}
  /\ req' = [req EXCEPT ![t].stage = "byId"]
  /\ Quiet /\ UNCHANGED <<cache, poolVars>>

Call(t) ==
  LET q == req[t]  s == Turn(q) IN
  /\ \/ q.stage = "byId"
     \/ q.stage = "api" /\ ~(q.kind = "search" /\ MatchesOf(s) = {})
  /\ Found(t, ApiRows(q, s))
  /\ lastGood' = IF q.kind = "servers" THEN [lastGood EXCEPT ![s] = MatchesOf(s)] ELSE lastGood
  /\ UNCHANGED <<family, schema, now, finished, cache, lock, poolVars>>

CallFails(t) ==
  LET q == req[t]  s == Turn(q) IN
  /\ q.stage \in {"api", "byId"}
  /\ req' = [req EXCEPT ![t] =
               [q EXCEPT !.rows = IF q.kind = "servers" THEN @ \cup lastGood[s] ELSE @,
                         !.missing = @ \cup {s},
                         !.turn = @ + 1,
                         !.stage = IF q.turn = Len(q.todo) THEN "gathered" ELSE "api"]]
  /\ Quiet /\ UNCHANGED <<cache, poolVars>>

(* Every server was asked.  The server list is published with what was last
   good for the servers that failed; the others need one server at least, and
   history asks the database for player counts or identities.                 *)
Gathered(t) ==
  LET q == req[t]
      nothing == q.missing = Asked(q)
  IN
  /\ q.stage = "gathered"
  /\ \/ /\ q.kind = "servers"
        /\ AnswerNew(t, q.rows, q.missing)
        /\ lock' = None /\ UNCHANGED poolVars
     \/ /\ q.kind # "servers" /\ nothing
        /\ AnswerNone(t)
        /\ UNCHANGED <<lock, poolVars>>
     \/ /\ ~nothing /\ (q.kind = "search" \/ (q.kind = "recent" /\ q.rows = {}))
        /\ AnswerNew(t, q.rows, q.missing)
        /\ UNCHANGED <<lock, poolVars>>
     \/ /\ ~nothing /\ (q.kind = "detail" \/ (q.kind = "recent" /\ q.rows # {}))
        /\ req' = [req EXCEPT ![t].stage = "names"]
        /\ Ask(t)
        /\ UNCHANGED <<cache, lock>>
  /\ UNCHANGED <<family, schema, now, finished, lastGood>>

(* Without its counts or identities the answer is given, and kept, all the same. *)
Enriched(t) ==
  /\ req[t].stage = "names" /\ pc[t] = "out"
  /\ AnswerNew(t, req[t].rows,
               req[t].missing \cup (IF result[t] = "rows" THEN {} ELSE {"names"}))
  /\ Quiet /\ UNCHANGED poolVars

ReadDone(t) ==
  /\ req[t].stage = "read" /\ pc[t] = "out"
  /\ IF result[t] = "rows" THEN AnswerNew(t, req[t].rows, {}) ELSE AnswerNone(t)
  /\ Quiet /\ UNCHANGED poolVars

(* The query of an aggregate reads the database as it is then. *)
Query(t) ==
  /\ Transact(t)
  /\ req' = IF req[t].stage = "read" THEN [req EXCEPT ![t].rows = DbRows(req[t])] ELSE req
  /\ Quiet /\ UNCHANGED cache

-----------------------------------------------------------------------------
(* CRCON and time.  A connection attempt, a statement, a wait for the pool and
   an API call each have a timeout in the code: together they keep a request
   that has begun to read from lasting longer than LongestRead.               *)
Finish(s) == /\ Cardinality(UNION {MatchesOf(x) : x \in ServerSet}) < MaxMatches
             /\ finished' = [finished EXCEPT ![s] = Append(@, now)]
             /\ UNCHANGED <<family, schema, now, req, cache, lastGood, lock, poolVars>>

(* An answer is looked at when it is given, and forgotten later. *)
Past == [NoAsk EXCEPT !.stage = "answered"]

Tick == /\ now < MaxTime
        /\ \A t \in Thread : req[t].stage \in {"api", "byId", "gathered", "names", "read"}
                            => now - req[t].at < LongestRead
        /\ now' = now + 1
        /\ req' = [t \in Thread |-> IF req[t].stage = "answered" THEN Past ELSE req[t]]
        /\ UNCHANGED <<family, schema, finished, cache, lastGood, lock, poolVars>>

PoolStep == /\ \/ \E t \in Thread : Borrower(t)
               \/ family \in {AggregateKinds, HistoryKinds} /\ ClosePool
               \/ CloseDoomed
            /\ UNCHANGED serviceVars

Arrive(t) == \/ ArriveSummary(t) \/ ArriveRanking(t) \/ ArriveProfile(t) \/ ArriveRecent(t)
             \/ ArriveDetail(t) \/ ArriveSearch(t) \/ ArriveServers(t)

ServiceStep(t) == \/ Gate(t) \/ Lookup(t) \/ Refresh(t)
                  \/ NobodyByName(t) \/ Call(t) \/ CallFails(t)
                  \/ Gathered(t) \/ Enriched(t) \/ ReadDone(t) \/ Query(t)

Next == \/ \E t \in Thread : Arrive(t) \/ ServiceStep(t)
        \/ \E s \in ServerSet : Finish(s)
        \/ Tick \/ PoolStep

Spec == Init /\ [][Next]_vars

-----------------------------------------------------------------------------
(* How old an answer may be: what its kind is kept for, and the time the read
   behind it took.  A detail of an ended match cannot change, so it may be kept
   for an hour; it must not say that an ended match is being played. *)
MaxAge(kind) == LongestRead + (IF kind \in {"summary", "ranking", "recent", "servers"} THEN Ttl[kind] ELSE 0)

(* An answer shows every match that finished, on a server that it does not name
   as missing, more than its kind's age ago - whichever of several concurrent
   reads filled the cache and however slow they were - and a week's answer has
   no match of the week before.                                               *)
FinishedMatchShows ==
  \A t \in Thread :
    LET q == req[t] IN
    q.stage = "answered" /\ q.state = "available" =>
      /\ \A s \in Asked(q) \ q.missing : \A m \in MatchesOf(s) :
           /\ EndOf(m) < q.at - MaxAge(q.kind)
           /\ q.kind = "detail" => m[2] = 1
           /\ q.kind \in {"weekly", "profile"} => EndOf(m) >= WeekStart(q.at)
           => m \in q.rows
      /\ q.kind \in {"weekly", "profile"} =>
           \A m \in q.rows : EndOf(m) >= WeekStart(IF q.at < MaxAge(q.kind) THEN 0 ELSE q.at - MaxAge(q.kind))
=============================================================================
