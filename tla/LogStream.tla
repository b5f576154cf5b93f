------------------------------ MODULE LogStream ------------------------------
(***************************************************************************)
(* The killfeed consumer of backend/app/crcon/log_stream.py for one target:*)
(* the CrconLogStreamManager thread that reconnects to the CRCON           *)
(* websocket, the bounded _TargetBuffer it fills, and the request threads  *)
(* that read the window of the current match.  The CRCON server is         *)
(* external: it appends events, sends the next slice of the stream, with   *)
(* or without a replay of older events, drops the connection, refuses it,  *)
(* is disabled or declares a cursor invalid.                               *)
(*                                                                         *)
(* Event i of the stream carries the stream id i; log[i].match is the match*)
(* it was logged in, which stands for its timestamp: the event is not older*)
(* than the start of match m exactly when log[i].match >= m.  log[i].kill  *)
(* says whether parsing keeps it: a KILL or TEAM KILL with a timestamp.    *)
(***************************************************************************)
EXTENDS Integers, Sequences

CONSTANTS
  BufferSize,   \* maxlen of the deque (18 in the code)
  MaxEvents,    \* bound: events in the stream
  MaxMatches,   \* bound: matches played
  MaxStarts     \* bound: calls of start() that create a thread

ASSUME BoundsAssumption ==
  /\ BufferSize \in Nat \ {0}
  /\ MaxEvents \in Nat /\ MaxMatches \in Nat \ {0} /\ MaxStarts \in Nat

VARIABLES
  log,        \* CRCON: the events of the stream
  valid,      \* CRCON: cursors below this id are rejected
  match,      \* CRCON: the match being played
  pos,        \* CRCON: last id sent on the connection, or implied by the cursor
  pc,         \* the consumer thread
  conn,       \* its websocket: "none", "open" or "closed" by stop()
  rejected,   \* CRCON will answer the subscription with "invalid stream id"
  stop,       \* _stop
  threads,    \* _threads is not empty
  stopping,   \* stop() holds the lifecycle lock
  starts,     \* number of threads created
  events, seen, lastKey, lastSeen, bufMatch, status, gap, truncated, \* _TargetBuffer
  floor,      \* history: the order key the current loss accounting starts at
  tailing     \* history: no flag and no cursor, so the accounting is to begin

server == <<log, valid, match>>
buffer == <<events, seen, lastKey, lastSeen, bufMatch, status, gap, truncated>>
manager == <<stop, threads, stopping, starts>>
history == <<floor, tailing>>
vars == <<server, pos, pc, conn, rejected, manager, buffer, history>>

\* A match is named canonically, or by a temporary identity while map_history
\* lags behind the public info.
Identity == (1..MaxMatches) \X {"canonical", "ephemeral"}
NoMatch == <<0, "none">>
Status == {"AVAILABLE", "DISABLED", "AUTH_FAILED", "UNAVAILABLE"}

Contents(s) == {s[k] : k \in 1..Len(s)}

\* The elements of s that are in S, in the order of s.
Keep(s, S) ==
  LET f[k \in 0..Len(s)] == IF k = 0 THEN <<>>
                            ELSE IF s[k] \in S THEN Append(f[k - 1], s[k])
                            ELSE f[k - 1]
  IN f[Len(s)]

\* deque(maxlen=BufferSize): appending to a full deque drops the oldest.
Newest(s) == IF Len(s) <= BufferSize THEN s
             ELSE SubSeq(s, Len(s) - BufferSize + 1, Len(s))
\* The entries it drops.
Evicted(s) == SubSeq(s, 1, Len(s) - BufferSize)

Init ==
  /\ log = <<>> /\ valid = 1 /\ match = 1 /\ pos = 0
  /\ pc = "off" /\ conn = "none" /\ rejected = FALSE
  /\ stop = FALSE /\ threads = FALSE /\ stopping = FALSE /\ starts = 0
  /\ events = <<>> /\ seen = {} /\ lastKey = 0 /\ lastSeen = 0
  /\ bufMatch = NoMatch /\ status = "UNAVAILABLE" /\ gap = FALSE /\ truncated = FALSE
  /\ floor = 0 /\ tailing = TRUE

-----------------------------------------------------------------------------
(***************************************************************************)
(* The CRCON server.                                                       *)
(***************************************************************************)
ServerLogs ==
  /\ Len(log) < MaxEvents
  /\ \E kill \in BOOLEAN : log' = Append(log, [match |-> match, kill |-> kill])
  /\ UNCHANGED <<valid, match, pos, pc, conn, rejected, manager, buffer, history>>

ServerNextMatch ==
  /\ match < MaxMatches
  /\ match' = match + 1
  /\ UNCHANGED <<log, valid, pos, pc, conn, rejected, manager, buffer, history>>

\* The stream is recreated: no cursor handed out so far is accepted again.
\* Bound: once.
ServerResets ==
  /\ Len(log) >= valid /\ valid = 1
  /\ valid' = Len(log) + 1
  /\ UNCHANGED <<log, match, pos, pc, conn, rejected, manager, buffer, history>>

-----------------------------------------------------------------------------
(***************************************************************************)
(* _TargetBuffer.                                                          *)
(***************************************************************************)
UpdateStatus(s) ==
  /\ status' = s
  /\ UNCHANGED <<events, seen, lastKey, lastSeen, bufMatch, gap, truncated, history>>

\* Mutant: the cursor is dropped without a mark.
MarkInvalidCursorSilently ==
  /\ lastSeen' = 0
  /\ status' = "UNAVAILABLE"
  /\ UNCHANGED <<events, seen, lastKey, bufMatch, gap, truncated, history>>

MarkInvalidCursor ==
  /\ lastSeen' = 0
  /\ gap' = TRUE
  /\ status' = "UNAVAILABLE"
  /\ UNCHANGED <<events, seen, lastKey, bufMatch, truncated, history>>

\* Neither still in the buffer nor at or before the last recorded order key.
IsNew(i) == i \notin seen /\ i > lastKey
New(batch) == Keep(batch, {i \in Contents(batch) : IsNew(i)})

\* How far the consumer has got.
Reached == IF lastKey > lastSeen THEN lastKey ELSE lastSeen

\* History: where CRCON started at its tail, what precedes the first new event,
\* or the first cursor if it comes without one, was never promised.
Account(added, last) ==
  IF ~tailing \/ last = 0 THEN UNCHANGED history
  ELSE LET begin == IF added = <<>> THEN last ELSE added[1]
       IN /\ floor' = IF begin > floor THEN begin ELSE floor
          /\ tailing' = FALSE

\* Mutant: an eviction leaves no trace and the evicted id stays in seen_ids.
RecordUnmarked(batch, last) ==
  LET added == New(batch)
      kept == Newest(events \o added)
  IN /\ events' = kept
     /\ seen' = seen \cup Contents(added)
     /\ lastKey' = IF added = <<>> THEN lastKey ELSE added[Len(added)]
     /\ lastSeen' = IF last # 0 THEN last ELSE lastSeen
     /\ status' = "AVAILABLE"
     /\ Account(added, last)
     /\ UNCHANGED <<bufMatch, gap, truncated>>

\* record(): new events are appended, a full deque evicts its oldest; the cursor
\* is the one of the payload, if it has one.
Record(batch, last) ==
  LET added == New(batch)
      kept == Newest(events \o added)
  IN /\ events' = kept
     /\ seen' = (seen \cup Contents(added)) \ Contents(Evicted(events \o added))
     /\ truncated' = (truncated \/ Len(events \o added) > BufferSize)
     /\ lastKey' = IF added = <<>> THEN lastKey ELSE added[Len(added)]
     /\ lastSeen' = IF last # 0 THEN last ELSE lastSeen
     /\ status' = "AVAILABLE"
     /\ Account(added, last)
     /\ UNCHANGED <<bufMatch, gap>>

\* A request reads the window of match `id`; a change of identity clears the
\* flags, and events older than the start of the match are dropped for good.
WindowForMatch(id) ==
  LET transitioned == bufMatch # NoMatch /\ bufMatch # id
      retained == Keep(events, {i \in Contents(events) : log[i].match >= id[1]})
  IN /\ bufMatch' = id
     /\ gap' = (gap /\ ~transitioned)
     /\ truncated' = (truncated /\ ~transitioned)
     /\ events' = retained
     /\ seen' = Contents(retained)
     /\ floor' = IF transitioned THEN Reached ELSE floor
     /\ tailing' = (tailing \/ (transitioned /\ lastSeen = 0))
     /\ UNCHANGED <<lastKey, lastSeen, status>>

\* The identity a request has resolved from CRCON's API: the match being
\* played, or the one before while the public info lags.
ReadWindow ==
  /\ \E id \in Identity :
       /\ id[1] \in {match, match - 1}
       /\ id[1] >= bufMatch[1]
       /\ WindowForMatch(id)
  /\ UNCHANGED <<server, pos, pc, conn, rejected, manager>>

-----------------------------------------------------------------------------
(***************************************************************************)
(* _consume_target.                                                        *)
(***************************************************************************)
\* Mutant: a failure ends the thread.
DisconnectForGood ==
  /\ conn' = "none"
  /\ rejected' = FALSE
  /\ pc' = "dead"

\* The `finally`: the connection is unregistered and closed.
Disconnect ==
  /\ conn' = "none"
  /\ rejected' = FALSE
  /\ pc' = "backoff"

LoopCheck ==
  /\ pc = "loop"
  /\ pc' = IF stop THEN "dead" ELSE "connect"
  /\ UNCHANGED <<server, pos, conn, rejected, manager, buffer, history>>

ConnectOk ==
  /\ pc = "connect"
  /\ pc' = "send"
  /\ conn' = "open"
  /\ UNCHANGED <<server, pos, rejected, manager, buffer, history>>

\* 401 or 403, any other status, or a transport error.
ConnectFails ==
  /\ pc = "connect"
  /\ \E s \in {"AUTH_FAILED", "UNAVAILABLE"} : UpdateStatus(s)
  /\ Disconnect
  /\ UNCHANGED <<server, pos, manager>>

\* Without a cursor CRCON starts at its tail.
Subscribe ==
  /\ pc = "send"
  /\ conn = "open"
  /\ pc' = "recv"
  /\ pos' = IF lastSeen = 0 THEN Len(log) ELSE lastSeen
  /\ rejected' = (lastSeen # 0 /\ lastSeen < valid)
  /\ UNCHANGED <<server, conn, manager, buffer, history>>

\* parse_log_stream_payload keeps the kills of the ids sent.
Slice(from, to) == [k \in 1..(to - from + 1) |-> from + k - 1]
Parsed(from, to) == Keep(Slice(from, to), {i \in from..to : log[i].kill})

\* One payload: the next ids of the stream, after any number of ids that were
\* sent before, and the last of them as its last_seen_id, which CRCON may leave
\* out when there are no kills.
ReceiveBatch ==
  /\ pc = "recv"
  /\ conn = "open"
  /\ ~rejected
  /\ \E from \in 1..(pos + 1), to \in pos..Len(log) : \E last \in {0, to} :
       /\ last = 0 => Parsed(from, to) = <<>>
       /\ Record(Parsed(from, to), last)
       /\ pos' = to
  /\ UNCHANGED <<server, pc, conn, rejected, manager>>

ReceiveInvalidCursor ==
  /\ pc = "recv"
  /\ conn = "open"
  /\ rejected
  /\ MarkInvalidCursor
  /\ Disconnect
  /\ UNCHANGED <<server, pos, manager>>

\* An error payload: the stream is disabled, or anything else.
ReceiveError ==
  /\ pc = "recv"
  /\ conn = "open"
  /\ \E s \in {"DISABLED", "UNAVAILABLE"} : UpdateStatus(s)
  /\ Disconnect
  /\ UNCHANGED <<server, pos, manager>>

TransportFails ==
  /\ UpdateStatus("UNAVAILABLE")
  /\ Disconnect
  /\ UNCHANGED <<server, pos, manager>>

\* send or recv raises: the peer left, the payload is malformed, or stop()
\* has closed the socket.
SendFails == pc = "send" /\ TransportFails
ReceiveFails == pc = "recv" /\ TransportFails

\* Every recv times out after a second, so the thread looks at _stop.
StopSeen ==
  /\ pc = "recv"
  /\ stop
  /\ Disconnect
  /\ UNCHANGED <<server, pos, manager, buffer, history>>

BackoffEnds ==
  /\ pc = "backoff"
  /\ pc' = IF stop THEN "dead" ELSE "loop"
  /\ UNCHANGED <<server, pos, conn, rejected, manager, buffer, history>>

-----------------------------------------------------------------------------
(***************************************************************************)
(* CrconLogStreamManager.start and stop.                                   *)
(***************************************************************************)
Start ==
  /\ ~stopping
  /\ ~threads
  /\ starts < MaxStarts
  /\ starts' = starts + 1
  /\ threads' = TRUE
  /\ stop' = FALSE
  /\ pc' = "loop"
  /\ UNCHANGED <<server, pos, conn, rejected, stopping, buffer, history>>

\* stop() sets the flag and closes the connections registered so far.
StopSignal ==
  /\ ~stopping
  /\ stopping' = TRUE
  /\ stop' = TRUE
  /\ conn' = IF conn = "open" THEN "closed" ELSE conn
  /\ UNCHANGED <<server, pos, pc, rejected, threads, starts, buffer, history>>

\* Mutant: the threads are forgotten after the join timeout.
StopForgets ==
  /\ stopping
  /\ stopping' = FALSE
  /\ threads' = FALSE
  /\ UNCHANGED <<server, pos, pc, conn, rejected, stop, starts, buffer, history>>

\* join() returns because the thread ended or because its timeout ran out; a
\* thread still alive stays registered.
StopJoined ==
  /\ stopping
  /\ stopping' = FALSE
  /\ threads' = (threads /\ pc # "dead")
  /\ UNCHANGED <<server, pos, pc, conn, rejected, stop, starts, buffer, history>>

Consumer ==
  \/ LoopCheck \/ ConnectOk \/ ConnectFails \/ Subscribe \/ ReceiveBatch
  \/ ReceiveInvalidCursor \/ ReceiveError
  \/ SendFails \/ ReceiveFails \/ StopSeen \/ BackoffEnds

Next ==
  \/ ServerLogs \/ ServerNextMatch \/ ServerResets
  \/ ReadWindow
  \/ Consumer
  \/ Start \/ StopSignal \/ StopJoined

Spec == Init /\ [][Next]_vars

\* What the thread is bound to do next: socket calls return within their timeout.
ThreadGoesOn ==
  \/ LoopCheck \/ BackoffEnds \/ StopSeen
  \/ ConnectOk \/ ConnectFails \/ Subscribe \/ SendFails
  \/ (conn = "closed" /\ ReceiveFails)

\* The thread is scheduled, joins time out; CRCON eventually accepts a connection
\* that is tried for ever.
Fairness ==
  /\ WF_vars(ThreadGoesOn) /\ WF_vars(StopJoined)
  /\ SF_vars(ConnectOk) /\ SF_vars(Subscribe)

FairSpec == Spec /\ Fairness

-----------------------------------------------------------------------------
(***************************************************************************)
(* Properties.                                                             *)
(***************************************************************************)
TypeOK ==
  /\ log \in Seq([match : 1..MaxMatches, kill : BOOLEAN]) /\ Len(log) <= MaxEvents
  /\ valid \in 1..(MaxEvents + 1) /\ match \in 1..MaxMatches /\ pos \in 0..MaxEvents
  /\ pc \in {"off", "loop", "connect", "send", "recv", "backoff", "dead"}
  /\ conn \in {"none", "open", "closed"}
  /\ rejected \in BOOLEAN
  /\ stop \in BOOLEAN /\ threads \in BOOLEAN /\ stopping \in BOOLEAN
  /\ starts \in 0..MaxStarts
  /\ events \in Seq(1..MaxEvents) /\ Len(events) <= BufferSize
  /\ seen \subseteq 1..MaxEvents
  /\ lastKey \in 0..MaxEvents /\ lastSeen \in 0..MaxEvents /\ floor \in 0..MaxEvents
  /\ tailing \in BOOLEAN
  /\ bufMatch \in Identity \cup {NoMatch}
  /\ status \in Status
  /\ gap \in BOOLEAN /\ truncated \in BOOLEAN

\* The feed is in stream order and free of duplicates, whatever is replayed
\* after a reconnection, and the order key never falls behind it.
FeedOrdered ==
  /\ \A j, k \in 1..Len(events) : j < k => events[j] < events[k]
  /\ \A k \in 1..Len(events) : events[k] <= lastKey

\* seen_ids holds exactly the ids in the deque: evicting and pruning keep the
\* two in step, so the set stays bounded and never hides a new event.
SeenIsBuffer == seen = Contents(events)

\* What record() keeps in step through duplicates, replays, evictions and
\* pruning: the deque, the set of ids and the order key.
FeedConsistent == TypeOK /\ FeedOrdered /\ SeenIsBuffer

\* Kills of the match on display, after id k, that the consumer got past, by the
\* events it recorded or by its cursor, without keeping them.
LostAfter(k) ==
  {i \in (k + 1)..Reached : /\ log[i].kill
                            /\ bufMatch # NoMatch /\ log[i].match >= bufMatch[1]
                            /\ i \notin Contents(events)}

\* A loss is announced by a flag.  The accounting begins with the first payload
\* that brings a cursor, and restarts where window_for_match clears the flags:
\* if the cursor is lost by then, with the first that brings one again.
LossFlagged == LostAfter(floor) # {} => gap \/ truncated

\* "Own exactly one reconnecting consumer": start never adds a thread while an
\* old one may still run, even when a join timed out.
OneConsumer == ~threads => pc \in {"off", "dead"}

\* A consumer that is told to stop ends.
StopEnds == stop ~> pc \in {"off", "dead"}

\* "consumer must survive transport failures": once started, whatever fails, it
\* is subscribed again and again until it is being stopped.
ConsumerSurvives == (pc # "off" /\ pc # "recv") ~> (pc = "recv" \/ stop)

\* The thread is alone, and lives until it is told to stop and not longer.
ConsumerLives == []OneConsumer /\ ConsumerSurvives /\ StopEnds
=============================================================================
