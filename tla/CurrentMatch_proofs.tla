------------------------- MODULE CurrentMatch_proofs -------------------------
(***************************************************************************)
(* Proofs about CurrentMatch, for every set of requests and every bound.   *)
(***************************************************************************)
EXTENDS CurrentMatch, TLAPS

\* The registered flight is that of the one request that leads it.
FlightInv ==
  /\ \A r \in Request : pc[r] \in Leading => flight = r
  /\ flight # None => pc[flight] \in Leading
  /\ WaitersHaveLeader

\* While the leader reads CRCON the cache holds nothing or a stale copy, and
\* what is about to be cached is the last good snapshot or a stale copy.
CacheInv ==
  /\ FreshIsLastGood
  /\ \A r \in Request : pc[r] \in Refreshing /\ cache # None => cache.value.stale
  /\ \A r \in Request : pc[r] = "put" => got[r] = lastGood /\ lastGood # None
  /\ \A r \in Request : pc[r] = "stalePut" => got[r] \in Snapshot /\ got[r].stale

\* The last good snapshot is not newer than the refresh that runs, nor than now.
AgeInv ==
  /\ lastGood # None => lastGood.observed <= now
  /\ \A r \in Request : pc[r] \in Refreshing =>
       seen[r].at <= now /\ (lastGood # None => lastGood.observed <= seen[r].at)

IInv == TypeOK /\ FlightInv /\ CacheInv /\ AgeInv

USE CMAssumption, NoneAssumption

LEMMA InitInv == Init => IInv
BY DEF Init, IInv, TypeOK, FlightInv, CacheInv, AgeInv, WaitersHaveLeader, FreshIsLastGood,
       Instant, Matches, Step, Leading, Refreshing, Reads, NothingRead, Outcome

\* What a refresh records is a snapshot, whatever it read.
LEMMA Identified ==
  ASSUME TypeOK, NEW r \in Request, Identify(r)
  PROVE  \E id \in Identity \cup {None} :
           /\ Refreshed(r, id)
           /\ id # None => SnapshotOf(id, seen[r]) \in Snapshot
<1>1. PICK map \in {OpenMap(seen[r].info), None} : Refreshed(r, IdentityOf(seen[r].info, map))
  BY DEF Identify
<1> DEFINE id == IdentityOf(seen[r].info, map)
<1>2. id \in Identity \cup {None}
  BY DEF TypeOK, IdentityOf, OpenMap, Identity, Matches, Reads
<1>3. id # None => SnapshotOf(id, seen[r]) \in Snapshot
  BY <1>2 DEF TypeOK, SnapshotOf, Snapshot, Reads
<1> QED
  BY <1>1, <1>2, <1>3

\* Types are kept by every step.
LEMMA StepType == TypeOK /\ FlightInv /\ CacheInv /\ [Next]_vars => TypeOK'
<1> SUFFICES ASSUME TypeOK, FlightInv, CacheInv, [Next]_vars PROVE TypeOK'
  OBVIOUS
<1> USE DEF TypeOK, world, service, local
<1>1. ASSUME Tick PROVE TypeOK'
  BY <1>1 DEF Tick, Instant
<1>2. ASSUME MatchChange PROVE TypeOK'
  BY <1>2 DEF MatchChange, Matches
<1>3. ASSUME MapRow PROVE TypeOK'
  BY <1>3 DEF MapRow, Matches
<1>4. ASSUME NEW r \in Request, Ask(r) PROVE TypeOK'
  BY <1>4 DEF Ask, Hit, Lookup, Step, Leading, Outcome
<1>5. ASSUME NEW r \in Request, Join(r) PROVE TypeOK'
  BY <1>5 DEF Join, Step, Leading
<1>6. ASSUME NEW r \in Request, Recheck(r) PROVE TypeOK'
  <2>1. [NothingRead EXCEPT !.at = now] \in Reads
    BY DEF NothingRead, Reads
  <2> QED
    BY <1>6, <2>1 DEF Recheck, Hit, Lookup, Step, Leading, Outcome
<1>7. ASSUME NEW r \in Request, ReadInfo(r) PROVE TypeOK'
  BY <1>7 DEF ReadInfo, Step, Leading, Reads
<1>8. ASSUME NEW r \in Request, ReadStats(r) PROVE TypeOK'
  BY <1>8 DEF ReadStats, Step, Leading, Reads
<1>9. ASSUME NEW r \in Request, Identify(r) PROVE TypeOK'
  <2>1. NothingRead \in Reads
    BY DEF NothingRead, Reads, Instant
  <2>2. PICK id \in Identity \cup {None} :
          Refreshed(r, id) /\ (id # None => SnapshotOf(id, seen[r]) \in Snapshot)
    BY <1>9, Identified
  <2>3. CASE id = None
    BY <1>9, <2>1, <2>2, <2>3 DEF Identify, Refreshed, Fail, Step, Leading, Outcome
  <2>4. CASE id # None
    <3> DEFINE snapshot == SnapshotOf(id, seen[r])
    <3>1. Record(r, snapshot) /\ snapshot \in Snapshot
      BY <2>2, <2>4 DEF Refreshed
    <3>2. snapshot.id \in Identity
      BY <3>1 DEF Snapshot
    <3> HIDE DEF snapshot
    <3> QED
      BY <1>9, <2>1, <3>1, <3>2 DEF Identify, Record, Step, Leading, Outcome
  <2> QED
    BY <2>3, <2>4
<1>10. ASSUME NEW r \in Request, PutFresh(r) PROVE TypeOK'
  BY <1>10 DEF PutFresh, Put, CacheInv, Step, Leading, Instant
<1>11. ASSUME NEW r \in Request, Pop(r) PROVE TypeOK'
  BY <1>11 DEF Pop, Step, Leading
<1>12. ASSUME NEW r \in Request, SetEvent(r) PROVE TypeOK'
  BY <1>12 DEF SetEvent, Step, Leading
<1>13. ASSUME NEW r \in Request, Resume(r) PROVE TypeOK'
  BY <1>13 DEF Resume, Step, Leading, Outcome
<1>14. ASSUME NEW r \in Request, FallBack(r) PROVE TypeOK'
  <2>1. lastGood # None => Stale(lastGood) \in Snapshot
    BY DEF Stale, Snapshot
  <2> QED
    BY <1>14, <2>1 DEF FallBack, Step, Leading, Outcome
<1>15. ASSUME NEW r \in Request, PutStale(r) PROVE TypeOK'
  BY <1>15 DEF PutStale, Put, CacheInv, Step, Leading, Instant, Outcome
<1>16. CASE UNCHANGED vars
  BY <1>16 DEF vars
<1> QED
  BY <1>1, <1>2, <1>3, <1>4, <1>5, <1>6, <1>7, <1>8, <1>9, <1>10, <1>11, <1>12, <1>13,
     <1>14, <1>15, <1>16 DEF Next, Continue
\* Every step keeps the registered flight led by exactly one request, and every
\* waiter with a leader that has not set its event.
LEMMA StepFlight == TypeOK /\ FlightInv /\ [Next]_vars => FlightInv'
<1> SUFFICES ASSUME TypeOK, FlightInv, [Next]_vars PROVE FlightInv'
  OBVIOUS
<1> USE DEF TypeOK, FlightInv, WaitersHaveLeader, Leading, Step, world, service, local
<1>1. ASSUME Tick \/ MatchChange \/ MapRow PROVE FlightInv'
  BY <1>1 DEF Tick, MatchChange, MapRow
<1>2. ASSUME NEW r \in Request, Ask(r) PROVE FlightInv'
  BY <1>2 DEF Ask
<1>3. ASSUME NEW r \in Request, Join(r) PROVE FlightInv'
  BY <1>3 DEF Join
<1>4. ASSUME NEW r \in Request, Recheck(r) PROVE FlightInv'
  BY <1>4 DEF Recheck
<1>5. ASSUME NEW r \in Request, ReadInfo(r) \/ ReadStats(r) PROVE FlightInv'
  BY <1>5 DEF ReadInfo, ReadStats
<1>6. ASSUME NEW r \in Request, Identify(r) PROVE FlightInv'
  BY <1>6 DEF Identify, Refreshed, Fail, Record
<1>7. ASSUME NEW r \in Request, PutFresh(r) PROVE FlightInv'
  BY <1>7 DEF PutFresh
<1>8. ASSUME NEW r \in Request, Pop(r) PROVE FlightInv'
  BY <1>8 DEF Pop
<1>9. ASSUME NEW r \in Request, SetEvent(r) PROVE FlightInv'
  BY <1>9 DEF SetEvent
<1>10. ASSUME NEW r \in Request, Resume(r) \/ FallBack(r) \/ PutStale(r) PROVE FlightInv'
  BY <1>10 DEF Resume, FallBack, PutStale
<1>11. CASE UNCHANGED vars
  BY <1>11 DEF vars
<1> QED
  BY <1>1, <1>2, <1>3, <1>4, <1>5, <1>6, <1>7, <1>8, <1>9, <1>10, <1>11 DEF Next, Continue

\* Every step keeps the cache empty, stale or equal to the last good snapshot.
LEMMA StepCache == TypeOK /\ FlightInv /\ CacheInv /\ [Next]_vars => CacheInv'
<1> SUFFICES ASSUME TypeOK, FlightInv, CacheInv, [Next]_vars PROVE CacheInv'
  OBVIOUS
<1> USE DEF TypeOK, CacheInv, FreshIsLastGood, Refreshing, Step, world, service, local
<1>0. \A r, q \in Request : pc[r] \in Leading /\ pc[q] \in Leading => r = q
  BY DEF FlightInv
<1> USE DEF Leading
<1>1. ASSUME Tick \/ MatchChange \/ MapRow PROVE CacheInv'
  BY <1>1 DEF Tick, MatchChange, MapRow
<1>2. ASSUME NEW r \in Request, Ask(r) PROVE CacheInv'
  BY <1>2 DEF Ask, Lookup
<1>3. ASSUME NEW r \in Request, Join(r) PROVE CacheInv'
  BY <1>3 DEF Join
<1>4. ASSUME NEW r \in Request, Recheck(r) PROVE CacheInv'
  BY <1>4, <1>0 DEF Recheck, Lookup
<1>5. ASSUME NEW r \in Request, ReadInfo(r) \/ ReadStats(r) PROVE CacheInv'
  BY <1>5 DEF ReadInfo, ReadStats
<1>6. ASSUME NEW r \in Request, Identify(r) PROVE CacheInv'
  <2>1. PICK id \in Identity \cup {None} :
          Refreshed(r, id) /\ (id # None => SnapshotOf(id, seen[r]) \in Snapshot)
    BY <1>6, Identified
  <2>2. pc[r] = "map"
    BY <1>6 DEF Identify
  <2>3. CASE id = None
    BY <2>1, <2>2, <2>3 DEF Refreshed, Fail
  <2>4. CASE id # None
    <3> DEFINE snapshot == SnapshotOf(id, seen[r])
    <3>1. Record(r, snapshot) /\ snapshot \in Snapshot
      BY <2>1, <2>4 DEF Refreshed
    <3> HIDE DEF snapshot
    <3> QED
      BY <1>0, <2>2, <3>1 DEF Record
  <2> QED
    BY <2>3, <2>4
<1>7. ASSUME NEW r \in Request, PutFresh(r) PROVE CacheInv'
  BY <1>7, <1>0 DEF PutFresh, Put
<1>8. ASSUME NEW r \in Request, Pop(r) PROVE CacheInv'
  BY <1>8 DEF Pop
<1>9. ASSUME NEW r \in Request, SetEvent(r) PROVE CacheInv'
  BY <1>9 DEF SetEvent
<1>10. ASSUME NEW r \in Request, Resume(r) PROVE CacheInv'
  BY <1>10 DEF Resume
<1>11. ASSUME NEW r \in Request, FallBack(r) PROVE CacheInv'
  <2>1. lastGood # None => Stale(lastGood) \in Snapshot /\ Stale(lastGood).stale
    BY DEF Stale, Snapshot
  <2> QED
    BY <1>11, <2>1 DEF FallBack
<1>12. ASSUME NEW r \in Request, PutStale(r) PROVE CacheInv'
  BY <1>12 DEF PutStale, Put
<1>13. CASE UNCHANGED vars
  BY <1>13 DEF vars
<1> QED
  BY <1>1, <1>2, <1>3, <1>4, <1>5, <1>6, <1>7, <1>8, <1>9, <1>10, <1>11, <1>12, <1>13
     DEF Next, Continue
\* Every step keeps the last good snapshot no newer than the clock and than the
\* refresh that may replace it.
LEMMA StepAge == IInv /\ [Next]_vars => AgeInv'
<1> SUFFICES ASSUME IInv, [Next]_vars PROVE AgeInv'
  OBVIOUS
<1> USE DEF IInv, TypeOK, AgeInv, Refreshing, Step, Instant, world, service, local
<1>0. \A r, q \in Request : pc[r] \in Leading /\ pc[q] \in Leading => r = q
  BY DEF FlightInv
<1> USE DEF Leading
<1>1. lastGood # None => lastGood.observed \in Instant
  BY DEF Snapshot
<1>2. \A r \in Request : seen[r] \in Reads /\ seen[r].at \in Instant
  BY DEF Reads
<1>3. ASSUME Tick PROVE AgeInv'
  BY <1>1, <1>2, <1>3 DEF Tick
<1>4. ASSUME MatchChange \/ MapRow PROVE AgeInv'
  BY <1>4 DEF MatchChange, MapRow
<1>5. ASSUME NEW r \in Request, Ask(r) \/ Join(r) PROVE AgeInv'
  BY <1>5 DEF Ask, Join
<1>6. ASSUME NEW r \in Request, Recheck(r) PROVE AgeInv'
  <2> DEFINE start == [NothingRead EXCEPT !.at = now]
  <2>1. start.at = now
    BY DEF NothingRead
  <2>2. /\ pc[r] = "recheck" /\ UNCHANGED <<now, lastGood>>
        /\ \/ seen' = seen /\ pc' = [pc EXCEPT ![r] = "pop"]
           \/ seen' = [seen EXCEPT ![r] = start] /\ pc' = [pc EXCEPT ![r] = "info"]
    BY <1>6 DEF Recheck
  <2> HIDE DEF start
  <2> QED
    BY <1>0, <1>1, <2>1, <2>2
<1>7. ASSUME NEW r \in Request, ReadInfo(r) PROVE AgeInv'
  <2>1. \A read : [seen[r] EXCEPT !.info = read].at = seen[r].at
    BY <1>2 DEF Reads
  <2> QED
    BY <1>7, <2>1 DEF ReadInfo
<1>8. ASSUME NEW r \in Request, ReadStats(r) PROVE AgeInv'
  <2>1. \A read : [seen[r] EXCEPT !.stats = read].at = seen[r].at
    BY <1>2 DEF Reads
  <2> QED
    BY <1>8, <2>1 DEF ReadStats
<1>9. ASSUME NEW r \in Request, Identify(r) PROVE AgeInv'
  <2>1. PICK id \in Identity \cup {None} : Refreshed(r, id)
    BY <1>9, Identified
  <2>2. pc[r] = "map" /\ seen' = [seen EXCEPT ![r] = NothingRead]
    BY <1>9 DEF Identify
  <2>3. CASE id = None
    BY <2>1, <2>2, <2>3 DEF Refreshed, Fail
  <2>4. CASE id # None
    <3>1. Record(r, SnapshotOf(id, seen[r]))
      BY <2>1, <2>4 DEF Refreshed
    <3>2. SnapshotOf(id, seen[r]).observed = seen[r].at
      BY DEF SnapshotOf
    <3>3. \A q \in Request : pc'[q] \notin Refreshing
      BY <1>0, <2>2, <3>1 DEF Record
    <3> QED
      BY <2>2, <3>1, <3>2, <3>3 DEF Record
  <2> QED
    BY <2>3, <2>4
<1>10. ASSUME NEW r \in Request, PutFresh(r) \/ Pop(r) \/ SetEvent(r) PROVE AgeInv'
  BY <1>10 DEF PutFresh, Pop, SetEvent
<1>11. ASSUME NEW r \in Request, Resume(r) \/ FallBack(r) \/ PutStale(r) PROVE AgeInv'
  BY <1>11 DEF Resume, FallBack, PutStale
<1>12. CASE UNCHANGED vars
  BY <1>12 DEF vars
<1> QED
  BY <1>3, <1>4, <1>5, <1>6, <1>7, <1>8, <1>9, <1>10, <1>11, <1>12 DEF Next, Continue

LEMMA Inductive == Spec => []IInv
<1>1. IInv /\ [Next]_vars => IInv'
  BY StepType, StepFlight, StepCache, StepAge DEF IInv
<1> QED
  BY InitInv, <1>1, PTL DEF Spec

-----------------------------------------------------------------------------
\* However many requests, matches and ticks there are, the state of the service
\* keeps its types.
THEOREM TypeCorrect == Spec => []TypeOK
<1>1. IInv => TypeOK
  BY DEF IInv
<1> QED
  BY Inductive, <1>1, PTL

\* The single flight holds for any number of requests: one leader, and no waiter
\* without a leader that will wake it (_SingleFlight.run).
THEOREM SingleFlight == Spec => []FlightSound
<1>1. IInv => FlightSound
  BY DEF IInv, FlightInv, OneRefresh, FlightSound
<1> QED
  BY Inductive, <1>1, PTL

\* The cache and the fallback agree: a fresh entry is the last good snapshot, and
\* CRCON is not read while one can be served (_refresh_and_cache).
THEOREM CacheAlwaysAgrees == Spec => []CacheAgrees
<1>1. ASSUME IInv PROVE RefreshOnlyOnMiss
  BY <1>1 DEF IInv, CacheInv, RefreshOnlyOnMiss, Hit
<1>2. IInv => CacheAgrees
  BY <1>1 DEF IInv, CacheInv, CacheAgrees
<1> QED
  BY Inductive, <1>2, PTL

-----------------------------------------------------------------------------
(* Nobody's time runs backwards.                                           *)

NotNewer(a, snapshot) == IsFresh(a) => a.observed <= snapshot.observed

\* The last good snapshot is at least as recent as every fresh answer, and as
\* every fresh result that is still on its way; a result that is on its way is
\* at least as recent as what its reader was answered before.
AnswerInv ==
  /\ \A r \in Request : IsFresh(answer[r]) => lastGood # None /\ NotNewer(answer[r], lastGood)
  /\ \A r \in Request : pc[r] \in {"put", "pop"} /\ IsFresh(got[r]) => got[r] = lastGood
  /\ \A r \in Request : pc[r] \in {"set", "woken"} /\ IsFresh(got[r]) =>
       /\ lastGood # None /\ NotNewer(got[r], lastGood)
       /\ NotNewer(answer[r], got[r])
  /\ \A r, w \in Request : pc[r] = "set" /\ IsFresh(got[r]) /\ pc[w] = "wait" /\ on[w] = r =>
       NotNewer(answer[w], got[r])

\* A refresh that records a snapshot replaces the last good one by one as recent.
LEMMA RecordAdvances ==
  ASSUME IInv, NEW r \in Request, Identify(r)
  PROVE  /\ lastGood # None => lastGood' # None /\ lastGood'.observed >= lastGood.observed
         /\ IsFresh(got'[r]) => got'[r] = lastGood'
         /\ pc' = [pc EXCEPT ![r] = "put"] \/ pc' = [pc EXCEPT ![r] = "pop"]
         /\ \A q \in Request \ {r} : got'[q] = got[q]
         /\ UNCHANGED <<answer, on>>
<1> USE DEF IInv, TypeOK, service, world
<1>1. lastGood # None => lastGood \in Snapshot /\ lastGood.observed \in Instant
  BY DEF Snapshot
<1>2. PICK id \in Identity \cup {None} :
        Refreshed(r, id) /\ (id # None => SnapshotOf(id, seen[r]) \in Snapshot)
  BY Identified
<1>3. lastGood # None => lastGood.observed <= seen[r].at
  BY DEF Identify, AgeInv, Refreshing
<1>4. CASE id = None
  BY <1>1, <1>2, <1>4 DEF Refreshed, Fail, Instant, IsFresh
<1>5. CASE id # None
  <2>1. Record(r, SnapshotOf(id, seen[r])) /\ SnapshotOf(id, seen[r]) \in Snapshot
    BY <1>2, <1>5 DEF Refreshed
  <2>2. SnapshotOf(id, seen[r]).observed = seen[r].at
    BY DEF SnapshotOf
  <2>3. seen[r].at \in Instant
    BY DEF Reads
  <2> DEFINE snapshot == SnapshotOf(id, seen[r])
  <2>4. snapshot \in Snapshot /\ snapshot.observed = seen[r].at
    BY <2>1, <2>2
  <2>5. /\ lastGood' = snapshot /\ got' = [got EXCEPT ![r] = snapshot]
        /\ pc' = [pc EXCEPT ![r] = "put"] /\ UNCHANGED <<on, answer>>
    BY <2>1 DEF Record
  <2> HIDE DEF snapshot
  <2> QED
    BY <1>1, <1>3, <2>3, <2>4, <2>5 DEF Instant
<1> QED
  BY <1>4, <1>5

\* Every step keeps what was answered no newer than what will be.
LEMMA StepAnswer == IInv /\ AnswerInv /\ [Next]_vars => AnswerInv'
<1> SUFFICES ASSUME IInv, AnswerInv, [Next]_vars PROVE AnswerInv'
  OBVIOUS
<1> USE DEF AnswerInv, NotNewer, IsFresh, Step, Leading, world, service, local
<1>t. TypeOK /\ FlightInv /\ CacheInv
  BY DEF IInv
<1>a. \A r \in Request : IsFresh(answer[r]) => answer[r].observed \in Int
  BY <1>t DEF TypeOK, Outcome, Snapshot, Instant
<1>g. \A r \in Request : IsFresh(got[r]) => got[r].observed \in Int
  BY <1>t DEF TypeOK, Outcome, Snapshot, Instant
<1>l. lastGood # None => lastGood.observed \in Int /\ lastGood \notin {None, Failure}
  BY <1>t, NoneAssumption DEF TypeOK, Snapshot, Instant
<1>c. Hit /\ IsFresh(cache.value) => cache.value = lastGood /\ lastGood # None
  BY <1>t DEF TypeOK, CacheInv, FreshIsLastGood, Hit
<1>p. /\ pc \in [Request -> Step] /\ got \in [Request -> Outcome]
      /\ answer \in [Request -> Outcome] /\ on \in [Request -> Request \cup {None}]
  BY <1>t DEF TypeOK
<1>1. ASSUME Tick \/ MatchChange \/ MapRow PROVE AnswerInv'
  BY <1>1 DEF Tick, MatchChange, MapRow
<1>2. ASSUME NEW r \in Request, Ask(r) PROVE AnswerInv'
  BY <1>2, <1>a, <1>l, <1>c, <1>p DEF Ask
<1>3. ASSUME NEW r \in Request, Join(r) PROVE AnswerInv'
  <2>1. flight # None => pc[flight] \in Leading
    BY <1>t DEF FlightInv
  <2> QED
    BY <1>3, <1>p, <2>1 DEF Join
<1>4. ASSUME NEW r \in Request, Recheck(r) PROVE AnswerInv'
  BY <1>4, <1>c, <1>p DEF Recheck
<1>5. ASSUME NEW r \in Request, ReadInfo(r) \/ ReadStats(r) PROVE AnswerInv'
  BY <1>5, <1>p DEF ReadInfo, ReadStats
<1>6. ASSUME NEW r \in Request, Identify(r) PROVE AnswerInv'
  <2>1. /\ lastGood # None => lastGood' # None /\ lastGood'.observed >= lastGood.observed
        /\ IsFresh(got'[r]) => got'[r] = lastGood'
        /\ pc' = [pc EXCEPT ![r] = "put"] \/ pc' = [pc EXCEPT ![r] = "pop"]
        /\ \A q \in Request \ {r} : got'[q] = got[q]
        /\ UNCHANGED <<answer, on>>
    BY <1>6, RecordAdvances
  <2>2. pc[r] = "map" /\ \A q \in Request : pc[q] \in Leading => q = r
    BY <1>6, <1>t DEF Identify, FlightInv
  <2>3. lastGood' # None => lastGood'.observed \in Int
    BY <1>6, StepType, <1>t DEF TypeOK, Snapshot, Instant
  <2>4. \A q \in Request : pc'[q] \in {"put", "pop"} => q = r
    BY <1>p, <2>1, <2>2
  <2>5. \A q \in Request : pc'[q] \in {"set", "woken"} => q # r /\ pc[q] = pc'[q]
    BY <1>p, <2>1, <2>2
  <2>6. \A q \in Request : pc'[q] = "wait" => pc[q] = "wait"
    BY <1>p, <2>1, <2>2
  <2> QED
    BY <1>a, <1>g, <1>l, <2>1, <2>3, <2>4, <2>5, <2>6
<1>7. ASSUME NEW r \in Request, PutFresh(r) PROVE AnswerInv'
  BY <1>7, <1>p DEF PutFresh
<1>8. ASSUME NEW r \in Request, Pop(r) PROVE AnswerInv'
  BY <1>8, <1>a, <1>g, <1>l, <1>p DEF Pop
<1>9. ASSUME NEW r \in Request, SetEvent(r) PROVE AnswerInv'
  BY <1>9, <1>p DEF SetEvent
<1>10. ASSUME NEW r \in Request, Resume(r) PROVE AnswerInv'
  BY <1>10, <1>p DEF Resume
<1>11. ASSUME NEW r \in Request, FallBack(r) PROVE AnswerInv'
  BY <1>11, <1>p DEF FallBack
<1>12. ASSUME NEW r \in Request, PutStale(r) PROVE AnswerInv'
  BY <1>12, <1>t, <1>p DEF PutStale, CacheInv
<1>13. CASE UNCHANGED vars
  BY <1>13 DEF vars
<1> QED
  BY <1>1, <1>2, <1>3, <1>4, <1>5, <1>6, <1>7, <1>8, <1>9, <1>10, <1>11, <1>12, <1>13
     DEF Next, Continue

\* The last good snapshot never gets older, and no client's fresh answers go back
\* to an earlier refresh, for any number of requests (_refresh_and_cache).
THEOREM NeverBackwards == Spec => NeverOlder
<1> DEFINE Forward ==
      /\ lastGood # None => lastGood' # None /\ lastGood'.observed >= lastGood.observed
      /\ \A r \in Request : IsFresh(answer[r]) /\ IsFresh(answer'[r])
           => answer'[r].observed >= answer[r].observed
<1>1. Init => AnswerInv
  BY DEF Init, AnswerInv, IsFresh
<1>2. IInv /\ AnswerInv /\ [Next]_vars => [Forward]_vars
  <2> SUFFICES ASSUME IInv, AnswerInv, Next PROVE Forward
    OBVIOUS
  <2>1. TypeOK /\ CacheInv
    BY DEF IInv
  <2>2. lastGood # None => lastGood.observed \in Int
    BY <2>1 DEF TypeOK, Snapshot, Instant
  <2>3. \A r \in Request : IsFresh(answer[r]) => answer[r].observed \in Int
    BY <2>1 DEF TypeOK, Outcome, Snapshot, Instant, IsFresh
  <2>4. CASE \E r \in Request : Identify(r)
    <3>1. PICK r \in Request : Identify(r)
      BY <2>4
    <3> QED
      BY <2>2, <2>3, <3>1, RecordAdvances
  <2>5. CASE \E r \in Request : Ask(r) \/ Resume(r) \/ FallBack(r) \/ PutStale(r)
    <3>1. PICK r \in Request : Ask(r) \/ Resume(r) \/ FallBack(r) \/ PutStale(r)
      BY <2>5
    <3>2. UNCHANGED lastGood
      BY <3>1 DEF Ask, Resume, FallBack, PutStale, service
    <3>3. answer \in [Request -> Outcome]
      BY <2>1 DEF TypeOK
    <3>4. \A q \in Request : IsFresh(answer[q]) /\ IsFresh(answer'[q])
            => answer'[q].observed >= answer[q].observed
      <4>1. CASE Ask(r)
        BY <2>1, <2>2, <2>3, <3>3, <4>1 DEF Ask, TypeOK, AnswerInv, NotNewer, IsFresh, CacheInv,
           FreshIsLastGood, Hit
      <4>2. CASE Resume(r)
        BY <2>3, <3>3, <4>2 DEF Resume, AnswerInv, NotNewer, IsFresh
      <4>3. CASE FallBack(r)
        BY <2>3, <3>3, <4>3 DEF FallBack, IsFresh
      <4>4. CASE PutStale(r)
        BY <2>1, <2>3, <3>3, <4>4 DEF PutStale, IsFresh, CacheInv
      <4> QED
        BY <3>1, <4>1, <4>2, <4>3, <4>4
    <3> QED
      BY <2>2, <3>2, <3>4
  <2>6. CASE UNCHANGED <<lastGood, answer>>
    BY <2>2, <2>3, <2>6
  <2> QED
    BY <2>4, <2>5, <2>6 DEF Next, Continue, Tick, MatchChange, MapRow, Join, Recheck, ReadInfo,
       ReadStats, PutFresh, Pop, SetEvent, world, service, local
<1> QED
  BY Inductive, StepAnswer, <1>1, <1>2, PTL DEF Spec, NeverOlder
==============================================================================
