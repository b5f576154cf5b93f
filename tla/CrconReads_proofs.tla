------------------------- MODULE CrconReads_proofs -------------------------
(* Proofs about what reads CRCON and the game servers, in five parts.

   The connection pool, for any number of threads and any size: no connection
   is lost or shared, and no wake-up is lost; and the services use the pool as
   ReadPool says, so that both hold of them too.
   The services: how old an answer may be.
   The server list (ServerSnapshots): what it shows is what it says it is.
   The parity observer (ParityObserver): no match is forgotten, and no number
   is accused without a cause.
   The observer's evidence (ParityEvidence): the sums are those of the history
   of the polls.                                                              *)
EXTENDS MCCrconReads, FiniteSetTheorems, WellFoundedInduction, TLAPS

(* The sleepers are on the condition's list and everybody on it sleeps or has
   just woken; a closed pool has no sleepers, and only a closed pool has
   connections that are closed instead of kept.                               *)
Waiters == /\ At("asleep") \subseteq waiting
           /\ waiting \subseteq At("asleep") \cup At("woken")
           /\ closed => waiting = {}
           /\ ~closed => doomed = {} /\ At("closing") = {}

PoolInv == PoolTypeOK /\ PoolAccounted /\ Waiters /\ NoLostWakeup

LEMMA PlusOne ==
  ASSUME NEW S, IsFiniteSet(S), NEW x, x \notin S
  PROVE  IsFiniteSet(S \cup {x}) /\ Cardinality(S \cup {x}) = Cardinality(S) + 1
BY FS_AddElement

LEMMA MinusOne ==
  ASSUME NEW S, IsFiniteSet(S), NEW x, x \in S
  PROVE  IsFiniteSet(S \ {x}) /\ Cardinality(S \ {x}) = Cardinality(S) - 1
BY FS_RemoveElement

(* Everything the invariant counts is finite. *)
LEMMA Counts ==
  ASSUME PoolTypeOK
  PROVE  /\ IsFiniteSet(idle) /\ Cardinality(idle) \in Nat
         /\ IsFiniteSet(Counted) /\ Cardinality(Counted) \in Nat
         /\ IsFiniteSet(At("woken") \ waiting) /\ Cardinality(At("woken") \ waiting) \in Nat
<1>1. idle \subseteq Conn /\ Counted \subseteq Thread /\ At("woken") \ waiting \subseteq Thread
  BY DEF PoolTypeOK, Counted, At
<1>. QED BY <1>1, FS_Subset, FS_CardinalityType, PoolAssumption

LEMMA CountsPrimed ==
  ASSUME PoolTypeOK'
  PROVE  Cardinality(idle') \in Nat /\ Cardinality((At("woken") \ waiting)') \in Nat
<1>1. idle' \subseteq Conn /\ (At("woken") \ waiting)' \subseteq Thread
  BY DEF PoolTypeOK, At
<1>. QED BY <1>1, FS_Subset, FS_CardinalityType, PoolAssumption

LEMMA InitInv == PoolInit => PoolInv
<1>. SUFFICES ASSUME PoolInit PROVE PoolInv
  OBVIOUS
<1>1. Counted = {} /\ Holders = {} /\ At("asleep") = {} /\ At("woken") = {} /\ At("closing") = {}
  BY DEF PoolInit, Counted, Holders, At
<1>2. Cardinality({}) = 0
  BY FS_EmptySet
<1>3. PoolTypeOK
  <2>1. pc \in [Thread -> {"out", "entering", "asleep", "woken", "connecting", "holding",
                           "done", "discarding", "returning", "closing"}]
    BY DEF PoolInit
  <2>2. held \in [Thread -> Conn \cup {None}] /\ result \in [Thread -> {"none", "rows", "error"}]
    BY DEF PoolInit
  <2>3. total \in Int
    BY DEF PoolInit
  <2>5. closed \in BOOLEAN
    BY Zenon DEF PoolInit
  <2>4. /\ idle \subseteq Conn /\ open \subseteq Conn /\ doomed \subseteq open
        /\ waiting \subseteq Thread /\ expired \subseteq Thread
    BY DEF PoolInit
  <2>. QED BY <2>1, <2>2, <2>3, <2>4, <2>5 DEF PoolTypeOK
<1>4. PoolAccounted
  BY <1>1, <1>2, PoolAssumption DEF PoolInit, PoolAccounted
<1>. QED BY <1>1, <1>3, <1>4 DEF PoolInit, PoolInv, Waiters, NoLostWakeup

(* A place becomes free: the thread that frees it notifies, and whoever is
   notified makes up for the place.                                           *)
LEMMA NotifyKeeps ==
  ASSUME PoolInv, NEW t \in Thread,
         pc[t] \in {"connecting", "done", "returning"},
         Notifying(t, "out"),
         total' \in Int, Cardinality(idle') \in Nat,
         Cardinality(idle') - total' = Cardinality(idle) - total + 1,
         UNCHANGED <<closed, doomed>>
  PROVE  /\ pc' \in [Thread -> {"out", "entering", "asleep", "woken", "connecting", "holding",
                                "done", "discarding", "returning", "closing"}]
         /\ waiting' \subseteq Thread
         /\ Counted' = Counted \ {t} /\ Holders' = Holders \ {t}
         /\ Waiters' /\ NoLostWakeup'
<1>. USE DEF PoolInv
<1>1. CASE waiting = {}
  <2>1. pc' = [pc EXCEPT ![t] = "out"] /\ waiting' = {}
    BY <1>1 DEF Notifying
  <2>2. At("asleep") = {} /\ At("asleep")' = {}
    BY <1>1, <2>1 DEF Waiters, At, PoolTypeOK
  <2>. QED BY <2>1, <2>2 DEF Waiters, NoLostWakeup, PoolTypeOK, At, Counted, Holders
<1>2. CASE waiting # {}
  <2>1. PICK w \in waiting : waiting' = waiting \ {w} /\ pc' = [pc EXCEPT ![t] = "out", ![w] = "woken"]
    BY <1>2 DEF Notifying
  <2>2. w \in Thread /\ w # t /\ pc[w] \in {"asleep", "woken"}
    BY <2>1 DEF Waiters, At, PoolTypeOK
  <2>3. (At("woken") \ waiting)' = (At("woken") \ waiting) \cup {w} /\ w \notin At("woken") \ waiting
    BY <2>1, <2>2 DEF At, PoolTypeOK
  <2>4. Cardinality((At("woken") \ waiting)') = Cardinality(At("woken") \ waiting) + 1
    BY <2>3, Counts, PlusOne
  <2>5. At("asleep")' \subseteq At("asleep")
    BY <2>1, <2>2 DEF At, PoolTypeOK
  <2>6. NoLostWakeup'
    BY <2>4, <2>5, Counts, PoolAssumption DEF NoLostWakeup, PoolTypeOK
  <2>. QED BY <2>1, <2>2, <2>6 DEF Waiters, PoolTypeOK, At, Counted, Holders
<1>. QED BY <1>1, <1>2

(* A place is taken: at most one notified thread stops making up for a place. *)
LEMMA TakingKeeps ==
  ASSUME PoolInv, NEW t \in Thread, Looks(t), NEW place \in {"holding", "connecting"},
         pc' = [pc EXCEPT ![t] = place], waiting' = waiting \ {t},
         total' \in Int, Cardinality(idle') \in Nat,
         Cardinality(idle') - total' = Cardinality(idle) - total - 1,
         UNCHANGED <<closed, doomed>>
  PROVE  Waiters' /\ NoLostWakeup'
<1>. USE DEF PoolInv
<1>1. Waiters'
  BY DEF Waiters, PoolTypeOK, At, Looks
<1>2. (At("woken") \ waiting)' = (At("woken") \ waiting) \ {t}
  BY DEF At, PoolTypeOK, Looks
<1>3. Cardinality((At("woken") \ waiting)') >= Cardinality(At("woken") \ waiting) - 1
      /\ Cardinality((At("woken") \ waiting)') \in Nat
  <2>. DEFINE Notified == At("woken") \ waiting
  <2>1. IsFiniteSet(Notified) /\ Cardinality(Notified) \in Nat
    BY Counts
  <2>2. Notified' = Notified \ {t}
    BY <1>2
  <2>. HIDE DEF Notified
  <2>3. CASE t \in Notified
    <3>1. IsFiniteSet(Notified \ {t}) /\ Cardinality(Notified \ {t}) = Cardinality(Notified) - 1
      BY <2>1, <2>3, MinusOne
    <3>2. Cardinality(Notified \ {t}) \in Nat
      BY <3>1, FS_CardinalityType
    <3>3. Cardinality(Notified') = Cardinality(Notified) - 1 /\ Cardinality(Notified') \in Nat
      BY <2>2, <3>1, <3>2
    <3>. QED BY <2>1, <3>3 DEF Notified
  <2>4. CASE t \notin Notified
    <3>1. Notified' = Notified
      BY <2>2, <2>4
    <3>. QED BY <2>1, <3>1 DEF Notified
  <2>. QED BY <2>3, <2>4
<1>4. At("asleep")' = At("asleep")
  BY DEF At, PoolTypeOK, Looks
<1>. QED BY <1>1, <1>3, <1>4, Counts, PoolAssumption DEF NoLostWakeup, PoolTypeOK

(* A thread that changes its place among the counted, or outside them, leaves
   the count alone.                                                           *)
LEMMA AskKeeps == ASSUME PoolInv, NEW t \in Thread, Ask(t) PROVE PoolInv'
<1>1. Counted' = Counted /\ Holders' = Holders /\ At("asleep")' = At("asleep")
      /\ At("woken")' = At("woken") /\ At("closing")' = At("closing")
  BY DEF PoolInv, PoolTypeOK, Ask, Counted, Holders, At
<1>2. PoolTypeOK'
  BY DEF PoolInv, PoolTypeOK, Ask
<1>3. PoolAccounted'
  BY <1>1 DEF PoolInv, PoolAccounted, Ask
<1>. QED BY <1>1, <1>2, <1>3 DEF PoolInv, Waiters, NoLostWakeup, Ask

LEMMA TransactKeeps ==
  ASSUME PoolInv, NEW t \in Thread, Transact(t) \/ TransactFails(t) PROVE PoolInv'
<1>1. Counted' = Counted /\ Holders' = Holders /\ At("asleep")' = At("asleep")
      /\ At("woken")' = At("woken") /\ At("closing")' = At("closing")
  BY DEF PoolInv, PoolTypeOK, Transact, TransactFails, Counted, Holders, At
<1>2. PoolTypeOK'
  BY DEF PoolInv, PoolTypeOK, Transact, TransactFails
<1>3. PoolAccounted'
  BY <1>1 DEF PoolInv, PoolAccounted, Transact, TransactFails
<1>. QED BY <1>1, <1>2, <1>3 DEF PoolInv, Waiters, NoLostWakeup, Transact, TransactFails

LEMMA TakeIdleKeeps == ASSUME PoolInv, NEW t \in Thread, TakeIdle(t) PROVE PoolInv'
<1>. USE DEF PoolInv
<1>1. PICK c \in idle : idle' = idle \ {c} /\ held' = [held EXCEPT ![t] = c]
  BY DEF TakeIdle
<1>2. pc[t] \in {"entering", "woken"} /\ pc' = [pc EXCEPT ![t] = "holding"]
      /\ UNCHANGED <<total, closed, result, open, doomed>>
  BY DEF TakeIdle, Looks
<1>3. PoolTypeOK'
  BY <1>1, <1>2 DEF PoolTypeOK, TakeIdle
<1>4. Cardinality(idle') = Cardinality(idle) - 1
  BY <1>1, Counts, MinusOne
<1>5. Counted' = Counted \cup {t} /\ t \notin Counted /\ Holders' = Holders \cup {t} /\ t \notin Holders
  BY <1>2 DEF PoolTypeOK, Counted, Holders, At
<1>6. Cardinality(Counted') = Cardinality(Counted) + 1
  BY <1>5, Counts, PlusOne
<1>7. held'[t] = c /\ \A u \in Holders : u # t /\ held'[u] = held[u]
  BY <1>1, <1>5 DEF PoolTypeOK
<1>8. PoolAccounted'
  <2>1. open' = idle' \cup doomed' \cup {held'[u] : u \in Holders'}
    BY <1>1, <1>2, <1>5, <1>7 DEF PoolAccounted
  <2>2. /\ \A u \in Holders' : held'[u] \notin idle' \cup doomed'
        /\ \A u, v \in Holders' : held'[u] = held'[v] => u = v
    BY <1>1, <1>2, <1>5, <1>7 DEF PoolAccounted
  <2>. QED BY <1>1, <1>2, <1>4, <1>6, <2>1, <2>2, Counts DEF PoolAccounted, PoolTypeOK
<1>9. Waiters' /\ NoLostWakeup'
  <2>1. total' \in Int /\ Cardinality(idle') \in Nat
    BY <1>3, CountsPrimed DEF PoolTypeOK
  <2>2. Cardinality(idle') - total' = Cardinality(idle) - total - 1
    BY <1>2, <1>4, Counts DEF PoolTypeOK
  <2>3. Looks(t) /\ waiting' = waiting \ {t} /\ UNCHANGED <<closed, doomed>>
    BY DEF TakeIdle
  <2>. QED BY <1>2, <2>1, <2>2, <2>3, TakingKeeps
<1>. QED BY <1>3, <1>8, <1>9

LEMMA GrowKeeps == ASSUME PoolInv, NEW t \in Thread, Grow(t) PROVE PoolInv'
<1>. USE DEF PoolInv
<1>1. pc[t] \in {"entering", "woken"} /\ pc' = [pc EXCEPT ![t] = "connecting"]
  BY DEF Grow, Looks
<1>2. PoolTypeOK'
  BY <1>1 DEF PoolTypeOK, Grow
<1>3. Counted' = Counted \cup {t} /\ t \notin Counted /\ Holders' = Holders
  BY <1>1 DEF PoolTypeOK, Counted, Holders, At
<1>4. Cardinality(Counted') = Cardinality(Counted) + 1
  BY <1>3, Counts, PlusOne
<1>5. PoolAccounted'
  <2>1. /\ total' = total + 1 /\ total < MaxSize
        /\ UNCHANGED <<idle, closed, held, open, doomed>>
    BY DEF Grow
  <2>2. total' = Cardinality(idle') + Cardinality(Counted') /\ total' <= MaxSize
    BY <1>4, <2>1, Counts, PoolAssumption DEF PoolAccounted, PoolTypeOK
  <2>. QED BY <1>3, <2>1, <2>2 DEF PoolAccounted
<1>6. Waiters' /\ NoLostWakeup'
  <2>1. total' \in Int /\ Cardinality(idle') \in Nat
    BY <1>2, CountsPrimed DEF PoolTypeOK
  <2>2. Cardinality(idle') - total' = Cardinality(idle) - total - 1
    BY Counts DEF PoolTypeOK, Grow
  <2>3. Looks(t) /\ waiting' = waiting \ {t} /\ UNCHANGED <<closed, doomed>>
    BY DEF Grow
  <2>. QED BY <1>1, <2>1, <2>2, <2>3, TakingKeeps
<1>. QED BY <1>2, <1>5, <1>6

(* Who goes to sleep has just seen that nothing is free. *)
LEMMA SleepKeeps == ASSUME PoolInv, NEW t \in Thread, Sleep(t) PROVE PoolInv'
<1>. USE DEF PoolInv
<1>1. pc[t] \in {"entering", "woken"} /\ pc' = [pc EXCEPT ![t] = "asleep"]
  BY DEF Sleep, Looks
<1>2. PoolTypeOK'
  BY <1>1 DEF PoolTypeOK, Sleep
<1>3. Counted' = Counted /\ Holders' = Holders
  BY <1>1 DEF PoolTypeOK, Counted, Holders, At
<1>4. PoolAccounted'
  BY <1>3 DEF PoolAccounted, Sleep
<1>5. Waiters'
  BY <1>1 DEF Waiters, Sleep, PoolTypeOK, At
<1>6. NoLostWakeup'
  <2>1. Cardinality(idle') + (MaxSize - total') <= 0
    BY FS_EmptySet, PoolAssumption DEF Sleep, Exhausted, PoolTypeOK
  <2>2. Cardinality((At("woken") \ waiting)') \in Nat /\ Cardinality(idle') \in Nat
    BY <1>2, CountsPrimed
  <2>. QED BY <1>2, <2>1, <2>2, PoolAssumption DEF NoLostWakeup, PoolTypeOK
<1>. QED BY <1>2, <1>4, <1>5, <1>6

(* Who gives up has seen that nothing is free, or that the pool is closed and
   nobody sleeps any more.                                                    *)
LEMMA RefuseKeeps == ASSUME PoolInv, NEW t \in Thread, Refuse(t) PROVE PoolInv'
<1>. USE DEF PoolInv
<1>1. pc[t] \in {"entering", "woken"} /\ pc' = [pc EXCEPT ![t] = "out"]
  BY DEF Refuse, Looks
<1>2. PoolTypeOK'
  BY <1>1 DEF PoolTypeOK, Refuse
<1>3. Counted' = Counted /\ Holders' = Holders
  BY <1>1 DEF PoolTypeOK, Counted, Holders, At
<1>4. PoolAccounted'
  BY <1>3 DEF PoolAccounted, Refuse
<1>5. Waiters'
  BY <1>1 DEF Waiters, Refuse, PoolTypeOK, At
<1>6. NoLostWakeup'
  <2>1. CASE closed
    BY <1>5, <2>1 DEF Waiters, NoLostWakeup, Refuse
  <2>2. CASE ~closed
    <3>1. idle' = {} /\ total' = total /\ total >= MaxSize
      BY <2>2 DEF Refuse, Exhausted
    <3>3. Cardinality(idle') + (MaxSize - total') <= 0
      BY <3>1, FS_EmptySet, PoolAssumption DEF PoolTypeOK
    <3>2. Cardinality((At("woken") \ waiting)') \in Nat /\ Cardinality(idle') \in Nat
      BY <1>2, CountsPrimed
    <3>. QED BY <1>2, <3>2, <3>3, PoolAssumption DEF NoLostWakeup, PoolTypeOK
  <2>. QED BY <2>1, <2>2
<1>. QED BY <1>2, <1>4, <1>5, <1>6

(* A sleeper whose deadline passes stays on the list: it makes up for nothing. *)
LEMMA ExpireKeeps == ASSUME PoolInv, NEW t \in Thread, Expire(t) PROVE PoolInv'
<1>. USE DEF PoolInv
<1>1. pc[t] \in {"asleep", "woken"} /\ pc' = [pc EXCEPT ![t] = "woken"]
      /\ UNCHANGED <<idle, total, closed, waiting, held, result, open, doomed>>
  BY DEF Expire
<1>2. PoolTypeOK'
  BY <1>1 DEF PoolTypeOK, Expire
<1>3. Counted' = Counted /\ Holders' = Holders
  BY <1>1 DEF PoolTypeOK, Counted, Holders, At
<1>4. PoolAccounted'
  BY <1>1, <1>3 DEF PoolAccounted
<1>5. Waiters'
  BY <1>1 DEF Waiters, PoolTypeOK, At
<1>6. (At("woken") \ waiting)' = At("woken") \ waiting /\ At("asleep")' \subseteq At("asleep")
  BY <1>1 DEF Waiters, PoolTypeOK, At
<1>7. NoLostWakeup'
  BY <1>1, <1>6 DEF NoLostWakeup
<1>. QED BY <1>2, <1>4, <1>5, <1>7

LEMMA ConnectKeeps == ASSUME PoolInv, NEW t \in Thread, Connect(t) PROVE PoolInv'
<1>. USE DEF PoolInv
<1>1. PICK c \in Conn \ open : open' = open \cup {c} /\ held' = [held EXCEPT ![t] = c]
  BY DEF Connect
<1>2. pc[t] = "connecting" /\ pc' = [pc EXCEPT ![t] = "holding"]
      /\ UNCHANGED <<idle, total, closed, waiting, expired, result, doomed>>
  BY DEF Connect
<1>3. PoolTypeOK'
  BY <1>1, <1>2 DEF PoolTypeOK
<1>4. Counted' = Counted /\ Holders' = Holders \cup {t} /\ t \notin Holders
      /\ At("asleep")' = At("asleep") /\ At("woken")' = At("woken") /\ At("closing")' = At("closing")
  BY <1>2 DEF PoolTypeOK, Counted, Holders, At
<1>5. held'[t] = c /\ \A u \in Holders : u # t /\ held'[u] = held[u]
  BY <1>1, <1>4 DEF PoolTypeOK
<1>6. PoolAccounted'
  <2>1. open' = idle' \cup doomed' \cup {held'[u] : u \in Holders'}
    BY <1>1, <1>2, <1>4, <1>5 DEF PoolAccounted
  <2>2. c \notin idle \cup doomed /\ \A u \in Holders : held[u] # c
    BY <1>1 DEF PoolAccounted
  <2>3. /\ \A u \in Holders' : held'[u] \notin idle' \cup doomed'
        /\ \A u, v \in Holders' : held'[u] = held'[v] => u = v
    BY <1>1, <1>2, <1>4, <1>5, <2>2 DEF PoolAccounted
  <2>. QED BY <1>2, <1>4, <2>1, <2>3 DEF PoolAccounted
<1>. QED BY <1>2, <1>3, <1>4, <1>6 DEF Waiters, NoLostWakeup

LEMMA ConnectFailsKeeps == ASSUME PoolInv, NEW t \in Thread, ConnectFails(t) PROVE PoolInv'
<1>. USE DEF PoolInv
<1>1. pc[t] = "connecting" /\ total' = total - 1 /\ Notifying(t, "out")
      /\ UNCHANGED <<idle, closed, held, open, doomed>>
  BY DEF ConnectFails
<1>2. /\ pc' \in [Thread -> {"out", "entering", "asleep", "woken", "connecting", "holding",
                             "done", "discarding", "returning", "closing"}]
      /\ waiting' \subseteq Thread
      /\ Counted' = Counted \ {t} /\ Holders' = Holders \ {t}
      /\ Waiters' /\ NoLostWakeup'
  <2>. DEFINE n == Cardinality(idle)
  <2>1. n \in Nat /\ total \in Int
    BY Counts DEF PoolTypeOK
  <2>2. Cardinality(idle') = n
    BY <1>1
  <2>3. Cardinality(idle') - total' = n - total + 1 /\ total' \in Int /\ Cardinality(idle') \in Nat
    BY <1>1, <2>1, <2>2
  <2>. QED BY <1>1, <2>3, NotifyKeeps
<1>3. PoolTypeOK'
  <2>1. result' = [result EXCEPT ![t] = "error"] /\ UNCHANGED expired
    BY DEF ConnectFails
  <2>. QED BY <1>1, <1>2, <2>1 DEF PoolTypeOK
<1>4. t \in Counted /\ t \notin Holders
  BY <1>1 DEF Counted, Holders, At
<1>5. Cardinality(Counted') = Cardinality(Counted) - 1
  BY <1>2, <1>4, Counts, MinusOne
<1>6. PoolAccounted'
  BY <1>1, <1>2, <1>4, <1>5, Counts, PoolAssumption DEF PoolAccounted, PoolTypeOK
<1>. QED BY <1>2, <1>3, <1>6

LEMMA ReturnKeeps == ASSUME PoolInv, NEW t \in Thread, Return(t) PROVE PoolInv'
<1>. USE DEF PoolInv
<1>1. pc[t] = "returning" /\ total' = total - 1 /\ Notifying(t, "out")
      /\ UNCHANGED <<idle, closed, held, open, doomed>>
  BY DEF Return
<1>2. /\ pc' \in [Thread -> {"out", "entering", "asleep", "woken", "connecting", "holding",
                             "done", "discarding", "returning", "closing"}]
      /\ waiting' \subseteq Thread
      /\ Counted' = Counted \ {t} /\ Holders' = Holders \ {t}
      /\ Waiters' /\ NoLostWakeup'
  <2>. DEFINE n == Cardinality(idle)
  <2>1. n \in Nat /\ total \in Int
    BY Counts DEF PoolTypeOK
  <2>2. Cardinality(idle') = n
    BY <1>1
  <2>3. Cardinality(idle') - total' = n - total + 1 /\ total' \in Int /\ Cardinality(idle') \in Nat
    BY <1>1, <2>1, <2>2
  <2>. QED BY <1>1, <2>3, NotifyKeeps
<1>3. PoolTypeOK'
  BY <1>2 DEF PoolTypeOK, Return
<1>4. t \in Counted /\ t \notin Holders
  BY <1>1 DEF Counted, Holders, At
<1>5. Cardinality(Counted') = Cardinality(Counted) - 1
  BY <1>2, <1>4, Counts, MinusOne
<1>6. PoolAccounted'
  BY <1>1, <1>2, <1>4, <1>5, Counts, PoolAssumption DEF PoolAccounted, PoolTypeOK
<1>. QED BY <1>2, <1>3, <1>6

(* The connection goes back, or is kept from a pool that was closed meanwhile. *)
LEMMA ReleaseKeeps == ASSUME PoolInv, NEW t \in Thread, Release(t) PROVE PoolInv'
<1>. USE DEF PoolInv
<1>1. pc[t] = "done" /\ t \in Counted /\ t \in Holders /\ held[t] \in Conn
  <2>1. pc[t] = "done" /\ t \in Holders
    BY DEF Release, Holders, At
  <2>2. held[t] \in open
    BY <2>1 DEF PoolAccounted
  <2>. QED BY <2>1, <2>2 DEF Counted, At, PoolTypeOK
<1>2. UNCHANGED <<closed, expired, result, open, doomed>>
  BY DEF Release
<1>3. CASE ~closed
  <2>1. /\ idle' = idle \cup {held[t]} /\ held' = [held EXCEPT ![t] = None]
        /\ Notifying(t, "out") /\ total' = total
    BY <1>3 DEF Release
  <2>2. held[t] \notin idle
    BY <1>1 DEF PoolAccounted
  <2>3. Cardinality(idle') = Cardinality(idle) + 1
    BY <2>1, <2>2, Counts, PlusOne
  <2>4. /\ total' \in Int /\ Cardinality(idle') \in Nat
        /\ Cardinality(idle') - total' = Cardinality(idle) - total + 1
    BY <2>1, <2>3, Counts DEF PoolTypeOK
  <2>5. /\ pc' \in [Thread -> {"out", "entering", "asleep", "woken", "connecting", "holding",
                               "done", "discarding", "returning", "closing"}]
        /\ waiting' \subseteq Thread
        /\ Counted' = Counted \ {t} /\ Holders' = Holders \ {t}
        /\ Waiters' /\ NoLostWakeup'
    BY <1>1, <1>2, <2>1, <2>4, NotifyKeeps
  <2>6. PoolTypeOK'
    BY <1>1, <1>2, <2>1, <2>5 DEF PoolTypeOK
  <2>7. \A u \in Holders' : u # t /\ u \in Holders /\ held'[u] = held[u]
    BY <2>1, <2>5 DEF PoolTypeOK, Holders, At
  <2>8. PoolAccounted'
    <3>1. open' = idle' \cup doomed' \cup {held'[u] : u \in Holders'}
      BY <1>1, <1>2, <2>1, <2>5, <2>7 DEF PoolAccounted
    <3>2. /\ \A u \in Holders' : held'[u] \notin idle' \cup doomed'
          /\ \A u, v \in Holders' : held'[u] = held'[v] => u = v
          /\ idle' \cap doomed' = {}
      BY <1>1, <1>2, <2>1, <2>7 DEF PoolAccounted
    <3>3. Cardinality(Counted') = Cardinality(Counted) - 1
      BY <1>1, <2>5, Counts, MinusOne
    <3>4. total' = Cardinality(idle') + Cardinality(Counted') /\ total' <= MaxSize
      BY <2>1, <2>3, <3>3, Counts DEF PoolAccounted, PoolTypeOK
    <3>. QED BY <1>2, <1>3, <3>1, <3>2, <3>4 DEF PoolAccounted
  <2>. QED BY <2>5, <2>6, <2>8
<1>4. CASE closed
  <2>1. /\ total' = total - 1 /\ pc' = [pc EXCEPT ![t] = "closing"]
        /\ UNCHANGED <<idle, held, waiting>>
    BY <1>4 DEF Release
  <2>2. PoolTypeOK'
    BY <1>2, <2>1 DEF PoolTypeOK
  <2>3. Counted' = Counted \ {t} /\ Holders' = Holders /\ At("asleep")' = At("asleep")
        /\ At("woken")' = At("woken")
    BY <1>1, <2>1 DEF PoolTypeOK, Counted, Holders, At
  <2>4. Cardinality(Counted') = Cardinality(Counted) - 1
    BY <1>1, <2>3, Counts, MinusOne
  <2>5. total' = Cardinality(idle') + Cardinality(Counted') /\ total' <= MaxSize
    BY <2>1, <2>4, Counts, PoolAssumption DEF PoolAccounted, PoolTypeOK
  <2>6. PoolAccounted'
    BY <1>2, <2>1, <2>3, <2>5 DEF PoolAccounted
  <2>7. At("asleep") = {}
    BY <1>4 DEF Waiters
  <2>. QED BY <1>2, <1>4, <2>1, <2>2, <2>3, <2>6, <2>7 DEF Waiters, NoLostWakeup
<1>. QED BY <1>3, <1>4

LEMMA CloseOwnKeeps == ASSUME PoolInv, NEW t \in Thread, CloseOwn(t) PROVE PoolInv'
<1>. USE DEF PoolInv
<1>1. /\ pc[t] \in {"closing", "discarding"}
      /\ open' = open \ {held[t]} /\ held' = [held EXCEPT ![t] = None]
      /\ pc' = [pc EXCEPT ![t] = IF pc[t] = "closing" THEN "out" ELSE "returning"]
      /\ UNCHANGED <<idle, total, closed, waiting, expired, result, doomed>>
  BY DEF CloseOwn
<1>2. t \in Holders /\ held[t] \notin idle \cup doomed
  BY <1>1 DEF Holders, At, PoolAccounted
<1>3. PoolTypeOK'
  BY <1>1, <1>2 DEF PoolTypeOK
<1>4. Counted' = Counted /\ Holders' = Holders \ {t} /\ At("asleep")' = At("asleep")
      /\ At("woken")' = At("woken") /\ At("closing")' \subseteq At("closing")
  BY <1>1 DEF PoolTypeOK, Counted, Holders, At
<1>5. \A u \in Holders' : u # t /\ u \in Holders /\ held'[u] = held[u] /\ held[u] # held[t]
  BY <1>1, <1>2, <1>4 DEF PoolTypeOK, PoolAccounted, Holders, At
<1>6. PoolAccounted'
  <2>1. open' = idle' \cup doomed' \cup {held'[u] : u \in Holders'}
    BY <1>1, <1>2, <1>4, <1>5 DEF PoolAccounted
  <2>2. /\ \A u \in Holders' : held'[u] \notin idle' \cup doomed'
        /\ \A u, v \in Holders' : held'[u] = held'[v] => u = v
    BY <1>1, <1>5 DEF PoolAccounted
  <2>. QED BY <1>1, <1>4, <2>1, <2>2 DEF PoolAccounted
<1>. QED BY <1>1, <1>3, <1>4, <1>6 DEF Waiters, NoLostWakeup

(* After close() nobody sleeps, so nobody needs a place. *)
LEMMA ClosePoolKeeps == ASSUME PoolInv, ClosePool PROVE PoolInv'
<1>. USE DEF PoolInv
<1>1. /\ ~closed /\ closed' = TRUE /\ doomed' = idle /\ idle' = {}
      /\ total' = total - Cardinality(idle) /\ waiting' = {}
      /\ pc' = [t \in Thread |-> IF t \in waiting THEN "woken" ELSE pc[t]]
      /\ UNCHANGED <<expired, held, result, open>>
  BY DEF ClosePool
<1>2. idle \subseteq open /\ doomed = {}
  BY <1>1 DEF PoolAccounted, Waiters
<1>3. PoolTypeOK'
  <2>1. pc' \in [Thread -> {"out", "entering", "asleep", "woken", "connecting", "holding",
                            "done", "discarding", "returning", "closing"}]
    BY <1>1 DEF PoolTypeOK
  <2>2. closed' \in BOOLEAN
    BY <1>1, Zenon
  <2>3. total' \in Int
    BY <1>1, Counts DEF PoolTypeOK
  <2>. QED BY <1>1, <1>2, <2>1, <2>2, <2>3 DEF PoolTypeOK
<1>4. Counted' = Counted /\ Holders' = Holders /\ At("asleep")' = {}
  BY <1>1 DEF PoolTypeOK, Waiters, Counted, Holders, At
<1>5. PoolAccounted'
  <2>1. Cardinality(idle') = 0
    BY <1>1, FS_EmptySet
  <2>2. total' = Cardinality(idle') + Cardinality(Counted') /\ total' <= MaxSize
    BY <1>1, <1>4, <2>1, Counts, PoolAssumption DEF PoolAccounted, PoolTypeOK
  <2>. QED BY <1>1, <1>2, <1>4, <2>2 DEF PoolAccounted
<1>. QED BY <1>1, <1>3, <1>4, <1>5 DEF Waiters, NoLostWakeup

LEMMA CloseDoomedKeeps == ASSUME PoolInv, CloseDoomed PROVE PoolInv'
<1>. USE DEF PoolInv
<1>1. PICK c \in doomed : doomed' = doomed \ {c} /\ open' = open \ {c}
  BY DEF CloseDoomed
<1>2. UNCHANGED <<idle, total, closed, waiting, expired, pc, held, result>>
  BY DEF CloseDoomed
<1>3. PoolTypeOK'
  BY <1>1, <1>2 DEF PoolTypeOK
<1>4. Counted' = Counted /\ Holders' = Holders /\ At("asleep")' = At("asleep")
      /\ At("woken")' = At("woken") /\ At("closing")' = At("closing")
  BY <1>2 DEF Counted, Holders, At
<1>5. c \notin idle /\ \A u \in Holders : held[u] # c
  BY <1>1 DEF PoolAccounted
<1>6. PoolAccounted'
  BY <1>1, <1>2, <1>4, <1>5 DEF PoolAccounted
<1>. QED BY <1>1, <1>2, <1>3, <1>4, <1>6 DEF Waiters, NoLostWakeup

LEMMA StepKeeps == PoolInv /\ [PoolNext]_poolVars => PoolInv'
<1>. SUFFICES ASSUME PoolInv, [PoolNext]_poolVars PROVE PoolInv'
  OBVIOUS
<1>1. ASSUME NEW t \in Thread, Borrower(t) PROVE PoolInv'
  BY <1>1, TakeIdleKeeps, GrowKeeps, SleepKeeps, RefuseKeeps, ExpireKeeps, ConnectKeeps,
     ConnectFailsKeeps, TransactKeeps, ReleaseKeeps, CloseOwnKeeps, ReturnKeeps DEF Borrower
<1>2. CASE UNCHANGED poolVars
  BY <1>2 DEF poolVars, PoolInv, PoolTypeOK, PoolAccounted, Waiters, NoLostWakeup,
              Counted, Holders, At
<1>. QED BY <1>1, <1>2, AskKeeps, TransactKeeps, ClosePoolKeeps, CloseDoomedKeeps DEF PoolNext

(* The invariant of the pool alone. *)
THEOREM PoolKept == PoolSpec => []PoolInv
BY InitInv, StepKeeps, PTL DEF PoolSpec

(* A step of the services is at most one move in the pool, and it is one that
   the pool allows: the services never touch the pool's state themselves.     *)
LEMMA ServicesStep == [Next]_vars => [PoolNext]_poolVars
<1>. SUFFICES ASSUME [Next]_vars PROVE [PoolNext]_poolVars
  OBVIOUS
<1>1. ASSUME NEW t \in Thread, Arrive(t) PROVE [PoolNext]_poolVars
  BY <1>1 DEF Arrive, ArriveSummary, ArriveRanking, ArriveProfile, ArriveRecent, ArriveDetail,
              ArriveSearch, ArriveServers, PoolNext
<1>2. ASSUME NEW t \in Thread, ServiceStep(t) PROVE [PoolNext]_poolVars
  <2>1. CASE Gate(t) \/ NobodyByName(t) \/ Call(t) \/ CallFails(t) \/ Enriched(t) \/ ReadDone(t) \/ Refresh(t)
    BY <2>1 DEF Gate, NobodyByName, Call, CallFails, Enriched, ReadDone, Refresh,
      Quiet
  <2>2. CASE Lookup(t)
    BY <2>2 DEF Lookup, PoolNext
  <2>3. CASE Gathered(t)
    BY <2>3 DEF Gathered, PoolNext
  <2>4. CASE Query(t)
    BY <2>4 DEF Query, PoolNext
  <2>. QED BY <1>2, <2>1, <2>2, <2>3, <2>4 DEF ServiceStep
<1>3. CASE (\E s \in ServerSet : Finish(s)) \/ Tick
  BY <1>3 DEF Finish, Tick
<1>4. CASE PoolStep
  BY <1>4 DEF PoolStep, PoolNext
<1>5. CASE UNCHANGED vars
  BY <1>5 DEF vars
<1>. QED BY <1>1, <1>2, <1>3, <1>4, <1>5 DEF Next

(* The services with their pool behave, towards the pool, as ReadPool says. *)
THEOREM ServicesUsePool == Spec => PoolSpec
<1>1. Init => PoolInit
  BY DEF Init
<1>. QED BY <1>1, ServicesStep, PTL DEF Spec, PoolSpec

(* No connection of a service's pool is lost or lent twice, for any number of
   requests and any size of the pool.                                         *)
THEOREM ConnectionsAccounted == Spec => []PoolAccounted
<1>1. PoolInv => PoolAccounted
  BY DEF PoolInv
<1>. QED BY <1>1, PoolKept, ServicesUsePool, PTL

(* No request sleeps to its deadline beside a free connection. *)
THEOREM WakeupsArrive == Spec => []NoLostWakeup
<1>1. PoolInv => NoLostWakeup
  BY DEF PoolInv
<1>. QED BY <1>1, PoolKept, ServicesUsePool, PTL

-----------------------------------------------------------------------------
(* How old an answer may be.  A request that began to read at some moment has,
   of the servers it could ask, every match that ended before; the cache keeps
   an answer no longer than its kind allows after the read that made it.      *)
Stages == {"idle", "gate", "lookup", "lock", "read", "api", "byId", "gathered", "names", "answered"}

RequestRecord == [stage : Stages,
            kind : Kinds \cup {"none"}, todo : Seq(ServerSet), turn : Nat, at : Nat,
            rows : SUBSET (ServerSet \X Nat), missing : SUBSET (ServerSet \cup {"names"}),
            state : {"none", "available", "unavailable"}]
Entry == [rows : SUBSET (ServerSet \X Nat), missing : SUBSET (ServerSet \cup {"names"}), until : Nat]

ReadsType == /\ now \in Nat /\ finished \in [ServerSet -> Seq(Nat)]
             /\ req \in [Thread -> RequestRecord]
             /\ lastGood \in [ServerSet -> SUBSET (ServerSet \X Nat)]
             /\ \A k \in DOMAIN cache : k \in Kinds \X Seq(ServerSet) /\ cache[k] \in Entry

ApiKinds == HistoryKinds \cup {"search", "servers"}
ByWeek == {"weekly", "profile"}
Gathering == {"api", "byId", "gathered", "names"}

(* The order of a request's steps, as far as it decides what is in its hands. *)
WellFormed(q) ==
  /\ q.stage = "idle" => q = NoAsk
  /\ q.stage \notin {"idle", "answered"} \/ q.state = "available" =>
       q.kind \in Kinds /\ q.todo # <<>> /\ (q.kind = "detail" => Len(q.todo) = 1)
  /\ q.stage \in {"gate", "lookup", "lock"} => q.turn = 1 /\ q.rows = {} /\ q.missing = {}
  /\ q.stage = "lock" => q.kind = "servers"
  /\ q.stage \in Gathering => q.kind \in ApiKinds
  /\ q.stage \in {"api", "byId"} => q.turn \in 1..Len(q.todo)
  /\ q.stage = "read" => q.kind \in AggregateKinds

(* The matches of a server that an answer about that time owes. *)
Owed(what, s, from, to) ==
  {m \in MatchesOf(s) : from <= EndOf(m) /\ EndOf(m) < to /\ (what = "detail" => m[2] = 1)}

From(what, time) == IF what \in ByWeek THEN WeekStart(time) ELSE 0

(* What has been gathered from the servers that were asked already. *)
Gathers(q) ==
  /\ \A i \in 1..Len(q.todo) :
       (q.stage \in {"api", "byId"} => i < q.turn) =>
          q.todo[i] \in q.missing \/ Owed(q.kind, q.todo[i], 0, q.at) \subseteq q.rows
  /\ q.kind = "detail" => q.rows \subseteq {<<q.todo[1], 1>>}

(* What an answer shows. *)
Shows(q) ==
  /\ q.at <= now
  /\ \A s \in Asked(q) \ q.missing :
       Owed(q.kind, s, From(q.kind, q.at), q.at - MaxAge(q.kind)) \subseteq q.rows
  /\ q.kind \in ByWeek =>
       \A m \in q.rows : \E s \in ServerSet : \E from \in Nat :
         /\ m \in Owed(q.kind, s, from, q.at)
         /\ from >= WeekStart(IF q.at < MaxAge(q.kind) THEN 0 ELSE q.at - MaxAge(q.kind))

Fits(q) ==
  /\ WellFormed(q)
  /\ q.stage \in Gathering \cup {"read"} => q.at <= now /\ now <= q.at + LongestRead
  /\ q.stage \in Gathering => Gathers(q)
  /\ q.stage = "answered" /\ q.state = "available" => Shows(q)

(* What the query of an aggregate has brought. *)
Brought(q) ==
  /\ \A s \in Asked(q) : Owed(q.kind, s, From(q.kind, q.at), q.at) \subseteq q.rows
  /\ q.kind \in ByWeek =>
       \A m \in q.rows : \E s \in ServerSet : m \in Owed(q.kind, s, WeekStart(q.at), q.at)

Requests ==
  \A t \in Thread : \A q \in RequestRecord :
    q = req[t] => Fits(q) /\ (q.stage = "read" /\ result[t] = "rows" => Brought(q))

(* A detail that is kept shows its match, which has ended; every other answer is
   kept for its time after the read that made it.                             *)
Kept(k, e) ==
  /\ k[1] \in {"summary", "ranking", "recent", "detail", "servers"}
  /\ e.until <= now + Ttl[k[1]]
  /\ \A i \in 1..Len(k[2]) :
       \/ k[2][i] \in e.missing
       \/ IF k[1] = "detail" THEN <<k[2][i], 1>> \in e.rows
          ELSE Owed(k[1], k[2][i], 0, e.until - Ttl[k[1]] - LongestRead) \subseteq e.rows

CacheFits == \A k \in DOMAIN cache : \A e \in Entry : e = cache[k] => Kept(k, e)

ReadsInv == ReadsType /\ PoolTypeOK /\ Requests /\ CacheFits

-----------------------------------------------------------------------------
LEMMA WeekNatural == \A time \in Nat : WeekStart(time) \in Nat /\ WeekStart(time) <= time
<1>. TAKE time \in Nat
<1>. DEFINE d == time \div WeekLength
            r == time % WeekLength
<1>1. WeekLength \in Nat \ {0}
  BY ReadsAssumption
<1>2. d \in Nat /\ r \in Nat /\ time = WeekLength * d + r
  BY <1>1
<1>. HIDE DEF d, r
<1>3. d * WeekLength \in Nat /\ d * WeekLength = WeekLength * d
  BY <1>1, <1>2
<1>. QED BY <1>2, <1>3 DEF WeekStart, d

LEMMA WeekMonotone ==
  ASSUME NEW a \in Nat, NEW b \in Nat, a <= b
  PROVE  WeekStart(a) <= WeekStart(b)
<1>. DEFINE w == WeekLength
            c == a \div w
            d == b \div w
<1>1. w \in Nat \ {0}
  BY ReadsAssumption
<1>2. c \in Nat /\ w * c <= a
  BY <1>1
<1>3. d \in Nat /\ b < w * d + w
  BY <1>1
<1>. HIDE DEF c, d, w
<1>4. c <= d
  <2>. SUFFICES ASSUME d + 1 <= c PROVE FALSE
    BY <1>2, <1>3
  <2>1. w * (d + 1) <= w * c
    BY <1>1, <1>2, <1>3
  <2>2. w * (d + 1) = w * d + w /\ w * d \in Nat /\ w * c \in Nat
    BY <1>1, <1>2, <1>3
  <2>. QED BY <1>1, <1>2, <1>3, <2>1, <2>2
<1>5. c * w <= d * w
  BY <1>1, <1>2, <1>3, <1>4
<1>. QED BY <1>5 DEF WeekStart, c, d, w

(* A match that finishes now is not owed by what was read before. *)
LEMMA OwedStays ==
  ASSUME ReadsType, NEW s \in ServerSet, NEW what, NEW from \in Int, NEW to \in Int, to <= now,
         finished' = finished \/ \E x \in ServerSet : finished' = [finished EXCEPT ![x] = Append(@, now)]
  PROVE  Owed(what, s, from, to)' = Owed(what, s, from, to)
<1>1. CASE finished' = finished
  BY <1>1 DEF Owed, MatchesOf, EndOf
<1>2. CASE \E x \in ServerSet : finished' = [finished EXCEPT ![x] = Append(@, now)]
  <2>1. PICK x \in ServerSet : finished' = [finished EXCEPT ![x] = Append(@, now)]
    BY <1>2
  <2>2. finished[s] \in Seq(Nat) /\ now \in Nat
    BY DEF ReadsType
  <2>3. CASE x # s
    <3>1. finished'[s] = finished[s]
      BY <2>1, <2>3 DEF ReadsType
    <3>. QED BY <3>1 DEF Owed, MatchesOf, EndOf
  <2>4. CASE x = s
    <3>1. finished'[s] = Append(finished[s], now)
      BY <2>1, <2>4 DEF ReadsType
    <3>2. /\ Len(finished'[s]) = Len(finished[s]) + 1
          /\ finished'[s][Len(finished[s]) + 1] = now
          /\ \A k \in 1..Len(finished[s]) : finished'[s][k] = finished[s][k]
      BY <2>2, <3>1
    <3>3. ASSUME NEW m PROVE m \in Owed(what, s, from, to)' <=> m \in Owed(what, s, from, to)
      <4>1. m \in Owed(what, s, from, to)' <=>
              \E k \in 1..Len(finished'[s]) :
                /\ m = <<s, k>> /\ (what = "detail" => k = 1)
                /\ from <= finished'[s][k] /\ finished'[s][k] < to
        BY DEF Owed, MatchesOf, EndOf
      <4>2. m \in Owed(what, s, from, to) <=>
              \E k \in 1..Len(finished[s]) :
                /\ m = <<s, k>> /\ (what = "detail" => k = 1)
                /\ from <= finished[s][k] /\ finished[s][k] < to
        BY DEF Owed, MatchesOf, EndOf
      <4>. DEFINE n == Len(finished[s])
      <4>3. 1..Len(finished'[s]) = 1..n \cup {n + 1} /\ finished'[s][n + 1] = now /\ ~(now < to)
        BY <2>2, <3>2
      <4>4. \A k \in 1..n : finished'[s][k] = finished[s][k]
        BY <3>2
      <4>. HIDE DEF n
      <4>5. m \in Owed(what, s, from, to) <=>
              \E k \in 1..n : /\ m = <<s, k>> /\ (what = "detail" => k = 1)
                              /\ from <= finished[s][k] /\ finished[s][k] < to
        BY <4>2 DEF n
      <4>. QED BY <4>1, <4>3, <4>4, <4>5
    <3>. QED BY <3>3
  <2>. QED BY <2>3, <2>4
<1>. QED BY <1>1, <1>2

LEMMA OwedWithin ==
  ASSUME ReadsType, NEW s \in ServerSet, NEW what, NEW from \in Int, NEW to \in Int,
         NEW f \in Int, NEW u \in Int, f <= from, to <= u
  PROVE  Owed(what, s, from, to) \subseteq Owed(what, s, f, u)
<1>. SUFFICES ASSUME NEW k \in 1..Len(finished[s]), <<s, k>> \in Owed(what, s, from, to)
              PROVE  <<s, k>> \in Owed(what, s, f, u)
  BY DEF Owed, MatchesOf
<1>1. finished[s][k] \in Nat /\ EndOf(<<s, k>>) = finished[s][k]
  BY DEF ReadsType, EndOf
<1>. QED BY <1>1 DEF Owed

LEMMA InitReads == Init => ReadsInv
<1>. SUFFICES ASSUME Init PROVE ReadsInv
  OBVIOUS
<1>1. PoolTypeOK
  BY InitInv DEF Init, PoolInv
<1>2. NoAsk \in RequestRecord
  BY DEF NoAsk, RequestRecord, Stages
<1>3. ReadsType
  <2>1. finished \in [ServerSet -> Seq(Nat)] /\ now \in Nat
    BY DEF Init
  <2>2. req \in [Thread -> RequestRecord]
    BY <1>2 DEF Init
  <2>3. lastGood \in [ServerSet -> SUBSET (ServerSet \X Nat)]
    BY DEF Init
  <2>4. DOMAIN cache = {}
    BY DEF Init
  <2>. QED BY <2>1, <2>2, <2>3, <2>4 DEF ReadsType
<1>4. Requests
  <2>1. Fits(NoAsk) /\ NoAsk.stage = "idle"
    BY DEF NoAsk, Fits, WellFormed, Gathering
  <2>. QED BY <2>1 DEF Init, Requests
<1>5. CacheFits
  BY DEF Init, CacheFits
<1>. QED BY <1>1, <1>3, <1>4, <1>5 DEF ReadsInv

(* A step of one request. *)
LEMMA Moves ==
  ASSUME ReadsInv, PoolTypeOK', NEW t \in Thread, NEW r \in RequestRecord,
         req' = [req EXCEPT ![t] = r], Fits(r), UNCHANGED <<now, finished>>,
         \A u \in Thread : result'[u] = "rows" => result[u] = "rows" \/ u = t,
         r.stage = "read" /\ result'[t] = "rows" => Brought(r),
         lastGood' \in [ServerSet -> SUBSET (ServerSet \X Nat)],
         \A k \in DOMAIN cache' : k \in Kinds \X Seq(ServerSet) /\ cache'[k] \in Entry,
         CacheFits'
  PROVE  ReadsInv'
<1>1. ReadsType'
  BY DEF ReadsInv, ReadsType
<1>2. \A q : /\ Fits(q)' <=> Fits(q)
             /\ Brought(q)' <=> Brought(q)
  BY DEF Fits, Shows, Gathers, Brought, Owed, MatchesOf, EndOf
<1>3. Requests'
  <2>. SUFFICES ASSUME NEW u \in Thread, NEW q \in RequestRecord, q = req'[u]
                PROVE  Fits(q)' /\ (q.stage = "read" /\ result'[u] = "rows" => Brought(q)')
    BY DEF Requests
  <2>1. CASE u = t
    <3>1. q = r
      BY <2>1 DEF ReadsInv, ReadsType
    <3>. QED BY <1>2, <2>1, <3>1
  <2>2. CASE u # t
    <3>1. q = req[u]
      BY <2>2 DEF ReadsInv, ReadsType
    <3>. QED BY <1>2, <2>2, <3>1 DEF ReadsInv, Requests
  <2>. QED BY <2>1, <2>2
<1>. QED BY <1>1, <1>3 DEF ReadsInv

LEMMA CacheStays ==
  ASSUME ReadsInv, UNCHANGED <<now, finished, cache>>
  PROVE  /\ CacheFits'
         /\ \A k \in DOMAIN cache' : k \in Kinds \X Seq(ServerSet) /\ cache'[k] \in Entry
BY DEF ReadsInv, ReadsType, CacheFits, Kept, Owed, MatchesOf, EndOf

(* A new answer is cached as long as its kind allows. *)
LEMMA PutKeeps ==
  ASSUME ReadsInv, UNCHANGED <<now, finished>>, NEW q \in RequestRecord, q.kind \in Kinds,
         NEW rows \in SUBSET (ServerSet \X Nat), NEW missing \in SUBSET (ServerSet \cup {"names"}),
         NEW since \in Nat, Put(q, rows, missing, since),
         Keyed(q) => Kept(Key(q), [rows |-> rows, missing |-> missing, until |-> since + Ttl[q.kind]])
  PROVE  /\ CacheFits'
         /\ \A k \in DOMAIN cache' : k \in Kinds \X Seq(ServerSet) /\ cache'[k] \in Entry
<1>. DEFINE e == [rows |-> rows, missing |-> missing, until |-> since + Ttl[q.kind]]
<1>1. \A k, f : Kept(k, f)' <=> Kept(k, f)
  BY DEF Kept, Owed, MatchesOf, EndOf
<1>2. e \in Entry /\ Key(q) \in Kinds \X Seq(ServerSet)
  <2>1. Ttl[q.kind] \in Nat
    BY ReadsAssumption
  <2>2. e \in Entry
    BY <2>1 DEF Entry
  <2>3. q.todo \in Seq(ServerSet)
    BY DEF RequestRecord, Stages
  <2>. QED BY <2>2, <2>3 DEF Key
<1>3. CASE Keyed(q)
  <2>1. cache' = [k \in DOMAIN cache \cup {Key(q)} |-> IF k = Key(q) THEN e ELSE cache[k]]
    BY <1>3 DEF Put
  <2>. HIDE DEF e
  <2>2. \A k \in DOMAIN cache' : (k = Key(q) /\ cache'[k] = e)
                                \/ (k \in DOMAIN cache /\ cache'[k] = cache[k])
    BY <2>1
  <2>3. CacheFits'
    <3>. SUFFICES ASSUME NEW k \in DOMAIN cache', NEW f \in Entry, f = cache'[k] PROVE Kept(k, f)'
      BY DEF CacheFits
    <3>1. CASE k = Key(q) /\ cache'[k] = e
      BY <1>1, <1>3, <3>1 DEF e
    <3>2. CASE k \in DOMAIN cache /\ cache'[k] = cache[k]
      BY <1>1, <3>2 DEF ReadsInv, CacheFits
    <3>. QED BY <2>2, <3>1, <3>2
  <2>. QED BY <1>2, <2>2, <2>3 DEF ReadsInv, ReadsType
<1>4. CASE ~Keyed(q)
  <2>1. PICK kept : kept \subseteq DOMAIN cache /\ cache' = [k \in kept |-> cache[k]]
    BY <1>4 DEF Put
  <2>2. \A k \in DOMAIN cache' : k \in DOMAIN cache /\ cache'[k] = cache[k]
    BY <2>1
  <2>. QED BY <1>1, <2>2 DEF ReadsInv, ReadsType, CacheFits
<1>. QED BY <1>3, <1>4

LEMMA Answers ==
  ASSUME NEW q \in RequestRecord, now \in Nat, NEW state \in {"none", "available", "unavailable"},
         NEW rows \in SUBSET (ServerSet \X Nat), NEW missing \in SUBSET (ServerSet \cup {"names"})
  PROVE  LET r == Answered(q, state, rows, missing)
         IN  /\ r \in RequestRecord /\ r.stage = "answered" /\ r.at = now /\ r.state = state
             /\ r.kind = q.kind /\ r.todo = q.todo /\ r.rows = rows /\ r.missing = missing
<1>. DEFINE r == Answered(q, state, rows, missing)
<1>1. r = [stage |-> "answered", kind |-> q.kind, todo |-> q.todo, turn |-> q.turn, at |-> now,
           rows |-> rows, missing |-> missing, state |-> state]
  <2>1. DOMAIN r = DOMAIN q
    BY DEF Answered
  <2>2. DOMAIN q = {"stage", "kind", "todo", "turn", "at", "rows", "missing", "state"}
    BY DEF RequestRecord, Stages
  <2>3. /\ r.stage = "answered" /\ r.at = now /\ r.state = state
        /\ r.rows = rows /\ r.missing = missing
    BY <2>2 DEF Answered
  <2>4. r.kind = q.kind /\ r.todo = q.todo /\ r.turn = q.turn
    BY <2>2 DEF Answered
  <2>5. r = [x \in DOMAIN r |-> r[x]]
    BY DEF Answered
  <2>. HIDE DEF r
  <2>. QED BY <2>1, <2>2, <2>3, <2>4, <2>5
<1>. HIDE DEF r
<1>2. q.kind \in Kinds \cup {"none"} /\ q.todo \in Seq(ServerSet) /\ q.turn \in Nat
  BY DEF RequestRecord, Stages
<1>3. r \in RequestRecord
  BY <1>1, <1>2 DEF RequestRecord, Stages
<1>. QED BY <1>1, <1>3 DEF r

LEMMA AskedServers ==
  ASSUME NEW q \in RequestRecord
  PROVE  /\ q.todo \in Seq(ServerSet) /\ Asked(q) \subseteq ServerSet
         /\ \A i \in 1..Len(q.todo) : q.todo[i] \in Asked(q)
<1>1. q.todo \in Seq(ServerSet)
  BY DEF RequestRecord, Stages
<1>. QED BY <1>1 DEF Asked

LEMMA Ages ==
  ASSUME NEW what \in Kinds
  PROVE  /\ Ttl[what] \in Nat /\ LongestRead \in Nat \ {0}
         /\ MaxAge(what) \in Nat /\ MaxAge(what) >= LongestRead
         /\ what \in {"summary", "ranking", "recent", "servers"} => MaxAge(what) = LongestRead + Ttl[what]
<1>1. Ttl[what] \in Nat /\ LongestRead \in Nat \ {0}
  BY ReadsAssumption
<1>2. MaxAge(what) = LongestRead \/ MaxAge(what) = LongestRead + Ttl[what]
  BY <1>1 DEF MaxAge
<1>. QED BY <1>1, <1>2 DEF MaxAge

(* What is found in the cache is not too old. *)
LEMMA HitShows ==
  ASSUME ReadsInv, NEW q \in RequestRecord, WellFormed(q), q.kind \in Kinds, q.todo # <<>>, Hit(q),
         NEW e \in Entry, e = cache[Key(q)],
         NEW r \in RequestRecord, r = Answered(q, "available", e.rows, e.missing)
  PROVE  Shows(r)
<1>. now \in Nat
  BY DEF ReadsInv, ReadsType
<1>0. e.rows \in SUBSET (ServerSet \X Nat) /\ e.missing \in SUBSET (ServerSet \cup {"names"}) /\ e.until \in Nat
  BY DEF Entry
<1>1. /\ r.at = now /\ r.kind = q.kind /\ r.todo = q.todo /\ r.rows = e.rows /\ r.missing = e.missing
  BY <1>0, Answers
<1>2. Kept(Key(q), e) /\ now < e.until
  BY DEF ReadsInv, CacheFits, Hit
<1>3. Key(q)[1] = q.kind /\ Key(q)[2] = q.todo
  BY DEF Key
<1>4. q.kind \in {"summary", "ranking", "recent", "detail", "servers"}
  BY <1>2, <1>3 DEF Kept
<1>5. \A s \in Asked(r) \ r.missing : Owed(r.kind, s, From(r.kind, r.at), r.at - MaxAge(r.kind)) \subseteq r.rows
  <2>. SUFFICES ASSUME NEW i \in 1..Len(q.todo), q.todo[i] \notin e.missing
                PROVE  Owed(q.kind, q.todo[i], 0, now - MaxAge(q.kind)) \subseteq e.rows
    BY <1>1, <1>4 DEF Asked, From, ByWeek
  <2>1. q.todo[i] \in ServerSet
    BY AskedServers
  <2>2. CASE q.kind = "detail"
    <3>1. <<q.todo[i], 1>> \in e.rows
      BY <1>2, <1>3, <2>2 DEF Kept
    <3>. QED BY <2>2, <3>1 DEF Owed, MatchesOf
  <2>3. CASE q.kind # "detail"
    <3>1. Owed(q.kind, q.todo[i], 0, e.until - Ttl[q.kind] - LongestRead) \subseteq e.rows
      BY <1>2, <1>3, <2>3 DEF Kept
    <3>2. /\ MaxAge(q.kind) = LongestRead + Ttl[q.kind] /\ Ttl[q.kind] \in Nat /\ LongestRead \in Nat
          /\ MaxAge(q.kind) \in Nat
      BY <1>4, <2>3, Ages
    <3>3. /\ now - MaxAge(q.kind) \in Int /\ e.until - Ttl[q.kind] - LongestRead \in Int
          /\ now - MaxAge(q.kind) <= e.until - Ttl[q.kind] - LongestRead
      <4>. DEFINE a == Ttl[q.kind]
                  b == MaxAge(q.kind)
                  c == e.until
      <4>1. a \in Nat /\ b = LongestRead + a /\ LongestRead \in Nat /\ c \in Nat /\ now < c
        BY <1>0, <1>2, <3>2
      <4>. HIDE DEF a, b, c
      <4>2. now - b \in Int /\ c - a - LongestRead \in Int /\ now - b <= c - a - LongestRead
        BY <4>1
      <4>. QED BY <4>2 DEF a, b, c
    <3>4. Owed(q.kind, q.todo[i], 0, now - MaxAge(q.kind))
            \subseteq Owed(q.kind, q.todo[i], 0, e.until - Ttl[q.kind] - LongestRead)
      BY <2>1, <3>3, OwedWithin DEF ReadsInv
    <3>. QED BY <3>1, <3>4
  <2>. QED BY <2>2, <2>3
<1>. QED BY <1>1, <1>4, <1>5 DEF Shows, ByWeek

(* What was gathered is answered, with every match that ended before the first
   call, on the servers that answered, and is kept as long as that is shown.  *)
LEMMA GatheredShows ==
  ASSUME ReadsInv, NEW q \in RequestRecord, Fits(q), q.stage \in {"gathered", "names"},
         NEW missing \in SUBSET (ServerSet \cup {"names"}), q.missing \subseteq missing,
         NEW r \in RequestRecord, r = Answered(q, "available", q.rows, missing),
         NEW since \in Nat, since <= now
  PROVE  /\ Shows(r)
         /\ Keyed(q) /\ (q.kind = "detail" => q.rows # {} /\ since = now) =>
              Kept(Key(q), [rows |-> q.rows, missing |-> missing, until |-> since + Ttl[q.kind]])
<1>. now \in Nat /\ q.at \in Nat
  BY DEF ReadsInv, ReadsType, RequestRecord, Stages
<1>0. q.rows \in SUBSET (ServerSet \X Nat)
  BY DEF RequestRecord, Stages
<1>1. r.at = now /\ r.kind = q.kind /\ r.todo = q.todo /\ r.rows = q.rows /\ r.missing = missing
  BY <1>0, Answers
<1>2. /\ q.kind \in ApiKinds /\ q.kind \in Kinds /\ q.kind \notin ByWeek
      /\ q.kind = "detail" => Len(q.todo) = 1
  BY DEF Fits, WellFormed, Gathering, ApiKinds, HistoryKinds, Kinds, ByWeek
<1>3. now <= q.at + LongestRead /\ q.at <= now /\ Gathers(q)
  BY DEF Fits, Gathering
<1>4. \A i \in 1..Len(q.todo) :
        q.todo[i] \in q.missing \/ Owed(q.kind, q.todo[i], 0, q.at) \subseteq q.rows
  BY <1>3 DEF Gathers
<1>5. ASSUME NEW i \in 1..Len(q.todo), q.todo[i] \notin missing, NEW to \in Int, to <= q.at
      PROVE  Owed(q.kind, q.todo[i], 0, to) \subseteq q.rows
  <2>1. q.todo[i] \in ServerSet
    BY AskedServers
  <2>2. Owed(q.kind, q.todo[i], 0, to) \subseteq Owed(q.kind, q.todo[i], 0, q.at)
    BY <1>5, <2>1, OwedWithin DEF ReadsInv
  <2>. QED BY <1>4, <1>5, <2>2
<1>6. Shows(r)
  <2>1. MaxAge(q.kind) \in Nat /\ MaxAge(q.kind) >= LongestRead /\ LongestRead \in Nat
    BY <1>2, Ages
  <2>2. now - MaxAge(q.kind) \in Int /\ now - MaxAge(q.kind) <= q.at
    BY <1>3, <2>1
  <2>3. \A s \in Asked(r) \ r.missing : Owed(r.kind, s, From(r.kind, r.at), r.at - MaxAge(r.kind)) \subseteq r.rows
    BY <1>1, <1>2, <1>5, <2>2 DEF Asked, From
  <2>. QED BY <1>1, <1>2, <2>3 DEF Shows
<1>7. ASSUME Keyed(q), q.kind = "detail" => q.rows # {} /\ since = now
      PROVE  Kept(Key(q), [rows |-> q.rows, missing |-> missing, until |-> since + Ttl[q.kind]])
  <2>. DEFINE e == [rows |-> q.rows, missing |-> missing, until |-> since + Ttl[q.kind]]
  <2>1. Ttl[q.kind] \in Nat /\ LongestRead \in Nat
    BY <1>2, Ages
  <2>2. Key(q)[1] = q.kind /\ Key(q)[2] = q.todo /\ e.rows = q.rows /\ e.missing = missing
        /\ e.until = since + Ttl[q.kind]
    BY DEF Key
  <2>. HIDE DEF e
  <2>3. e.until <= now + Ttl[q.kind] /\ e.until - Ttl[q.kind] - LongestRead \in Int
        /\ e.until - Ttl[q.kind] - LongestRead <= q.at
    BY <1>3, <2>1, <2>2
  <2>4. ASSUME NEW i \in 1..Len(q.todo), q.todo[i] \notin missing, q.kind = "detail"
        PROVE  <<q.todo[i], 1>> \in q.rows
    <3>1. i = 1
      BY <1>2, <2>4
    <3>2. q.rows \subseteq {<<q.todo[1], 1>>} /\ q.rows # {}
      BY <1>3, <1>7, <2>4 DEF Gathers
    <3>. QED BY <3>1, <3>2
  <2>5. q.kind \in {"summary", "ranking", "recent", "detail", "servers"}
    BY <1>7 DEF Keyed
  <2>6. Kept(Key(q), e)
    BY <1>5, <2>2, <2>3, <2>4, <2>5 DEF Kept
  <2>. QED BY <2>6 DEF e
<1>. QED BY <1>6, <1>7

(* An aggregate shows what its query brought: for the window of its own week. *)
LEMMA BroughtShows ==
  ASSUME ReadsInv, NEW q \in RequestRecord, Fits(q), q.stage = "read", Brought(q),
         NEW r \in RequestRecord, r = Answered(q, "available", q.rows, {})
  PROVE  /\ Shows(r)
         /\ Keyed(q) => Kept(Key(q), [rows |-> q.rows, missing |-> {}, until |-> now + Ttl[q.kind]])
<1>. now \in Nat /\ q.at \in Nat
  BY DEF ReadsInv, ReadsType, RequestRecord, Stages
<1>0. q.rows \in SUBSET (ServerSet \X Nat)
  BY DEF RequestRecord, Stages
<1>1. r.at = now /\ r.kind = q.kind /\ r.todo = q.todo /\ r.rows = q.rows /\ r.missing = {}
  BY <1>0, Answers
<1>2. q.kind \in AggregateKinds /\ q.kind \in Kinds
  BY DEF Fits, WellFormed, Kinds
<1>3. now <= q.at + LongestRead /\ q.at <= now
  BY DEF Fits
<1>4. /\ MaxAge(q.kind) \in Nat /\ MaxAge(q.kind) >= LongestRead
      /\ LongestRead \in Nat /\ Ttl[q.kind] \in Nat
  BY <1>2, Ages
<1>5. ASSUME NEW s \in Asked(q), NEW from \in Int, NEW to \in Int, to <= q.at, From(q.kind, q.at) <= from
      PROVE  Owed(q.kind, s, from, to) \subseteq q.rows
  <2>1. From(q.kind, q.at) \in Int
    BY WeekNatural DEF From
  <2>2. Owed(q.kind, s, from, to) \subseteq Owed(q.kind, s, From(q.kind, q.at), q.at)
    BY <1>5, <2>1, AskedServers, OwedWithin DEF ReadsInv
  <2>. QED BY <2>2 DEF Brought
<1>6. ASSUME NEW s \in Asked(r) \ r.missing
      PROVE  Owed(r.kind, s, From(r.kind, r.at), r.at - MaxAge(r.kind)) \subseteq r.rows
  <2>1. From(q.kind, now) \in Int /\ From(q.kind, q.at) <= From(q.kind, now)
    BY <1>3, WeekNatural, WeekMonotone DEF From
  <2>2. now - MaxAge(q.kind) \in Int /\ now - MaxAge(q.kind) <= q.at
    BY <1>3, <1>4
  <2>3. s \in Asked(q)
    BY <1>1 DEF Asked
  <2>. QED BY <1>1, <1>5, <2>1, <2>2, <2>3
<1>7. ASSUME q.kind \in ByWeek, NEW m \in q.rows
      PROVE  \E s \in ServerSet : \E from \in Nat :
               /\ m \in Owed(q.kind, s, from, now)
               /\ from >= WeekStart(IF now < MaxAge(q.kind) THEN 0 ELSE now - MaxAge(q.kind))
  <2>. DEFINE low == IF now < MaxAge(q.kind) THEN 0 ELSE now - MaxAge(q.kind)
  <2>1. low \in Nat /\ low <= q.at
    BY <1>3, <1>4
  <2>. HIDE DEF low
  <2>2. WeekStart(q.at) \in Nat /\ WeekStart(q.at) >= WeekStart(low)
    BY <2>1, WeekNatural, WeekMonotone
  <2>3. PICK s \in ServerSet : m \in Owed(q.kind, s, WeekStart(q.at), q.at)
    BY <1>7 DEF Brought
  <2>4. m \in Owed(q.kind, s, WeekStart(q.at), now)
    BY <1>3, <2>2, <2>3, OwedWithin DEF ReadsInv
  <2>. QED BY <2>2, <2>4 DEF low
<1>8. Shows(r)
  BY <1>1, <1>6, <1>7 DEF Shows
<1>9. ASSUME Keyed(q)
      PROVE  Kept(Key(q), [rows |-> q.rows, missing |-> {}, until |-> now + Ttl[q.kind]])
  <2>. DEFINE e == [rows |-> q.rows, missing |-> {}, until |-> now + Ttl[q.kind]]
  <2>1. Key(q)[1] = q.kind /\ Key(q)[2] = q.todo /\ e.rows = q.rows /\ e.missing = {}
        /\ e.until = now + Ttl[q.kind]
    BY DEF Key
  <2>. HIDE DEF e
  <2>2. q.kind \in {"summary", "ranking"}
    BY <1>2, <1>9 DEF Keyed, AggregateKinds
  <2>3. e.until <= now + Ttl[q.kind] /\ e.until - Ttl[q.kind] - LongestRead \in Int
        /\ e.until - Ttl[q.kind] - LongestRead <= q.at
    BY <1>3, <1>4, <2>1
  <2>4. From(q.kind, q.at) = 0
    BY <2>2 DEF From, ByWeek
  <2>5. \A i \in 1..Len(q.todo) :
          Owed(q.kind, q.todo[i], 0, e.until - Ttl[q.kind] - LongestRead) \subseteq q.rows
    <3>. DEFINE to == e.until - Ttl[q.kind] - LongestRead
    <3>1. to \in Int /\ to <= q.at /\ From(q.kind, q.at) <= 0
      BY <2>3, <2>4
    <3>. HIDE DEF to
    <3>2. \A s \in Asked(q) : Owed(q.kind, s, 0, to) \subseteq q.rows
      BY <1>5, <3>1
    <3>3. \A i \in 1..Len(q.todo) : q.todo[i] \in Asked(q)
      BY DEF Asked
    <3>. QED BY <3>2, <3>3 DEF to
  <2>6. Kept(Key(q), e)
    BY <2>1, <2>2, <2>3, <2>5 DEF Kept
  <2>. QED BY <2>6 DEF e
<1>. QED BY <1>8, <1>9

(* The request in hand, and what is known of it. *)
LEMMA InHand ==
  ASSUME ReadsInv, NEW t \in Thread
  PROVE  req[t] \in RequestRecord /\ Fits(req[t]) /\ WellFormed(req[t])
         /\ (req[t].stage = "read" /\ result[t] = "rows" => Brought(req[t]))
BY DEF ReadsInv, ReadsType, Requests, Fits

LEMMA ArriveReads ==
  ASSUME ReadsInv, PoolTypeOK', NEW t \in Thread, Arrive(t)
  PROVE  ReadsInv'
<1>1. PICK kinds : Arrives(t, kinds) /\ (UNCHANGED poolVars \/ Ask(t))
  BY DEF Arrive, ArriveSummary, ArriveRanking, ArriveProfile, ArriveRecent, ArriveDetail,
         ArriveSearch, ArriveServers
<1>2. PICK ask \in Offered[t] :
        /\ req[t].stage = "idle"
        /\ req' = [req EXCEPT ![t] =
                     [NoAsk EXCEPT !.stage = IF family = AggregateKinds THEN "gate" ELSE "lookup",
                                   !.kind = ask[1], !.todo = ask[2]]]
        /\ UNCHANGED <<now, finished, cache, lastGood>>
  BY <1>1 DEF Arrives
<1>3. PICK r : r = [NoAsk EXCEPT !.stage = IF family = AggregateKinds THEN "gate" ELSE "lookup",
                                 !.kind = ask[1], !.todo = ask[2]]
  OBVIOUS
<1>4. ask[1] \in Kinds /\ ask[2] \in Seq(ServerSet) /\ ask[2] # <<>> /\ (ask[1] = "detail" => Len(ask[2]) = 1)
  BY OfferedAssumption
<1>5. /\ r \in RequestRecord /\ r.stage \in {"gate", "lookup"} /\ r.kind = ask[1] /\ r.todo = ask[2]
      /\ r.turn = 1 /\ r.rows = {} /\ r.missing = {} /\ r.state = "none"
  BY <1>3, <1>4 DEF NoAsk, RequestRecord, Stages
<1>6. Fits(r)
  BY <1>4, <1>5 DEF Fits, WellFormed, Gathering
<1>7. \A u \in Thread : result'[u] = "rows" => result[u] = "rows"
  BY <1>1 DEF Ask, poolVars, ReadsInv, PoolTypeOK
<1>8. lastGood' \in [ServerSet -> SUBSET (ServerSet \X Nat)]
  BY <1>2 DEF ReadsInv, ReadsType
<1>. QED BY <1>2, <1>3, <1>5, <1>6, <1>7, <1>8, CacheStays, Moves

LEMMA CachedReads ==
  ASSUME ReadsInv, PoolTypeOK', NEW t \in Thread, req[t].stage \in {"lookup", "lock"},
         Hit(req[t]), AnswerCached(t), UNCHANGED <<now, finished, lastGood, result>>
  PROVE  ReadsInv'
<1>. PICK q : q = req[t]
  OBVIOUS
<1>1. q \in RequestRecord /\ WellFormed(q)
  BY InHand
<1>2. q.kind \in Kinds /\ q.todo # <<>> /\ (q.kind = "detail" => Len(q.todo) = 1)
  BY <1>1 DEF WellFormed
<1>3. PICK e \in Entry : e = cache[Key(q)]
  BY DEF Hit, ReadsInv, ReadsType
<1>4. e.rows \in SUBSET (ServerSet \X Nat) /\ e.missing \in SUBSET (ServerSet \cup {"names"}) /\ now \in Nat
  BY DEF Entry, ReadsInv, ReadsType
<1>5. PICK r : r = Answered(q, "available", e.rows, e.missing)
  OBVIOUS
<1>6. /\ r \in RequestRecord /\ r.stage = "answered" /\ r.state = "available" /\ r.kind = q.kind /\ r.todo = q.todo
  BY <1>1, <1>4, <1>5, Answers
<1>7. Shows(r)
  BY <1>1, <1>2, <1>3, <1>5, <1>6, HitShows
<1>8. Fits(r)
  BY <1>2, <1>6, <1>7 DEF Fits, WellFormed, Gathering
<1>9. req' = [req EXCEPT ![t] = r] /\ UNCHANGED cache
  BY <1>3, <1>5 DEF AnswerCached
<1>10. lastGood' \in [ServerSet -> SUBSET (ServerSet \X Nat)]
  BY DEF ReadsInv, ReadsType
<1>. QED BY <1>6, <1>8, <1>9, <1>10, CacheStays, Moves

LEMMA NoneReads ==
  ASSUME ReadsInv, PoolTypeOK', NEW t \in Thread, AnswerNone(t), UNCHANGED <<now, finished, lastGood, result>>
  PROVE  ReadsInv'
<1>. PICK q : q = req[t]
  OBVIOUS
<1>. PICK r : r = Answered(q, "unavailable", {}, Asked(q))
  OBVIOUS
<1>1. q \in RequestRecord /\ now \in Nat /\ Asked(q) \in SUBSET (ServerSet \cup {"names"})
  BY InHand, AskedServers DEF ReadsInv, ReadsType
<1>2. r \in RequestRecord /\ r.stage = "answered" /\ r.state = "unavailable"
  BY <1>1, Answers
<1>3. Fits(r)
  BY <1>2 DEF Fits, WellFormed, Gathering
<1>4. req' = [req EXCEPT ![t] = r] /\ UNCHANGED cache
  BY DEF AnswerNone
<1>5. lastGood' \in [ServerSet -> SUBSET (ServerSet \X Nat)]
  BY DEF ReadsInv, ReadsType
<1>. QED BY <1>2, <1>3, <1>4, <1>5, CacheStays, Moves

(* The request goes on to another stage, and may begin to read now. *)
LEMMA GoesOn ==
  ASSUME ReadsInv, PoolTypeOK', NEW t \in Thread, NEW r \in RequestRecord,
         req' = [req EXCEPT ![t] = r], Fits(r),
         UNCHANGED <<now, finished, lastGood, cache>>,
         \A u \in Thread : result'[u] = "rows" => result[u] = "rows" \/ u = t,
         r.stage = "read" /\ result'[t] = "rows" => Brought(r)
  PROVE  ReadsInv'
<1>1. lastGood' \in [ServerSet -> SUBSET (ServerSet \X Nat)]
  BY DEF ReadsInv, ReadsType
<1>. QED BY <1>1, CacheStays, Moves

LEMMA LookupReads ==
  ASSUME ReadsInv, PoolTypeOK', NEW t \in Thread, Gate(t) \/ Lookup(t) \/ Refresh(t)
  PROVE  ReadsInv'
<1>. PICK q : q = req[t]
  OBVIOUS
<1>1. q \in RequestRecord /\ WellFormed(q) /\ now \in Nat
  BY InHand DEF ReadsInv, ReadsType
<1>2. LongestRead \in Nat
  BY ReadsAssumption
<1>3. q.stage \in {"gate", "lookup", "lock"} /\ UNCHANGED <<now, finished, lastGood>>
  BY DEF Gate, Lookup, Refresh, Quiet
<1>4. /\ q.kind \in Kinds /\ q.todo # <<>> /\ (q.kind = "detail" => Len(q.todo) = 1)
      /\ q.turn = 1 /\ q.rows = {} /\ q.missing = {}
      /\ q.turn \in 1..Len(q.todo)
  <2>1. q.todo \in Seq(ServerSet) /\ q.todo # <<>>
    BY <1>1, <1>3, AskedServers DEF WellFormed
  <2>2. Len(q.todo) \in Nat \ {0}
    BY <2>1
  <2>. QED BY <1>1, <1>3, <2>2 DEF WellFormed
<1>5. ASSUME NEW stage \in {"lookup", "lock"}, stage = "lock" => q.kind = "servers",
             req' = [req EXCEPT ![t] = [q EXCEPT !.stage = stage]],
             UNCHANGED <<cache, result>>
      PROVE  ReadsInv'
  <2>. PICK r : r = [q EXCEPT !.stage = stage]
    OBVIOUS
  <2>1. /\ r \in RequestRecord /\ r.stage = stage /\ r.kind = q.kind /\ r.todo = q.todo /\ r.turn = q.turn
        /\ r.rows = q.rows /\ r.missing = q.missing /\ r.state = q.state
    <3>1. stage \in Stages
      BY DEF Stages
    <3>. QED BY <1>1, <3>1 DEF RequestRecord
  <2>2. Fits(r)
    BY <1>4, <1>5, <2>1 DEF Fits, WellFormed, Gathering
  <2>3. req' = [req EXCEPT ![t] = r]
    BY <1>5
  <2>4. r.stage # "read"
    BY <2>1
  <2>. QED BY <1>3, <1>5, <2>1, <2>2, <2>3, <2>4, GoesOn
<1>6. ASSUME NEW stage \in {"read", "api"},
             stage = "read" => q.kind \in AggregateKinds, stage = "api" => q.kind \in ApiKinds,
             req' = [req EXCEPT ![t] = [q EXCEPT !.stage = stage, !.at = now]],
             stage = "read" => Ask(t), stage = "api" => UNCHANGED result, UNCHANGED cache
      PROVE  ReadsInv'
  <2>. PICK r : r = [q EXCEPT !.stage = stage, !.at = now]
    OBVIOUS
  <2>1. /\ r \in RequestRecord /\ r.stage = stage /\ r.kind = q.kind /\ r.todo = q.todo /\ r.turn = q.turn
        /\ r.rows = q.rows /\ r.missing = q.missing /\ r.state = q.state /\ r.at = now
    <3>1. r.at = now
      BY <1>1 DEF RequestRecord, Stages
    <3>2. stage \in Stages
      BY DEF Stages
    <3>. QED BY <1>1, <3>1, <3>2 DEF RequestRecord
  <2>2. Gathers(r) \/ stage = "read"
    BY <1>4, <1>6, <2>1 DEF Gathers
  <2>3. WellFormed(r)
    BY <1>4, <1>6, <2>1 DEF WellFormed, Gathering
  <2>4. Fits(r)
    <3>1. r.at <= now /\ now <= r.at + LongestRead
      BY <1>1, <1>2, <2>1
    <3>2. r.stage # "answered" /\ (r.stage \in Gathering => Gathers(r))
      BY <2>1, <2>2 DEF Gathering
    <3>. QED BY <2>3, <3>1, <3>2 DEF Fits
  <2>5. req' = [req EXCEPT ![t] = r]
    BY <1>6
  <2>6. /\ \A u \in Thread : result'[u] = "rows" => result[u] = "rows"
        /\ r.stage = "read" => result'[t] = "none"
    BY <1>6, <2>1 DEF Ask, ReadsInv, PoolTypeOK
  <2>. QED BY <1>3, <1>6, <2>1, <2>4, <2>5, <2>6, GoesOn
<1>7. CASE Gate(t)
  <2>1. UNCHANGED result
    BY <1>7 DEF Gate, poolVars
  <2>2. CASE Capable(t)
    BY <1>5, <1>7, <2>1, <2>2 DEF Gate
  <2>3. CASE ~Capable(t)
    BY <1>3, <1>7, <2>1, <2>3, NoneReads DEF Gate
  <2>. QED BY <2>2, <2>3
<1>8. CASE Lookup(t)
  <2>1. CASE Hit(q)
    BY <1>3, <1>8, <2>1, CachedReads DEF Lookup, poolVars
  <2>2. CASE ~Hit(q) /\ q.kind \in AggregateKinds
    <3>1. \/ req' = [req EXCEPT ![t] = [q EXCEPT !.stage = "read", !.at = now]] /\ Ask(t) /\ UNCHANGED cache
          \/ q.kind \in HistoryKinds \cup {"search"}
          \/ q.kind = "servers"
      BY <1>8, <2>2 DEF Lookup
    <3>2. q.kind \notin HistoryKinds \cup {"search", "servers"}
      BY <2>2 DEF AggregateKinds, HistoryKinds
    <3>. QED BY <1>6, <2>2, <3>1, <3>2
  <2>3. CASE ~Hit(q) /\ q.kind \in HistoryKinds \cup {"search"}
    <3>1. q.kind \notin AggregateKinds \cup {"servers"}
      BY <2>3 DEF AggregateKinds, HistoryKinds
    <3>2. req' = [req EXCEPT ![t] = [q EXCEPT !.stage = "api", !.at = now]] /\ UNCHANGED <<cache, result>>
      BY <1>8, <2>3, <3>1 DEF Lookup, poolVars
    <3>. QED BY <1>6, <2>3, <3>2 DEF ApiKinds
  <2>4. CASE ~Hit(q) /\ q.kind = "servers"
    <3>1. q.kind \notin AggregateKinds \cup HistoryKinds \cup {"search"}
      BY <2>4 DEF AggregateKinds, HistoryKinds
    <3>2. req' = [req EXCEPT ![t] = [q EXCEPT !.stage = "lock"]] /\ UNCHANGED <<cache, result>>
      BY <1>8, <2>4, <3>1 DEF Lookup, poolVars
    <3>. QED BY <1>5, <2>4, <3>2
  <2>. QED BY <1>4, <2>1, <2>2, <2>3, <2>4 DEF Kinds
<1>9. CASE Refresh(t)
  <2>1. CASE Hit(q)
    BY <1>3, <1>9, <2>1, CachedReads DEF Refresh, poolVars
  <2>2. CASE ~Hit(q)
    <3>1. req' = [req EXCEPT ![t] = [q EXCEPT !.stage = "api", !.at = now]] /\ UNCHANGED <<cache, result>>
      BY <1>9, <2>2 DEF Refresh, poolVars
    <3>2. q.kind \in ApiKinds
      BY <1>1, <1>9 DEF Refresh, WellFormed, ApiKinds
    <3>. QED BY <1>6, <3>1, <3>2
  <2>. QED BY <2>1, <2>2
<1>. QED BY <1>7, <1>8, <1>9

(* One server was asked: it answered with all it has, or it is missing. *)
LEMMA ServerAsked ==
  ASSUME NEW q \in RequestRecord, NEW r \in RequestRecord, Fits(q), q.stage \in {"api", "byId"},
         r.kind = q.kind, r.todo = q.todo, r.at = q.at, r.state = q.state, r.turn = q.turn + 1,
         r.stage = IF q.turn = Len(q.todo) THEN "gathered" ELSE "api",
         q.rows \subseteq r.rows, q.missing \subseteq r.missing,
         Turn(q) \in r.missing \/ Owed(q.kind, Turn(q), 0, q.at) \subseteq r.rows,
         q.kind = "detail" => r.rows \subseteq q.rows \cup {<<Turn(q), 1>>}
  PROVE  Fits(r) /\ r.stage # "read"
<1>1. q.todo \in Seq(ServerSet) /\ q.turn \in 1..Len(q.todo) /\ q.kind \in ApiKinds
  BY AskedServers DEF Fits, WellFormed, Gathering
<1>3. WellFormed(r)
  BY <1>1 DEF Fits, WellFormed, Gathering
<1>4. Gathers(r)
  <2>1. ASSUME NEW i \in 1..Len(q.todo), r.stage = "api" => i < q.turn + 1
        PROVE  q.todo[i] \in r.missing \/ Owed(q.kind, q.todo[i], 0, q.at) \subseteq r.rows
    <3>1. i < q.turn \/ i = q.turn
      BY <1>1, <2>1
    <3>2. CASE i < q.turn
      BY <3>2 DEF Fits, Gathers, Gathering
    <3>3. CASE i = q.turn
      BY <3>3 DEF Turn
    <3>. QED BY <3>1, <3>2, <3>3
  <2>2. ASSUME q.kind = "detail" PROVE r.rows \subseteq {<<q.todo[1], 1>>}
    <3>1. q.turn = 1
      <4>1. Len(q.todo) = 1
        BY <2>2 DEF Fits, WellFormed
      <4>. QED BY <1>1, <4>1
    <3>. QED BY <2>2, <3>1 DEF Fits, Gathers, Gathering, Turn
  <2>. QED BY <2>1, <2>2 DEF Gathers
<1>. QED BY <1>3, <1>4 DEF Fits, Gathering

LEMMA CallReads ==
  ASSUME ReadsInv, PoolTypeOK', NEW t \in Thread, Call(t) \/ CallFails(t)
  PROVE  ReadsInv'
<1>. PICK q : q = req[t]
  OBVIOUS
<1>1. q \in RequestRecord /\ Fits(q) /\ WellFormed(q) /\ q.stage \in {"api", "byId"}
  BY InHand DEF Call, CallFails
<1>2. UNCHANGED <<now, finished, cache, result>>
  BY DEF Call, CallFails, Quiet, poolVars
<1>3. Turn(q) \in ServerSet /\ q.kind \in ApiKinds
  BY <1>1, AskedServers DEF WellFormed, Gathering, Turn
<1>4. MatchesOf(Turn(q)) \in SUBSET (ServerSet \X Nat) /\ lastGood[Turn(q)] \in SUBSET (ServerSet \X Nat)
  <2>1. Len(finished[Turn(q)]) \in Nat
    BY <1>3 DEF ReadsInv, ReadsType
  <2>. QED BY <1>3, <2>1 DEF ReadsInv, ReadsType, MatchesOf
<1>5. lastGood' \in [ServerSet -> SUBSET (ServerSet \X Nat)]
  <2>1. lastGood' = lastGood \/ lastGood' = [lastGood EXCEPT ![Turn(q)] = MatchesOf(Turn(q))]
    BY DEF Call, CallFails, Quiet
  <2>. QED BY <1>4, <2>1 DEF ReadsInv, ReadsType
<1>6. q.rows \in SUBSET (ServerSet \X Nat) /\ q.missing \in SUBSET (ServerSet \cup {"names"}) /\ q.turn \in Nat
  BY <1>1 DEF RequestRecord
<1>7. PICK turn, stage : turn = q.turn + 1 /\ stage = IF q.turn = Len(q.todo) THEN "gathered" ELSE "api"
  OBVIOUS
<1>8. turn \in Nat /\ stage \in Stages
  BY <1>6, <1>7 DEF Stages
<1>9. CASE Call(t)
  <2>. PICK rows, all : rows = ApiRows(q, Turn(q)) /\ all = q.rows \cup rows
    OBVIOUS
  <2>0. PICK r : r = [q EXCEPT !.rows = all, !.turn = turn, !.stage = stage]
    OBVIOUS
  <2>1. rows \in SUBSET (ServerSet \X Nat) /\ (q.kind = "detail" => rows \subseteq {<<Turn(q), 1>>})
    BY <1>4 DEF ApiRows
  <2>2. Owed(q.kind, Turn(q), 0, q.at) \subseteq rows
    BY DEF ApiRows, Owed, MatchesOf
  <2>3. all \in SUBSET (ServerSet \X Nat)
    BY <1>6, <2>1
  <2>4. /\ r \in RequestRecord /\ r.kind = q.kind /\ r.todo = q.todo /\ r.turn = turn /\ r.at = q.at
        /\ r.rows = all /\ r.missing = q.missing /\ r.state = q.state /\ r.stage = stage
    BY <1>1, <1>8, <2>0, <2>3 DEF RequestRecord
  <2>5. /\ q.rows \subseteq r.rows /\ q.missing \subseteq r.missing
        /\ Owed(q.kind, Turn(q), 0, q.at) \subseteq r.rows
        /\ q.kind = "detail" => r.rows \subseteq q.rows \cup {<<Turn(q), 1>>}
    BY <2>1, <2>2, <2>4
  <2>7. Fits(r) /\ r.stage # "read"
    <3>1. r.stage = IF q.turn = Len(q.todo) THEN "gathered" ELSE "api"
      BY <1>7, <2>4
    <3>2. r.turn = q.turn + 1
      BY <1>7, <2>4
    <3>3. r.kind = q.kind /\ r.todo = q.todo /\ r.at = q.at /\ r.state = q.state /\ r \in RequestRecord
      BY <2>4
    <3>4. q \in RequestRecord /\ Fits(q) /\ q.stage \in {"api", "byId"}
      BY <1>1
    <3>5. Turn(q) \in r.missing \/ Owed(q.kind, Turn(q), 0, q.at) \subseteq r.rows
      BY <2>5
    <3>. QED BY <2>5, <3>1, <3>2, <3>3, <3>4, <3>5, ServerAsked
  <2>6. req' = [req EXCEPT ![t] = r]
    BY <1>7, <1>9, <2>0 DEF Call, Found
  <2>. QED BY <1>2, <1>5, <2>4, <2>6, <2>7, CacheStays, Moves
<1>10. CASE CallFails(t)
  <2>. PICK rows, missing, all :
         /\ rows = IF q.kind = "servers" THEN lastGood[Turn(q)] ELSE {}
         /\ missing = q.missing \cup {Turn(q)}
         /\ all = IF q.kind = "servers" THEN q.rows \cup lastGood[Turn(q)] ELSE q.rows
    OBVIOUS
  <2>0. PICK r : r = [q EXCEPT !.rows = all, !.missing = missing, !.turn = turn, !.stage = stage]
    OBVIOUS
  <2>1. /\ rows \in SUBSET (ServerSet \X Nat) /\ (q.kind = "detail" => rows \subseteq {<<Turn(q), 1>>})
        /\ missing \in SUBSET (ServerSet \cup {"names"}) /\ q.missing \subseteq missing /\ Turn(q) \in missing
    BY <1>3, <1>4, <1>6
  <2>2. all = q.rows \cup rows /\ all \in SUBSET (ServerSet \X Nat)
    BY <1>6, <2>1
  <2>3. /\ r \in RequestRecord /\ r.kind = q.kind /\ r.todo = q.todo /\ r.turn = turn /\ r.at = q.at
        /\ r.rows = all /\ r.missing = missing /\ r.state = q.state /\ r.stage = stage
    BY <1>1, <1>8, <2>0, <2>1, <2>2 DEF RequestRecord
  <2>6. /\ q.rows \subseteq r.rows /\ q.missing \subseteq r.missing /\ Turn(q) \in r.missing
        /\ q.kind = "detail" => r.rows \subseteq q.rows \cup {<<Turn(q), 1>>}
    BY <2>1, <2>2, <2>3
  <2>4. Fits(r) /\ r.stage # "read"
    BY <1>1, <1>7, <2>3, <2>6, ServerAsked
  <2>5. req' = [req EXCEPT ![t] = r]
    BY <1>7, <1>10, <2>0 DEF CallFails
  <2>. QED BY <1>2, <1>5, <2>3, <2>4, <2>5, CacheStays, Moves
<1>. QED BY <1>9, <1>10

LEMMA ByIdReads ==
  ASSUME ReadsInv, PoolTypeOK', NEW t \in Thread, NobodyByName(t)
  PROVE  ReadsInv'
<1>. PICK q : q = req[t]
  OBVIOUS
<1>. PICK r : r = [q EXCEPT !.stage = "byId"]
  OBVIOUS
<1>1. q \in RequestRecord /\ Fits(q) /\ WellFormed(q) /\ q.stage = "api"
  BY InHand DEF NobodyByName
<1>2. /\ r \in RequestRecord /\ r.stage = "byId" /\ r.kind = q.kind /\ r.todo = q.todo /\ r.turn = q.turn
      /\ r.at = q.at /\ r.rows = q.rows /\ r.missing = q.missing /\ r.state = q.state
  BY <1>1 DEF RequestRecord, Stages
<1>3. Fits(r)
  BY <1>1, <1>2 DEF Fits, WellFormed, Gathers, Gathering
<1>4. req' = [req EXCEPT ![t] = r] /\ UNCHANGED <<now, finished, lastGood, cache, result>>
  BY DEF NobodyByName, Quiet, poolVars
<1>. QED BY <1>2, <1>3, <1>4, GoesOn

(* The answer of a request that has gathered, or whose query has answered. *)
LEMMA NewReads ==
  ASSUME ReadsInv, PoolTypeOK', NEW t \in Thread,
         NEW missing \in SUBSET (ServerSet \cup {"names"}),
         \/ req[t].stage \in {"gathered", "names"} /\ req[t].missing \subseteq missing
         \/ req[t].stage = "read" /\ result[t] = "rows" /\ missing = {},
         AnswerNew(t, req[t].rows, missing), UNCHANGED <<now, finished, lastGood, result>>
  PROVE  ReadsInv'
<1>0. PICK q : q = req[t]
  OBVIOUS
<1>1. /\ q \in RequestRecord /\ Fits(q) /\ WellFormed(q) /\ now \in Nat /\ q.at \in Nat
      /\ q.rows \in SUBSET (ServerSet \X Nat)
      /\ q.stage = "read" /\ result[t] = "rows" => Brought(q)
  BY <1>0, InHand DEF ReadsInv, ReadsType, RequestRecord
<1>2. \/ q.stage \in {"gathered", "names"} /\ q.missing \subseteq missing
      \/ q.stage = "read" /\ result[t] = "rows" /\ missing = {}
  BY <1>0
<1>3. PICK r : r = Answered(q, "available", q.rows, missing)
  OBVIOUS
<1>4. /\ r \in RequestRecord /\ r.stage = "answered" /\ r.at = now /\ r.state = "available"
      /\ r.kind = q.kind /\ r.todo = q.todo /\ r.rows = q.rows /\ r.missing = missing
  BY <1>1, <1>3, Answers
<1>5. q.kind \in Kinds /\ q.todo # <<>> /\ (q.kind = "detail" => Len(q.todo) = 1)
  BY <1>1, <1>2 DEF WellFormed
<1>6. PICK since : since = IF q.kind = "servers" THEN q.at ELSE now
  OBVIOUS
<1>7. since \in Nat /\ since <= now /\ (q.kind # "servers" => since = now)
  BY <1>1, <1>2, <1>6 DEF Fits, Gathering
<1>8. /\ Shows(r)
      /\ Keyed(q) /\ (q.kind = "detail" => q.rows # {}) =>
           Kept(Key(q), [rows |-> q.rows, missing |-> missing, until |-> since + Ttl[q.kind]])
  <2>1. CASE q.stage \in {"gathered", "names"} /\ q.missing \subseteq missing
    <3>1. q.kind = "detail" => since = now
      BY <1>7
    <3>. QED BY <1>1, <1>3, <1>4, <1>7, <2>1, <3>1, GatheredShows
  <2>2. CASE q.stage = "read" /\ result[t] = "rows" /\ missing = {}
    <3>1. since = now
      BY <1>1, <1>7, <2>2 DEF WellFormed, AggregateKinds
    <3>. QED BY <1>1, <1>3, <1>4, <2>2, <3>1, BroughtShows
  <2>. QED BY <1>2, <2>1, <2>2
<1>9. Fits(r)
  BY <1>4, <1>5, <1>8 DEF Fits, WellFormed, Gathering
<1>10. req' = [req EXCEPT ![t] = r]
  BY <1>0, <1>3 DEF AnswerNew
<1>11. /\ CacheFits'
       /\ \A k \in DOMAIN cache' : k \in Kinds \X Seq(ServerSet) /\ cache'[k] \in Entry
  <2>1. CASE q.kind = "search" \/ (q.kind \in {"profile", "detail"} /\ q.rows = {})
    <3>1. UNCHANGED cache
      BY <1>0, <2>1 DEF AnswerNew
    <3>. QED BY <3>1, CacheStays
  <2>2. CASE ~(q.kind = "search" \/ (q.kind \in {"profile", "detail"} /\ q.rows = {}))
    <3>1. Put(q, q.rows, missing, since)
      BY <1>0, <1>6, <2>2 DEF AnswerNew
    <3>2. Keyed(q) => Kept(Key(q), [rows |-> q.rows, missing |-> missing, until |-> since + Ttl[q.kind]])
      BY <1>8, <2>2
    <3>. QED BY <1>1, <1>5, <1>7, <3>1, <3>2, PutKeeps
  <2>. QED BY <2>1, <2>2
<1>12. lastGood' \in [ServerSet -> SUBSET (ServerSet \X Nat)]
  BY DEF ReadsInv, ReadsType
<1>. QED BY <1>4, <1>9, <1>10, <1>11, <1>12, Moves

LEMMA GatheredReads ==
  ASSUME ReadsInv, PoolTypeOK', NEW t \in Thread, Gathered(t)
  PROVE  ReadsInv'
<1>0. PICK q : q = req[t]
  OBVIOUS
<1>1. q \in RequestRecord /\ Fits(q) /\ WellFormed(q) /\ q.stage = "gathered"
      /\ q.missing \in SUBSET (ServerSet \cup {"names"})
  BY <1>0, InHand DEF Gathered, RequestRecord
<1>2. UNCHANGED <<now, finished, lastGood>>
  BY DEF Gathered
<1>3. CASE AnswerNew(t, q.rows, q.missing) /\ UNCHANGED poolVars
  <2>1. UNCHANGED result
    BY <1>3 DEF poolVars
  <2>2. AnswerNew(t, req[t].rows, q.missing)
    BY <1>0, <1>3
  <2>3. req[t].stage \in {"gathered", "names"} /\ req[t].missing \subseteq q.missing
    BY <1>0, <1>1
  <2>. QED BY <1>1, <1>2, <2>1, <2>2, <2>3, NewReads
<1>4. CASE AnswerNone(t) /\ UNCHANGED poolVars
  BY <1>2, <1>4, NoneReads DEF poolVars
<1>5. CASE req' = [req EXCEPT ![t].stage = "names"] /\ Ask(t) /\ UNCHANGED cache /\ q.kind \in {"detail", "recent"}
  <2>1. PICK r : r = [q EXCEPT !.stage = "names"]
    OBVIOUS
  <2>2. /\ r \in RequestRecord /\ r.stage = "names" /\ r.kind = q.kind /\ r.todo = q.todo /\ r.turn = q.turn
        /\ r.at = q.at /\ r.rows = q.rows /\ r.missing = q.missing /\ r.state = q.state
    BY <1>1, <2>1 DEF RequestRecord, Stages
  <2>3. Fits(r)
    BY <1>1, <2>2 DEF Fits, WellFormed, Gathers, Gathering
  <2>4. req' = [req EXCEPT ![t] = r]
    BY <1>0, <1>5, <2>1
  <2>5. \A u \in Thread : result'[u] = "rows" => result[u] = "rows"
    BY <1>5 DEF Ask, ReadsInv, PoolTypeOK
  <2>. QED BY <1>2, <1>5, <2>2, <2>3, <2>4, <2>5, GoesOn
<1>6. \/ AnswerNew(t, q.rows, q.missing) /\ UNCHANGED poolVars
      \/ AnswerNone(t) /\ UNCHANGED poolVars
      \/ req' = [req EXCEPT ![t].stage = "names"] /\ Ask(t) /\ UNCHANGED cache /\ q.kind \in {"detail", "recent"}
  BY <1>0 DEF Gathered
<1>. QED BY <1>3, <1>4, <1>5, <1>6

LEMMA DoneReads ==
  ASSUME ReadsInv, PoolTypeOK', NEW t \in Thread, Enriched(t) \/ ReadDone(t)
  PROVE  ReadsInv'
<1>1. req[t] \in RequestRecord /\ req[t].missing \in SUBSET (ServerSet \cup {"names"})
  <2>1. req[t] \in RequestRecord
    BY InHand
  <2>. QED BY <2>1 DEF RequestRecord
<1>2. UNCHANGED <<now, finished, lastGood, result>>
  BY DEF Enriched, ReadDone, Quiet, poolVars
<1>3. CASE Enriched(t)
  <2>1. PICK missing : missing = req[t].missing \cup (IF result[t] = "rows" THEN {} ELSE {"names"})
    OBVIOUS
  <2>2. missing \in SUBSET (ServerSet \cup {"names"}) /\ req[t].missing \subseteq missing
    BY <1>1, <2>1
  <2>3. AnswerNew(t, req[t].rows, missing) /\ req[t].stage = "names"
    BY <1>3, <2>1 DEF Enriched
  <2>. QED BY <1>2, <2>2, <2>3, NewReads
<1>4. CASE ReadDone(t) /\ result[t] = "rows"
  <2>1. AnswerNew(t, req[t].rows, {}) /\ req[t].stage = "read"
    BY <1>4 DEF ReadDone
  <2>. QED BY <1>2, <1>4, <2>1, NewReads
<1>5. CASE ReadDone(t) /\ result[t] # "rows"
  BY <1>2, <1>5, NoneReads DEF ReadDone
<1>. QED BY <1>3, <1>4, <1>5

(* The query sees every match that has ended and that its answer is about. *)
LEMMA QueryReads ==
  ASSUME ReadsInv, PoolTypeOK', NEW t \in Thread, Query(t)
  PROVE  ReadsInv'
<1>0. PICK q : q = req[t]
  OBVIOUS
<1>1. q \in RequestRecord /\ Fits(q) /\ WellFormed(q) /\ q.at \in Nat
  BY <1>0, InHand DEF RequestRecord
<1>2. UNCHANGED <<now, finished, lastGood, cache>>
  BY DEF Query, Quiet
<1>3. \A u \in Thread : result'[u] = "rows" => result[u] = "rows" \/ u = t
  BY DEF Query, Transact, ReadsInv, PoolTypeOK
<1>4. CASE q.stage # "read"
  <2>1. req' = [req EXCEPT ![t] = q]
    BY <1>0, <1>4 DEF Query, ReadsInv, ReadsType
  <2>. QED BY <1>1, <1>2, <1>3, <1>4, <2>1, GoesOn
<1>5. CASE q.stage = "read"
  <2>1. PICK rows : rows = DbRows(q)
    OBVIOUS
  <2>2. PICK r : r = [q EXCEPT !.rows = rows]
    OBVIOUS
  <2>3. q.kind \in AggregateKinds /\ Asked(q) \subseteq ServerSet
    BY <1>1, <1>5, AskedServers DEF WellFormed
  <2>4. rows \in SUBSET (ServerSet \X Nat)
    <3>1. SummaryRows(q) \in SUBSET (ServerSet \X Nat)
      <4>1. \A s \in ServerSet : MatchesOf(s) \subseteq ServerSet \X Nat
        BY DEF MatchesOf, ReadsInv, ReadsType
      <4>. QED BY <2>3, <4>1 DEF SummaryRows
    <3>2. RankingRows(q) \in SUBSET (ServerSet \X Nat)
      BY <3>1 DEF RankingRows
    <3>. QED BY <2>1, <2>3, <3>1, <3>2 DEF DbRows, ProfileRows, AggregateKinds
  <2>5. /\ r \in RequestRecord /\ r.stage = "read" /\ r.kind = q.kind /\ r.todo = q.todo /\ r.turn = q.turn
        /\ r.at = q.at /\ r.rows = rows /\ r.missing = q.missing /\ r.state = q.state
    BY <1>1, <1>5, <2>2, <2>4 DEF RequestRecord
  <2>6. Fits(r)
    BY <1>1, <1>5, <2>5 DEF Fits, WellFormed, Gathering
  <2>7. ASSUME NEW s \in Asked(q) PROVE Owed(q.kind, s, From(q.kind, q.at), q.at) \subseteq rows
    <3>. SUFFICES ASSUME NEW m \in Owed(q.kind, s, From(q.kind, q.at), q.at) PROVE m \in rows
      OBVIOUS
    <3>1. m \in SummaryRows(q)
      BY DEF SummaryRows, Owed
    <3>2. InWindow(q.kind, q.at, m)
      BY DEF InWindow, Owed, From, ByWeek
    <3>3. m \in RankingRows(q)
      BY <3>1, <3>2 DEF RankingRows
    <3>. QED BY <2>1, <2>3, <3>1, <3>3 DEF DbRows, ProfileRows, AggregateKinds
  <2>8. ASSUME q.kind \in ByWeek, NEW m \in rows
        PROVE  \E s \in ServerSet : m \in Owed(q.kind, s, WeekStart(q.at), q.at)
    <3>1. m \in RankingRows(q)
      BY <2>1, <2>8 DEF DbRows, ProfileRows, ByWeek
    <3>2. PICK s \in Asked(q) : m \in MatchesOf(s)
      BY <3>1 DEF RankingRows, SummaryRows
    <3>3. WeekStart(q.at) <= EndOf(m) /\ EndOf(m) < q.at
      BY <2>8, <3>1 DEF RankingRows, InWindow, ByWeek
    <3>. QED BY <2>3, <2>8, <3>2, <3>3 DEF Owed, ByWeek
  <2>9. Brought(r)
    BY <2>5, <2>7, <2>8 DEF Brought, Asked
  <2>10. req' = [req EXCEPT ![t] = r]
    BY <1>0, <1>5, <2>1, <2>2 DEF Query
  <2>. QED BY <1>2, <1>3, <2>5, <2>6, <2>9, <2>10, GoesOn
<1>. QED BY <1>4, <1>5

(* Matches finish and time passes: what is owed for the past does not change. *)
LEMMA TimePasses ==
  ASSUME ReadsInv, NEW q \in RequestRecord, Fits(q),
         finished' = finished \/ \E x \in ServerSet : finished' = [finished EXCEPT ![x] = Append(@, now)],
         now' \in {now, now + 1},
         now' # now => (q.stage \in Gathering \cup {"read"} => now - q.at < LongestRead)
  PROVE  Fits(q)' /\ (q.stage = "read" /\ Brought(q) => Brought(q)')
<1>1. now \in Nat /\ q.at \in Nat /\ LongestRead \in Nat /\ From(q.kind, q.at) \in Nat
  <2>1. now \in Nat /\ q.at \in Nat /\ LongestRead \in Nat
    BY ReadsAssumption DEF ReadsInv, ReadsType, RequestRecord
  <2>. QED BY <2>1, WeekNatural DEF From
<1>2. WellFormed(q)'
  BY DEF Fits, WellFormed
<1>3. q.stage \in Gathering \cup {"read"} => q.at <= now' /\ now' <= q.at + LongestRead
  BY <1>1 DEF Fits
<1>4. ASSUME q.at <= now, NEW s \in ServerSet, NEW from \in Int, NEW to \in Int, to <= q.at
      PROVE  Owed(q.kind, s, from, to)' = Owed(q.kind, s, from, to)
  <2>1. to <= now
    BY <1>1, <1>4
  <2>. QED BY <2>1, OwedStays DEF ReadsInv
<1>5. ASSUME q.stage \in Gathering PROVE Gathers(q)'
  <2>1. q.at <= now /\ Gathers(q) /\ \A i \in 1..Len(q.todo) : q.todo[i] \in ServerSet
    BY <1>5, AskedServers DEF Fits
  <2>2. \A i \in 1..Len(q.todo) : Owed(q.kind, q.todo[i], 0, q.at)' = Owed(q.kind, q.todo[i], 0, q.at)
    <3>. TAKE i \in 1..Len(q.todo)
    <3>1. q.todo[i] \in ServerSet
      BY <2>1
    <3>. QED BY <1>1, <1>4, <2>1, <3>1
  <2>. QED BY <2>1, <2>2 DEF Gathers
<1>6. ASSUME q.stage = "answered", q.state = "available" PROVE Shows(q)'
  <2>1. q.at <= now /\ Shows(q) /\ q.kind \in Kinds /\ Asked(q) \subseteq ServerSet
    BY <1>6, AskedServers DEF Fits, Shows, WellFormed
  <2>2. q.at <= now' /\ q.at - MaxAge(q.kind) \in Int /\ q.at - MaxAge(q.kind) <= q.at
    BY <1>1, <2>1, Ages
  <2>3. \A s \in Asked(q) : Owed(q.kind, s, From(q.kind, q.at), q.at - MaxAge(q.kind))'
                          = Owed(q.kind, s, From(q.kind, q.at), q.at - MaxAge(q.kind))
    BY <1>1, <1>4, <2>1, <2>2
  <2>4. \A s \in ServerSet, from \in Nat : Owed(q.kind, s, from, q.at)' = Owed(q.kind, s, from, q.at)
    BY <1>1, <1>4, <2>1
  <2>. QED BY <2>1, <2>2, <2>3, <2>4 DEF Shows
<1>7. ASSUME q.stage = "read", Brought(q) PROVE Brought(q)'
  <2>1. q.at <= now /\ Asked(q) \subseteq ServerSet
    BY <1>7, AskedServers DEF Fits
  <2>2. \A s \in ServerSet : Owed(q.kind, s, From(q.kind, q.at), q.at)' = Owed(q.kind, s, From(q.kind, q.at), q.at)
    BY <1>1, <1>4, <2>1
  <2>3. q.kind \in ByWeek => From(q.kind, q.at) = WeekStart(q.at)
    BY DEF From
  <2>. QED BY <1>7, <2>1, <2>2, <2>3 DEF Brought
<1>. QED BY <1>2, <1>3, <1>5, <1>6, <1>7 DEF Fits

LEMMA KeptStays ==
  ASSUME ReadsInv, UNCHANGED cache,
         finished' = finished \/ \E x \in ServerSet : finished' = [finished EXCEPT ![x] = Append(@, now)],
         now' \in {now, now + 1}
  PROVE  CacheFits'
<1>. SUFFICES ASSUME NEW k \in DOMAIN cache, NEW e \in Entry, e = cache[k] PROVE Kept(k, e)'
  BY DEF CacheFits
<1>1. Kept(k, e) /\ k \in Kinds \X Seq(ServerSet)
  BY DEF ReadsInv, ReadsType, CacheFits
<1>2. /\ now \in Nat /\ LongestRead \in Nat /\ Ttl[k[1]] \in Nat /\ e.until \in Nat
      /\ k[2] \in Seq(ServerSet)
  BY <1>1, ReadsAssumption DEF ReadsInv, ReadsType, Entry
<1>3. PICK to : to = e.until - Ttl[k[1]] - LongestRead
  OBVIOUS
<1>4. e.until <= now + Ttl[k[1]]
  BY <1>1 DEF Kept
<1>5. to \in Int /\ to <= now /\ e.until <= now' + Ttl[k[1]]
  BY <1>2, <1>3, <1>4
<1>6. \A i \in 1..Len(k[2]) : Owed(k[1], k[2][i], 0, to)' = Owed(k[1], k[2][i], 0, to)
  <2>. TAKE i \in 1..Len(k[2])
  <2>1. k[2][i] \in ServerSet
    BY <1>2
  <2>. QED BY <1>5, <2>1, OwedStays DEF ReadsInv
<1>. QED BY <1>1, <1>3, <1>5, <1>6 DEF Kept

LEMMA WorldReads ==
  ASSUME ReadsInv, PoolTypeOK',
         \/ \E s \in ServerSet : Finish(s)
         \/ Tick
         \/ PoolStep
         \/ UNCHANGED vars
  PROVE  ReadsInv'
<1>1. /\ finished' = finished \/ \E x \in ServerSet : finished' = [finished EXCEPT ![x] = Append(@, now)]
      /\ UNCHANGED <<cache, lastGood>>
  BY DEF Finish, Tick, PoolStep, vars, serviceVars
<1>2. \/ UNCHANGED <<now, req>>
      \/ /\ now' = now + 1
         /\ \A t \in Thread : req[t].stage \in Gathering \cup {"read"} => now - req[t].at < LongestRead
         /\ req' = [t \in Thread |-> IF req[t].stage = "answered" THEN Past ELSE req[t]]
  BY DEF Finish, Tick, PoolStep, vars, serviceVars, Gathering
<1>3. \A t \in Thread : result'[t] = "rows" => result[t] = "rows"
  <2>1. CASE UNCHANGED poolVars
    BY <2>1 DEF poolVars
  <2>2. CASE PoolStep
    <3>. TAKE t \in Thread
    <3>1. CASE \E u \in Thread : Borrower(u)
      <4>1. PICK u \in Thread : Borrower(u)
        BY <3>1
      <4>2. result' = result \/ result' = [result EXCEPT ![u] = "error"]
        BY <4>1 DEF Borrower, TakeIdle, Grow, Sleep, Refuse, Expire, Connect, ConnectFails,
                    TransactFails, Release, CloseOwn, Return
      <4>. QED BY <4>2 DEF ReadsInv, PoolTypeOK
    <3>2. CASE ClosePool \/ CloseDoomed
      BY <3>2 DEF ClosePool, CloseDoomed
    <3>. QED BY <2>2, <3>1, <3>2 DEF PoolStep
  <2>. QED BY <2>1, <2>2 DEF Finish, Tick, vars
<1>4. Past \in RequestRecord /\ Fits(Past)' /\ Past.stage = "answered"
  <2>1. /\ Past \in RequestRecord /\ Past.stage = "answered" /\ Past.state = "none"
    <3>1. NoAsk \in RequestRecord /\ NoAsk.state = "none"
      BY DEF NoAsk, RequestRecord, Stages
    <3>. HIDE DEF NoAsk
    <3>. QED BY <3>1 DEF Past, RequestRecord, Stages
  <2>2. Past.stage # "idle"
    BY <2>1
  <2>. HIDE DEF Past
  <2>. QED BY <2>1, <2>2 DEF Fits, WellFormed, Gathering
<1>5. ReadsType'
  <2>1. finished' \in [ServerSet -> Seq(Nat)]
    <3>1. finished \in [ServerSet -> Seq(Nat)] /\ now \in Nat
      BY DEF ReadsInv, ReadsType
    <3>2. ASSUME NEW x \in ServerSet, finished' = [finished EXCEPT ![x] = Append(@, now)]
          PROVE  finished' \in [ServerSet -> Seq(Nat)]
      <4>1. finished[x] \in Seq(Nat)
        BY <3>1
      <4>2. PICK longer : longer = Append(finished[x], now)
        OBVIOUS
      <4>3. longer \in Seq(Nat)
        BY <3>1, <4>1, <4>2
      <4>. QED BY <3>1, <3>2, <4>2, <4>3
    <3>. QED BY <1>1, <3>1, <3>2
  <2>2. now' \in Nat
    BY <1>2 DEF ReadsInv, ReadsType
  <2>3. req' \in [Thread -> RequestRecord]
    BY <1>2, <1>4 DEF ReadsInv, ReadsType
  <2>. QED BY <1>1, <2>1, <2>2, <2>3 DEF ReadsInv, ReadsType
<1>6. Requests'
  <2>. SUFFICES ASSUME NEW t \in Thread, NEW q \in RequestRecord, q = req'[t]
                PROVE  Fits(q)' /\ (q.stage = "read" /\ result'[t] = "rows" => Brought(q)')
    BY DEF Requests
  <2>1. CASE q = Past
    BY <1>4, <2>1
  <2>2. CASE q # Past
    <3>1. q = req[t]
      BY <1>2, <2>2
    <3>2. Fits(q) /\ (q.stage = "read" /\ result[t] = "rows" => Brought(q))
      BY <3>1, InHand
    <3>3. now' \in {now, now + 1} /\
          (now' # now => (q.stage \in Gathering \cup {"read"} => now - q.at < LongestRead))
      BY <1>2, <3>1
    <3>. QED BY <1>1, <1>3, <3>2, <3>3, TimePasses
  <2>. QED BY <2>1, <2>2
<1>7. CacheFits'
  BY <1>1, <1>2, KeptStays
<1>. QED BY <1>5, <1>6, <1>7 DEF ReadsInv

LEMMA StepReads == ReadsInv /\ PoolTypeOK' /\ [Next]_vars => ReadsInv'
<1>. SUFFICES ASSUME ReadsInv, PoolTypeOK', [Next]_vars PROVE ReadsInv'
  OBVIOUS
<1>1. ASSUME NEW t \in Thread, ServiceStep(t) PROVE ReadsInv'
  BY <1>1, LookupReads, ByIdReads, CallReads, GatheredReads, DoneReads, QueryReads DEF ServiceStep
<1>. QED BY <1>1, ArriveReads, WorldReads DEF Next

(* Whatever the threads, the pool, the failures and the order in which several
   reads fill the cache: an answer shows what its kind's age allows.          *)
THEOREM AnswersShowFinished == Spec => []FinishedMatchShows
<1>1. ReadsInv => FinishedMatchShows
  <2>. SUFFICES ASSUME ReadsInv, NEW t \in Thread, req[t].stage = "answered", req[t].state = "available"
                PROVE  LET q == req[t] IN
                       /\ \A s \in Asked(q) \ q.missing : \A m \in MatchesOf(s) :
                            /\ EndOf(m) < q.at - MaxAge(q.kind)
                            /\ q.kind = "detail" => m[2] = 1
                            /\ q.kind \in {"weekly", "profile"} => EndOf(m) >= WeekStart(q.at)
                            => m \in q.rows
                       /\ q.kind \in {"weekly", "profile"} =>
                            \A m \in q.rows : EndOf(m) >= WeekStart(IF q.at < MaxAge(q.kind) THEN 0 ELSE q.at - MaxAge(q.kind))
    BY DEF FinishedMatchShows
  <2>0. PICK q : q = req[t]
    OBVIOUS
  <2>1. q \in RequestRecord /\ Shows(q)
    BY <2>0, InHand DEF Fits
  <2>2. ASSUME NEW s \in Asked(q) \ q.missing, NEW m \in MatchesOf(s),
               EndOf(m) < q.at - MaxAge(q.kind), q.kind = "detail" => m[2] = 1,
               q.kind \in {"weekly", "profile"} => EndOf(m) >= WeekStart(q.at)
        PROVE  m \in q.rows
    <3>1. EndOf(m) \in Nat
      <4>1. s \in ServerSet
        BY <2>1, AskedServers
      <4>2. finished[s] \in Seq(Nat)
        BY <4>1 DEF ReadsInv, ReadsType
      <4>. QED BY <4>2 DEF MatchesOf, EndOf
    <3>2. From(q.kind, q.at) <= EndOf(m)
      <4>1. q.at \in Nat
        BY <2>1 DEF RequestRecord
      <4>. QED BY <2>2, <3>1, <4>1, WeekNatural DEF From, ByWeek
    <3>. QED BY <2>1, <2>2, <3>2 DEF Shows, Owed
  <2>3. ASSUME q.kind \in {"weekly", "profile"}, NEW m \in q.rows
        PROVE  EndOf(m) >= WeekStart(IF q.at < MaxAge(q.kind) THEN 0 ELSE q.at - MaxAge(q.kind))
    <3>. DEFINE low == WeekStart(IF q.at < MaxAge(q.kind) THEN 0 ELSE q.at - MaxAge(q.kind))
    <3>1. PICK s \in ServerSet, from \in Nat : m \in Owed(q.kind, s, from, q.at) /\ from >= low
      BY <2>1, <2>3 DEF Shows, ByWeek
    <3>2. low \in Nat
      <4>1. q.at \in Nat /\ MaxAge(q.kind) \in Nat
        BY <2>1, <2>3, Ages DEF RequestRecord, Kinds, AggregateKinds
      <4>. DEFINE time == IF q.at < MaxAge(q.kind) THEN 0 ELSE q.at - MaxAge(q.kind)
      <4>2. time \in Nat
        BY <4>1
      <4>. HIDE DEF time
      <4>3. WeekStart(time) \in Nat
        BY <4>2, WeekNatural
      <4>. QED BY <4>3 DEF time
    <3>. HIDE DEF low
    <3>3. from <= EndOf(m) /\ EndOf(m) \in Nat
      <4>1. finished[s] \in Seq(Nat)
        BY DEF ReadsInv, ReadsType
      <4>. QED BY <3>1, <4>1 DEF Owed, MatchesOf, EndOf
    <3>. QED BY <3>1, <3>2, <3>3 DEF low
  <2>. QED BY <2>0, <2>2, <2>3
<1>2. PoolInv => PoolTypeOK
  BY DEF PoolInv
<1>. QED BY <1>1, <1>2, InitReads, StepReads, PoolKept, ServicesUsePool, PTL DEF Spec

-----------------------------------------------------------------------------
(***************************************************************************)
(* The server list of the legacy source, for any servers, loops, requests  *)
(* and intervals.                                                          *)
(***************************************************************************)
Row == [server : GameServer \cup Controlled, at : Nat,
        origin : {"real-a2s", "controlled-fallback"}]
LiveRow == [server : GameServer, at : Nat, origin : {"real-a2s", "real-rcon"}]

\* A row is of a game server exactly when its origin says that it is real.
RowFits(i) ==
  /\ i \in Row /\ i.at <= now
  /\ i.origin = "real-a2s" <=> i.server \in GameServer

AskRecord == [pc : {"idle", "rcon", "probed", "a2s"}, read : SUBSET Row, at : Nat, known : BOOLEAN]

\* What a request read is shown when the servers answer nothing, so it must be
\* as honest as an answer.
AskedFits(q) ==
  /\ q.at <= now
  /\ q.pc \in (IF kind = "rcon" THEN {"idle", "rcon", "probed"} ELSE {"idle", "a2s"})
  /\ kind = "a2s" /\ q.known => ~List!Foreign(q.read)

ListInv ==
  /\ now \in Nat /\ kind \in {"a2s", "rcon"}
  /\ \A i \in stored : RowFits(i)
  /\ loop \in [Loop -> [pc : {"waiting", "storing", "dead"}, runs : Nat, batch : SUBSET Row]]
  /\ \A l \in Loop : \A i \in loop[l].batch : RowFits(i)
  /\ request \in [Request -> AskRecord]
  /\ \A r \in Request : AskedFits(request[r])
  /\ answer \in [Request -> [label : List!Label, items : SUBSET (Row \cup LiveRow), asked : Nat,
                             known : BOOLEAN, failed : SUBSET {"a2s", "rcon"}]]
  /\ ServerListHonest

LEMMA ListBounds ==
  /\ MaxRuns \in Nat /\ SnapshotTtl \in Nat \ {0} /\ MaxNow \in Nat
  /\ GameServer \cap Controlled = {}
BY ListAssumption DEF List!ServerListParameters

LEMMA InitList == List!Init => ListInv
<1> SUFFICES ASSUME List!Init PROVE ListInv
  OBVIOUS
<1>1. ServerListHonest
  BY DEF List!Init, ServerListHonest, List!ServerListHonest, List!ControlledGivesWay,
         List!LiveAnswersAreReal, List!OldOnlyWhenAllFailed, List!Foreign
<1>2. /\ request \in [Request -> AskRecord]
      /\ \A r \in Request : request[r] = List!Idle
  BY DEF List!Init, List!Idle, AskRecord
<1>3. \A r \in Request : AskedFits(request[r])
  BY <1>2 DEF AskedFits, List!Idle, List!Init, List!Foreign
<1> QED
  BY <1>1, <1>2, <1>3 DEF List!Init, ListInv, List!Label

\* What ServerListHonest says of one answer.
HonestAnswer(a) ==
  /\ kind = "a2s" /\ a.known => ~List!Foreign(a.items)
  /\ a.label = "real-time-refresh" => \A i \in a.items : i.server \in GameServer /\ i.at >= a.asked
  /\ a.items # {} /\ a.asked - List!LastAt(a.items) > SnapshotTtl
       => a.label = "persisted-stale-snapshot"
  /\ a.label = "persisted-stale-snapshot"
       => a.failed = IF kind = "rcon" THEN {"a2s", "rcon"} ELSE {"a2s"}

AnswerRecord == [label : List!Label, items : SUBSET (Row \cup LiveRow), asked : Nat,
                 known : BOOLEAN, failed : SUBSET {"a2s", "rcon"}]

LEMMA HonestEach == ServerListHonest <=> \A r \in Request : HonestAnswer(answer[r])
BY DEF ServerListHonest, List!ServerListHonest, List!ControlledGivesWay,
       List!LiveAnswersAreReal, List!OldOnlyWhenAllFailed, HonestAnswer

\* A request is answered honestly, or goes on with what it read.
LEMMA AnsweredKeeps ==
  ASSUME ListInv, NEW r \in Request, NEW asking, asking.at \in Nat, asking.known \in BOOLEAN,
         NEW label \in List!Label, NEW items \in SUBSET (Row \cup LiveRow),
         NEW failed \in SUBSET {"a2s", "rcon"},
         List!Answered(r, asking, label, items, failed),
         HonestAnswer([label |-> label, items |-> items, failed |-> failed,
                       asked |-> asking.at, known |-> asking.known]),
         UNCHANGED <<now, kind, mode, stored, loop>>
  PROVE  ListInv'
<1> DEFINE given == [label |-> label, items |-> items, failed |-> failed,
                     asked |-> asking.at, known |-> asking.known]
<1>1. given \in AnswerRecord
  BY DEF AnswerRecord
<1>2. request' = [request EXCEPT ![r] = List!Idle] /\ answer' = [answer EXCEPT ![r] = given]
  BY DEF List!Answered
<1>3. HonestAnswer(given)
  OBVIOUS
<1> HIDE DEF given
<1>4. List!Idle \in AskRecord /\ AskedFits(List!Idle)
  BY DEF List!Idle, AskRecord, AskedFits, ListInv, List!Foreign
<1>5. request' \in [Request -> AskRecord] /\ \A q \in Request : AskedFits(request[q])'
  <2>1. request' \in [Request -> AskRecord]
    BY <1>2, <1>4 DEF ListInv
  <2>2. \A q \in Request : request'[q] \in {request[q], List!Idle}
    BY <1>2 DEF ListInv
  <2> QED
    BY <1>4, <2>1, <2>2 DEF ListInv, AskedFits
<1>6. answer' \in [Request -> AnswerRecord] /\ \A q \in Request : answer'[q] \in {answer[q], given}
  BY <1>1, <1>2 DEF ListInv, AnswerRecord
<1>7. \A q \in Request : HonestAnswer(answer[q])'
  <2>1. \A q \in Request : HonestAnswer(answer[q])
    BY HonestEach DEF ListInv
  <2> QED
    BY <1>3, <1>6, <2>1 DEF HonestAnswer
<1>8. ServerListHonest'
  BY <1>7 DEF HonestAnswer, ServerListHonest, List!ServerListHonest, List!ControlledGivesWay,
     List!LiveAnswersAreReal, List!OldOnlyWhenAllFailed
<1> QED
  BY <1>5, <1>6, <1>8 DEF ListInv, AnswerRecord, RowFits

\* The rows of a collection are real, or of the controlled source.
LEMMA CollectedFits ==
  ASSUME ListInv, NEW source, NEW fallback, NEW answering \in SUBSET GameServer,
         NEW i \in List!Collected(source, fallback, answering)
  PROVE  RowFits(i)
<1>1. i \in List!Captured(Controlled, now, "controlled-fallback")
      \/ i \in List!Captured(answering, now, "real-a2s")
  BY DEF List!Collected
<1>2. ASSUME i \in List!Captured(Controlled, now, "controlled-fallback")
      PROVE  RowFits(i)
  <2>1. PICK s \in Controlled : i = [server |-> s, at |-> now, origin |-> "controlled-fallback"]
    BY <1>2 DEF List!Captured
  <2>2. s \notin GameServer
    BY ListBounds
  <2> QED
    BY <2>1, <2>2 DEF RowFits, Row, ListInv
<1>3. ASSUME i \in List!Captured(answering, now, "real-a2s")
      PROVE  RowFits(i)
  <2>1. PICK s \in answering : i = [server |-> s, at |-> now, origin |-> "real-a2s"]
    BY <1>3 DEF List!Captured
  <2> QED
    BY <2>1 DEF RowFits, Row, ListInv
<1> QED
  BY <1>1, <1>2, <1>3

LEMMA RowsStayFit ==
  ASSUME now \in Nat, now' \in Nat, now <= now'
  PROVE  /\ \A i : RowFits(i) => RowFits(i)'
         /\ kind' = kind => \A q \in AskRecord : AskedFits(q) => AskedFits(q)'
BY DEF RowFits, Row, AskedFits, AskRecord, List!Foreign

\* Time, and the loops: requests and answers stay.
LEMMA LoopKeeps ==
  ASSUME ListInv, UNCHANGED <<kind, request, answer>>, now' \in Nat, now <= now',
         loop' \in [Loop -> [pc : {"waiting", "storing", "dead"}, runs : Nat, batch : SUBSET Row]],
         \A l \in Loop : \A i \in loop'[l].batch : RowFits(i),
         \A i \in stored' : RowFits(i)
  PROVE  ListInv'
<1>1. /\ \A i : RowFits(i) => RowFits(i)'
      /\ \A q \in AskRecord : AskedFits(q) => AskedFits(q)'
  BY RowsStayFit DEF ListInv
<1>2. ServerListHonest'
  BY DEF ListInv, ServerListHonest, List!ServerListHonest, List!ControlledGivesWay,
     List!LiveAnswersAreReal, List!OldOnlyWhenAllFailed
<1>3. \A r \in Request : AskedFits(request[r])'
  BY <1>1 DEF ListInv
<1> QED
  BY <1>1, <1>2, <1>3 DEF ListInv

LEMMA LoopStepKeeps ==
  ASSUME ListInv,
         List!Tick \/ \E l \in Loop : List!Collect(l) \/ List!Store(l) \/ List!StoreFails(l)
  PROVE  ListInv'
<1> DEFINE LoopRecord == [pc : {"waiting", "storing", "dead"}, runs : Nat, batch : SUBSET Row]
<1>1. CASE List!Tick
  BY <1>1, LoopKeeps, ListBounds DEF List!Tick, ListInv
<1>2. ASSUME NEW l \in Loop, List!Collect(l)
      PROVE  ListInv'
  <2>1. PICK answering \in SUBSET GameServer :
          loop' = [loop EXCEPT ![l] = [pc |-> "storing", runs |-> @.runs + 1,
                                       batch |-> List!Collected(mode[l], TRUE, answering)]]
    BY <1>2 DEF List!Collect, List!Answering
  <2> DEFINE batch == List!Collected(mode[l], TRUE, answering)
  <2>2. loop' = [loop EXCEPT ![l] = [pc |-> "storing", runs |-> @.runs + 1, batch |-> batch]]
    BY <2>1
  <2>3. \A i \in batch : RowFits(i)
    BY CollectedFits
  <2> HIDE DEF batch
  <2>4. batch \in SUBSET Row
    BY <2>3 DEF RowFits
  <2>5. loop' \in [Loop -> LoopRecord]
    BY <2>2, <2>4 DEF ListInv
  <2>6. \A k \in Loop : \A i \in loop'[k].batch : RowFits(i)
    BY <2>2, <2>3 DEF ListInv
  <2>7. UNCHANGED <<now, kind, stored, request, answer>>
    BY <1>2 DEF List!Collect
  <2>8. now' \in Nat /\ now <= now' /\ \A i \in stored' : RowFits(i)
    BY <2>7 DEF ListInv
  <2> QED
    BY <2>5, <2>6, <2>7, <2>8, LoopKeeps
<1>3. ASSUME NEW l \in Loop, List!Store(l)
      PROVE  ListInv'
  <2>1. loop' = [loop EXCEPT ![l].pc = "waiting", ![l].batch = {}]
    BY <1>3 DEF List!Store
  <2>2. loop' \in [Loop -> LoopRecord] /\ \A k \in Loop : \A i \in loop'[k].batch : RowFits(i)
    BY <2>1 DEF ListInv
  <2>3. \A i \in stored' : RowFits(i)
    BY <1>3 DEF List!Store, List!StoredWith, ListInv
  <2> QED
    BY <1>3, <2>2, <2>3, LoopKeeps DEF List!Store, ListInv
<1>4. ASSUME NEW l \in Loop, List!StoreFails(l)
      PROVE  ListInv'
  <2>1. loop' = [loop EXCEPT ![l].pc = "dead", ![l].batch = {}]
    BY <1>4 DEF List!StoreFails
  <2>2. loop' \in [Loop -> LoopRecord] /\ \A k \in Loop : \A i \in loop'[k].batch : RowFits(i)
    BY <2>1 DEF ListInv
  <2> QED
    BY <1>4, <2>2, LoopKeeps DEF List!StoreFails, ListInv
<1> QED
  BY <1>1, <1>2, <1>3, <1>4

-----------------------------------------------------------------------------
\* Of numbers up to one, one is the largest.
LEMMA Largest ==
  ASSUME NEW n \in Nat, NEW S, S \subseteq 0..n, S # {}
  PROVE  \E a \in S : \A b \in S : a >= b
<1> DEFINE below(a) == n - a
           Below == {below(a) : a \in S}
           R == OpToRel(<, Nat)
<1>1. \A a \in S : below(a) \in Nat /\ a \in Int
  OBVIOUS
<1>2. Below \subseteq Nat /\ Below # {}
  BY <1>1
<1>3. \A x, y \in Nat : y < x => <<y, x>> \in R
  BY DEF OpToRel
<1>4. IsWellFoundedOn(R, Nat)
  BY NatLessThanWellFounded
<1>5. (\A a \in S : below(a) \in Below) /\ \A d \in Below : \E a \in S : d = below(a)
  OBVIOUS
<1> HIDE DEF R, Below
<1>6. PICK d \in Below : \A y \in Below : <<y, d>> \notin R
  BY <1>2, <1>4, WFMin
<1>7. PICK a \in S : d = below(a)
  BY <1>5
<1>8. ASSUME NEW b \in S
      PROVE  a >= b
  <2>1. ~ (below(b) < below(a))
    BY <1>1, <1>3, <1>5, <1>6, <1>7
  <2> QED
    BY <1>1, <2>1
<1> QED
  BY <1>8

\* Of rows of one time on, one is the newest.
LEMMA NewestRow ==
  ASSUME NEW T, T \subseteq Row, T # {}, NEW last \in Nat, \A i \in T : i.at <= last
  PROVE  \E i \in T : \A j \in T : j.at <= i.at
<1> DEFINE Times == {i.at : i \in T}
<1>1. Times \subseteq 0..last /\ Times # {}
  BY DEF Row
<1>2. (\A i \in T : i.at \in Times) /\ \A a \in Times : \E i \in T : a = i.at
  OBVIOUS
<1> HIDE DEF Times
<1>3. PICK a \in Times : \A b \in Times : a >= b
  BY <1>1, Largest
<1>4. PICK i \in T : i.at = a
  BY <1>2
<1>5. Times \subseteq Int
  BY <1>1
<1> QED
  BY <1>2, <1>3, <1>4, <1>5

LEMMA LastAtIsTime ==
  ASSUME NEW T, T \subseteq Row, T # {}, NEW last \in Nat, \A i \in T : i.at <= last
  PROVE  List!LastAt(T) \in Nat
<1>1. PICK i \in T : \A j \in T : j.at <= i.at
  BY NewestRow
<1>2. /\ i.at \in {j.at : j \in T} /\ \A t \in {j.at : j \in T} : i.at >= t
      /\ {j.at : j \in T} \subseteq Nat
  BY <1>1 DEF Row
<1> QED
  BY <1>2 DEF List!LastAt, List!Max

\* Once a real row is stored, the rows an answer is made from are real.
LEMMA PrimaryReal ==
  ASSUME ListInv, kind = "a2s", NEW i \in stored, i.origin = "real-a2s"
  PROVE  ~List!Foreign(List!Primary(List!LatestStored))
<1> DEFINE T == {j \in stored : j.server = i.server}
<1>1. T \subseteq Row /\ T # {} /\ now \in Nat /\ \A j \in T : j.at <= now
  BY DEF ListInv, RowFits
<1>2. PICK j \in T : \A k \in T : k.at <= j.at
  BY <1>1, NewestRow
<1>3. j \in List!LatestStored
  BY <1>2 DEF List!LatestStored
<1>4. i.server \in GameServer /\ j.server = i.server /\ j \in stored
  BY DEF ListInv, RowFits
<1>5. j.origin = "real-a2s"
  BY <1>4 DEF ListInv, RowFits
<1> DEFINE preferred == {k \in List!LatestStored : k.origin = "real-a2s"}
<1>6. List!Primary(List!LatestStored) = preferred
  BY <1>3, <1>5 DEF List!Primary
<1>7. \A k \in preferred : k.server \in GameServer
  BY DEF List!LatestStored, ListInv, RowFits
<1> QED
  BY <1>6, <1>7, ListBounds DEF List!Foreign

LEMMA ListAskKeeps ==
  ASSUME ListInv, NEW r \in Request, List!Ask(r)
  PROVE  ListInv'
<1> DEFINE items == List!Primary(List!LatestStored)
           asking(step) == List!Asking(step, items)
           known == \E i \in stored : i.origin = "real-a2s"
<1>1. \A step : /\ asking(step).pc = step /\ asking(step).read = items
                 /\ asking(step).at = now /\ asking(step).known = known
                 /\ asking(step) = [pc |-> step, read |-> items, at |-> now, known |-> known]
  BY DEF List!Asking
<1>2. items \in SUBSET Row
  BY DEF List!Primary, List!LatestStored, ListInv, RowFits
<1>3. kind = "a2s" /\ known => ~List!Foreign(items)
  BY PrimaryReal
<1>4. known \in BOOLEAN /\ now \in Nat
  BY DEF ListInv
<1>5. UNCHANGED <<now, kind, mode, stored, loop>>
  BY DEF List!Ask
<1>8. \A i \in items : i.at <= now
  BY DEF List!Primary, List!LatestStored, ListInv, RowFits
<1>6. CASE List!Recent(items)
  <2>1. List!Answered(r, asking("idle"), "persisted-fresh-snapshot", items, {})
    BY <1>6 DEF List!Ask
  <2>2. now - List!LastAt(items) <= SnapshotTtl
    BY <1>6 DEF List!Recent
  <2> DEFINE a == [label |-> "persisted-fresh-snapshot", items |-> items, failed |-> {},
                   asked |-> asking("idle").at, known |-> asking("idle").known]
  <2>3. /\ a.label = "persisted-fresh-snapshot" /\ a.items = items
        /\ a.asked = now /\ a.known = known
    BY <1>1
  <2> HIDE DEF items, known, asking
  <2>4. HonestAnswer(a)
    <3>1. items # {} => ~(now - List!LastAt(items) > SnapshotTtl)
      <4>1. items # {} => List!LastAt(items) \in Nat
        BY <1>2, <1>4, <1>8, LastAtIsTime
      <4> QED
        BY <1>4, <2>2, <4>1, ListBounds
    <3> QED
      BY <1>3, <2>3, <3>1 DEF HonestAnswer
  <2>5. "persisted-fresh-snapshot" \in List!Label /\ asking("idle").at \in Nat /\ asking("idle").known \in BOOLEAN
    BY <1>1, <1>4 DEF List!Label
  <2> QED
    BY <1>2, <1>5, <2>1, <2>4, <2>5, AnsweredKeeps
<1>7. CASE ~List!Recent(items)
  <2> DEFINE q == asking(IF kind = "rcon" THEN "rcon" ELSE "a2s")
  <2>1. request' = [request EXCEPT ![r] = q] /\ UNCHANGED <<now, kind, mode, stored, loop, answer>>
    BY <1>5, <1>7 DEF List!Ask
  <2>2. q \in AskRecord /\ AskedFits(q)
    <3>1. /\ q.pc = (IF kind = "rcon" THEN "rcon" ELSE "a2s") /\ q.read = items /\ q.at = now
          /\ q.known = known
          /\ q = [pc |-> IF kind = "rcon" THEN "rcon" ELSE "a2s", read |-> items, at |-> now,
                  known |-> known]
      BY <1>1
    <3> HIDE DEF items, known, q, asking
    <3> QED
      BY <1>2, <1>3, <1>4, <3>1 DEF AskedFits, AskRecord
  <2> HIDE DEF q
  <2>3. request' \in [Request -> AskRecord] /\ \A u \in Request : AskedFits(request[u])'
    <3>1. request' \in [Request -> AskRecord] /\ \A u \in Request : request'[u] \in {request[u], q}
      BY <2>1, <2>2 DEF ListInv
    <3> QED
      BY <2>1, <2>2, <3>1 DEF ListInv, AskedFits
  <2>4. ServerListHonest'
    BY <2>1 DEF ListInv, ServerListHonest, List!ServerListHonest, List!ControlledGivesWay,
       List!LiveAnswersAreReal, List!OldOnlyWhenAllFailed
  <2> QED
    BY <2>1, <2>3, <2>4 DEF ListInv, RowFits
<1> QED
  BY <1>6, <1>7

\* The rows of a live collection, all of one time.
LEMMA LiveRows ==
  ASSUME NEW answering \in SUBSET GameServer, NEW at \in Nat,
         NEW origin \in {"real-a2s", "real-rcon"},
         NEW i \in List!Primary(List!Captured(answering, at, origin))
  PROVE  i \in LiveRow /\ i.at = at
<1>1. i \in List!Captured(answering, at, origin)
  BY DEF List!Primary
<1>2. PICK s \in answering : i = [server |-> s, at |-> at, origin |-> origin]
  BY <1>1 DEF List!Captured
<1> QED
  BY <1>2 DEF LiveRow

\* Live rows of one time are all that is shown of them, and none is foreign.
LEMMA LiveHonest ==
  ASSUME ListInv, NEW r \in Request, NEW answering \in SUBSET GameServer, NEW at \in Nat,
         NEW origin \in {"real-a2s", "real-rcon"}, request[r].at <= at, NEW failed,
         NEW items, items = List!Primary(List!Captured(answering, at, origin))
  PROVE  HonestAnswer([label |-> "real-time-refresh", items |-> items, failed |-> failed,
                       asked |-> request[r].at, known |-> request[r].known])
<1> DEFINE a == [label |-> "real-time-refresh", items |-> items, failed |-> failed,
                 asked |-> request[r].at, known |-> request[r].known]
<1>1. \A i \in items : i \in LiveRow /\ i.at = at
  BY LiveRows
<1>2. \A i \in items : i \in LiveRow /\ i.server \in GameServer /\ i.at = at
  BY <1>1 DEF LiveRow
<1>3. items # {} => List!LastAt(items) = at
  <2> SUFFICES ASSUME items # {} PROVE List!LastAt(items) = at
    OBVIOUS
  <2>1. {i.at : i \in items} = {at}
    BY <1>2
  <2> QED
    BY <2>1 DEF List!LastAt, List!Max
<1>4. request[r].at \in Nat
  BY DEF ListInv, AskRecord
<1>5. ~List!Foreign(items)
  BY <1>2, ListBounds DEF List!Foreign
<1>6. /\ a.label = "real-time-refresh" /\ a.items = items /\ a.asked = request[r].at
  OBVIOUS
<1>7. HonestAnswer(a)
  <2> HIDE DEF a
  <2>1. items # {} => ~(request[r].at - List!LastAt(items) > SnapshotTtl)
    BY <1>3, <1>4, ListBounds
  <2>2. \A i \in items : i.server \in GameServer /\ i.at >= request[r].at
    BY <1>2, <1>4
  <2> QED
    BY <1>5, <1>6, <2>1, <2>2 DEF HonestAnswer
<1> QED
  BY <1>7

LEMMA AskRconKeeps ==
  ASSUME ListInv, NEW r \in Request, List!AskRcon(r)
  PROVE  ListInv'
<1>1. /\ request[r] \in AskRecord /\ AskedFits(request[r]) /\ request[r].pc = "rcon"
      /\ UNCHANGED <<now, kind, mode, stored, loop>>
  BY DEF ListInv, List!AskRcon
<1>2. PICK answering \in SUBSET GameServer :
        IF answering = {}
        THEN /\ request' = [request EXCEPT ![r].pc = "probed"]
             /\ UNCHANGED answer
        ELSE List!Answered(r, request[r], "real-time-refresh",
                           List!Primary(List!RconBatch(answering, request[r].at)), {})
  BY DEF List!AskRcon, List!Answering
<1>3. CASE answering = {}
  <2> DEFINE q == [request[r] EXCEPT !.pc = "probed"]
  <2>1. request' = [request EXCEPT ![r] = q] /\ UNCHANGED answer
    BY <1>2, <1>3 DEF ListInv
  <2>2. q \in AskRecord /\ AskedFits(q)
    BY <1>1 DEF AskedFits, AskRecord
  <2> HIDE DEF q
  <2>3. request' \in [Request -> AskRecord] /\ \A u \in Request : AskedFits(request[u])'
    <3>1. request' \in [Request -> AskRecord] /\ \A u \in Request : request'[u] \in {request[u], q}
      BY <2>1, <2>2 DEF ListInv
    <3> QED
      BY <1>1, <2>1, <2>2, <3>1 DEF ListInv, AskedFits
  <2>4. ServerListHonest'
    BY <1>1, <2>1 DEF ListInv, ServerListHonest, List!ServerListHonest, List!ControlledGivesWay,
       List!LiveAnswersAreReal, List!OldOnlyWhenAllFailed
  <2> QED
    BY <1>1, <2>1, <2>3, <2>4 DEF ListInv, RowFits
<1>4. CASE answering # {}
  <2> DEFINE items == List!Primary(List!Captured(answering, request[r].at, "real-rcon"))
  <2>1. List!Answered(r, request[r], "real-time-refresh", items, {})
    BY <1>2, <1>4 DEF List!RconBatch
  <2>2. request[r].at \in Nat /\ request[r].known \in BOOLEAN /\ "real-time-refresh" \in List!Label
    BY <1>1 DEF AskRecord, List!Label
  <2>3. items = List!Primary(List!Captured(answering, request[r].at, "real-rcon"))
    OBVIOUS
  <2> HIDE DEF items
  <2>4. request[r].at <= request[r].at
    BY <2>2
  <2>5. /\ items \in SUBSET (Row \cup LiveRow)
        /\ HonestAnswer([label |-> "real-time-refresh", items |-> items, failed |-> {},
                         asked |-> request[r].at, known |-> request[r].known])
    <3>1. HonestAnswer([label |-> "real-time-refresh", items |-> items, failed |-> {},
                        asked |-> request[r].at, known |-> request[r].known])
      BY <2>2, <2>3, <2>4, LiveHonest, Zenon
    <3>2. items \in SUBSET LiveRow
      BY <2>2, <2>3, LiveRows
    <3> QED
      BY <3>1, <3>2
  <2> QED
    BY <1>1, <2>1, <2>2, <2>5, AnsweredKeeps
<1> QED
  BY <1>3, <1>4

LEMMA AskA2SKeeps ==
  ASSUME ListInv, NEW r \in Request, List!AskA2S(r)
  PROVE  ListInv'
<1>1. /\ request[r] \in AskRecord /\ AskedFits(request[r]) /\ request[r].pc \in {"a2s", "probed"}
      /\ UNCHANGED <<now, kind, mode, stored, loop>> /\ now \in Nat
  BY DEF ListInv, List!AskA2S
<1> DEFINE failed == IF request[r].pc = "probed" THEN {"a2s", "rcon"} ELSE {"a2s"}
           rest == IF request[r].pc = "probed" THEN {"rcon"} ELSE {}
<1>2. PICK answering \in SUBSET GameServer :
        LET items == List!Primary(List!LiveBatch(answering))
        IN IF items = {} THEN List!Degraded(r, failed)
           ELSE List!Answered(r, request[r], "real-time-refresh", items, rest)
  BY DEF List!AskA2S, List!Answering
<1> DEFINE items == List!Primary(List!Captured(answering, now, "real-a2s"))
<1>3. IF items = {} THEN List!Degraded(r, failed)
      ELSE List!Answered(r, request[r], "real-time-refresh", items, rest)
  BY <1>2 DEF List!LiveBatch, List!Collected
<1>4. request[r].at \in Nat /\ request[r].known \in BOOLEAN /\ request[r].at <= now
      /\ request[r].read \in SUBSET (Row \cup LiveRow)
  BY <1>1 DEF AskRecord, AskedFits
<1>5. failed \in SUBSET {"a2s", "rcon"} /\ rest \in SUBSET {"a2s", "rcon"}
  OBVIOUS
<1>6. CASE items # {}
  <2>0. items = List!Primary(List!Captured(answering, now, "real-a2s"))
    OBVIOUS
  <2>2. List!Answered(r, request[r], "real-time-refresh", items, rest)
    BY <1>3, <1>6
  <2>3. "real-time-refresh" \in List!Label
    BY DEF List!Label
  <2> HIDE DEF items, rest
  <2>1. /\ items \in SUBSET (Row \cup LiveRow)
        /\ HonestAnswer([label |-> "real-time-refresh", items |-> items, failed |-> rest,
                         asked |-> request[r].at, known |-> request[r].known])
    <3>1. HonestAnswer([label |-> "real-time-refresh", items |-> items, failed |-> rest,
                        asked |-> request[r].at, known |-> request[r].known])
      BY <1>1, <1>4, <2>0, LiveHonest, Zenon
    <3>2. items \in SUBSET LiveRow
      BY <1>1, <2>0, LiveRows
    <3> QED
      BY <3>1, <3>2
  <2> QED
    BY <1>1, <1>4, <1>5, <2>1, <2>2, <2>3, AnsweredKeeps
<1>7. CASE items = {}
  <2> DEFINE read == request[r].read
             label == IF read = {} THEN "no-snapshot-available" ELSE "persisted-stale-snapshot"
             a == [label |-> label, items |-> read, failed |-> failed,
                   asked |-> request[r].at, known |-> request[r].known]
  <2>1. List!Answered(r, request[r], label, read, failed)
    BY <1>3, <1>7 DEF List!Degraded
  <2>2. label \in List!Label
    BY DEF List!Label
  <2>3. /\ a.label = label /\ a.items = read /\ a.failed = failed /\ a.asked = request[r].at
        /\ a.known = request[r].known
    OBVIOUS
  <2>4. failed = IF kind = "rcon" THEN {"a2s", "rcon"} ELSE {"a2s"}
    BY <1>1 DEF AskedFits
  <2>5. kind = "a2s" /\ request[r].known => ~List!Foreign(read)
    BY <1>1 DEF AskedFits
  <2>6. HonestAnswer(a)
    <3> HIDE DEF a, failed
    <3> QED
      BY <2>3, <2>4, <2>5 DEF HonestAnswer
  <2> HIDE DEF failed, label
  <2> QED
    BY <1>1, <1>4, <1>5, <2>1, <2>2, <2>6, AnsweredKeeps
<1> QED
  BY <1>6, <1>7

LEMMA ListStep ==
  ASSUME ListInv, List!Next
  PROVE  ListInv'
BY LoopStepKeeps, ListAskKeeps, AskRconKeeps, AskA2SKeeps DEF List!Next

\* The server list is honest whatever the other parts do to the clock.
THEOREM ServerListAlwaysHonest == MCSpec => []ServerListHonest
<1> DEFINE Inv == ServerListHonest /\ (part = "list" => ListInv)
<1>1. MCInit => Inv
  BY InitList DEF MCInit, ListInv
<1>2. Inv /\ [MCNext]_<<vars, listVars, observerVars, evidenceVars, part>> => Inv'
  <2> SUFFICES ASSUME Inv, [MCNext]_<<vars, listVars, observerVars, evidenceVars, part>>
               PROVE  Inv'
    OBVIOUS
  <2>1. CASE Lists(List!Next)
    BY <2>1, ListStep DEF Lists, ListInv
  <2>2. CASE UNCHANGED listVars /\ part' = part /\ (part = "list" => UNCHANGED now)
    <3>1. ServerListHonest'
      BY <2>2 DEF listVars, ServerListHonest, List!ServerListHonest, List!ControlledGivesWay,
         List!LiveAnswersAreReal, List!OldOnlyWhenAllFailed
    <3>2. part = "list" => ListInv'
      BY <2>2, <3>1 DEF listVars, ListInv, RowFits, AskedFits
    <3> QED
      BY <2>2, <3>1, <3>2
  <2> QED
    BY <2>1, <2>2 DEF MCNext, Reads, Observes, AddsUp, vars, serviceVars, listVars
<1> QED
  BY <1>1, <1>2, PTL DEF MCSpec

-----------------------------------------------------------------------------
(***************************************************************************)
(* The parity observer follows every match and explains its reports, for   *)
(* any matches, layers, kills, tolerances and failures.                    *)
(***************************************************************************)
Shot == Observer!Snapshot
MatchId == 1..MaxMatch
Newest == Len(played)
PlayedRecord == [layer : Layers, start : Nat, ended : Nat \cup {None}]

\* What CRCON holds.
WorldFits ==
  /\ now \in Nat
  /\ played \in Seq(PlayedRecord) /\ Newest \in MatchId
  /\ \A m \in MatchId : m < Newest => played[m].ended # None
  /\ IsFiniteSet(kills) /\ kills \subseteq MatchId \X Nat /\ \A k \in kills : k[2] <= now
  /\ listed \subseteq 1..Newest

\* The counters of a snapshot were CRCON's at the instant they were read at, and
\* were read after it was observed unless it is an older one under a new time.
CountersFit(of, read, count) ==
  /\ of <= Newest /\ read <= now
  /\ count = Observer!KillsUntil(kills, of, read)
ShotFits(s) ==
  /\ s \in Shot /\ s.id <= Newest /\ s.observed <= now
  /\ s.players => CountersFit(s.of, s.read, s.kills)
  /\ s.players /\ ~s.stale => s.observed <= s.read

\* The service's snapshots are of the match the machine holds current.
ServiceFits ==
  /\ lastSnapshot # None => ShotFits(lastSnapshot)
  /\ machine.current = IF lastSnapshot = None THEN None ELSE lastSnapshot.id
  /\ snapshot # None => /\ snapshot \in Observer!Entry /\ ShotFits(snapshot.value)
                        /\ lastSnapshot # None /\ snapshot.value.id = lastSnapshot.id
  /\ liveStats # None => /\ liveStats \in Observer!Live
                         /\ CountersFit(liveStats.of, liveStats.read, liveStats.kills)
                         /\ snapshot # None => snapshot.value.observed <= liveStats.read
  /\ publicError \in BOOLEAN /\ liveError \in BOOLEAN

\* A poll between its two reads.
ReadingFits ==
  /\ poll \in {"wait", "stats"}
  /\ reading \in [info : MatchId \cup {None, Failure}, observed : Nat]
  /\ reading.observed <= now
  /\ reading.info \in MatchId =>
       /\ reading.info <= Newest
       /\ lastSnapshot # None => lastSnapshot.id <= reading.info

\* The state machine: no transition is begun without a current match.
MachineFits ==
  /\ machine \in [current : MatchId \cup {None}, nextPending : BOOLEAN,
                  endedWithoutNext : BOOLEAN]
  /\ ~machine.endedWithoutNext
  /\ machine.current = None => ~machine.nextPending
  /\ transitionAt \in Nat \cup {None}
  /\ machine.nextPending <=> transitionAt # None

Ended == pending \cup {r.match : r \in reports}

\* What was seen, and what of it has ended: the matches before the current one.
SeenFits ==
  /\ lastLive \in [MatchId -> Shot \cup {None}]
  /\ \A m \in MatchId : lastLive[m] # None => ShotFits(lastLive[m]) /\ lastLive[m].id = m
  /\ machine.current # None => lastLive[machine.current] # None
  /\ todo \subseteq pending
  /\ Ended \subseteq MatchId
  /\ \A m \in Ended : /\ lastLive[m] # None
                      /\ machine.current # None /\ m < machine.current
  /\ \A r \in reports : r.map \in 1..Newest

ObserverInv ==
  /\ WorldFits /\ ServiceFits /\ ReadingFits /\ MachineFits /\ SeenFits
  /\ Observer!MatchesAccounted
  /\ ReportsExplained

LEMMA ObserverBounds ==
  /\ Tolerance \in Nat /\ Window \in Nat /\ Second \in Nat \ {0}
  /\ SnapshotTtl \in Nat \ {0} /\ MaxNow \in Nat /\ MaxMatch \in Nat \ {0} /\ MaxKills \in Nat
  /\ Failure \notin Nat \cup {None} /\ None \notin Nat
  /\ None \notin Observer!Live /\ None \notin Shot /\ None \notin Observer!Entry
BY ObserverAssumption DEF Observer!ObserverParameters, Observer!VerifierParameters, Shot

\* The invariant is stronger than EveryMatchFollowed.
LEMMA Followed == ObserverInv => EveryMatchFollowed
<1> SUFFICES ASSUME ObserverInv PROVE EveryMatchFollowed
  OBVIOUS
<1>1. Observer!ConvergenceFromItsTransition
  BY DEF ObserverInv, MachineFits, Observer!ConvergenceFromItsTransition
<1>2. ASSUME NEW m \in Ended
      PROVE  machine.current # m /\ lastLive[m] # None /\ played[m].ended # None
  <2>1. /\ m \in MatchId /\ lastLive[m] # None /\ machine.current # None /\ m < machine.current
    BY DEF ObserverInv, SeenFits
  <2>2. machine.current <= Newest /\ machine.current \in MatchId /\ Newest \in MatchId
    BY <2>1 DEF ObserverInv, ServiceFits, ShotFits, WorldFits, MachineFits
  <2>3. m < Newest /\ machine.current # m
    BY <2>1, <2>2, ObserverBounds DEF MatchId
  <2> QED
    BY <2>1, <2>3 DEF ObserverInv, WorldFits
<1>3. Observer!EndedStaysEnded
  BY <1>2 DEF Observer!EndedStaysEnded, Ended
<1> QED
  BY <1>1, <1>3 DEF ObserverInv, EveryMatchFollowed, Observer!EveryMatchFollowed

LEMMA InitObserver == now \in Nat /\ Observer!Init => ObserverInv
<1> SUFFICES ASSUME now \in Nat, Observer!Init PROVE ObserverInv
  OBVIOUS
<1>1. PICK l \in Layers : played = <<[layer |-> l, start |-> 0, ended |-> None]>>
  BY DEF Observer!Init
<1>2. WorldFits
  <2>1. [layer |-> l, start |-> 0, ended |-> None] \in PlayedRecord
    BY DEF PlayedRecord
  <2>2. played \in Seq(PlayedRecord) /\ Len(played) = 1
    BY <1>1, <2>1
  <2>3. kills = {} /\ listed = {}
    BY DEF Observer!Init
  <2> QED
    BY <2>2, <2>3, ObserverBounds, FS_EmptySet DEF WorldFits, Newest, MatchId
<1>3. ServiceFits
  BY DEF Observer!Init, ServiceFits
<1>4. ReadingFits
  BY ObserverBounds DEF Observer!Init, ReadingFits, Observer!NothingRead, MatchId
<1>5. MachineFits
  BY DEF Observer!Init, MachineFits
<1>6. SeenFits
  BY DEF Observer!Init, SeenFits, Ended, MatchId, Observer!Matches
<1>7. Observer!MatchesAccounted
  BY DEF Observer!Init, Observer!MatchesAccounted
<1>8. ReportsExplained
  BY DEF Observer!Init, ReportsExplained, Observer!ReportsExplained,
         Observer!ReportOfItsMatch, Observer!UnexplainedHasCause
<1> QED
  BY <1>2, <1>3, <1>4, <1>5, <1>6, <1>7, <1>8 DEF ObserverInv

-----------------------------------------------------------------------------
\* CRCON goes on: matches keep their layer and start, and kills are of now.
WorldGrows ==
  /\ WorldFits' /\ now <= now' /\ Newest <= Newest'
  /\ \A m \in 1..Newest : /\ played'[m].layer = played[m].layer
                          /\ played'[m].start = played[m].start
  /\ kills \subseteq kills' /\ \A k \in kills' : k \in kills \/ k[2] > now

observerRest == <<snapshot, lastSnapshot, publicError, liveError, liveStats, poll, reading,
                  machine, transitionAt, lastLive, pending, reports, todo>>

LEMMA ShotsStay ==
  ASSUME WorldFits, WorldGrows
  PROVE  /\ \A of \in MatchId, read \in Nat, count \in Nat :
              CountersFit(of, read, count) => CountersFit(of, read, count)'
         /\ \A s \in Shot : ShotFits(s) => ShotFits(s)'
<1>1. /\ now \in Nat /\ now' \in Nat /\ Newest \in MatchId /\ Newest' \in MatchId
  BY DEF WorldFits, WorldGrows
<1>2. ASSUME NEW of \in MatchId, NEW read \in Nat, NEW count \in Nat, CountersFit(of, read, count)
      PROVE  CountersFit(of, read, count)'
  <2>1. {k \in kills' : k[1] = of /\ k[2] <= read} = {k \in kills : k[1] = of /\ k[2] <= read}
    <3>1. \A k \in kills' : k[2] \in Nat
      BY DEF WorldGrows, WorldFits
    <3>2. read <= now
      BY <1>2 DEF CountersFit
    <3> QED
      BY <1>1, <3>1, <3>2 DEF WorldGrows
  <2>2. Observer!KillsUntil(kills', of, read) = Observer!KillsUntil(kills, of, read)
    BY <2>1 DEF Observer!KillsUntil
  <2> QED
    BY <1>1, <1>2, <2>2 DEF CountersFit, WorldGrows, MatchId
<1>3. ASSUME NEW s \in Shot, ShotFits(s)
      PROVE  ShotFits(s)'
  <2>1. /\ s.of \in MatchId /\ s.id \in MatchId /\ s.read \in Nat /\ s.observed \in Nat
        /\ s.kills \in Nat
    BY DEF Shot, Observer!Snapshot, Observer!Matches, MatchId
  <2> QED
    BY <1>1, <1>2, <1>3, <2>1 DEF ShotFits, WorldGrows, MatchId
<1> QED
  BY <1>2, <1>3

\* Twins are twins for ever.
LEMMA TwinsStay ==
  ASSUME WorldGrows, NEW m \in 1..Newest, NEW k \in 1..Newest
  PROVE  Observer!Twins(m, k) => Observer!Twins(m, k)'
BY DEF WorldGrows, Observer!Twins

LEMMA WorldKeeps ==
  ASSUME ObserverInv, WorldGrows, UNCHANGED observerRest
  PROVE  ObserverInv'
<1>1. /\ now \in Nat /\ now' \in Nat /\ Newest \in MatchId /\ Newest' \in MatchId
  BY DEF WorldFits, WorldGrows, ObserverInv
<1>2. /\ \A of \in MatchId, read \in Nat, count \in Nat :
           CountersFit(of, read, count) => CountersFit(of, read, count)'
      /\ \A s \in Shot : ShotFits(s) => ShotFits(s)'
  BY ShotsStay DEF ObserverInv
<1>3. ServiceFits'
  <2>1. lastSnapshot # None => ShotFits(lastSnapshot)'
    BY <1>2 DEF ObserverInv, ServiceFits, ShotFits, observerRest
  <2>2. snapshot # None => ShotFits(snapshot.value)'
    BY <1>2 DEF ObserverInv, ServiceFits, ShotFits, observerRest
  <2>3. liveStats # None => CountersFit(liveStats.of, liveStats.read, liveStats.kills)'
    BY <1>2 DEF ObserverInv, ServiceFits, Observer!Live, Observer!Matches, MatchId, observerRest
  <2> QED
    BY <2>1, <2>2, <2>3 DEF ObserverInv, ServiceFits, observerRest
<1>4. ReadingFits'
  BY <1>1 DEF ObserverInv, ReadingFits, observerRest, WorldGrows, MatchId
<1>5. MachineFits'
  BY DEF ObserverInv, MachineFits, observerRest
<1>6. SeenFits'
  <2>1. \A m \in MatchId : lastLive[m] # None => ShotFits(lastLive[m])'
    BY <1>2 DEF ObserverInv, SeenFits, ShotFits, observerRest
  <2>2. \A r \in reports : r.map \in 1..Newest'
    BY <1>1 DEF ObserverInv, SeenFits, WorldGrows, MatchId
  <2> QED
    BY <2>1, <2>2 DEF ObserverInv, SeenFits, observerRest, Ended
<1>7. \A m \in MatchId : lastLive[m] # None => m \in 1..Newest
  BY <1>1 DEF ObserverInv, SeenFits, ShotFits, MatchId
<1>8. \A r \in reports : r.map \in 1..Newest /\ r.match \in 1..Newest
  <2>1. \A r \in reports : r.match \in MatchId /\ lastLive[r.match] # None
    BY DEF ObserverInv, SeenFits, Ended
  <2> QED
    BY <1>7, <2>1 DEF ObserverInv, SeenFits
<1>9. Observer!MatchesAccounted'
  BY <1>7, <1>8, TwinsStay DEF ObserverInv, Observer!MatchesAccounted, observerRest,
     Observer!Matches, MatchId
<1>10. Observer!ReportOfItsMatch'
  BY <1>8, TwinsStay DEF ObserverInv, ReportsExplained, Observer!ReportsExplained,
     Observer!ReportOfItsMatch, observerRest
<1>11. Observer!UnexplainedHasCause'
  BY <1>8 DEF ObserverInv, ReportsExplained, Observer!ReportsExplained,
     Observer!UnexplainedHasCause, observerRest, WorldGrows
<1> QED
  BY <1>3, <1>4, <1>5, <1>6, <1>9, <1>10, <1>11
     DEF ObserverInv, WorldGrows, ReportsExplained, Observer!ReportsExplained

LEMMA WorldStepKeeps ==
  ASSUME ObserverInv,
         Observer!Tick \/ Observer!MatchEnds \/ Observer!NextMatch \/ Observer!Lists
  PROVE  ObserverInv'
<1>1. /\ now \in Nat /\ Newest \in MatchId /\ WorldFits /\ played \in Seq(PlayedRecord)
      /\ IsFiniteSet(kills) /\ kills \subseteq MatchId \X Nat
  BY DEF ObserverInv, WorldFits
<1>2. UNCHANGED observerRest
  BY DEF Observer!Tick, Observer!MatchEnds, Observer!NextMatch, Observer!Lists,
     Observer!service, Observer!runtime, observerRest
<1>3. CASE Observer!Tick
  <2>1. now' = now + 1 /\ played' = played /\ listed' = listed
    BY <1>3 DEF Observer!Tick
  <2>2. kills' = kills \/ kills' = kills \cup {<<Newest, now + 1>>}
    BY <1>3 DEF Observer!Tick, Observer!Playing, Newest
  <2>3. IsFiniteSet(kills')
    <3>1. IsFiniteSet(kills \cup {<<Newest, now + 1>>})
      BY <1>1, FS_AddElement
    <3> QED
      BY <1>1, <2>2, <3>1
  <2>4. kills' \subseteq MatchId \X Nat /\ \A k \in kills' : k[2] <= now'
    BY <1>1, <2>1, <2>2 DEF WorldFits
  <2>5. \A k \in kills' : k \in kills \/ k[2] > now
    BY <1>1, <2>2
  <2>6. WorldGrows
    BY <1>1, <2>1, <2>2, <2>3, <2>4, <2>5 DEF WorldGrows, WorldFits, Newest, MatchId
  <2> QED
    BY <1>2, <2>6, WorldKeeps
<1>4. CASE Observer!MatchEnds
  <2>1. played' = [played EXCEPT ![Newest].ended = now] /\ UNCHANGED <<now, kills, listed>>
    BY <1>4 DEF Observer!MatchEnds, Observer!Playing, Newest
  <2>2. played' \in Seq(PlayedRecord) /\ Len(played') = Len(played)
    <3> DEFINE over == [played[Newest] EXCEPT !.ended = now]
    <3>1. played[Newest] \in PlayedRecord
      BY <1>1 DEF Newest, MatchId
    <3>2. over \in PlayedRecord
      BY <1>1, <3>1 DEF PlayedRecord
    <3>3. played' = [played EXCEPT ![Newest] = over]
      BY <2>1
    <3> HIDE DEF over
    <3>4. Len(played) \in Nat /\ played \in [1..Len(played) -> PlayedRecord]
      BY <1>1
    <3>5. played' \in [1..Len(played) -> PlayedRecord]
      BY <3>2, <3>3, <3>4
    <3>6. played' \in Seq(PlayedRecord)
      BY <3>4, <3>5
    <3>7. DOMAIN played' = 1..Len(played)
      BY <3>5
    <3> QED
      BY <3>4, <3>6, <3>7
  <2>3. \A m \in 1..Newest : /\ played'[m].layer = played[m].layer
                             /\ played'[m].start = played[m].start
                             /\ m # Newest => played'[m] = played[m]
    BY <1>1, <2>1 DEF Newest, PlayedRecord
  <2>4. \A m \in MatchId : m < Newest => played'[m].ended # None
    BY <1>1, <2>3 DEF WorldFits, MatchId
  <2>5. WorldGrows
    BY <1>1, <2>1, <2>2, <2>3, <2>4 DEF WorldGrows, WorldFits, Newest, MatchId
  <2> QED
    BY <1>2, <2>5, WorldKeeps
<1>5. CASE Observer!NextMatch
  <2>1. /\ Newest < MaxMatch /\ UNCHANGED <<now, kills, listed>>
        /\ \A m \in 1..Newest : played[m].ended # None
    BY <1>5 DEF Observer!NextMatch, Observer!Playing, Newest, Observer!Identified
  <2>2. PICK l \in Layers :
          played' = Append(played, [layer |-> l, start |-> now, ended |-> None])
    BY <1>5 DEF Observer!NextMatch
  <2>3. /\ played' \in Seq(PlayedRecord) /\ Newest' = Newest + 1
        /\ \A m \in 1..Newest : played'[m] = played[m]
    BY <1>1, <2>2 DEF PlayedRecord, Newest
  <2>4. Newest' \in MatchId /\ \A m \in MatchId : m < Newest' => played'[m].ended # None
    BY <1>1, <2>1, <2>3, ObserverBounds DEF MatchId
  <2>5. listed' \subseteq 1..Newest'
    BY <1>1, <2>1, <2>3 DEF WorldFits, MatchId
  <2>6. WorldGrows
    BY <1>1, <2>1, <2>3, <2>4, <2>5 DEF WorldGrows, WorldFits, MatchId
  <2> QED
    BY <1>2, <2>6, WorldKeeps
<1>6. CASE Observer!Lists
  <2>1. UNCHANGED <<now, played, kills>> /\ listed' \subseteq 1..Newest
    BY <1>1, <1>6 DEF Observer!Lists, Observer!Playing, Newest, WorldFits
  <2>2. WorldGrows
    BY <1>1, <2>1 DEF WorldGrows, WorldFits, Newest, MatchId
  <2> QED
    BY <1>2, <2>2, WorldKeeps
<1> QED
  BY <1>3, <1>4, <1>5, <1>6

-----------------------------------------------------------------------------
\* The observation of a poll is kept unless a later one is.
LEMMA RecordedShot ==
  ASSUME SeenFits, NEW s \in Shot, ShotFits(s),
         lastLive' = Observer!Recorded(lastLive, s), UNCHANGED <<now, played, kills>>
  PROVE  /\ lastLive' \in [MatchId -> Shot \cup {None}]
         /\ \A m \in MatchId : lastLive'[m] # None => ShotFits(lastLive[m])' /\ lastLive'[m].id = m
         /\ \A m \in MatchId : lastLive'[m] # None <=> lastLive[m] # None \/ m = s.id
<1>1. s.id \in MatchId /\ s # None
  BY ObserverBounds DEF Shot, Observer!Snapshot, Observer!Matches, MatchId
<1>2. \/ lastLive' = [lastLive EXCEPT ![s.id] = s]
      \/ lastLive' = lastLive /\ lastLive[s.id] # None
  BY DEF Observer!Recorded, Observer!KeepsSnapshot
<1>3. \A x \in Shot : ShotFits(x) => ShotFits(x)'
  BY DEF ShotFits, CountersFit, Newest
<1>4. lastLive \in [MatchId -> Shot \cup {None}]
  BY DEF SeenFits
<1>5. CASE lastLive' = [lastLive EXCEPT ![s.id] = s]
  <2>1. /\ lastLive' \in [MatchId -> Shot \cup {None}] /\ lastLive'[s.id] = s
        /\ \A m \in MatchId : m # s.id => lastLive'[m] = lastLive[m]
    BY <1>1, <1>4, <1>5
  <2> QED
    BY <1>1, <1>3, <2>1 DEF SeenFits
<1>6. CASE lastLive' = lastLive /\ lastLive[s.id] # None
  BY <1>1, <1>3, <1>4, <1>6 DEF SeenFits
<1> QED
  BY <1>2, <1>5, <1>6

\* What a poll without a snapshot does: there has been none yet.
LEMMA NothingSeen ==
  ASSUME MachineFits, machine.current = None, NEW t, NEW outage \in BOOLEAN,
         Observer!Proceeds(None, t, outage)
  PROVE  /\ machine'.current = None /\ ~machine'.nextPending /\ ~machine'.endedWithoutNext
         /\ machine' \in [current : MatchId \cup {None}, nextPending : BOOLEAN,
                          endedWithoutNext : BOOLEAN]
         /\ transitionAt' = transitionAt /\ pending' = pending /\ lastLive' = lastLive
<1> DEFINE happened == Observer!Lifecycle(None, outage)
<1>1. /\ machine' = happened.machine
      /\ transitionAt' = Observer!TransitionFrom(happened.event, t)
      /\ pending' = Observer!PendingAfter(happened.event)
      /\ lastLive' = lastLive
  BY DEF Observer!Proceeds
<1>2. /\ machine \in [current : MatchId \cup {None}, nextPending : BOOLEAN, endedWithoutNext : BOOLEAN]
      /\ ~machine.nextPending /\ ~machine.endedWithoutNext
  BY DEF MachineFits
<1>3. /\ happened.event = [state |-> "PRE_MATCH", match |-> None, ended |-> None]
      /\ \/ happened.machine = machine
         \/ happened.machine = [current |-> None, nextPending |-> FALSE, endedWithoutNext |-> FALSE]
  <2>1. CASE outage
    BY <2>1 DEF Observer!Lifecycle, Observer!Outcome, Observer!Outage, Observer!Happened
  <2>2. CASE ~outage
    <3>1. happened = Observer!Outcome(Observer!Seen(None), Observer!Told(None))
      BY <2>2 DEF Observer!Lifecycle
    <3>2. Observer!Told(None) = [state |-> "PRE_MATCH", match |-> None, ended |-> None]
      BY DEF Observer!Told, Observer!Happened
    <3>3. Observer!Seen(None) = [current |-> None, nextPending |-> FALSE, endedWithoutNext |-> FALSE]
      BY <1>2 DEF Observer!Seen
    <3> QED
      BY <3>1, <3>2, <3>3 DEF Observer!Outcome
  <2> QED
    BY <2>1, <2>2
<1> HIDE DEF happened
<1>4. machine' = machine
      \/ machine' = [current |-> None, nextPending |-> FALSE, endedWithoutNext |-> FALSE]
  BY <1>1, <1>3
<1>5. pending' = pending /\ transitionAt' = transitionAt
  BY <1>1, <1>3 DEF Observer!PendingAfter, Observer!TransitionFrom
<1> QED
  BY <1>1, <1>2, <1>4, <1>5

\* What a poll with a snapshot does: the machine is at its match, and the match
\* before, if another, has ended.
LEMMA SnapshotSeen ==
  ASSUME MachineFits, NEW s \in Shot, NEW t \in Nat, NEW outage \in BOOLEAN,
         Observer!Proceeds(s, t, outage)
  PROVE  /\ machine' \in [current : MatchId \cup {None}, nextPending : BOOLEAN,
                          endedWithoutNext : BOOLEAN]
         /\ machine'.current = s.id /\ ~machine'.endedWithoutNext
         /\ transitionAt' \in Nat \cup {None}
         /\ machine'.nextPending <=> transitionAt' # None
         /\ pending' = pending \cup ({machine.current} \ {None, s.id})
         /\ lastLive' = Observer!Recorded(lastLive, s)
<1>0. s.id \in MatchId /\ s # None /\ s.id # None /\ None \notin Nat
  BY ObserverBounds DEF Shot, Observer!Snapshot, Observer!Matches, MatchId
<1> DEFINE happened == Observer!Lifecycle(s, outage)
<1>1. /\ machine' = happened.machine
      /\ transitionAt' = Observer!TransitionFrom(happened.event, t)
      /\ pending' = Observer!PendingAfter(happened.event)
      /\ lastLive' = Observer!Recorded(lastLive, s)
  BY <1>0 DEF Observer!Proceeds
<1>2. /\ machine \in [current : MatchId \cup {None}, nextPending : BOOLEAN, endedWithoutNext : BOOLEAN]
      /\ ~machine.endedWithoutNext
      /\ machine.current = None => ~machine.nextPending
      /\ machine.nextPending <=> transitionAt # None
      /\ transitionAt \in Nat \cup {None}
  BY DEF MachineFits
<1>3. happened = [machine |-> Observer!Seen(s.id), event |-> Observer!Told(s.id)]
  BY <1>0 DEF Observer!Lifecycle, Observer!Outcome
<1>4. /\ machine' = Observer!Seen(s.id)
      /\ transitionAt' = Observer!TransitionFrom(Observer!Told(s.id), t)
      /\ pending' = pending \cup ({Observer!Told(s.id).ended} \ {None})
  BY <1>1, <1>3 DEF Observer!PendingAfter
<1> HIDE DEF happened
<1>5. machine' = [current |-> s.id,
                  nextPending |-> IF machine.current = None THEN machine.nextPending
                                  ELSE s.id # machine.current,
                  endedWithoutNext |-> FALSE]
  BY <1>0, <1>2, <1>4 DEF Observer!Seen
<1>6. CASE machine.current = None
  <2>1. Observer!Told(s.id) = [state |-> "MATCH_RUNNING", match |-> s.id, ended |-> None]
    BY <1>0, <1>2, <1>6 DEF Observer!Told, Observer!Happened
  <2>2. transitionAt' = transitionAt /\ pending' = pending
    BY <1>4, <2>1 DEF Observer!TransitionFrom
  <2> QED
    BY <1>0, <1>1, <1>2, <1>5, <1>6, <2>2
<1>7. CASE machine.current # None /\ machine.current # s.id
  <2>1. Observer!Told(s.id) = [state |-> "MAP_TRANSITION", match |-> s.id, ended |-> machine.current]
    BY <1>0, <1>7 DEF Observer!Told, Observer!Happened
  <2>2. transitionAt' = t /\ pending' = pending \cup {machine.current}
    BY <1>4, <1>7, <2>1 DEF Observer!TransitionFrom
  <2>3. {machine.current} \ {None, s.id} = {machine.current}
    BY <1>7
  <2>4. machine'.nextPending = TRUE /\ t # None
    BY <1>0, <1>5, <1>7
  <2>5. /\ machine' \in [current : MatchId \cup {None}, nextPending : BOOLEAN,
                         endedWithoutNext : BOOLEAN]
        /\ machine'.current = s.id /\ ~machine'.endedWithoutNext
    BY <1>0, <1>5, <1>7
  <2> QED
    BY <1>1, <2>2, <2>3, <2>4, <2>5
<1>8. CASE machine.current = s.id
  <2>1. Observer!Told(s.id) = [state |-> IF machine.nextPending THEN "NEXT_MATCH" ELSE "MATCH_RUNNING",
                               match |-> s.id, ended |-> None]
    BY <1>0, <1>8 DEF Observer!Told, Observer!Happened
  <2>2. transitionAt' = None /\ pending' = pending
    BY <1>2, <1>4, <2>1 DEF Observer!TransitionFrom
  <2> QED
    BY <1>0, <1>1, <1>2, <1>5, <1>8, <2>2
<1> QED
  BY <1>6, <1>7, <1>8

\* A poll ends: its snapshot, if any, is the newest of the service.
LEMMA ProceedsKeeps ==
  ASSUME ObserverInv, NEW s, NEW t \in Nat, NEW outage \in BOOLEAN,
         Observer!Proceeds(s, t, outage),
         UNCHANGED <<now, played, kills, listed, reports>>,
         \/ s = None /\ lastSnapshot = None /\ lastSnapshot' = None
         \/ /\ s \in Shot /\ ShotFits(s) /\ lastSnapshot' # None /\ lastSnapshot'.id = s.id
            /\ lastSnapshot # None => lastSnapshot.id <= s.id
  PROVE  /\ WorldFits' /\ ReadingFits' /\ MachineFits' /\ SeenFits'
         /\ machine'.current = IF lastSnapshot' = None THEN None ELSE lastSnapshot'.id
         /\ Observer!MatchesAccounted' /\ ReportsExplained'
<1>1. WorldFits' /\ Newest' = Newest /\ \A r \in reports : r.map \in 1..Newest'
  BY DEF ObserverInv, WorldFits, Newest, SeenFits
<1>2. ReportsExplained'
  BY DEF ObserverInv, ReportsExplained, Observer!ReportsExplained, Observer!ReportOfItsMatch,
     Observer!UnexplainedHasCause, Observer!Twins
<1>3. todo' = pending' /\ poll' = "wait" /\ reading' = [info |-> None, observed |-> 0]
  BY DEF Observer!Proceeds, Observer!NothingRead
<1>4. ReadingFits'
  BY <1>1, <1>3, ObserverBounds DEF ReadingFits, WorldFits, MatchId
<1>5. \A m, k : Observer!Twins(m, k) => Observer!Twins(m, k)'
  BY DEF Observer!Twins
<1>6. /\ machine.current = IF lastSnapshot = None THEN None ELSE lastSnapshot.id
      /\ MachineFits /\ SeenFits
  BY DEF ObserverInv, ServiceFits
<1>7. CASE s = None
  <2>1. machine.current = None /\ lastSnapshot' = None
    BY <1>6, <1>7, ObserverBounds
  <2>2. /\ machine'.current = None /\ ~machine'.nextPending /\ ~machine'.endedWithoutNext
        /\ machine' \in [current : MatchId \cup {None}, nextPending : BOOLEAN,
                          endedWithoutNext : BOOLEAN]
        /\ transitionAt' = transitionAt /\ pending' = pending /\ lastLive' = lastLive
    BY <1>6, <1>7, <2>1, NothingSeen
  <2>3. MachineFits'
    BY <1>6, <2>1, <2>2 DEF MachineFits
  <2>4. \A m \in MatchId : lastLive[m] # None => ShotFits(lastLive[m])'
    BY <1>1, <1>6, <2>2 DEF SeenFits, ShotFits, CountersFit
  <2>5. SeenFits'
    BY <1>1, <1>3, <1>6, <2>1, <2>2, <2>4 DEF SeenFits, Ended
  <2>6. Observer!MatchesAccounted'
    BY <1>5, <2>1, <2>2 DEF ObserverInv, Observer!MatchesAccounted
  <2> QED
    BY <1>1, <1>2, <1>4, <2>1, <2>2, <2>3, <2>5, <2>6
<1>8. CASE s # None
  <2>1. /\ s \in Shot /\ ShotFits(s) /\ lastSnapshot' # None /\ lastSnapshot'.id = s.id
        /\ machine.current # None => machine.current <= s.id
    BY <1>6, <1>8
  <2>2. /\ machine' \in [current : MatchId \cup {None}, nextPending : BOOLEAN,
                          endedWithoutNext : BOOLEAN]
        /\ machine'.current = s.id /\ ~machine'.endedWithoutNext
        /\ transitionAt' \in Nat \cup {None}
        /\ machine'.nextPending <=> transitionAt' # None
        /\ pending' = pending \cup ({machine.current} \ {None, s.id})
        /\ lastLive' = Observer!Recorded(lastLive, s)
    BY <1>6, <2>1, SnapshotSeen
  <2>3. s.id \in MatchId /\ s.id # None /\ \A m \in MatchId : m # None
    BY <2>1, ObserverBounds DEF Shot, Observer!Snapshot, Observer!Matches, MatchId
  <2>4. MachineFits'
    BY <2>2, <2>3 DEF MachineFits
  <2>5. /\ lastLive' \in [MatchId -> Shot \cup {None}]
        /\ \A m \in MatchId : lastLive'[m] # None => ShotFits(lastLive[m])' /\ lastLive'[m].id = m
        /\ \A m \in MatchId : lastLive'[m] # None <=> lastLive[m] # None \/ m = s.id
    BY <1>6, <2>1, <2>2, RecordedShot
  <2>6. ASSUME NEW m \in Ended'
        PROVE  m \in MatchId /\ lastLive'[m] # None /\ m < s.id
    <3>1. m \in Ended \/ (m = machine.current /\ m # None /\ m # s.id)
      BY <2>2 DEF Ended
    <3>2. CASE m \in Ended
      <4>1. /\ m \in MatchId /\ lastLive[m] # None /\ machine.current # None
            /\ m < machine.current /\ machine.current \in MatchId
        BY <1>6, <3>2 DEF SeenFits, MachineFits
      <4> QED
        BY <2>1, <2>3, <2>5, <4>1, ObserverBounds DEF MatchId
    <3>3. CASE m = machine.current /\ m # None /\ m # s.id
      <4>1. m \in MatchId /\ lastLive[m] # None /\ m <= s.id
        BY <1>6, <2>1, <3>3 DEF SeenFits, MachineFits
      <4> QED
        BY <2>3, <2>5, <3>3, <4>1, ObserverBounds DEF MatchId
    <3> QED
      BY <3>1, <3>2, <3>3
  <2>7. SeenFits'
    BY <1>1, <1>3, <2>2, <2>3, <2>5, <2>6 DEF SeenFits
  <2>8. Observer!MatchesAccounted'
    <3> SUFFICES ASSUME NEW m \in MatchId, lastLive'[m] # None
                 PROVE  \/ m = machine'.current
                        \/ m \in pending'
                        \/ \E r \in reports' : Observer!Twins(m, r.map)'
      BY DEF Observer!MatchesAccounted, Observer!Matches, MatchId
    <3>1. CASE m = s.id
      BY <2>2, <3>1
    <3>2. CASE m # s.id
      <4>1. lastLive[m] # None
        BY <2>5, <3>2
      <4>2. \/ m = machine.current
            \/ m \in pending
            \/ \E r \in reports : Observer!Twins(m, r.map)
        BY <4>1 DEF ObserverInv, Observer!MatchesAccounted, Observer!Matches, MatchId
      <4> QED
        BY <1>5, <2>2, <2>3, <3>2, <4>2
    <3> QED
      BY <3>1, <3>2
  <2> QED
    BY <1>1, <1>2, <1>4, <2>1, <2>2, <2>4, <2>7, <2>8
<1> QED
  BY <1>7, <1>8

\* A snapshot under newer counters of the service is one of the same match.
LEMMA LiveCombatFits ==
  ASSUME NEW x \in Shot, ShotFits(x), NEW live,
         live # None => /\ live \in Observer!Live /\ CountersFit(live.of, live.read, live.kills)
                        /\ x.observed <= live.read
  PROVE  /\ Observer!WithLiveCombat(x, live) \in Shot
         /\ ShotFits(Observer!WithLiveCombat(x, live))
         /\ Observer!WithLiveCombat(x, live).id = x.id
<1> DEFINE s == Observer!WithLiveCombat(x, live)
<1>1. CASE live = None \/ ~x.players
  BY <1>1 DEF Observer!WithLiveCombat
<1>2. CASE ~(live = None \/ ~x.players)
  <2>1. s = [x EXCEPT !.of = live.of, !.read = live.read, !.kills = live.kills]
    BY <1>2 DEF Observer!WithLiveCombat
  <2>2. live.of \in MatchId /\ live.read \in Nat /\ live.kills \in Nat
    BY <1>2 DEF Observer!Live, Observer!Matches, MatchId
  <2> HIDE DEF s
  <2>3. /\ s \in Shot /\ s.id = x.id /\ s.observed = x.observed /\ s.stale = x.stale
        /\ s.of = live.of /\ s.read = live.read /\ s.kills = live.kills
    BY <2>1, <2>2 DEF Shot, Observer!Snapshot, Observer!Matches, MatchId
  <2>4. ShotFits(s)
    BY <1>2, <2>3 DEF ShotFits
  <2> QED
    BY <2>3, <2>4 DEF s
<1> QED
  BY <1>1, <1>2

LEMMA PollCachedKeeps ==
  ASSUME ObserverInv, Observer!PollCached
  PROVE  ObserverInv'
<1> DEFINE s == Observer!WithLiveCombat(snapshot.value, liveStats)
<1>1. /\ Observer!Hit /\ Observer!Proceeds(s, now, publicError \/ liveError)
      /\ UNCHANGED <<now, played, kills, listed, snapshot, lastSnapshot, publicError, liveError,
                     liveStats, reports>>
  BY DEF Observer!PollCached, Observer!world, Observer!service
<1>2. /\ snapshot # None /\ snapshot.value \in Shot /\ ShotFits(snapshot.value)
      /\ lastSnapshot # None /\ snapshot.value.id = lastSnapshot.id /\ lastSnapshot.id \in Nat
      /\ now \in Nat /\ (publicError \/ liveError) \in BOOLEAN
  BY <1>1 DEF ObserverInv, ServiceFits, WorldFits, Observer!Hit, Observer!Entry, Shot,
     Observer!Snapshot, Observer!Matches
<1>3. s \in Shot /\ ShotFits(s) /\ s.id = lastSnapshot.id
  BY <1>2, LiveCombatFits DEF ObserverInv, ServiceFits
<1> HIDE DEF s
<1>4. /\ WorldFits' /\ ReadingFits' /\ MachineFits' /\ SeenFits'
      /\ machine'.current = IF lastSnapshot' = None THEN None ELSE lastSnapshot'.id
      /\ Observer!MatchesAccounted' /\ ReportsExplained'
  <2>1. /\ lastSnapshot' # None /\ lastSnapshot'.id = s.id
        /\ lastSnapshot # None => lastSnapshot.id <= s.id
    BY <1>1, <1>2, <1>3
  <2> QED
    BY <1>1, <1>2, <1>3, <2>1, ProceedsKeeps
<1>5. ServiceFits'
  BY <1>1, <1>4 DEF ObserverInv, ServiceFits, ShotFits, CountersFit, Newest
<1> QED
  BY <1>4, <1>5 DEF ObserverInv

LEMMA PollInfoKeeps ==
  ASSUME ObserverInv, Observer!PollInfo
  PROVE  ObserverInv'
<1>1. PICK info \in {Failure, Newest, None} :
        reading' = [info |-> info, observed |-> now] /\ publicError' = (info = Failure)
  BY DEF Observer!PollInfo, Observer!Named, Observer!Playing, Newest
<1>2. /\ snapshot' = None /\ poll' = "stats"
      /\ UNCHANGED <<now, played, kills, listed, lastSnapshot, liveError, liveStats, machine,
                     transitionAt, lastLive, pending, reports, todo>>
  BY DEF Observer!PollInfo, Observer!world, Observer!runtime
<1>3. WorldFits' /\ Newest' = Newest /\ MachineFits' /\ SeenFits'
  BY <1>2 DEF ObserverInv, WorldFits, Newest, MachineFits, SeenFits, ShotFits, CountersFit, Ended
<1>4. now \in Nat /\ Newest \in MatchId
  BY DEF ObserverInv, WorldFits
<1>5. ReadingFits'
  <2>1. reading' \in [info : MatchId \cup {None, Failure}, observed : Nat]
    BY <1>1, <1>4
  <2>2. reading'.observed = now /\ (reading'.info \in MatchId => reading'.info = Newest)
    BY <1>1, ObserverBounds DEF MatchId
  <2>3. lastSnapshot # None => lastSnapshot.id <= Newest
    BY DEF ObserverInv, ServiceFits, ShotFits
  <2> QED
    BY <1>2, <1>3, <1>4, <2>1, <2>2, <2>3 DEF ReadingFits, MatchId
<1>6. ServiceFits'
  BY <1>1, <1>2 DEF ObserverInv, ServiceFits, ShotFits, CountersFit, Newest
<1>7. Observer!MatchesAccounted' /\ ReportsExplained'
  BY <1>2 DEF ObserverInv, Observer!MatchesAccounted, Observer!Twins, ReportsExplained,
     Observer!ReportsExplained, Observer!ReportOfItsMatch, Observer!UnexplainedHasCause
<1> QED
  BY <1>3, <1>5, <1>6, <1>7 DEF ObserverInv

LEMMA SameCardinality == ASSUME NEW S PROVE Observer!Cardinality(S) = Cardinality(S)
BY DEF Observer!Cardinality, Cardinality

LEMMA KillsAreCounted ==
  ASSUME WorldFits, NEW m, NEW i
  PROVE  Observer!KillsUntil(kills, m, i) \in Nat
<1> DEFINE K == {k \in kills : k[1] = m /\ k[2] <= i}
<1>1. IsFiniteSet(K)
  BY FS_Subset DEF WorldFits
<1>2. Cardinality(K) \in Nat
  BY <1>1, FS_CardinalityType
<1>3. Observer!KillsUntil(kills, m, i) = Cardinality(K)
  BY SameCardinality DEF Observer!KillsUntil
<1> HIDE DEF K
<1> QED
  BY <1>2, <1>3

\* The good snapshot of a refresh, and the counters it was given.
LEMMA GoodFits ==
  ASSUME ObserverInv, NEW failed \in BOOLEAN, reading.info \in MatchId
  PROVE  LET good == [id |-> reading.info, players |-> ~failed,
                      of |-> IF failed THEN reading.info ELSE Newest,
                      read |-> IF failed THEN reading.observed ELSE now,
                      kills |-> IF failed THEN 0 ELSE Observer!KillsUntil(kills, Newest, now),
                      observed |-> reading.observed, stale |-> FALSE]
         IN good \in Shot /\ ShotFits(good) /\ good.observed <= now
<1>1. Observer!KillsUntil(kills, Newest, now) \in Nat
  BY KillsAreCounted DEF ObserverInv
<1>2. /\ now \in Nat /\ Newest \in MatchId /\ reading.observed \in Nat /\ reading.observed <= now
      /\ reading.info <= Newest
  BY DEF ObserverInv, WorldFits, ReadingFits
<1> DEFINE count == Observer!KillsUntil(kills, Newest, now)
           good == [id |-> reading.info, players |-> ~failed,
                    of |-> IF failed THEN reading.info ELSE Newest,
                    read |-> IF failed THEN reading.observed ELSE now,
                    kills |-> IF failed THEN 0 ELSE count,
                    observed |-> reading.observed, stale |-> FALSE]
<1>3. good \in Shot
  BY <1>1, <1>2 DEF Shot, Observer!Snapshot, Observer!Matches, MatchId
<1>4. good.players => CountersFit(good.of, good.read, good.kills) /\ good.read = now
  <2> SUFFICES ASSUME ~failed
               PROVE  CountersFit(good.of, good.read, good.kills) /\ good.read = now
    OBVIOUS
  <2>1. good.of = Newest /\ good.read = now /\ good.kills = count
    OBVIOUS
  <2> HIDE DEF good
  <2> QED
    BY <1>2, <2>1 DEF CountersFit, MatchId
<1>5. good.id = reading.info /\ good.observed = reading.observed
  OBVIOUS
<1>6. ShotFits(good)
  BY <1>2, <1>3, <1>4, <1>5 DEF ShotFits
<1> QED
  BY <1>2, <1>3, <1>5, <1>6

\* A copy of the last good snapshot observed now is one of the same match.
LEMMA StaleFits ==
  ASSUME ObserverInv, lastSnapshot # None
  PROVE  /\ Observer!Stale \in Shot /\ ShotFits(Observer!Stale)
         /\ Observer!Stale.id = lastSnapshot.id /\ Observer!Stale.observed = now
<1>1. lastSnapshot \in Shot /\ ShotFits(lastSnapshot) /\ now \in Nat
  BY DEF ObserverInv, ServiceFits, ShotFits, WorldFits
<1> DEFINE s == Observer!Stale
<1>2. s = [lastSnapshot EXCEPT !.observed = now, !.stale = TRUE]
  BY DEF Observer!Stale
<1> HIDE DEF s
<1>3. /\ s \in Shot /\ s.id = lastSnapshot.id /\ s.observed = now /\ s.stale = TRUE
      /\ s.players = lastSnapshot.players /\ s.of = lastSnapshot.of
      /\ s.read = lastSnapshot.read /\ s.kills = lastSnapshot.kills
  BY <1>1, <1>2 DEF Shot, Observer!Snapshot, Observer!Matches
<1>4. ShotFits(s)
  BY <1>1, <1>3 DEF ShotFits
<1> QED
  BY <1>3, <1>4 DEF s

\* The refresh has a snapshot x of a match not before the last one: it is
\* cached, and the poll goes on with it under the counters just read.
LEMMA RefreshedKeeps ==
  ASSUME ObserverInv, NEW x \in Shot, ShotFits(x), NEW live, NEW outage \in BOOLEAN,
         live # None => /\ live \in Observer!Live /\ CountersFit(live.of, live.read, live.kills)
                        /\ x.observed <= live.read,
         snapshot' = Observer!Cached(x), liveStats' = live, liveError' \in BOOLEAN,
         lastSnapshot' # None, lastSnapshot' \in Shot, ShotFits(lastSnapshot'),
         lastSnapshot'.id = x.id,
         lastSnapshot # None => lastSnapshot.id <= x.id,
         Observer!Proceeds(Observer!WithLiveCombat(x, live), reading.observed, outage),
         UNCHANGED <<now, played, kills, listed, publicError, reports>>
  PROVE  ObserverInv'
<1> DEFINE s == Observer!WithLiveCombat(x, live)
<1>1. s \in Shot /\ ShotFits(s) /\ s.id = x.id
  BY LiveCombatFits
<1>2. reading.observed \in Nat /\ now \in Nat /\ SnapshotTtl \in Nat
  BY ObserverBounds DEF ObserverInv, ReadingFits, WorldFits
<1>3. Observer!Proceeds(s, reading.observed, outage)
  OBVIOUS
<1> HIDE DEF s
<1>4. /\ WorldFits' /\ ReadingFits' /\ MachineFits' /\ SeenFits'
      /\ machine'.current = IF lastSnapshot' = None THEN None ELSE lastSnapshot'.id
      /\ Observer!MatchesAccounted' /\ ReportsExplained'
  <2>1. /\ lastSnapshot' # None /\ lastSnapshot'.id = s.id
        /\ lastSnapshot # None => lastSnapshot.id <= s.id
    BY <1>1
  <2> QED
    BY <1>1, <1>2, <1>3, <2>1, ProceedsKeeps
<1>5. snapshot' = [value |-> x, expires |-> now + SnapshotTtl]
  BY DEF Observer!Cached
<1>6. /\ snapshot' \in Observer!Entry /\ snapshot'.value = x
      /\ x.observed <= now
  BY <1>2, <1>5 DEF Observer!Entry, Shot, ShotFits
<1>7. ShotFits(lastSnapshot)' /\ ShotFits(snapshot.value)'
  BY <1>6 DEF ShotFits, CountersFit, Newest
<1>8. live # None => CountersFit(live.of, live.read, live.kills)'
  BY DEF CountersFit, Newest
<1>9. ServiceFits'
  BY <1>4, <1>6, <1>7, <1>8 DEF ServiceFits, ObserverInv
<1> QED
  BY <1>4, <1>9 DEF ObserverInv

LEMMA PollStatsKeeps ==
  ASSUME ObserverInv, Observer!PollStats
  PROVE  ObserverInv'
<1>1. PICK failed \in BOOLEAN :
        LET live == IF failed THEN None
                    ELSE [of |-> Newest, read |-> now,
                          kills |-> Observer!KillsUntil(kills, Newest, now)]
            good == [id |-> reading.info, players |-> ~failed,
                     of |-> IF failed THEN reading.info ELSE Newest,
                     read |-> IF failed THEN reading.observed ELSE now,
                     kills |-> IF failed THEN 0 ELSE live.kills,
                     observed |-> reading.observed, stale |-> FALSE]
            s == IF reading.info \in MatchId THEN good ELSE Observer!Fallback
        IN /\ liveError' = failed
           /\ liveStats' = live
           /\ lastSnapshot' = IF reading.info \in MatchId THEN good ELSE lastSnapshot
           /\ snapshot' = IF s = None THEN None ELSE Observer!Cached(s)
           /\ Observer!Proceeds(IF s = None THEN None ELSE Observer!WithLiveCombat(s, live),
                                reading.observed, publicError \/ failed)
  BY DEF Observer!PollStats, Observer!Playing, Newest, Observer!Matches, MatchId
<1>2. UNCHANGED <<now, played, kills, listed, publicError, reports>>
  BY DEF Observer!PollStats, Observer!world
<1> DEFINE count == Observer!KillsUntil(kills, Newest, now)
           live == IF failed THEN None ELSE [of |-> Newest, read |-> now, kills |-> count]
           good == [id |-> reading.info, players |-> ~failed,
                    of |-> IF failed THEN reading.info ELSE Newest,
                    read |-> IF failed THEN reading.observed ELSE now,
                    kills |-> IF failed THEN 0 ELSE count,
                    observed |-> reading.observed, stale |-> FALSE]
           s == IF reading.info \in MatchId THEN good ELSE Observer!Fallback
           outage == publicError \/ failed
<1>3. /\ liveError' = failed /\ liveStats' = live
      /\ lastSnapshot' = IF reading.info \in MatchId THEN good ELSE lastSnapshot
      /\ snapshot' = IF s = None THEN None ELSE Observer!Cached(s)
      /\ Observer!Proceeds(IF s = None THEN None ELSE Observer!WithLiveCombat(s, live),
                           reading.observed, outage)
  BY <1>1
<1>4. /\ now \in Nat /\ Newest \in MatchId /\ reading.observed \in Nat /\ count \in Nat
      /\ outage \in BOOLEAN /\ reading.observed <= now
  BY KillsAreCounted DEF ObserverInv, WorldFits, ReadingFits, ServiceFits
<1>5. live # None => /\ live \in Observer!Live /\ live.read = now
                     /\ CountersFit(live.of, live.read, live.kills)
  BY <1>4 DEF Observer!Live, Observer!Matches, MatchId, CountersFit
<1>6. CASE reading.info \in MatchId
  <2>1. good \in Shot /\ ShotFits(good) /\ good.observed <= now /\ good.id = reading.info
    BY <1>6, GoodFits
  <2>2. lastSnapshot # None => lastSnapshot.id <= reading.info
    BY <1>6 DEF ObserverInv, ReadingFits
  <2>3. s = good /\ lastSnapshot' = good /\ good # None
    BY <1>3, <1>6, <2>1, ObserverBounds
  <2> HIDE DEF good, live, outage
  <2>4. snapshot' = Observer!Cached(good)
        /\ Observer!Proceeds(Observer!WithLiveCombat(good, live), reading.observed, outage)
    BY <1>3, <2>3
  <2> QED
    BY <1>2, <1>3, <1>4, <1>5, <2>1, <2>2, <2>3, <2>4, RefreshedKeeps
<1>7. CASE reading.info \notin MatchId /\ lastSnapshot # None
  <2> DEFINE old == Observer!Stale
  <2>1. /\ old \in Shot /\ ShotFits(old) /\ old.id = lastSnapshot.id /\ old.observed = now
    BY <1>7, StaleFits
  <2>2. s = old /\ lastSnapshot' = lastSnapshot /\ old # None
    BY <1>3, <1>7, <2>1, ObserverBounds DEF Observer!Fallback
  <2>3. lastSnapshot \in Shot /\ ShotFits(lastSnapshot) /\ lastSnapshot.id <= old.id
    BY <1>7, <2>1 DEF ObserverInv, ServiceFits, ShotFits, Shot, Observer!Snapshot, Observer!Matches
  <2> HIDE DEF old, live, outage, s
  <2>4. snapshot' = Observer!Cached(old)
        /\ Observer!Proceeds(Observer!WithLiveCombat(old, live), reading.observed, outage)
    BY <1>3, <2>2
  <2>5. live # None => old.observed <= live.read
    BY <1>4, <1>5, <2>1
  <2> QED
    BY <1>2, <1>3, <1>4, <1>5, <1>7, <2>1, <2>2, <2>3, <2>4, <2>5, RefreshedKeeps
<1>8. CASE reading.info \notin MatchId /\ lastSnapshot = None
  <2>1. s = None /\ lastSnapshot' = None /\ snapshot' = None
    BY <1>3, <1>8 DEF Observer!Fallback
  <2> HIDE DEF live, outage, s
  <2>2. Observer!Proceeds(None, reading.observed, outage)
    BY <1>3, <2>1
  <2>3. /\ WorldFits' /\ ReadingFits' /\ MachineFits' /\ SeenFits'
        /\ machine'.current = IF lastSnapshot' = None THEN None ELSE lastSnapshot'.id
        /\ Observer!MatchesAccounted' /\ ReportsExplained'
    BY <1>2, <1>4, <1>8, <2>1, <2>2, ProceedsKeeps
  <2>4. liveStats' # None => CountersFit(liveStats.of, liveStats.read, liveStats.kills)'
    BY <1>2, <1>3, <1>5 DEF CountersFit, Newest
  <2>5. ServiceFits'
    BY <1>2, <1>3, <1>5, <2>1, <2>3, <2>4 DEF ServiceFits, ObserverInv
  <2> QED
    BY <2>3, <2>5 DEF ObserverInv
<1> QED
  BY <1>6, <1>7, <1>8

-----------------------------------------------------------------------------
\* Of the finished maps that fit one is the latest, and it is the one picked.
LEMMA Latest ==
  ASSUME NEW n \in Nat, NEW T, T \subseteq 1..n, T # {}
  PROVE  Observer!Max(T) \in T
<1>1. T \subseteq 0..n
  OBVIOUS
<1>2. \E x \in T : \A y \in T : x >= y
  BY <1>1, Largest
<1> QED
  BY <1>2 DEF Observer!Max

\* Instants of different whole seconds: the later second begins after the
\* earlier instant.
LEMMA SecondsApart ==
  ASSUME NEW a \in Int, NEW b \in Int, NEW d \in Nat \ {0}, a > b, a \div d # b \div d
  PROVE  (a \div d) * d > b
<1> DEFINE p == a \div d
           q == b \div d
<1>1. p \in Int /\ p * d <= a /\ a < p * d + d
  OBVIOUS
<1>2. q \in Int /\ q * d <= b /\ b < q * d + d
  OBVIOUS
<1>3. p # q /\ d \in Nat /\ d > 0
  OBVIOUS
<1> HIDE DEF p, q
<1>4. \A x, y \in Int : x >= y + 1 => x * d >= y * d + d
  BY <1>3
<1>5. ~ (q >= p + 1)
  BY <1>1, <1>2, <1>4
<1>6. p >= q + 1
  BY <1>1, <1>2, <1>3, <1>5
<1>7. p * d > b
  BY <1>1, <1>2, <1>4, <1>6
<1> QED
  BY <1>7 DEF p

\* Of the kills of a match, those after the counters were read are evidenced, but
\* for one in the second of the observation.
LEMMA EvidenceCounts ==
  ASSUME WorldFits, NEW m \in 1..Newest, NEW read \in Nat, NEW observed \in Nat,
         observed <= read,
         \A k \in kills : k[1] = m /\ k[2] > observed =>
           (k[2] - played[m].start) \div Second # (observed - played[m].start) \div Second
  PROVE  LET final == Cardinality({k \in kills : k[1] = m})
             before == Observer!KillsUntil(kills, m, read)
             evidenced == Observer!Evidenced(played, kills, m, observed)
         IN /\ final \in Nat /\ before \in Nat /\ evidenced \in Nat
            /\ final - before <= evidenced /\ final >= before
<1> DEFINE A == {k \in kills : k[1] = m}
           B == {k \in kills : k[1] = m /\ k[2] <= read}
           C == {k \in kills : k[1] = m /\ ~(k[2] <= read)}
           E == {k \in kills : /\ k[1] = m
                               /\ ((k[2] - played[m].start) \div Second) * Second
                                    > observed - played[m].start}
<1>1. Observer!KillsUntil(kills, m, read) = Cardinality(B)
  BY SameCardinality DEF Observer!KillsUntil
<1>2. Observer!Evidenced(played, kills, m, observed) = Cardinality(E)
  BY SameCardinality DEF Observer!Evidenced
<1>3. IsFiniteSet(A) /\ IsFiniteSet(B) /\ IsFiniteSet(C) /\ IsFiniteSet(E)
  BY FS_Subset DEF WorldFits
<1>4. A = B \cup C /\ B \cap C = {}
  OBVIOUS
<1>5. played[m].start \in Nat /\ \A k \in kills : k[2] \in Nat
  <2>1. played \in Seq(PlayedRecord) /\ kills \subseteq MatchId \X Nat
    BY DEF WorldFits
  <2>2. played[m] \in PlayedRecord
    BY <2>1 DEF Newest
  <2> QED
    BY <2>1, <2>2 DEF PlayedRecord
<1>6. C \subseteq E
  <2> SUFFICES ASSUME NEW k \in kills, k[1] = m, ~(k[2] <= read)
               PROVE  ((k[2] - played[m].start) \div Second) * Second > observed - played[m].start
    OBVIOUS
  <2> DEFINE a == k[2] - played[m].start
             b == observed - played[m].start
  <2>1. a \in Int /\ b \in Int /\ a > b /\ k[2] > observed
    BY <1>5
  <2>2. a \div Second # b \div Second
    BY <2>1
  <2> HIDE DEF a, b
  <2>3. (a \div Second) * Second > b
    BY <2>1, <2>2, SecondsApart, ObserverBounds
  <2> QED
    BY <2>3 DEF a, b
<1> HIDE DEF A, B, C, E
<1>7. /\ Cardinality(A) \in Nat /\ Cardinality(B) \in Nat /\ Cardinality(C) \in Nat
      /\ Cardinality(E) \in Nat /\ Cardinality(C) <= Cardinality(E)
  BY <1>3, <1>6, FS_CardinalityType, FS_Subset
<1>8. Cardinality(A) = Cardinality(B) + Cardinality(C)
  BY <1>3, <1>4, FS_Union, FS_EmptySet, <1>7
<1>9. Cardinality(A) - Cardinality(B) <= Cardinality(E) /\ Cardinality(A) >= Cardinality(B)
  BY <1>7, <1>8
<1> QED
  BY <1>1, <1>2, <1>7, <1>9 DEF A

\* The finished map picked for a match is it or a twin of it.
LEMMA PickedTwin ==
  ASSUME WorldFits, NEW live \in Shot, live.id <= Newest,
         Observer!PickedMap(played, listed, live) # None
  PROVE  /\ Observer!PickedMap(played, listed, live) \in 1..Newest
         /\ Observer!Twins(live.id, Observer!PickedMap(played, listed, live))
<1> DEFINE fitting == {x \in listed : Observer!CouldBe(played, x, live)}
           k == Observer!PickedMap(played, listed, live)
<1>1. fitting # {} /\ k = Observer!Max(fitting)
  BY DEF Observer!PickedMap
<1>2. fitting \subseteq 1..Newest /\ Newest \in Nat
  <2>1. listed \subseteq 1..Newest /\ Newest \in Nat
    BY DEF WorldFits, MatchId
  <2> QED
    BY <2>1
<1>3. k \in fitting
  BY <1>1, <1>2, Latest
<1>4. Observer!CouldBe(played, k, live) /\ k \in 1..Newest
  BY <1>2, <1>3
<1> HIDE DEF k, fitting
<1>5. live.id \in 1..Newest
  BY <1>2 DEF Shot, Observer!Snapshot, Observer!Matches
<1>6. \A x \in 1..Newest : played[x].start \in Nat
  <2>1. \A x \in 1..Newest : played[x] \in PlayedRecord
    BY DEF WorldFits, Newest
  <2> QED
    BY <2>1 DEF PlayedRecord
<1>7. Observer!Twins(live.id, k)
  BY <1>4, <1>5, <1>6 DEF Observer!CouldBe, Observer!Twins, Observer!Apart
<1> QED
  BY <1>4, <1>7 DEF k

\* A difference the report does not explain has one of the causes named.
LEMMA VerdictHasCause ==
  ASSUME WorldFits, NEW live \in Shot, ShotFits(live), NEW k \in 1..Newest, NEW told \in BOOLEAN,
         Observer!FinalReport(played, kills, live, k, told).verdict = "unexplained"
  PROVE  \/ live.stale
         \/ live.of # live.id
         \/ k # live.id
         \/ ~told
         \/ \E x \in kills : /\ x[1] = k
                             /\ x[2] > live.observed
                             /\ (x[2] - played[k].start) \div Second
                                = (live.observed - played[k].start) \div Second
<1> SUFFICES ASSUME ~live.stale, live.of = live.id, k = live.id, told,
                    \A x \in kills : x[1] = k /\ x[2] > live.observed =>
                      (x[2] - played[k].start) \div Second
                        # (live.observed - played[k].start) \div Second
             PROVE  FALSE
  BY DEF Shot, Observer!Snapshot
<1> DEFINE final == Cardinality({x \in kills : x[1] = k})
           before == Observer!KillsUntil(kills, k, live.read)
           evidenced == Observer!Evidenced(played, kills, k, live.observed)
           close == Observer!Later(live.observed, played[k].ended) <= Window
<1>1. Observer!Verdict(live, final, close, evidenced) = "unexplained"
  BY SameCardinality DEF Observer!FinalReport
<1>2. live.players
  BY <1>1 DEF Observer!Verdict
<1>3. live.kills = before /\ live.observed <= live.read
  BY <1>2 DEF ShotFits, CountersFit
<1>4. live.observed \in Nat /\ live.read \in Nat
  BY DEF Shot, Observer!Snapshot
<1>5. /\ final \in Nat /\ before \in Nat /\ evidenced \in Nat
      /\ final - before <= evidenced /\ final >= before
  BY <1>3, <1>4, EvidenceCounts
<1> HIDE DEF final, before, evidenced, close
<1>6. final # live.kills /\ ~(final > live.kills /\ (~close \/ evidenced >= final - live.kills))
  BY <1>1, <1>2 DEF Observer!Verdict
<1> QED
  BY <1>3, <1>5, <1>6

LEMMA VerifyKeeps ==
  ASSUME ObserverInv, Observer!Verify
  PROVE  ObserverInv'
<1>1. PICK m \in todo, answers \in BOOLEAN, told \in BOOLEAN :
        LET live == lastLive[m]
            k == IF live = None \/ ~answers THEN None
                 ELSE Observer!PickedMap(played, listed, live)
        IN /\ todo' = todo \ {m}
           /\ pending' = IF k = None THEN pending ELSE pending \ {m}
           /\ reports' = IF k = None THEN reports
                         ELSE Observer!WithReport(
                                Observer!FinalReport(played, kills, live, k, told))
  BY DEF Observer!Verify
<1>2. UNCHANGED <<now, played, kills, listed, snapshot, lastSnapshot, publicError, liveError,
                  liveStats, poll, reading, machine, transitionAt, lastLive>>
  BY DEF Observer!Verify, Observer!world, Observer!service
<1>3. m \in Ended /\ m \in MatchId /\ SeenFits /\ WorldFits
  BY DEF ObserverInv, SeenFits, Ended
<1> DEFINE live == lastLive[m]
           k == IF live = None \/ ~answers THEN None
                ELSE Observer!PickedMap(played, listed, live)
           r == Observer!FinalReport(played, kills, live, k, told)
<1>4. live \in Shot /\ ShotFits(live) /\ live.id = m /\ live # None
  BY <1>3 DEF SeenFits
<1>5. /\ todo' = todo \ {m}
      /\ pending' = IF k = None THEN pending ELSE pending \ {m}
      /\ reports' = IF k = None THEN reports ELSE Observer!WithReport(r)
  BY <1>1
<1>6. k # None => k \in 1..Newest /\ Observer!Twins(m, k)
  BY <1>3, <1>4, PickedTwin DEF ShotFits
<1>7. r.match = m /\ r.map = k /\ r.live = live /\ r.told = told
  BY <1>4 DEF Observer!FinalReport
<1>8. k # None /\ r.verdict = "unexplained" =>
        \/ r.live.stale
        \/ r.live.of # r.match
        \/ r.map # r.match
        \/ ~r.told
        \/ \E x \in kills : /\ x[1] = r.map
                            /\ x[2] > r.live.observed
                            /\ (x[2] - played[r.map].start) \div Second
                               = (r.live.observed - played[r.map].start) \div Second
  <2> SUFFICES ASSUME k # None, r.verdict = "unexplained"
               PROVE  \/ live.stale
                      \/ live.of # m
                      \/ k # m
                      \/ ~told
                      \/ \E x \in kills : /\ x[1] = k
                                          /\ x[2] > live.observed
                                          /\ (x[2] - played[k].start) \div Second
                                             = (live.observed - played[k].start) \div Second
    BY <1>7
  <2>1. k \in 1..Newest
    BY <1>6
  <2> HIDE DEF live, k
  <2> QED
    BY <1>3, <1>4, <2>1, VerdictHasCause
<1> HIDE DEF live, k, r
<1>9. \/ pending' = pending /\ reports' = reports
      \/ /\ pending' = pending \ {m} /\ reports' \in {reports, reports \cup {r}}
         /\ k # None /\ \E x \in reports' : x.map = k
  BY <1>5, <1>7 DEF Observer!WithReport
<1>10. reports' = reports \/ (reports' = reports \cup {r} /\ k # None)
  BY <1>9
<1>11. \A x, y : Observer!Twins(x, y) => Observer!Twins(x, y)'
  BY <1>2 DEF Observer!Twins
<1>12. WorldFits' /\ ServiceFits' /\ ReadingFits' /\ MachineFits' /\ Newest' = Newest
  BY <1>2 DEF ObserverInv, WorldFits, ServiceFits, ReadingFits, MachineFits, ShotFits, CountersFit,
     Newest
<1>13. SeenFits'
  <2>1. todo' \subseteq pending' /\ Ended' \subseteq Ended
    BY <1>3, <1>5, <1>7, <1>10 DEF SeenFits, Ended
  <2>2. \A x \in reports' : x.map \in 1..Newest'
    BY <1>3, <1>6, <1>7, <1>10, <1>12 DEF SeenFits
  <2>3. \A x \in MatchId : lastLive[x] # None => ShotFits(lastLive[x])'
    BY <1>2, <1>3, <1>12 DEF SeenFits, ShotFits, CountersFit
  <2> QED
    BY <1>2, <1>3, <2>1, <2>2, <2>3 DEF SeenFits
<1>14. Observer!MatchesAccounted'
  <2> SUFFICES ASSUME NEW x \in MatchId, lastLive[x] # None
               PROVE  \/ x = machine.current
                      \/ x \in pending'
                      \/ \E y \in reports' : Observer!Twins(x, y.map)'
    BY <1>2 DEF Observer!MatchesAccounted, Observer!Matches, MatchId
  <2>1. \/ x = machine.current
        \/ x \in pending
        \/ \E y \in reports : Observer!Twins(x, y.map)
    BY DEF ObserverInv, Observer!MatchesAccounted, Observer!Matches, MatchId
  <2>2. CASE x = m /\ k # None /\ \E y \in reports' : y.map = k
    <3>1. PICK y \in reports' : y.map = k
      BY <2>2
    <3>2. Observer!Twins(x, y.map)
      BY <1>6, <2>2, <3>1
    <3> QED
      BY <1>11, <3>1, <3>2
  <2>3. CASE x # m \/ pending' = pending
    <3>1. reports \subseteq reports' /\ (x \in pending => x \in pending')
      BY <1>9, <2>3
    <3>2. CASE \E y \in reports : Observer!Twins(x, y.map)
      <4>1. PICK y \in reports : Observer!Twins(x, y.map)
        BY <3>2
      <4> QED
        BY <1>11, <3>1, <4>1
    <3> QED
      BY <2>1, <3>1, <3>2
  <2> QED
    BY <1>9, <2>2, <2>3
<1>15. Observer!ReportOfItsMatch'
  BY <1>6, <1>7, <1>10, <1>11 DEF ObserverInv, ReportsExplained, Observer!ReportsExplained,
     Observer!ReportOfItsMatch
<1>16. Observer!UnexplainedHasCause'
  BY <1>2, <1>8, <1>10 DEF ObserverInv, ReportsExplained, Observer!ReportsExplained,
     Observer!UnexplainedHasCause
<1> QED
  BY <1>12, <1>13, <1>14, <1>15, <1>16 DEF ObserverInv, ReportsExplained, Observer!ReportsExplained

LEMMA ObserverStep ==
  ASSUME ObserverInv, Observer!Next
  PROVE  ObserverInv'
BY WorldStepKeeps, PollCachedKeeps, PollInfoKeeps, PollStatsKeeps, VerifyKeeps DEF Observer!Next

LEMMA ObserverHolds == MCSpec => [](EveryMatchFollowed /\ ReportsExplained)
<1> DEFINE Inv == /\ EveryMatchFollowed /\ ReportsExplained
                  /\ part = "observer" => ObserverInv
<1>1. MCInit => Inv
  <2> SUFFICES ASSUME MCInit PROVE ObserverInv
    BY Followed DEF ObserverInv
  <2>1. now \in Nat
    BY DEF MCInit, Observer!Init
  <2> QED
    BY <2>1, InitObserver DEF MCInit
<1>2. Inv /\ [MCNext]_<<vars, listVars, observerVars, evidenceVars, part>> => Inv'
  <2> SUFFICES ASSUME Inv, [MCNext]_<<vars, listVars, observerVars, evidenceVars, part>>
               PROVE  Inv'
    OBVIOUS
  <2>1. CASE Observes(Observer!Next)
    <3>1. ObserverInv'
      BY <2>1, ObserverStep DEF Observes
    <3>2. ObserverInv' => EveryMatchFollowed'
      BY Followed, PTL
    <3> QED
      BY <3>1, <3>2 DEF ObserverInv
  <2>2. CASE UNCHANGED observerVars /\ part' = part /\ (part = "observer" => UNCHANGED now)
    <3>1. EveryMatchFollowed' /\ ReportsExplained'
      BY <2>2 DEF observerVars, EveryMatchFollowed, Observer!EveryMatchFollowed,
         Observer!MatchesAccounted, Observer!EndedStaysEnded, Observer!ConvergenceFromItsTransition,
         ReportsExplained, Observer!ReportsExplained, Observer!ReportOfItsMatch,
         Observer!UnexplainedHasCause, Observer!Twins
    <3>2. part = "observer" => ObserverInv'
      <4> SUFFICES ASSUME part = "observer" PROVE ObserverInv'
        OBVIOUS
      <4>1. UNCHANGED <<now, played, kills, listed>> /\ UNCHANGED observerRest
        BY <2>2 DEF observerVars, observerRest
      <4>2. WorldGrows
        BY <4>1 DEF WorldGrows, ObserverInv, WorldFits, Newest
      <4> QED
        BY <4>1, <4>2, WorldKeeps
    <3> QED
      BY <2>2, <3>1, <3>2
  <2> QED
    BY <2>1, <2>2 DEF MCNext, Reads, Lists, AddsUp, vars, serviceVars, observerVars
<1> QED
  BY <1>1, <1>2, PTL DEF MCSpec

\* The observer forgets no match it saw, and takes none for ended that is not.
THEOREM MatchesAlwaysFollowed == MCSpec => []EveryMatchFollowed
BY ObserverHolds, PTL

\* A final report is about its match or a twin of it, and accuses the numbers
\* only where a cause other than a miscount is excluded.
THEOREM ReportsAlwaysExplained == MCSpec => []ReportsExplained
BY ObserverHolds, PTL

-----------------------------------------------------------------------------
(* ParityEvidence: the sums, over a history h of polls.                    *)

Polls == Seq([Player -> Evidence!Standing])
DifferingIn(h, p) ==
  {i \in 1..Len(h) : h[i][p] = "other" /\ \A j \in i..Len(h) : h[j][p] # "same"}
ConvergesIn(h, p, i) ==
  /\ h[i][p] = "same"
  /\ \E j \in 1..i : h[j][p] = "other" /\ \A k \in j..i : h[k][p] = "same" => k = i
AloneIn(h, p, s, i, n) == i >= n /\ \A j \in (i - n + 1)..i : h[j][p] = s

\* n is the number of polls up to the last in which p was on side s only.
RunIn(h, p, s, n) ==
  /\ n \in 0..Len(h)
  /\ \A j \in (Len(h) - n + 1)..Len(h) : h[j][p] = s
  /\ n < Len(h) => h[Len(h) - n][p] # s

LEMMA EvidenceBounds ==
  /\ IsFiniteSet(Player) /\ StabilizationPolls \in Nat /\ StabilizationPolls > 1
  /\ MaxPolls \in Nat
<1>1. Evidence!IsFiniteSet(Player) => IsFiniteSet(Player)
  BY DEF Evidence!IsFiniteSet, IsFiniteSet
<1> QED
  BY <1>1, EvidenceAssumption DEF Evidence!EvidenceParameters

LEMMA OneCardinality == ASSUME NEW S PROVE Evidence!Cardinality(S) = Cardinality(S)
BY DEF Evidence!Cardinality, Cardinality

LEMMA PollAdded ==
  ASSUME NEW h \in Polls, NEW st \in [Player -> Evidence!Standing], NEW g, g = Append(h, st)
  PROVE  /\ g \in Polls /\ Len(h) \in Nat /\ Len(g) = Len(h) + 1
         /\ \A i \in 1..Len(h) : g[i] = h[i]
         /\ g[Len(h) + 1] = st
BY DEF Polls

LEMMA DifferingGrows ==
  ASSUME NEW h \in Polls, NEW st \in [Player -> Evidence!Standing], NEW g, g = Append(h, st),
         NEW p \in Player
  PROVE  /\ IsFiniteSet(DifferingIn(h, p)) /\ Cardinality(DifferingIn(h, p)) \in Nat
         /\ st[p] = "other" =>
              Cardinality(DifferingIn(g, p)) = Cardinality(DifferingIn(h, p)) + 1
         /\ st[p] = "same" => Cardinality(DifferingIn(g, p)) = 0
         /\ st[p] \notin {"same", "other"} =>
              Cardinality(DifferingIn(g, p)) = Cardinality(DifferingIn(h, p))
<1> DEFINE n == Len(h)
           D == DifferingIn(h, p)
           E == DifferingIn(g, p)
<1>1. /\ n \in Nat /\ Len(g) = n + 1 /\ (\A i \in 1..n : g[i] = h[i]) /\ g[n + 1] = st
  BY PollAdded
<1>2. IsFiniteSet(D) /\ Cardinality(D) \in Nat /\ n + 1 \notin D
  <2>1. IsFiniteSet(1..n) /\ D \in SUBSET (1..n)
    BY <1>1, FS_Interval DEF DifferingIn
  <2>2. n + 1 \notin 1..n
    BY <1>1
  <2> HIDE DEF D
  <2> QED
    BY <2>1, <2>2, FS_Subset, FS_CardinalityType
<1> HIDE DEF n
<1>3. \A i : i \in E <=> /\ i \in 1..(n + 1) /\ g[i][p] = "other"
                         /\ \A j \in i..(n + 1) : g[j][p] # "same"
  BY <1>1 DEF DifferingIn
<1>4. \A i : i \in D <=> /\ i \in 1..n /\ h[i][p] = "other" /\ \A j \in i..n : h[j][p] # "same"
  BY DEF DifferingIn, n
<1> HIDE DEF D, E
<1>5. ASSUME NEW i \in 1..n, st[p] # "same"
      PROVE  i \in E <=> i \in D
  <2>1. \A j \in i..(n + 1) : j \in i..n \/ j = n + 1
    BY <1>1
  <2>2. \A j \in i..n : j \in i..(n + 1) /\ g[j] = h[j]
    BY <1>1
  <2>3. g[i] = h[i] /\ i \in 1..(n + 1)
    BY <1>1
  <2>4. (\A j \in i..(n + 1) : g[j][p] # "same") <=> \A j \in i..n : h[j][p] # "same"
    BY <1>1, <1>5, <2>1, <2>2
  <2> QED
    BY <1>3, <1>4, <2>3, <2>4
<1>6. \A i \in E : i \in 1..n \/ i = n + 1
  BY <1>1, <1>3
<1>7. ASSUME st[p] = "other" PROVE E = D \cup {n + 1}
  <2>1. n + 1 \in E
    <3>1. \A j \in (n + 1)..(n + 1) : j = n + 1
      BY <1>1
    <3> QED
      BY <1>1, <1>3, <1>7, <3>1
  <2> QED
    BY <1>4, <1>5, <1>6, <1>7, <2>1
<1>8. ASSUME st[p] = "same" PROVE E = {}
  <2>1. \A i \in E : n + 1 \in i..(n + 1)
    BY <1>1, <1>3
  <2> QED
    BY <1>1, <1>3, <1>8, <2>1
<1>9. ASSUME st[p] \notin {"same", "other"} PROVE E = D
  <2>1. n + 1 \notin E
    BY <1>1, <1>3, <1>9
  <2>2. \A i \in 1..n : i \in E <=> i \in D
    BY <1>5, <1>9
  <2>3. \A i \in D : i \in 1..n
    BY <1>4
  <2> QED
    BY <1>6, <2>1, <2>2, <2>3
<1>10. Cardinality(D \cup {n + 1}) = Cardinality(D) + 1
  BY <1>2, FS_AddElement
<1> QED
  BY <1>2, <1>7, <1>8, <1>9, <1>10, FS_EmptySet DEF D, E

LEMMA ConvergesThen ==
  ASSUME NEW h \in Polls, NEW st \in [Player -> Evidence!Standing], NEW g, g = Append(h, st),
         NEW p \in Player
  PROVE  /\ \A i \in 1..Len(h) : ConvergesIn(g, p, i) <=> ConvergesIn(h, p, i)
         /\ ConvergesIn(g, p, Len(h) + 1) <=>
              st[p] = "same" /\ Cardinality(DifferingIn(h, p)) > 0
<1> DEFINE n == Len(h)
<1>1. /\ n \in Nat /\ (\A i \in 1..n : g[i] = h[i]) /\ g[n + 1] = st
  BY PollAdded
<1> HIDE DEF n
<1>2. ASSUME NEW i \in 1..n PROVE ConvergesIn(g, p, i) <=> ConvergesIn(h, p, i)
  <2>1. \A j \in 1..i : j \in 1..n /\ \A k \in j..i : k \in 1..n
    BY <1>1
  <2>2. \A j \in 1..i : g[j] = h[j] /\ \A k \in j..i : g[k] = h[k]
    BY <1>1, <2>1
  <2>3. g[i] = h[i]
    BY <1>1
  <2> QED
    BY <2>2, <2>3 DEF ConvergesIn
<1>3. \A j : j \in DifferingIn(h, p) <=>
            /\ j \in 1..n /\ h[j][p] = "other" /\ \A k \in j..n : h[k][p] # "same"
  BY DEF DifferingIn, n
<1>4. ConvergesIn(g, p, n + 1) <=> st[p] = "same" /\ DifferingIn(h, p) # {}
  <2>1. ASSUME ConvergesIn(g, p, n + 1)
        PROVE  st[p] = "same" /\ DifferingIn(h, p) # {}
    <3>1. st[p] = "same"
      BY <1>1, <2>1 DEF ConvergesIn
    <3>2. PICK j \in 1..(n + 1) :
            g[j][p] = "other" /\ \A k \in j..(n + 1) : g[k][p] = "same" => k = n + 1
      BY <2>1 DEF ConvergesIn
    <3>3. j # n + 1
      BY <1>1, <3>1, <3>2
    <3>4. j \in 1..n
      BY <1>1, <3>3
    <3>5. \A k \in j..n : k \in 1..n /\ k \in j..(n + 1) /\ k # n + 1
      BY <1>1, <3>4
    <3>6. \A k \in j..n : h[k][p] # "same"
      BY <1>1, <3>2, <3>5
    <3> QED
      BY <1>1, <1>3, <3>1, <3>2, <3>4, <3>6
  <2>2. ASSUME st[p] = "same", DifferingIn(h, p) # {}
        PROVE  ConvergesIn(g, p, n + 1)
    <3>1. PICK j : j \in DifferingIn(h, p)
      BY <2>2
    <3>2. j \in 1..n /\ h[j][p] = "other" /\ \A k \in j..n : h[k][p] # "same"
      BY <1>3, <3>1
    <3>3. \A k \in j..(n + 1) : k = n + 1 \/ (k \in j..n /\ k \in 1..n)
      BY <1>1, <3>2
    <3>4. \A k \in j..(n + 1) : g[k][p] = "same" => k = n + 1
      BY <1>1, <3>2, <3>3
    <3>5. j \in 1..(n + 1) /\ g[j][p] = "other" /\ g[n + 1][p] = "same"
      <4>1. j \in 1..n
        BY <3>2
      <4>2. g[j] = h[j] /\ g[n + 1] = st
        BY <1>1, <4>1, Zenon
      <4>3. j \in 1..(n + 1)
        BY <1>1, <4>1
      <4> QED
        BY <2>2, <3>2, <4>2, <4>3
    <3> QED
      BY <3>4, <3>5 DEF ConvergesIn
  <2> QED
    BY <2>1, <2>2
<1>5. IsFiniteSet(DifferingIn(h, p)) /\ Cardinality(DifferingIn(h, p)) \in Nat
  BY DifferingGrows
<1>6. DifferingIn(h, p) # {} <=> Cardinality(DifferingIn(h, p)) > 0
  BY <1>5, FS_EmptySet
<1> QED
  BY <1>2, <1>4, <1>6 DEF n

LEMMA RunGoesOn ==
  ASSUME NEW h \in Polls, NEW st \in [Player -> Evidence!Standing], NEW g, g = Append(h, st),
         NEW p \in Player, NEW s, NEW n, RunIn(h, p, s, n)
  PROVE  /\ n \in Nat
         /\ st[p] = s => RunIn(g, p, s, n + 1)
         /\ st[p] # s => RunIn(g, p, s, 0)
<1> DEFINE l == Len(h)
<1>1. /\ l \in Nat /\ Len(g) = l + 1 /\ (\A i \in 1..l : g[i] = h[i]) /\ g[l + 1] = st
  BY PollAdded
<1> HIDE DEF l
<1>2. /\ n \in 0..l /\ (\A j \in (l - n + 1)..l : h[j][p] = s) /\ (n < l => h[l - n][p] # s)
  BY DEF RunIn, l
<1>3. ASSUME st[p] = s PROVE RunIn(g, p, s, n + 1)
  <2>1. n + 1 \in 0..(l + 1) /\ l + 1 - (n + 1) = l - n
    <3>1. n \in 0..l /\ l \in Nat
      BY <1>1, <1>2, Zenon
    <3> QED
      BY <3>1
  <2>2. ASSUME NEW j \in (l - n + 1)..(l + 1) PROVE g[j][p] = s
    <3>1. CASE j = l + 1
      BY <1>1, <1>3, <3>1
    <3>2. CASE j # l + 1
      <4>1. j \in (l - n + 1)..l /\ j \in 1..l
        BY <1>1, <1>2, <3>2
      <4> QED
        BY <1>1, <1>2, <4>1
    <3> QED
      BY <3>1, <3>2
  <2>3. ASSUME n + 1 < l + 1 PROVE g[l - n][p] # s
    <3>1. n < l /\ l - n \in 1..l
      BY <1>1, <1>2, <2>3
    <3> QED
      BY <1>1, <1>2, <3>1
  <2> QED
    BY <1>1, <2>1, <2>2, <2>3 DEF RunIn
<1>4. ASSUME st[p] # s PROVE RunIn(g, p, s, 0)
  <2>1. 0 \in 0..(l + 1) /\ l + 1 - 0 = l + 1
    BY <1>1
  <2>2. \A j \in (l + 1 - 0 + 1)..(l + 1) : FALSE
    BY <1>1
  <2>3. g[l + 1][p] # s
    BY <1>1, <1>4
  <2> QED
    BY <1>1, <2>1, <2>2, <2>3 DEF RunIn
<1> QED
  BY <1>2, <1>3, <1>4 DEF l

LEMMA AloneThen ==
  ASSUME NEW h \in Polls, NEW st \in [Player -> Evidence!Standing], NEW g, g = Append(h, st),
         NEW p \in Player, NEW s, NEW m \in Nat \ {0}
  PROVE  /\ \A i \in 1..Len(h) : AloneIn(g, p, s, i, m) <=> AloneIn(h, p, s, i, m)
         /\ \A n : RunIn(g, p, s, n) => (AloneIn(g, p, s, Len(h) + 1, m) <=> n >= m)
<1> DEFINE l == Len(h)
<1>1. /\ l \in Nat /\ Len(g) = l + 1 /\ (\A i \in 1..l : g[i] = h[i]) /\ g[l + 1] = st
  BY PollAdded
<1> HIDE DEF l
<1>2. ASSUME NEW i \in 1..l PROVE AloneIn(g, p, s, i, m) <=> AloneIn(h, p, s, i, m)
  <2>1. CASE i >= m
    <3>1. \A j \in (i - m + 1)..i : j \in 1..l
      BY <1>1, <2>1
    <3>2. \A j \in (i - m + 1)..i : g[j] = h[j]
      BY <1>1, <3>1
    <3> QED
      BY <3>2 DEF AloneIn
  <2>2. CASE ~(i >= m)
    BY <2>2 DEF AloneIn
  <2> QED
    BY <2>1, <2>2
<1>3. ASSUME NEW n, RunIn(g, p, s, n) PROVE AloneIn(g, p, s, l + 1, m) <=> n >= m
  <2>1. /\ n \in 0..(l + 1) /\ (\A j \in (l + 1 - n + 1)..(l + 1) : g[j][p] = s)
        /\ (n < l + 1 => g[l + 1 - n][p] # s)
    BY <1>1, <1>3 DEF RunIn
  <2> /\ n \in 0..(l + 1) /\ l \in Nat
    BY <1>1, <2>1, Zenon
  <2>4. AloneIn(g, p, s, l + 1, m) <=>
          l + 1 >= m /\ \A j \in ((l + 1) - m + 1)..(l + 1) : g[j][p] = s
    BY Zenon DEF AloneIn
  <2>2. ASSUME n >= m PROVE AloneIn(g, p, s, l + 1, m)
    <3>1. l + 1 >= m
      BY <2>2
    <3>2. \A j \in ((l + 1) - m + 1)..(l + 1) : j \in (l + 1 - n + 1)..(l + 1)
      BY <2>2
    <3>3. \A j \in ((l + 1) - m + 1)..(l + 1) : g[j][p] = s
      BY <2>1, <3>2, Zenon
    <3> QED
      BY <2>4, <3>1, <3>3, Zenon
  <2>3. ASSUME ~(n >= m) PROVE ~AloneIn(g, p, s, l + 1, m)
    <3> SUFFICES ASSUME l + 1 >= m, \A j \in ((l + 1) - m + 1)..(l + 1) : g[j][p] = s
                 PROVE  FALSE
      BY <2>4, Zenon
    <3>1. n < l + 1 /\ l + 1 - n \in ((l + 1) - m + 1)..(l + 1)
      BY <2>3
    <3> QED
      BY <2>1, <3>1
  <2> QED
    BY <2>2, <2>3
<1> QED
  BY <1>2, <1>3 DEF l

\* B has, beside the pairs of A, those of a player in Q and the poll after the n-th.
PairsGrow(n, A, B, Q) ==
  /\ n \in Nat /\ Q \subseteq Player
  /\ A \subseteq Player \X (1..n) /\ B \subseteq Player \X (1..(n + 1))
  /\ \A p \in Player, i \in 1..n : <<p, i>> \in B <=> <<p, i>> \in A
  /\ \A p \in Player : <<p, n + 1>> \in B <=> p \in Q

\* Of the pairs of a player and a poll, a poll adds one for each player in Q.
LEMMA PairsAdded ==
  ASSUME NEW n, NEW A, NEW B, NEW Q, PairsGrow(n, A, B, Q)
  PROVE  /\ Cardinality(A) \in Nat /\ Cardinality(Q) \in Nat
         /\ Cardinality(B) = Cardinality(A) + Cardinality(Q)
<1> /\ n \in Nat /\ Q \subseteq Player
    /\ A \subseteq Player \X (1..n) /\ B \subseteq Player \X (1..(n + 1))
    /\ \A p \in Player, i \in 1..n : <<p, i>> \in B <=> <<p, i>> \in A
    /\ \A p \in Player : <<p, n + 1>> \in B <=> p \in Q
  BY DEF PairsGrow
<1> DEFINE C == {<<p, n + 1>> : p \in Q}
           f == [p \in Q |-> <<p, n + 1>>]
<1>1. IsFiniteSet(Player) /\ IsFiniteSet(1..n)
  BY EvidenceBounds, FS_Interval
<1>2. IsFiniteSet(Player \X (1..n))
  BY <1>1, FS_Product
<1>3. IsFiniteSet(A) /\ IsFiniteSet(Q) /\ Cardinality(A) \in Nat /\ Cardinality(Q) \in Nat
  BY <1>1, <1>2, FS_Subset, FS_CardinalityType
<1>4. f \in Bijection(Q, C)
  <2>1. f \in [Q -> C] /\ \A p \in Q : f[p] = <<p, n + 1>>
    OBVIOUS
  <2>2. f \in Injection(Q, C)
    BY <2>1 DEF Injection, IsInjective
  <2>3. f \in Surjection(Q, C)
    BY <2>1 DEF Surjection
  <2> QED
    BY <2>2, <2>3 DEF Bijection
<1>5. IsFiniteSet(C) /\ Cardinality(C) = Cardinality(Q)
  <2>1. ExistsBijection(Q, C)
    BY <1>4 DEF ExistsBijection
  <2> QED
    BY <1>3, <2>1, FS_Bijection
<1>6. A \cap C = {}
  <2>1. n + 1 \notin 1..n
    OBVIOUS
  <2> QED
    BY <2>1
<1>7. B = A \cup C
  <2>1. 1..(n + 1) = (1..n) \cup {n + 1}
    OBVIOUS
  <2>2. ASSUME NEW x \in B PROVE x \in A \cup C
    <3>1. PICK p \in Player, i \in 1..(n + 1) : x = <<p, i>>
      OBVIOUS
    <3>2. i \in 1..n \/ i = n + 1
      BY <2>1
    <3> QED
      BY <3>1, <3>2
  <2>3. ASSUME NEW x \in A PROVE x \in B
    <3>1. PICK p \in Player, i \in 1..n : x = <<p, i>>
      OBVIOUS
    <3> QED
      BY <3>1
  <2>4. ASSUME NEW x \in C PROVE x \in B
    BY DEF C
  <2> QED
    BY <2>2, <2>3, <2>4
<1> HIDE DEF C, f
<1>8. Cardinality(A \cup C) = Cardinality(A) + Cardinality(C) - Cardinality({})
  BY <1>3, <1>5, <1>6, FS_Union
<1> QED
  BY <1>3, <1>5, <1>7, <1>8, FS_EmptySet

\* The pairs of a player and a poll that the sums count.
ConvergedPairs(h) == {x \in Player \X (1..Len(h)) : ConvergesIn(h, x[1], x[2])}
AlonePairs(h, s) ==
  {x \in Player \X (1..Len(h)) : AloneIn(h, x[1], s, x[2], StabilizationPolls)}
SidePairs(h, s) == {x \in Player \X (1..Len(h)) : h[x[2]][x[1]] = s}

\* Runs and difference runs are those of the history, and so are the sums.
EvidenceInv ==
  /\ seen \in Polls
  /\ runs \in [Evidence!Side -> [Player -> Nat]]
  /\ totals \in [Evidence!TotalKinds -> Nat]
  /\ metric \in [comparisons : Nat, exact : Nat, differing : Nat, eventually : Nat]
  /\ differenceRuns \in [Player -> Nat]
  /\ systematic \subseteq Player
  /\ \A p \in Player : differenceRuns[p] = Cardinality(DifferingIn(seen, p))
  /\ \A p \in Player : p \in systematic <=> differenceRuns[p] >= StabilizationPolls
  /\ \A s \in Evidence!Side, p \in Player : RunIn(seen, p, s, runs[s][p])
  /\ metric.eventually = Cardinality(ConvergedPairs(seen))
  /\ \A s \in Evidence!Side :
       /\ totals[<<"persistent", s>>] = Cardinality(AlonePairs(seen, s))
       /\ totals[<<"transient", s>>] + totals[<<"persistent", s>>] = Cardinality(SidePairs(seen, s))

LEMMA HistoryOfEvidence == EvidenceInv => EvidenceIsHistory
<1> SUFFICES ASSUME EvidenceInv PROVE EvidenceIsHistory
  OBVIOUS
<1>1. Evidence!SystematicIsLastRun
  <2>1. ASSUME NEW p \in Player PROVE Evidence!Differing(p) = DifferingIn(seen, p)
    BY DEF Evidence!Differing, DifferingIn
  <2>2. ASSUME NEW p \in Player
        PROVE  Evidence!Cardinality(Evidence!Differing(p)) = differenceRuns[p]
    BY <2>1, OneCardinality, Zenon DEF EvidenceInv
  <2> QED
    BY <2>2, Zenon DEF Evidence!SystematicIsLastRun, EvidenceInv
<1>2. Evidence!ConvergedOnce
  <2>1. {x \in Player \X (1..Len(seen)) : Evidence!Converges(x[1], x[2])} = ConvergedPairs(seen)
    BY DEF Evidence!Converges, ConvergesIn, ConvergedPairs
  <2> QED
    BY <2>1, OneCardinality, Zenon DEF Evidence!ConvergedOnce, EvidenceInv
<1>3. Evidence!PersistentIsSurvived
  <2> SUFFICES ASSUME NEW s \in Evidence!Side
               PROVE  /\ totals[<<"persistent", s>>] = Evidence!Cardinality(
                           {x \in Player \X (1..Len(seen)) :
                              Evidence!Alone(x[1], s, x[2], StabilizationPolls)})
                      /\ totals[<<"transient", s>>] + totals[<<"persistent", s>>] =
                           Evidence!Cardinality(
                             {x \in Player \X (1..Len(seen)) : seen[x[2]][x[1]] = s})
    BY Zenon DEF Evidence!PersistentIsSurvived
  <2>1. {x \in Player \X (1..Len(seen)) : Evidence!Alone(x[1], s, x[2], StabilizationPolls)}
          = AlonePairs(seen, s)
    BY DEF Evidence!Alone, AloneIn, AlonePairs
  <2> QED
    BY <2>1, OneCardinality, Zenon DEF SidePairs, EvidenceInv
<1> QED
  BY <1>1, <1>2, <1>3, Zenon DEF EvidenceIsHistory, Evidence!EvidenceIsHistory

LEMMA EvidenceStarts == Evidence!Init => EvidenceInv
<1> SUFFICES ASSUME Evidence!Init PROVE EvidenceInv
  OBVIOUS
<1>1. /\ seen = <<>> /\ systematic = {}
      /\ runs = [s \in Evidence!Side |-> [p \in Player |-> 0]]
      /\ totals = [k \in Evidence!TotalKinds |-> 0]
      /\ metric = [comparisons |-> 0, exact |-> 0, differing |-> 0, eventually |-> 0]
      /\ differenceRuns = [p \in Player |-> 0]
  BY DEF Evidence!Init
<1>2. seen \in Polls /\ Len(seen) = 0 /\ 1..Len(seen) = {}
  BY <1>1 DEF Polls
<1>3. Cardinality({}) = 0
  BY FS_EmptySet
<1>4. ASSUME NEW p \in Player PROVE DifferingIn(seen, p) = {}
  BY <1>2 DEF DifferingIn
<1>5. ConvergedPairs(seen) = {} /\ \A s : AlonePairs(seen, s) = {} /\ SidePairs(seen, s) = {}
  BY <1>2 DEF ConvergedPairs, AlonePairs, SidePairs
<1>6. \A s, p : RunIn(seen, p, s, 0)
  BY <1>2 DEF RunIn
<1>7. /\ runs \in [Evidence!Side -> [Player -> Nat]]
      /\ \A s \in Evidence!Side, p \in Player : runs[s][p] = 0
  BY <1>1
<1>8. totals \in [Evidence!TotalKinds -> Nat] /\ \A k \in Evidence!TotalKinds : totals[k] = 0
  BY <1>1
<1>9. \A s \in Evidence!Side : /\ <<"persistent", s>> \in Evidence!TotalKinds
                               /\ <<"transient", s>> \in Evidence!TotalKinds
  BY DEF Evidence!TotalKinds
<1>10. /\ metric \in [comparisons : Nat, exact : Nat, differing : Nat, eventually : Nat]
       /\ metric.eventually = 0
  BY <1>1
<1>11. differenceRuns \in [Player -> Nat] /\ \A p \in Player : differenceRuns[p] = 0
  BY <1>1
<1>12. \A p \in Player : p \in systematic <=> differenceRuns[p] >= StabilizationPolls
  BY <1>1, <1>11, EvidenceBounds
<1>13. ASSUME NEW s \in Evidence!Side
       PROVE  /\ totals[<<"persistent", s>>] = Cardinality(AlonePairs(seen, s))
              /\ totals[<<"transient", s>>] + totals[<<"persistent", s>>]
                   = Cardinality(SidePairs(seen, s))
  BY <1>3, <1>5, <1>8, <1>9
<1>14. \A p \in Player : differenceRuns[p] = Cardinality(DifferingIn(seen, p))
  BY <1>3, <1>4, <1>11
<1>15. \A s \in Evidence!Side, p \in Player : RunIn(seen, p, s, runs[s][p])
  BY <1>6, <1>7
<1>16. metric.eventually = Cardinality(ConvergedPairs(seen))
  BY <1>3, <1>5, <1>10
<1>17. systematic \subseteq Player
  BY <1>1
<1> QED
  BY <1>2, <1>7, <1>8, <1>10, <1>11, <1>12, <1>13, <1>14, <1>15, <1>16, <1>17, Zenon
     DEF EvidenceInv

LEMMA EvidenceStep == EvidenceInv /\ Evidence!ObservePoll => EvidenceInv'
<1> SUFFICES ASSUME EvidenceInv, Evidence!ObservePoll PROVE EvidenceInv'
  OBVIOUS
<1>1. PICK st \in [Player -> Evidence!Standing] :
        /\ runs' = [s \in Evidence!Side |->
                      Evidence!Advanced(runs[s], {p \in Player : st[p] = s})]
        /\ totals' = [k \in Evidence!TotalKinds |->
                        totals[k] + Evidence!Stabilized(
                          [s \in Evidence!Side |->
                             Evidence!Advanced(runs[s], {p \in Player : st[p] = s})])[k]]
        /\ metric' = Evidence!MetricAfter(st)
        /\ differenceRuns' = Evidence!RunsAfter(st)
        /\ systematic' = Evidence!SystematicAfter(st, Evidence!RunsAfter(st))
        /\ seen' = Append(seen, st)
  BY Zenon DEF Evidence!ObservePoll
<1> DEFINE h == seen
           g == seen'
           m == StabilizationPolls
<1>2. h \in Polls /\ g = Append(h, st)
  BY <1>1 DEF EvidenceInv
<1>3. g \in Polls /\ Len(h) \in Nat /\ Len(g) = Len(h) + 1
  BY <1>2, PollAdded
<1>4. m \in Nat \ {0} /\ m > 1 /\ IsFiniteSet(Player)
  BY EvidenceBounds
\* The runs.
<1>5. /\ runs' \in [Evidence!Side -> [Player -> Nat]]
      /\ \A s \in Evidence!Side, p \in Player :
           /\ runs[s][p] \in Nat
           /\ runs'[s][p] = IF st[p] = s THEN runs[s][p] + 1 ELSE 0
  <2>1. runs \in [Evidence!Side -> [Player -> Nat]]
    BY DEF EvidenceInv
  <2> QED
    BY <1>1, <2>1 DEF Evidence!Advanced
<1>6. \A s \in Evidence!Side, p \in Player : RunIn(g, p, s, runs'[s][p])
  <2> SUFFICES ASSUME NEW s \in Evidence!Side, NEW p \in Player
               PROVE  RunIn(g, p, s, runs'[s][p])
    OBVIOUS
  <2>1. RunIn(h, p, s, runs[s][p])
    BY DEF EvidenceInv
  <2> HIDE DEF h, g
  <2>2. /\ st[p] = s => RunIn(g, p, s, runs[s][p] + 1)
        /\ st[p] # s => RunIn(g, p, s, 0)
    BY <1>2, <2>1, RunGoesOn
  <2> QED
    BY <1>5, <2>2
\* The differences.
<1>7. /\ differenceRuns' \in [Player -> Nat]
      /\ \A p \in Player :
           /\ differenceRuns[p] \in Nat
           /\ differenceRuns'[p] = CASE st[p] = "other" -> differenceRuns[p] + 1
                                     [] st[p] = "same" -> 0
                                     [] OTHER -> differenceRuns[p]
  <2>1. differenceRuns \in [Player -> Nat]
    BY DEF EvidenceInv
  <2> QED
    BY <1>1, <2>1 DEF Evidence!RunsAfter
<1>8. \A p \in Player : differenceRuns'[p] = Cardinality(DifferingIn(g, p))
  <2> SUFFICES ASSUME NEW p \in Player
               PROVE  differenceRuns'[p] = Cardinality(DifferingIn(g, p))
    OBVIOUS
  <2>1. differenceRuns[p] = Cardinality(DifferingIn(h, p))
    BY DEF EvidenceInv
  <2> HIDE DEF h, g
  <2>2. /\ st[p] = "other" =>
             Cardinality(DifferingIn(g, p)) = Cardinality(DifferingIn(h, p)) + 1
        /\ st[p] = "same" => Cardinality(DifferingIn(g, p)) = 0
        /\ st[p] \notin {"same", "other"} =>
             Cardinality(DifferingIn(g, p)) = Cardinality(DifferingIn(h, p))
    BY <1>2, DifferingGrows
  <2> QED
    BY <1>7, <2>1, <2>2
<1>9. /\ systematic' \subseteq Player
      /\ \A p \in Player : p \in systematic' <=> differenceRuns'[p] >= m
  <2>1. systematic \subseteq Player
        /\ \A p \in Player : p \in systematic <=> differenceRuns[p] >= m
    BY DEF EvidenceInv
  <2>2. systematic' = (systematic \ {p \in Player : st[p] = "same"})
          \cup {p \in Player : st[p] = "other" /\ differenceRuns'[p] >= m}
    BY <1>1 DEF Evidence!SystematicAfter
  <2> QED
    BY <1>4, <1>7, <2>1, <2>2
\* The sums.
<1>10. /\ metric' \in [comparisons : Nat, exact : Nat, differing : Nat, eventually : Nat]
       /\ metric'.eventually = Cardinality(ConvergedPairs(g))
  <2> DEFINE Q == {p \in {q \in Player : st[q] = "same"} : differenceRuns[p] > 0}
             same == {p \in Player : st[p] = "same"}
             other == {p \in Player : st[p] = "other"}
  <2>1. metric' = [comparisons |-> metric.comparisons + Evidence!Cardinality(same \cup other),
                   exact |-> metric.exact + Evidence!Cardinality(same),
                   differing |-> metric.differing + Evidence!Cardinality(other),
                   eventually |-> metric.eventually + Evidence!Cardinality(Q)]
    BY <1>1, Zenon DEF Evidence!MetricAfter
  <2>2. metric \in [comparisons : Nat, exact : Nat, differing : Nat, eventually : Nat]
        /\ metric.eventually = Cardinality(ConvergedPairs(h))
    BY DEF EvidenceInv
  <2>3. /\ Cardinality(same \cup other) \in Nat /\ Cardinality(same) \in Nat
        /\ Cardinality(other) \in Nat
    <3>1. same \subseteq Player /\ other \subseteq Player /\ same \cup other \subseteq Player
      OBVIOUS
    <3> HIDE DEF same, other
    <3> QED
      BY <1>4, <3>1, FS_Subset, FS_CardinalityType
  <2>4. Cardinality(Q) \in Nat
        /\ Cardinality(ConvergedPairs(g)) = Cardinality(ConvergedPairs(h)) + Cardinality(Q)
    <3> DEFINE n == Len(h)
               A == ConvergedPairs(h)
               B == ConvergedPairs(g)
    <3>1. A \subseteq Player \X (1..n) /\ Q \subseteq Player
      BY DEF ConvergedPairs
    <3>2. B \subseteq Player \X (1..(n + 1))
      BY <1>3 DEF ConvergedPairs
    <3>3. ASSUME NEW p \in Player
          PROVE  /\ \A i \in 1..n : <<p, i>> \in B <=> <<p, i>> \in A
                 /\ <<p, n + 1>> \in B <=> p \in Q
      <4>1. differenceRuns[p] = Cardinality(DifferingIn(h, p))
        BY DEF EvidenceInv
      <4> HIDE DEF h, g
      <4>2. /\ \A i \in 1..n : ConvergesIn(g, p, i) <=> ConvergesIn(h, p, i)
            /\ ConvergesIn(g, p, n + 1) <=> st[p] = "same" /\ Cardinality(DifferingIn(h, p)) > 0
        BY <1>2, ConvergesThen
      <4>3. \A i \in 1..n : i \in 1..(n + 1)
        BY <1>3
      <4>4. n + 1 \in 1..(n + 1)
        BY <1>3
      <4>5. \A i \in 1..Len(g) : <<p, i>> \in B <=> ConvergesIn(g, p, i)
        BY DEF ConvergedPairs
      <4>6. \A i \in 1..n : <<p, i>> \in A <=> ConvergesIn(h, p, i)
        BY DEF ConvergedPairs
      <4> QED
        BY <1>3, <4>1, <4>2, <4>3, <4>4, <4>5, <4>6
    <3>4. n \in Nat
      BY <1>3
    <3> HIDE DEF n, A, B, Q
    <3>5. PairsGrow(n, A, B, Q)
      BY <3>1, <3>2, <3>3, <3>4, Zenon DEF PairsGrow
    <3>6. Cardinality(Q) \in Nat /\ Cardinality(B) = Cardinality(A) + Cardinality(Q)
      BY <3>5, PairsAdded
    <3> QED
      BY <3>6 DEF A, B
  <2> HIDE DEF Q, same, other, h, g
  <2> QED
    BY <2>1, <2>2, <2>3, <2>4, OneCardinality
<1>11. ASSUME NEW s \in Evidence!Side
       PROVE  /\ totals'[<<"persistent", s>>] = Cardinality(AlonePairs(g, s))
              /\ totals'[<<"transient", s>>] + totals'[<<"persistent", s>>]
                   = Cardinality(SidePairs(g, s))
  <2> DEFINE n == Len(h)
             P == {p \in Player : runs'[s][p] > 0 /\ runs'[s][p] >= m}
             T == {p \in Player : runs'[s][p] > 0 /\ ~(runs'[s][p] >= m)}
             S == {p \in Player : st[p] = s}
             pk == <<"persistent", s>>
             tk == <<"transient", s>>
  <2>1. /\ pk \in Evidence!TotalKinds /\ tk \in Evidence!TotalKinds
        /\ pk[1] = "persistent" /\ tk[1] # "persistent" /\ pk[2] = s /\ tk[2] = s
    BY DEF Evidence!TotalKinds
  <2>2. /\ totals[pk] \in Nat /\ totals[tk] \in Nat
        /\ totals[pk] = Cardinality(AlonePairs(h, s))
        /\ totals[tk] + totals[pk] = Cardinality(SidePairs(h, s))
    BY <2>1 DEF EvidenceInv
  <2>3. totals'[pk] = totals[pk] + Cardinality(P) /\ totals'[tk] = totals[tk] + Cardinality(T)
    <3>1. \A k \in Evidence!TotalKinds :
            totals'[k] = totals[k] + Evidence!Stabilized(runs')[k]
      BY <1>1
    <3>2. \A k \in Evidence!TotalKinds : Evidence!Stabilized(runs')[k] =
            Evidence!Cardinality({p \in Player : /\ runs'[k[2]][p] > 0
                                                 /\ (runs'[k[2]][p] >= m) <=> (k[1] = "persistent")})
      BY DEF Evidence!Stabilized
    <3>3. P = {p \in Player : /\ runs'[pk[2]][p] > 0
                              /\ (runs'[pk[2]][p] >= m) <=> (pk[1] = "persistent")}
      BY <2>1
    <3>4. T = {p \in Player : /\ runs'[tk[2]][p] > 0
                              /\ (runs'[tk[2]][p] >= m) <=> (tk[1] = "persistent")}
      BY <2>1
    <3> HIDE DEF P, T, pk, tk
    <3> QED
      BY <2>1, <3>1, <3>2, <3>3, <3>4, OneCardinality, Zenon
  <2>4. S = P \cup T /\ P \cap T = {}
    <3>1. \A p \in Player : runs'[s][p] > 0 <=> st[p] = s
      BY <1>5
    <3> QED
      BY <3>1
  <2>5. P \subseteq Player /\ T \subseteq Player /\ S \subseteq Player /\ n \in Nat
    BY <1>3
  <2>6. \A p \in Player : p \in P <=> runs'[s][p] >= m
    <3>1. \A p \in Player : runs'[s][p] \in Nat
      BY <1>5
    <3> QED
      BY <1>4, <3>1
  <2>7. Cardinality(P) \in Nat /\ Cardinality(AlonePairs(g, s))
                                    = Cardinality(AlonePairs(h, s)) + Cardinality(P)
    <3> DEFINE A == AlonePairs(h, s)
               B == AlonePairs(g, s)
    <3>1. A \subseteq Player \X (1..n) /\ B \subseteq Player \X (1..(n + 1))
      BY <1>3 DEF AlonePairs
    <3>2. ASSUME NEW p \in Player
          PROVE  /\ \A i \in 1..n : <<p, i>> \in B <=> <<p, i>> \in A
                 /\ <<p, n + 1>> \in B <=> p \in P
      <4> HIDE DEF h, g, m, P
      <4>1. RunIn(g, p, s, runs'[s][p])
        BY <1>6
      <4>2. /\ \A i \in 1..n : AloneIn(g, p, s, i, m) <=> AloneIn(h, p, s, i, m)
            /\ AloneIn(g, p, s, n + 1, m) <=> runs'[s][p] >= m
        BY <1>2, <1>4, <4>1, AloneThen
      <4>3. (\A i \in 1..n : i \in 1..(n + 1)) /\ n + 1 \in 1..(n + 1)
        BY <2>5
      <4>4. \A i \in 1..Len(g) : <<p, i>> \in B <=> AloneIn(g, p, s, i, m)
        BY DEF AlonePairs, m
      <4>5. \A i \in 1..n : <<p, i>> \in A <=> AloneIn(h, p, s, i, m)
        BY DEF AlonePairs, m
      <4> QED
        BY <1>3, <2>6, <4>2, <4>3, <4>4, <4>5
    <3> HIDE DEF n, A, B, P
    <3>3. PairsGrow(n, A, B, P)
      BY <2>5, <3>1, <3>2, Zenon DEF PairsGrow
    <3>4. Cardinality(P) \in Nat /\ Cardinality(B) = Cardinality(A) + Cardinality(P)
      BY <3>3, PairsAdded
    <3> QED
      BY <3>4, Zenon DEF A, B
  <2>8. Cardinality(S) \in Nat /\ Cardinality(SidePairs(g, s))
                                    = Cardinality(SidePairs(h, s)) + Cardinality(S)
    <3> DEFINE A == SidePairs(h, s)
               B == SidePairs(g, s)
    <3>1. A \subseteq Player \X (1..n) /\ B \subseteq Player \X (1..(n + 1))
      BY <1>3 DEF SidePairs
    <3>2. (\A i \in 1..n : g[i] = h[i]) /\ g[n + 1] = st
      BY <1>2, PollAdded
    <3>3. ASSUME NEW p \in Player
          PROVE  /\ \A i \in 1..n : <<p, i>> \in B <=> <<p, i>> \in A
                 /\ <<p, n + 1>> \in B <=> p \in S
      <4> HIDE DEF h, g
      <4>1. (\A i \in 1..n : i \in 1..(n + 1)) /\ n + 1 \in 1..(n + 1)
        BY <2>5
      <4>2. \A i \in 1..Len(g) : <<p, i>> \in B <=> g[i][p] = s
        BY DEF SidePairs
      <4>3. \A i \in 1..n : <<p, i>> \in A <=> h[i][p] = s
        BY DEF SidePairs
      <4> QED
        BY <1>3, <3>2, <4>1, <4>2, <4>3
    <3> HIDE DEF n, A, B, S
    <3>4. PairsGrow(n, A, B, S)
      BY <2>5, <3>1, <3>3, Zenon DEF PairsGrow
    <3>5. Cardinality(S) \in Nat /\ Cardinality(B) = Cardinality(A) + Cardinality(S)
      BY <3>4, PairsAdded
    <3> QED
      BY <3>5 DEF A, B
  <2>9. Cardinality(T) \in Nat /\ Cardinality(S) = Cardinality(P) + Cardinality(T)
    <3> HIDE DEF P, T, S
    <3>1. IsFiniteSet(P) /\ IsFiniteSet(T) /\ Cardinality(P) \in Nat /\ Cardinality(T) \in Nat
      BY <1>4, <2>5, FS_Subset, FS_CardinalityType
    <3>2. Cardinality(P \cup T) = Cardinality(P) + Cardinality(T) - Cardinality(P \cap T)
      BY <3>1, FS_Union
    <3> QED
      BY <2>4, <3>1, <3>2, FS_EmptySet
  <2> HIDE DEF P, T, S, pk, tk
  <2>10. totals'[pk] = Cardinality(AlonePairs(g, s))
    BY <2>2, <2>3, <2>7
  <2>11. totals'[tk] + totals'[pk] = Cardinality(SidePairs(g, s))
    BY <2>2, <2>3, <2>7, <2>8, <2>9
  <2> QED
    BY <2>10, <2>11 DEF pk, tk
<1>12. totals' \in [Evidence!TotalKinds -> Nat]
  <2>1. totals \in [Evidence!TotalKinds -> Nat]
    BY DEF EvidenceInv
  <2>2. ASSUME NEW k \in Evidence!TotalKinds PROVE totals'[k] \in Nat
    <3> DEFINE K == {p \in Player : /\ runs'[k[2]][p] > 0
                                    /\ (runs'[k[2]][p] >= m) <=> (k[1] = "persistent")}
    <3>1. totals'[k] = totals[k] + Cardinality(K)
      <4>1. totals'[k] = totals[k] + Evidence!Stabilized(runs')[k]
        BY <1>1
      <4>2. Evidence!Stabilized(runs')[k] = Evidence!Cardinality(K)
        BY DEF Evidence!Stabilized
      <4> QED
        BY <4>1, <4>2, OneCardinality, Zenon
    <3>2. K \subseteq Player
      OBVIOUS
    <3> HIDE DEF K
    <3>3. Cardinality(K) \in Nat
      BY <1>4, <3>2, FS_Subset, FS_CardinalityType
    <3> QED
      BY <2>1, <3>1, <3>3
  <2> QED
    BY <1>1, <2>2
<1> QED
  BY <1>3, <1>5, <1>6, <1>7, <1>8, <1>9, <1>10, <1>11, <1>12, Zenon DEF EvidenceInv

\* The evidence of a target is, whatever polls are missing or interrupt the others,
\* what the history of its synchronized polls was: what is systematic, how often
\* differences converged, who stayed alone on a side and for how long.
THEOREM EvidenceAlwaysHistory == MCSpec => []EvidenceIsHistory
<1>1. MCInit => EvidenceInv
  BY EvidenceStarts DEF MCInit
<1>2. EvidenceInv /\ [MCNext]_<<vars, listVars, observerVars, evidenceVars, part>> => EvidenceInv'
  <2> SUFFICES ASSUME EvidenceInv,
                      [MCNext]_<<vars, listVars, observerVars, evidenceVars, part>>
               PROVE  EvidenceInv'
    OBVIOUS
  <2>1. CASE AddsUp(Evidence!Next)
    BY <2>1, EvidenceStep DEF AddsUp, Evidence!Next
  <2>2. CASE UNCHANGED evidenceVars
    <3>1. /\ runs' = runs /\ totals' = totals /\ metric' = metric
          /\ differenceRuns' = differenceRuns /\ systematic' = systematic /\ seen' = seen
      BY <2>2 DEF evidenceVars
    <3> QED
      BY <3>1, Zenon DEF EvidenceInv
  <2> QED
    BY <2>1, <2>2 DEF MCNext, Reads, Lists, Observes, vars, evidenceVars
<1> QED
  BY <1>1, <1>2, HistoryOfEvidence, PTL DEF MCSpec
=============================================================================
