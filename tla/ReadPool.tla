------------------------------ MODULE ReadPool ------------------------------
(* The connections to the CRCON database that the reading services share:
   crcon/postgres_repository.py, class _ReadConnectionPool and the context
   manager _read_only_connection that borrows from it.  A pool belongs to one
   service; its borrowers are the threads of the HTTP server.

   A thread that asks for a connection takes an idle one, opens one while the
   pool is not full, or sleeps on the pool's condition until it is notified or
   its deadline passes, and then looks again.  What it does with the connection
   is one transaction; a connection whose transaction failed is discarded.

   One step is one critical section of the pool's lock, or one call on a
   connection outside it.  Which idle connection is taken, and which sleeper a
   notify wakes, is left open: the code takes the last returned and wakes the
   longest asleep.                                                            *)
EXTENDS Integers, FiniteSets

CONSTANTS Thread,     \* the requests that borrow
          Conn,       \* the connections, each opened at most once at a time
          MaxSize,    \* pool_size of the service
          None

ASSUME PoolAssumption == /\ MaxSize \in Nat \ {0}
                         /\ IsFiniteSet(Thread) /\ IsFiniteSet(Conn)
                         /\ None \notin Conn

VARIABLES idle,      \* connections lying in the pool
          total,     \* connections the pool believes it has out or idle
          closed,    \* close() was called: the service was replaced or the process ends
          waiting,   \* the condition's list of waiters
          expired,   \* threads whose deadline has passed
          pc,        \* where each thread is
          held,      \* the connection it holds
          result,    \* what its last transaction gave
          open,      \* connections open at this end
          doomed     \* idle connections that close() is closing one by one

poolVars == <<idle, total, closed, waiting, expired, pc, held, result, open, doomed>>

PoolInit == /\ idle = {} /\ total = 0 /\ closed = FALSE
            /\ waiting = {} /\ expired = {}
            /\ pc = [t \in Thread |-> "out"]
            /\ held = [t \in Thread |-> None]
            /\ result = [t \in Thread |-> "none"]
            /\ open = {} /\ doomed = {}

At(place) == {t \in Thread : pc[t] = place}

(* The threads the pool's count stands for besides the idle connections, and
   those that hold a connection of their own.                                 *)
Counted == At("connecting") \cup At("holding") \cup At("done")
           \cup At("discarding") \cup At("returning")
Holders == At("holding") \cup At("done") \cup At("discarding") \cup At("closing")

(* Mutant: the place is given back and nobody is told. *)
NotifyingNobody(t, place) == pc' = [pc EXCEPT ![t] = place] /\ UNCHANGED waiting

(* condition.notify(): thread t moves on and one waiter is taken off the list. *)
Notifying(t, place) ==
  \/ /\ waiting = {}
     /\ pc' = [pc EXCEPT ![t] = place]
     /\ UNCHANGED waiting
  \/ \E w \in waiting :
       /\ waiting' = waiting \ {w}
       /\ pc' = [pc EXCEPT ![t] = place, ![w] = "woken"]

-----------------------------------------------------------------------------
(* acquire: the loop under the lock.                                          *)
Ask(t) == /\ pc[t] = "out"
          /\ pc' = [pc EXCEPT ![t] = "entering"]
          /\ result' = [result EXCEPT ![t] = "none"]
          /\ UNCHANGED <<idle, total, closed, waiting, expired, held, open, doomed>>

Looks(t) == pc[t] \in {"entering", "woken"}

TakeIdle(t) == /\ Looks(t) /\ ~closed
               /\ \E c \in idle : /\ idle' = idle \ {c}
                                  /\ held' = [held EXCEPT ![t] = c]
               /\ pc' = [pc EXCEPT ![t] = "holding"]
               /\ waiting' = waiting \ {t} /\ expired' = expired \ {t}
               /\ UNCHANGED <<total, closed, result, open, doomed>>

Grow(t) == /\ Looks(t) /\ ~closed /\ idle = {} /\ total < MaxSize
           /\ total' = total + 1
           /\ pc' = [pc EXCEPT ![t] = "connecting"]
           /\ waiting' = waiting \ {t} /\ expired' = expired \ {t}
           /\ UNCHANGED <<idle, closed, held, result, open, doomed>>

Exhausted == idle = {} /\ total >= MaxSize

Sleep(t) == /\ Looks(t) /\ ~closed /\ Exhausted /\ t \notin expired
            /\ pc' = [pc EXCEPT ![t] = "asleep"]
            /\ waiting' = waiting \cup {t}
            /\ UNCHANGED <<idle, total, closed, expired, held, result, open, doomed>>

Refuse(t) == /\ Looks(t)
             /\ closed \/ (Exhausted /\ t \in expired)
             /\ pc' = [pc EXCEPT ![t] = "out"]
             /\ result' = [result EXCEPT ![t] = "error"]
             /\ waiting' = waiting \ {t} /\ expired' = expired \ {t}
             /\ UNCHANGED <<idle, total, closed, held, open, doomed>>

(* The deadline passes.  A sleeper wakes up by itself then, and stays on the
   list of waiters until it has the lock again.                               *)
Expire(t) == /\ pc[t] \in {"asleep", "woken"} /\ t \notin expired
             /\ expired' = expired \cup {t}
             /\ pc' = [pc EXCEPT ![t] = "woken"]
             /\ UNCHANGED <<idle, total, closed, waiting, held, result, open, doomed>>

Connect(t) == /\ pc[t] = "connecting"
              /\ \E c \in Conn \ open : /\ open' = open \cup {c}
                                        /\ held' = [held EXCEPT ![t] = c]
              /\ pc' = [pc EXCEPT ![t] = "holding"]
              /\ UNCHANGED <<idle, total, closed, waiting, expired, result, doomed>>

ConnectFails(t) == /\ pc[t] = "connecting"
                   /\ total' = total - 1
                   /\ Notifying(t, "out")
                   /\ result' = [result EXCEPT ![t] = "error"]
                   /\ UNCHANGED <<idle, closed, expired, held, open, doomed>>

-----------------------------------------------------------------------------
(* _read_only_connection: BEGIN READ ONLY, the queries, rollback.             *)
Transact(t) == /\ pc[t] = "holding"
               /\ pc' = [pc EXCEPT ![t] = "done"]
               /\ result' = [result EXCEPT ![t] = "rows"]
               /\ UNCHANGED <<idle, total, closed, waiting, expired, held, open, doomed>>

(* A connection the database has dropped, a statement timeout, or a rollback that fails after a
   good query: the caller gets an error and the connection is not reused.     *)
TransactFails(t) == /\ pc[t] \in {"holding", "done"}
                    /\ pc' = [pc EXCEPT ![t] = "discarding"]
                    /\ result' = [result EXCEPT ![t] = "error"]
                    /\ UNCHANGED <<idle, total, closed, waiting, expired, held, open, doomed>>

(* Mutant: a connection that comes back after close() is kept. *)
ReleaseAnyway(t) ==
  /\ pc[t] = "done"
  /\ idle' = idle \cup {held[t]}
  /\ held' = [held EXCEPT ![t] = None]
  /\ Notifying(t, "out")
  /\ UNCHANGED <<total, closed, expired, result, open, doomed>>

Release(t) ==
  /\ pc[t] = "done"
  /\ \/ /\ ~closed
        /\ idle' = idle \cup {held[t]}
        /\ held' = [held EXCEPT ![t] = None]
        /\ Notifying(t, "out")
        /\ UNCHANGED total
     \/ /\ closed
        /\ total' = total - 1
        /\ pc' = [pc EXCEPT ![t] = "closing"]
        /\ UNCHANGED <<idle, held, waiting>>
  /\ UNCHANGED <<closed, expired, result, open, doomed>>

(* connection.close() outside the lock, of a thread that releases to a closed
   pool and of one that discards; discard counts the place free afterwards.   *)
CloseOwn(t) == /\ pc[t] \in {"closing", "discarding"}
               /\ open' = open \ {held[t]}
               /\ held' = [held EXCEPT ![t] = None]
               /\ pc' = [pc EXCEPT ![t] = IF pc[t] = "closing" THEN "out" ELSE "returning"]
               /\ UNCHANGED <<idle, total, closed, waiting, expired, result, doomed>>

Return(t) == /\ pc[t] = "returning"
             /\ total' = total - 1
             /\ Notifying(t, "out")
             /\ UNCHANGED <<idle, closed, expired, held, result, open, doomed>>

(* close(): the replaced service or the end of the process.                   *)
ClosePool == /\ ~closed
             /\ closed' = TRUE
             /\ doomed' = idle /\ idle' = {}
             /\ total' = total - Cardinality(idle)
             /\ waiting' = {}
             /\ pc' = [t \in Thread |-> IF t \in waiting THEN "woken" ELSE pc[t]]
             /\ UNCHANGED <<expired, held, result, open>>

CloseDoomed == /\ \E c \in doomed : /\ doomed' = doomed \ {c}
                                    /\ open' = open \ {c}
               /\ UNCHANGED <<idle, total, closed, waiting, expired, pc, held, result>>

Borrower(t) == \/ TakeIdle(t) \/ Grow(t) \/ Sleep(t) \/ Refuse(t) \/ Expire(t)
               \/ Connect(t) \/ ConnectFails(t) \/ TransactFails(t)
               \/ Release(t) \/ CloseOwn(t) \/ Return(t)

PoolNext == \/ \E t \in Thread : Ask(t) \/ Transact(t) \/ Borrower(t)
            \/ ClosePool \/ CloseDoomed

PoolSpec == PoolInit /\ [][PoolNext]_poolVars

-----------------------------------------------------------------------------
PoolTypeOK == /\ idle \subseteq Conn /\ open \subseteq Conn
              /\ doomed \subseteq open
              /\ total \in Int /\ closed \in BOOLEAN
              /\ waiting \subseteq Thread /\ expired \subseteq Thread
              /\ pc \in [Thread -> {"out", "entering", "asleep", "woken", "connecting", "holding",
                                    "done", "discarding", "returning", "closing"}]
              /\ held \in [Thread -> Conn \cup {None}]
              /\ result \in [Thread -> {"none", "rows", "error"}]

(* No connection is lost and none is used twice: what is open lies in the pool,
   is held by exactly one thread or is being closed; the count of the pool is
   what it stands for and never above its size; and nothing comes back into a
   closed pool, where nobody would close it.  (Threads return and discard
   connections while another closes the pool.)                                *)
PoolAccounted ==
  /\ open = idle \cup doomed \cup {held[t] : t \in Holders}
  /\ idle \cap doomed = {}
  /\ \A t \in Holders : held[t] \notin idle \cup doomed
  /\ \A t, u \in Holders : held[t] = held[u] => t = u
  /\ total = Cardinality(idle) + Cardinality(Counted)
  /\ total <= MaxSize
  /\ closed => idle = {}

(* No wake-up is lost: while a thread sleeps on the condition, each place that
   is free has been promised to another thread that was notified and has not
   looked yet.  So nobody sleeps to his deadline beside a free connection, also
   when the notified thread's deadline passes in between.                     *)
NoLostWakeup ==
  At("asleep") # {} =>
     Cardinality(idle) + (MaxSize - total) <= Cardinality(At("woken") \ waiting)
=============================================================================
