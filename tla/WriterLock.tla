----------------------------- MODULE WriterLock -----------------------------
(***************************************************************************)
(* The writer lock of backend/app/writer_lock.py: a lock FILE in the       *)
(* shared data volume that serialises the backend's writer jobs (runner,   *)
(* RCON worker, ingestion, backfill, maintenance).  The file is created    *)
(* with O_CREAT|O_EXCL, its JSON metadata is written afterwards, a waiter  *)
(* may unlink a file whose holder looks dead, and the release reads the    *)
(* file before it unlinks it.  Each of those system calls is one action,   *)
(* so every interleaving of the processes between two calls is explored.   *)
(*                                                                         *)
(* A Process is a (hostname, pid) slot: a restarted container reuses both, *)
(* which is what os.kill(pid, 0) can see.  A token is a uuid4, tagged with *)
(* the process that drew it (the metadata's hostname and pid).             *)
(***************************************************************************)
EXTENDS Integers

CONSTANTS
  Process,        \* the (hostname, pid) slots that run writer jobs
  Host,           \* hostnames
  HostOf,         \* the hostname of each slot
  Containerized,  \* slots whose cwd starts with /app
  Serial,         \* what tells apart two tokens of one process
  NoToken,        \* no file / no readable metadata
  MaxDepth,       \* bound: nesting of `with backend_writer_lock`
  MaxCrashes      \* bound: process kills in a behaviour

Token == Process \X Serial

ASSUME HostOfAssumption == HostOf \in [Process -> Host]
ASSUME ContainerizedAssumption == Containerized \subseteq Process
ASSUME NoTokenAssumption == NoToken \notin Token
ASSUME BoundsAssumption == MaxDepth \in Nat \ {0} /\ MaxCrashes \in Nat

VARIABLES
  pc,        \* where each process is in backend_writer_lock
  token,     \* metadata["lock_token"] of its current attempt
  seen,      \* the metadata its last _read_lock_metadata returned
  late,      \* time.monotonic() >= deadline
  depth,     \* _ACTIVE_LOCK_DEPTH_BY_PATH[lock_path]
  file,      \* the lock file: the token of the process that created it
  complete,  \* its JSON has been written
  aged,      \* tokens whose started_at is older than the container grace
  crashes,   \* number of kills so far
  robbed     \* history: a live process has lost its lock file

vars == <<pc, token, seen, late, depth, file, complete, aged, crashes, robbed>>

PC == {"idle", "open", "read", "judge", "unlink", "write", "held", "release", "crashed"}

Owner(t) == t[1]
Waiting(p) == pc[p] \in {"open", "read", "judge", "unlink"}
\* The process is inside the `with` block, or leaving it.
Holding(p) == pc[p] \in {"held", "release"}
\* It created the lock file and has not given it back.
Owning(p) == pc[p] \in {"write", "held", "release"}

Init ==
  /\ pc = [p \in Process |-> "idle"]
  /\ token = [p \in Process |-> NoToken]
  /\ seen = [p \in Process |-> NoToken]
  /\ late = [p \in Process |-> FALSE]
  /\ depth = [p \in Process |-> 0]
  /\ file = NoToken /\ complete = FALSE
  /\ aged = {} /\ crashes = 0 /\ robbed = FALSE

-----------------------------------------------------------------------------
\* A uuid nothing refers to any more.
Fresh(t) == /\ t # file
            /\ \A q \in Process : t # token[q] /\ t # seen[q]

\* What json.loads(lock_path.read_text()) gives: nothing when the file is
\* missing, empty or half written.
MetadataOnDisk == IF complete THEN file ELSE NoToken

\* Mutant: a holder of another container is never stale.
CanClearSameHostOnly(p, t) ==
  /\ t # NoToken
  /\ HostOf[Owner(t)] = HostOf[p] /\ pc[Owner(t)] = "crashed"

\* os.kill(pid, 0) on the same host; otherwise the /app grace period.
CanClearStaleLock(p, t) ==
  /\ t # NoToken
  /\ IF HostOf[Owner(t)] = HostOf[p]
       THEN pc[Owner(t)] = "crashed"
       ELSE Owner(t) \in Containerized /\ t \in aged

\* lock_path.unlink() by p removes whatever file is there now.
RemoveLockFile(p) ==
  /\ file' = NoToken
  /\ complete' = FALSE
  /\ robbed' = (robbed \/ \E q \in Process \ {p} : Owning(q) /\ file = token[q])

Leave(p) ==
  /\ pc' = [pc EXCEPT ![p] = "idle"]
  /\ token' = [token EXCEPT ![p] = NoToken]
  /\ seen' = [seen EXCEPT ![p] = NoToken]
  /\ depth' = [depth EXCEPT ![p] = 0]

-----------------------------------------------------------------------------
\* The outer `with`: the metadata, started_at included, is built before waiting.
BeginAcquire(p) ==
  /\ pc[p] = "idle"
  /\ \E k \in Serial :
       /\ Fresh(<<p, k>>)
       /\ token' = [token EXCEPT ![p] = <<p, k>>]
       /\ aged' = aged \ {<<p, k>>}
  /\ pc' = [pc EXCEPT ![p] = "open"]
  /\ late' = [late EXCEPT ![p] = FALSE]
  /\ UNCHANGED <<seen, depth, file, complete, crashes, robbed>>

\* Mutant: opened without O_EXCL.
CreateSharedLockFile(p) ==
  /\ pc[p] = "open"
  /\ file' = token[p]
  /\ complete' = FALSE
  /\ pc' = [pc EXCEPT ![p] = "write"]
  /\ UNCHANGED <<token, seen, late, depth, aged, crashes, robbed>>

\* os.open(O_CREAT | O_EXCL) succeeds: an empty file.
CreateLockFile(p) ==
  /\ pc[p] = "open"
  /\ file = NoToken
  /\ file' = token[p]
  /\ complete' = FALSE
  /\ pc' = [pc EXCEPT ![p] = "write"]
  /\ UNCHANGED <<token, seen, late, depth, aged, crashes, robbed>>

\* os.open raises FileExistsError.
LockFileExists(p) ==
  /\ pc[p] = "open"
  /\ file # NoToken
  /\ pc' = [pc EXCEPT ![p] = "read"]
  /\ UNCHANGED <<token, seen, late, depth, file, complete, aged, crashes, robbed>>

ReadHolder(p) ==
  /\ pc[p] = "read"
  /\ seen' = [seen EXCEPT ![p] = MetadataOnDisk]
  /\ pc' = [pc EXCEPT ![p] = "judge"]
  /\ UNCHANGED <<token, late, depth, file, complete, aged, crashes, robbed>>

JudgeStale(p) ==
  /\ pc[p] = "judge"
  /\ CanClearStaleLock(p, seen[p])
  /\ pc' = [pc EXCEPT ![p] = "unlink"]
  /\ UNCHANGED <<token, seen, late, depth, file, complete, aged, crashes, robbed>>

\* The judged file is removed by NAME, then the loop opens again.
ClearStaleLock(p) ==
  /\ pc[p] = "unlink"
  /\ RemoveLockFile(p)
  /\ pc' = [pc EXCEPT ![p] = "open"]
  /\ seen' = [seen EXCEPT ![p] = NoToken]
  /\ UNCHANGED <<token, late, depth, aged, crashes>>

\* Mutant: giving up also removes the file.
TimeOutUnlinks(p) ==
  /\ pc[p] = "judge"
  /\ ~CanClearStaleLock(p, seen[p])
  /\ late[p]
  /\ RemoveLockFile(p)
  /\ Leave(p)
  /\ UNCHANGED <<late, aged, crashes>>

TimeOut(p) ==
  /\ pc[p] = "judge"
  /\ ~CanClearStaleLock(p, seen[p])
  /\ late[p]
  /\ Leave(p)
  /\ UNCHANGED <<late, file, complete, aged, crashes, robbed>>

PollAgain(p) ==
  /\ pc[p] = "judge"
  /\ ~CanClearStaleLock(p, seen[p])
  /\ ~late[p]
  /\ pc' = [pc EXCEPT ![p] = "open"]
  /\ seen' = [seen EXCEPT ![p] = NoToken]
  /\ UNCHANGED <<token, late, depth, file, complete, aged, crashes, robbed>>

\* json.dump goes to the inode this process created, even if it was unlinked.
WriteMetadata(p) ==
  /\ pc[p] = "write"
  /\ complete' = (complete \/ file = token[p])
  /\ pc' = [pc EXCEPT ![p] = "held"]
  /\ depth' = [depth EXCEPT ![p] = 1]
  /\ UNCHANGED <<token, seen, late, file, aged, crashes, robbed>>

\* The write raises: the file is removed by name and the error propagates.
WriteMetadataFails(p) ==
  /\ pc[p] = "write"
  /\ RemoveLockFile(p)
  /\ Leave(p)
  /\ UNCHANGED <<late, aged, crashes>>

\* An inner `with` of the same process is reentrant.
EnterNested(p) ==
  /\ pc[p] = "held"
  /\ depth[p] < MaxDepth
  /\ depth' = [depth EXCEPT ![p] = @ + 1]
  /\ UNCHANGED <<pc, token, seen, late, file, complete, aged, crashes, robbed>>

ExitNested(p) ==
  /\ pc[p] = "held"
  /\ depth[p] > 1
  /\ depth' = [depth EXCEPT ![p] = @ - 1]
  /\ UNCHANGED <<pc, token, seen, late, file, complete, aged, crashes, robbed>>

\* _release: someone else's complete metadata is left alone.
ReleaseForeign(p) ==
  /\ pc[p] = "held"
  /\ depth[p] = 1
  /\ MetadataOnDisk \notin {NoToken, token[p]}
  /\ Leave(p)
  /\ UNCHANGED <<late, file, complete, aged, crashes, robbed>>

ReleaseCheck(p) ==
  /\ pc[p] = "held"
  /\ depth[p] = 1
  /\ MetadataOnDisk \in {NoToken, token[p]}
  /\ pc' = [pc EXCEPT ![p] = "release"]
  /\ UNCHANGED <<token, seen, late, depth, file, complete, aged, crashes, robbed>>

ReleaseUnlink(p) ==
  /\ pc[p] = "release"
  /\ RemoveLockFile(p)
  /\ Leave(p)
  /\ UNCHANGED <<late, aged, crashes>>

-----------------------------------------------------------------------------
\* SIGKILL, power loss or an unhandled SIGTERM: no `finally` runs.
Crash(p) ==
  /\ pc[p] # "crashed"
  /\ crashes < MaxCrashes
  /\ crashes' = crashes + 1
  /\ pc' = [pc EXCEPT ![p] = "crashed"]
  /\ token' = [token EXCEPT ![p] = NoToken]
  /\ seen' = [seen EXCEPT ![p] = NoToken]
  /\ depth' = [depth EXCEPT ![p] = 0]
  /\ UNCHANGED <<late, file, complete, aged, robbed>>

\* `restart: unless-stopped` brings the same hostname and pid back.
Restart(p) ==
  /\ pc[p] = "crashed"
  /\ pc' = [pc EXCEPT ![p] = "idle"]
  /\ UNCHANGED <<token, seen, late, depth, file, complete, aged, crashes, robbed>>

DeadlinePasses(p) ==
  /\ Waiting(p)
  /\ ~late[p]
  /\ late' = [late EXCEPT ![p] = TRUE]
  /\ UNCHANGED <<pc, token, seen, depth, file, complete, aged, crashes, robbed>>

\* CONTAINER_STALE_LOCK_GRACE_SECONDS have gone by since t's started_at; the
\* age of a holder outside /app is never looked at.
GraceEnds(t) ==
  /\ Owner(t) \in Containerized
  /\ t \in (({file} \cup {token[q] : q \in Process}) \ {NoToken}) \ aged
  /\ aged' = aged \cup {t}
  /\ UNCHANGED <<pc, token, seen, late, depth, file, complete, crashes, robbed>>

AcquireStep(p) ==
  \/ CreateLockFile(p) \/ LockFileExists(p) \/ ReadHolder(p) \/ JudgeStale(p)
  \/ ClearStaleLock(p) \/ TimeOut(p) \/ PollAgain(p)
  \/ WriteMetadata(p) \/ WriteMetadataFails(p)

ReleaseStep(p) == ReleaseForeign(p) \/ ReleaseCheck(p) \/ ReleaseUnlink(p)

Next ==
  \/ \E p \in Process :
       \/ BeginAcquire(p) \/ AcquireStep(p)
       \/ EnterNested(p) \/ ExitNested(p) \/ ReleaseStep(p)
       \/ Crash(p) \/ Restart(p) \/ DeadlinePasses(p)
  \/ \E t \in Token : GraceEnds(t)

Spec == Init /\ [][Next]_vars

\* Every system call returns, every job ends, after finitely many nested entries,
\* and is scheduled again, clocks advance, and the container engine restarts what
\* died.
Fairness ==
  /\ \A p \in Process :
       /\ WF_vars(AcquireStep(p)) /\ WF_vars(BeginAcquire(p))
       /\ WF_vars(ExitNested(p)) /\ SF_vars(ReleaseStep(p))
       /\ WF_vars(Restart(p)) /\ WF_vars(DeadlinePasses(p))
  /\ \A t \in Token : WF_vars(GraceEnds(t))

FairSpec == Spec /\ Fairness

-----------------------------------------------------------------------------
(***************************************************************************)
(* Properties.                                                             *)
(***************************************************************************)

TypeOK ==
  /\ pc \in [Process -> PC]
  /\ token \in [Process -> Token \cup {NoToken}]
  /\ seen \in [Process -> Token \cup {NoToken}]
  /\ late \in [Process -> BOOLEAN]
  /\ depth \in [Process -> 0..MaxDepth]
  /\ file \in Token \cup {NoToken}
  /\ complete \in BOOLEAN
  /\ aged \subseteq Token
  /\ crashes \in 0..MaxCrashes
  /\ robbed \in BOOLEAN

\* The single-writer promise of the README: no two processes are inside
\* backend_writer_lock at once.
MutualExclusion ==
  \A p, q \in Process : Holding(p) /\ Holding(q) => p = q

\* As long as no live process has lost its lock file, exclusion holds, through
\* crashes, restarts, timeouts, failed writes and stale clearing.
ExclusiveUnlessRobbed == ~robbed => MutualExclusion

\* The only step that can take the file of a live process away for the first
\* time is a waiter's stale clearing: never a release and never a failed write.
OnlyClearingRobs ==
  [][~robbed /\ robbed' => \E p \in Process : ClearStaleLock(p)]_vars

\* The file a releasing process is about to unlink is its own, unless the file
\* was robbed: the unlocked read/unlink pair of _release is safe without theft.
ReleaseUnlinksOwnFile ==
  ~robbed => \A p \in Process : pc[p] = "release" => file = token[p] /\ complete

\* Every attempt ends, with the lock, with a timeout, or with the process dead,
\* unless it clears stale locks for ever: the deadline is not looked at then.
AttemptEnds ==
  \A p \in Process : (Waiting(p) ~> ~Waiting(p)) \/ []<><<ClearStaleLock(p)>>_vars

\* What the backend README promises of a lock left by a stopped container: once
\* the grace has passed, a complete lock file without a live owner goes away.
AbandonedLockRecovered ==
  \A t \in Token :
    (file = t /\ complete /\ t \in aged /\ ~Owning(Owner(t))) ~> file # t

\* Nobody waits for ever, and what a dead process left is not waited for.
LockComesFree == AttemptEnds /\ AbandonedLockRecovered

\* The abstract lock, seen through the processes inside the `with` block until
\* the first robbery; a robbery ends it for the abstract lock.
Writers == {p \in Process : Holding(p) /\ ~robbed}
SW == INSTANCE SingleWriter WITH writers <- Writers

\* The file protocol is the single-writer lock of the README, through crashes,
\* restarts and stale clearing, until a waiter robs a live process: a job enters
\* only when no job is inside.
ImplementsSingleWriter == SW!Spec
=============================================================================
