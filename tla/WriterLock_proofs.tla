-------------------------- MODULE WriterLock_proofs --------------------------
(***************************************************************************)
(* Proofs about the writer lock for every set of processes, hosts and      *)
(* tokens and for every bound.                                             *)
(***************************************************************************)
EXTENDS WriterLock, TLAPS

\* A token names its process, and an attempt in progress has one.
TokenInv ==
  \A p \in Process :
    /\ token[p] # NoToken => Owner(token[p]) = p
    /\ Waiting(p) \/ Owning(p) => token[p] # NoToken

\* Until a robbery, whoever created the lock file still has it.
OwnFileInv ==
  ~robbed => \A p \in Process : Owning(p) => /\ file = token[p]
                                             /\ Holding(p) => complete

IInv == TypeOK /\ TokenInv /\ OwnFileInv

\* Two processes never draw the same token.
LEMMA TokenNamesOwner ==
  ASSUME TypeOK, NEW p \in Process, NEW k \in Serial
  PROVE  /\ <<p, k>> \in Token
         /\ Owner(<<p, k>>) = p
         /\ <<p, k>> # NoToken
  BY NoTokenAssumption DEF Token, Owner

\* Removing the file and leaving keep the types of what they assign.
LEMMA RemoveType ==
  ASSUME TypeOK, NEW p \in Process, RemoveLockFile(p)
  PROVE  file' \in Token \cup {NoToken} /\ complete' \in BOOLEAN /\ robbed' \in BOOLEAN
  BY DEF RemoveLockFile

LEMMA LeaveType ==
  ASSUME TypeOK, NEW p \in Process, Leave(p)
  PROVE  /\ pc' \in [Process -> PC]
         /\ token' \in [Process -> Token \cup {NoToken}]
         /\ seen' \in [Process -> Token \cup {NoToken}]
         /\ depth' \in [Process -> 0..MaxDepth]
  BY BoundsAssumption DEF TypeOK, Leave, PC

\* Every step keeps the variables in their types.
LEMMA TypeStep == TypeOK /\ [Next]_vars => TypeOK'
<1> SUFFICES ASSUME TypeOK, [Next]_vars PROVE TypeOK'
  OBVIOUS
<1> USE BoundsAssumption DEF TypeOK, PC
<1>1. ASSUME NEW p \in Process, BeginAcquire(p) PROVE TypeOK'
  <2>1. PICK k \in Serial : /\ token' = [token EXCEPT ![p] = <<p, k>>]
                            /\ aged' = aged \ {<<p, k>>}
    BY <1>1 DEF BeginAcquire
  <2>2. <<p, k>> \in Token
    BY TokenNamesOwner
  <2>3. QED
    BY <1>1, <2>1, <2>2 DEF BeginAcquire
<1>2. ASSUME NEW p \in Process, AcquireStep(p) PROVE TypeOK'
  <2>1. CASE CreateLockFile(p)
    BY <2>1 DEF CreateLockFile
  <2>2. CASE LockFileExists(p)
    BY <2>2 DEF LockFileExists
  <2>3. CASE ReadHolder(p)
    BY <2>3 DEF ReadHolder, MetadataOnDisk
  <2>4. CASE JudgeStale(p)
    BY <2>4 DEF JudgeStale
  <2>5. CASE ClearStaleLock(p)
    BY <2>5 DEF ClearStaleLock, RemoveLockFile
  <2>6. CASE TimeOut(p)
    BY <2>6, LeaveType DEF TimeOut
  <2>7. CASE PollAgain(p)
    BY <2>7 DEF PollAgain
  <2>8. CASE WriteMetadata(p)
    BY <2>8 DEF WriteMetadata
  <2>9. CASE WriteMetadataFails(p)
    BY <2>9, LeaveType, RemoveType DEF WriteMetadataFails
  <2>10. QED
    BY <1>2, <2>1, <2>2, <2>3, <2>4, <2>5, <2>6, <2>7, <2>8, <2>9 DEF AcquireStep
<1>3. ASSUME NEW p \in Process, EnterNested(p) \/ ExitNested(p) PROVE TypeOK'
  BY <1>3 DEF EnterNested, ExitNested
<1>4. ASSUME NEW p \in Process, ReleaseStep(p) PROVE TypeOK'
  <2>1. CASE ReleaseForeign(p)
    BY <2>1, LeaveType DEF ReleaseForeign
  <2>2. CASE ReleaseCheck(p)
    BY <2>2 DEF ReleaseCheck
  <2>3. CASE ReleaseUnlink(p)
    BY <2>3, LeaveType, RemoveType DEF ReleaseUnlink
  <2>4. QED
    BY <1>4, <2>1, <2>2, <2>3 DEF ReleaseStep
<1>5. ASSUME NEW p \in Process, Crash(p) \/ Restart(p) PROVE TypeOK'
  BY <1>5 DEF Crash, Restart
<1>6. ASSUME NEW p \in Process, DeadlinePasses(p) PROVE TypeOK'
  BY <1>6 DEF DeadlinePasses
<1>7. ASSUME NEW t \in Token, GraceEnds(t) PROVE TypeOK'
  BY <1>7 DEF GraceEnds
<1>8. CASE UNCHANGED vars
  BY <1>8 DEF vars
<1>9. QED
  BY <1>1, <1>2, <1>3, <1>4, <1>5, <1>6, <1>7, <1>8 DEF Next

\* Every step keeps tokens tied to the process and the attempt they belong to.
LEMMA TokenStep == TypeOK /\ TokenInv /\ [Next]_vars => TokenInv'
<1> SUFFICES ASSUME TypeOK, TokenInv, [Next]_vars PROVE TokenInv'
  OBVIOUS
<1> USE DEF TypeOK, PC, TokenInv, Waiting, Owning
<1>1. ASSUME NEW p \in Process, BeginAcquire(p) PROVE TokenInv'
  <2>1. PICK k \in Serial : token' = [token EXCEPT ![p] = <<p, k>>]
    BY <1>1 DEF BeginAcquire
  <2>2. Owner(<<p, k>>) = p /\ <<p, k>> # NoToken
    BY TokenNamesOwner
  <2>3. QED
    BY <1>1, <2>1, <2>2 DEF BeginAcquire
<1>2. ASSUME NEW p \in Process, AcquireStep(p) PROVE TokenInv'
  BY <1>2 DEF AcquireStep, CreateLockFile, LockFileExists, ReadHolder, JudgeStale,
    ClearStaleLock, TimeOut, PollAgain, WriteMetadata, WriteMetadataFails, Leave
<1>3. ASSUME NEW p \in Process, EnterNested(p) \/ ExitNested(p) PROVE TokenInv'
  BY <1>3 DEF EnterNested, ExitNested
<1>4. ASSUME NEW p \in Process, ReleaseStep(p) PROVE TokenInv'
  BY <1>4 DEF ReleaseStep, ReleaseForeign, ReleaseCheck, ReleaseUnlink, Leave
<1>5. ASSUME NEW p \in Process, Crash(p) \/ Restart(p) PROVE TokenInv'
  BY <1>5 DEF Crash, Restart
<1>6. ASSUME NEW p \in Process, DeadlinePasses(p) PROVE TokenInv'
  BY <1>6 DEF DeadlinePasses
<1>7. ASSUME NEW t \in Token, GraceEnds(t) PROVE TokenInv'
  BY <1>7 DEF GraceEnds
<1>8. CASE UNCHANGED vars
  BY <1>8 DEF vars
<1>9. QED
  BY <1>1, <1>2, <1>3, <1>4, <1>5, <1>6, <1>7, <1>8 DEF Next

\* Before a robbery at most one process owns the lock file.
LEMMA OneOwner ==
  ASSUME IInv, ~robbed, NEW p \in Process, NEW q \in Process, Owning(p), Owning(q)
  PROVE  p = q
  BY DEF IInv, TokenInv, OwnFileInv

\* Every step keeps the lock file with its creator, or records the robbery.
LEMMA OwnFileStep == IInv /\ [Next]_vars => OwnFileInv'
<1> SUFFICES ASSUME IInv, [Next]_vars, ~robbed' PROVE OwnFileInv'
  BY DEF OwnFileInv
<1>0. TypeOK /\ TokenInv /\ OwnFileInv
  BY DEF IInv
<1> USE <1>0 DEF TypeOK, PC, OwnFileInv, Owning, Holding
<1>1. ASSUME NEW p \in Process, BeginAcquire(p) PROVE OwnFileInv'
  BY <1>1 DEF BeginAcquire
<1>2. ASSUME NEW p \in Process, AcquireStep(p) PROVE OwnFileInv'
  <2>1. CASE CreateLockFile(p)
    <3>1. \A q \in Process : ~Owning(q)
      BY <2>1 DEF CreateLockFile, TokenInv
    <3>2. QED
      BY <2>1, <3>1 DEF CreateLockFile
  <2>2. CASE LockFileExists(p) \/ ReadHolder(p) \/ JudgeStale(p) \/ PollAgain(p)
    BY <2>2 DEF LockFileExists, ReadHolder, JudgeStale, PollAgain
  <2>3. CASE ClearStaleLock(p)
    <3>1. \A q \in Process : ~Owning(q)
      BY <2>3 DEF ClearStaleLock, RemoveLockFile
    <3>2. QED
      BY <2>3, <3>1 DEF ClearStaleLock
  <2>4. CASE TimeOut(p)
    BY <2>4 DEF TimeOut, Leave
  <2>5. CASE WriteMetadata(p)
    BY <2>5 DEF WriteMetadata
  <2>6. CASE WriteMetadataFails(p)
    <3>1. \A q \in Process : Owning(q) => q = p
      BY <2>6, OneOwner DEF WriteMetadataFails, RemoveLockFile
    <3>2. QED
      BY <2>6, <3>1 DEF WriteMetadataFails, Leave
  <2>7. QED
    BY <1>2, <2>1, <2>2, <2>3, <2>4, <2>5, <2>6 DEF AcquireStep
<1>3. ASSUME NEW p \in Process, EnterNested(p) \/ ExitNested(p) PROVE OwnFileInv'
  BY <1>3 DEF EnterNested, ExitNested
<1>4. ASSUME NEW p \in Process, ReleaseStep(p) PROVE OwnFileInv'
  <2>1. CASE ReleaseForeign(p) \/ ReleaseCheck(p)
    BY <2>1 DEF ReleaseForeign, ReleaseCheck, Leave
  <2>2. CASE ReleaseUnlink(p)
    <3>1. \A q \in Process : Owning(q) => q = p
      BY <2>2, OneOwner DEF ReleaseUnlink, RemoveLockFile
    <3>2. QED
      BY <2>2, <3>1 DEF ReleaseUnlink, Leave
  <2>3. QED
    BY <1>4, <2>1, <2>2 DEF ReleaseStep
<1>5. ASSUME NEW p \in Process, Crash(p) \/ Restart(p) PROVE OwnFileInv'
  BY <1>5 DEF Crash, Restart
<1>6. ASSUME NEW p \in Process, DeadlinePasses(p) PROVE OwnFileInv'
  BY <1>6 DEF DeadlinePasses
<1>7. ASSUME NEW t \in Token, GraceEnds(t) PROVE OwnFileInv'
  BY <1>7 DEF GraceEnds
<1>8. CASE UNCHANGED vars
  BY <1>8 DEF vars
<1>9. QED
  BY <1>1, <1>2, <1>3, <1>4, <1>5, <1>6, <1>7, <1>8 DEF Next

\* The strengthened invariant holds at the start and is kept by every step.
LEMMA InductiveInvariant == Spec => []IInv
<1>1. Init => IInv
  <2> SUFFICES ASSUME Init PROVE IInv
    OBVIOUS
  <2>1. TypeOK
    <3>1. late \in [Process -> BOOLEAN]
      BY Zenon DEF Init
    <3>2. depth \in [Process -> 0..MaxDepth] /\ crashes \in 0..MaxCrashes
      BY BoundsAssumption DEF Init
    <3>3. /\ pc \in [Process -> PC]
          /\ token \in [Process -> Token \cup {NoToken}]
          /\ seen \in [Process -> Token \cup {NoToken}]
      BY DEF Init, PC
    <3>4. file \in Token \cup {NoToken} /\ aged \subseteq Token
      BY DEF Init
    <3>5. complete \in BOOLEAN /\ robbed \in BOOLEAN
      BY DEF Init
    <3>6. QED
      BY <3>1, <3>2, <3>3, <3>4, <3>5 DEF TypeOK
  <2>2. \A p \in Process : pc[p] = "idle" /\ token[p] = NoToken
    BY DEF Init
  <2>3. TokenInv
    BY <2>2 DEF TokenInv, Waiting, Owning
  <2>4. OwnFileInv
    BY <2>2 DEF OwnFileInv, Owning
  <2>5. QED
    BY <2>1, <2>3, <2>4 DEF IInv
<1>2. IInv /\ [Next]_vars => IInv'
  BY TypeStep, TokenStep, OwnFileStep DEF IInv
<1>3. QED
  BY <1>1, <1>2, PTL DEF Spec

\* Type correctness of the lock protocol.
THEOREM TypeCorrect == Spec => []TypeOK
<1>1. IInv => TypeOK
  BY DEF IInv
<1>2. QED
  BY <1>1, InductiveInvariant, PTL

\* Single writer, whatever crashes, times out or fails, until some live process
\* has had its lock file taken away.
THEOREM Exclusion == Spec => []ExclusiveUnlessRobbed
<1>1. IInv => ExclusiveUnlessRobbed
  BY OneOwner DEF ExclusiveUnlessRobbed, MutualExclusion, Owning, Holding
<1>2. QED
  BY <1>1, InductiveInvariant, PTL

\* A release that reaches its unlink removes its own complete file.
THEOREM ReleaseIsOwn == Spec => []ReleaseUnlinksOwnFile
<1>1. IInv => ReleaseUnlinksOwnFile
  BY DEF IInv, OwnFileInv, ReleaseUnlinksOwnFile, Owning, Holding
<1>2. QED
  BY <1>1, InductiveInvariant, PTL

\* Release and failed write remove only what their own process created.
LEMMA RobberyStep ==
  ASSUME IInv, [Next]_vars, ~robbed, robbed'
  PROVE  \E p \in Process : ClearStaleLock(p)
<1> SUFFICES ASSUME \A p \in Process : ~ClearStaleLock(p) PROVE FALSE
  OBVIOUS
<1>1. PICK p \in Process : WriteMetadataFails(p) \/ ReleaseUnlink(p)
  BY DEF vars, Next, BeginAcquire, AcquireStep, CreateLockFile, LockFileExists, ReadHolder,
    JudgeStale, TimeOut, PollAgain, WriteMetadata, EnterNested, ExitNested, ReleaseStep,
    ReleaseForeign, ReleaseCheck, Crash, Restart, DeadlinePasses, GraceEnds
<1>2. Owning(p) /\ RemoveLockFile(p)
  BY <1>1 DEF WriteMetadataFails, ReleaseUnlink, Owning
<1>3. PICK q \in Process \ {p} : Owning(q)
  BY <1>2 DEF RemoveLockFile
<1>4. QED
  BY <1>2, <1>3, OneOwner

\* The first robbery is always a stale clearing.
THEOREM FirstRobberyIsClearing == Spec => OnlyClearingRobs
<1> DEFINE Cleared == ~robbed /\ robbed' => \E p \in Process : ClearStaleLock(p)
<1>1. IInv /\ [Next]_vars => [Cleared]_vars
  BY RobberyStep
<1>2. QED
  BY <1>1, InductiveInvariant, PTL DEF Spec, OnlyClearingRobs

-----------------------------------------------------------------------------
(***************************************************************************)
(* One machine, nobody killed: exclusion needs no proviso, and the file    *)
(* protocol implements the abstract single-writer lock.                    *)
(***************************************************************************)

OneHostNoCrash ==
  /\ \A p, q \in Process : HostOf[p] = HostOf[q]
  /\ MaxCrashes = 0

\* No process dies, so none is ever judged stale.
CalmInv ==
  /\ ~robbed
  /\ \A p \in Process : pc[p] \notin {"crashed", "unlink"}

\* Without a kill no holder on the same host looks dead.
LEMMA CalmStep ==
  ASSUME OneHostNoCrash, IInv, CalmInv, [Next]_vars
  PROVE  CalmInv'
<1> USE DEF IInv, TypeOK, PC, CalmInv
<1>1. ASSUME NEW p \in Process, JudgeStale(p) PROVE FALSE
  <2>1. seen[p] \in Token /\ Owner(seen[p]) \in Process
    BY <1>1 DEF JudgeStale, CanClearStaleLock, Token, Owner
  <2>2. HostOf[Owner(seen[p])] = HostOf[p]
    BY <2>1 DEF OneHostNoCrash
  <2>3. QED
    BY <1>1, <2>1, <2>2 DEF JudgeStale, CanClearStaleLock
<1>2. ASSUME NEW p \in Process, Crash(p) PROVE FALSE
  BY <1>2 DEF Crash, OneHostNoCrash
<1>3. ~robbed'
  BY RobberyStep DEF ClearStaleLock
<1>4. \A p \in Process : pc'[p] \notin {"crashed", "unlink"}
  BY <1>1, <1>2 DEF Next, vars, BeginAcquire, AcquireStep, CreateLockFile, LockFileExists,
    ReadHolder, ClearStaleLock, TimeOut, PollAgain, WriteMetadata, WriteMetadataFails, Leave,
    EnterNested, ExitNested, ReleaseStep, ReleaseForeign, ReleaseCheck, ReleaseUnlink,
    Restart, DeadlinePasses, GraceEnds
<1>5. QED
  BY <1>3, <1>4

\* On one host, with no process killed, exclusion is unconditional.
THEOREM LocalExclusion ==
  ASSUME OneHostNoCrash
  PROVE  Spec => []MutualExclusion
<1>1. Init => CalmInv
  BY DEF Init, CalmInv
<1>2. IInv /\ CalmInv /\ [Next]_vars => CalmInv'
  BY CalmStep
<1>3. IInv /\ CalmInv => MutualExclusion
  BY OneOwner DEF CalmInv, MutualExclusion, Owning, Holding
<1>4. QED
  BY <1>1, <1>2, <1>3, InductiveInvariant, PTL DEF Spec

\* Once a live process has been robbed, that is never forgotten.
LEMMA RobbedStays ==
  ASSUME [Next]_vars, robbed
  PROVE  robbed'
  BY DEF vars, Next, BeginAcquire, AcquireStep, CreateLockFile, LockFileExists, ReadHolder,
    JudgeStale, ClearStaleLock, TimeOut, PollAgain, WriteMetadata, WriteMetadataFails,
    RemoveLockFile, Leave, EnterNested, ExitNested, ReleaseStep, ReleaseForeign, ReleaseCheck,
    ReleaseUnlink, Crash, Restart, DeadlinePasses, GraceEnds

\* Until a robbery the abstract lock has at most one writer, who is the owner of
\* the file.
LEMMA OneWriter ==
  ASSUME IInv, NEW p \in Process, ~robbed, Owning(p)
  PROVE  Writers \subseteq {p}
  BY OneOwner DEF Writers, Holding, Owning

\* A step of the file protocol enters, leaves or keeps the set of writers.
LEMMA WritersStep ==
  ASSUME IInv, [Next]_vars
  PROVE  [SW!Next]_Writers
<1>0. TypeOK
  BY DEF IInv
<1> USE <1>0 DEF TypeOK, PC
<1>1. CASE robbed
  BY <1>1, RobbedStays DEF Writers
<1>2. CASE ~robbed /\ robbed'
  <2>1. Writers' = {}
    BY <1>2 DEF Writers
  <2>2. ASSUME NEW p \in Process, p \in Writers PROVE SW!Exit(p)
    <3>1. Owning(p)
      BY <2>2 DEF Writers, Holding, Owning
    <3>2. Writers = {p}
      BY <1>2, <2>2, <3>1, OneWriter
    <3>3. QED
      BY <2>1, <3>2 DEF SW!Exit
  <2>3. QED
    BY <2>1, <2>2 DEF SW!Next, Writers
<1>3. CASE ~robbed /\ ~robbed'
  <2>1. ASSUME NEW p \in Process, WriteMetadata(p) PROVE SW!Enter(p)
    <3>1. Owning(p) /\ p \notin Writers
      BY <2>1 DEF WriteMetadata, Owning, Writers, Holding
    <3>2. Writers = {}
      BY <1>3, <3>1, OneWriter
    <3>3. Writers' = Writers \cup {p}
      BY <1>3, <2>1 DEF WriteMetadata, Writers, Holding
    <3>4. QED
      BY <3>2, <3>3 DEF SW!Enter
  <2>2. ASSUME NEW p \in Process, Holding(p),
               ReleaseForeign(p) \/ ReleaseUnlink(p) \/ Crash(p)
        PROVE  SW!Exit(p)
    <3>1. Owning(p) /\ p \in Writers
      BY <1>3, <2>2 DEF Owning, Holding, Writers
    <3>2. Writers = {p}
      BY <1>3, <3>1, OneWriter
    <3>3. Writers' = Writers \ {p}
      BY <1>3, <2>2 DEF ReleaseForeign, ReleaseUnlink, Crash, Leave, Writers, Holding
    <3>4. QED
      BY <3>2, <3>3 DEF SW!Exit
  <2>3. ASSUME \A p \in Process : ~WriteMetadata(p),
               \A p \in Process :
                 Holding(p) => ~(ReleaseForeign(p) \/ ReleaseUnlink(p) \/ Crash(p))
        PROVE  Writers' = Writers
    <3>1. \A q \in Process : pc'[q] \in {"held", "release"} <=> pc[q] \in {"held", "release"}
      BY <2>3 DEF Next, vars, BeginAcquire, AcquireStep, CreateLockFile, LockFileExists,
        ReadHolder, JudgeStale, ClearStaleLock, TimeOut, PollAgain, WriteMetadataFails, Leave,
        EnterNested, ExitNested, ReleaseStep, ReleaseForeign, ReleaseUnlink, ReleaseCheck,
        Crash, Restart, DeadlinePasses, GraceEnds, Holding
    <3>2. QED
      BY <1>3, <3>1 DEF Writers, Holding
  <2>4. QED
    BY <2>1, <2>2, <2>3 DEF SW!Next
<1>4. QED
  BY <1>1, <1>2, <1>3

\* The file protocol implements the abstract single-writer lock, on any hosts and
\* through crashes, until some live process is robbed.
THEOREM FileImplementsLock == Spec => ImplementsSingleWriter
<1>1. Init => SW!Init
  BY DEF Init, SW!Init, Writers, Holding
<1>2. IInv /\ [Next]_vars => [SW!Next]_Writers
  BY WritersStep
<1>3. QED
  BY <1>1, <1>2, InductiveInvariant, PTL DEF Spec, ImplementsSingleWriter, SW!Spec
=============================================================================
