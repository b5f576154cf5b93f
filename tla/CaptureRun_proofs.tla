------------------------- MODULE CaptureRun_proofs -------------------------
(***************************************************************************)
(* One heavy capture at a time, for any processes and rows.  Each backend  *)
(* has an argument of its own: under PostgreSQL whoever is past the guard  *)
(* holds the advisory lock; under SQLite at most one historical row is     *)
(* 'running', because a row is inserted where no other is left.            *)
(***************************************************************************)
EXTENDS CaptureRun, FiniteSetTheorems, TLAPS

\* The part of the type invariant the argument needs.
RunType ==
  /\ pc \in [Process -> {"idle", "guard", "start", "query", "persist", "ingest", "materialize"}]
  /\ run \in [Process -> Run \cup {None}]
  /\ running \subseteq Run

\* A process that captures has a run of its own.
OwnRun == \A p \in Process : Capturing(p) => run[p] \in Run /\ run[p][1] = p

PastGuard(p) == pc[p] = "start" \/ Capturing(p)

\* PostgreSQL: who is past the guard holds the advisory lock.
AdvisoryHeld ==
  backend = "postgres" => \A p \in Historical : PastGuard(p) => advisory = p

\* SQLite: one historical row at most is 'running'.
OneRow ==
  backend = "sqlite" =>
    \A r, s \in running : r[1] \in Historical /\ s[1] \in Historical => r = s

GuardInv == RunType /\ OwnRun /\ AdvisoryHeld /\ OneRow /\ backend \in {"sqlite", "postgres"}

\* What a step may do: one process moves, and it records a run, drops rows, or
\* leaves.
LEMMA InitGuard == Init => GuardInv
BY ProcessAssumption DEF Init, GuardInv, RunType, OwnRun, AdvisoryHeld, OneRow, PastGuard,
   Capturing, Run

LEMMA LeaveKeeps ==
  ASSUME GuardInv, NEW p \in Process, Leave(p), backend' = backend, running' \subseteq running
  PROVE  GuardInv'
<1> USE ProcessAssumption DEF GuardInv
<1>1. RunType'
  BY DEF Leave, Go, RunType
<1>2. OwnRun'
  BY DEF Leave, Go, OwnRun, Capturing, RunType
<1>3. AdvisoryHeld'
  BY DEF Leave, Go, AdvisoryHeld, PastGuard, Capturing, RunType
<1>4. OneRow'
  BY DEF OneRow
<1> QED BY <1>1, <1>2, <1>3, <1>4

LEMMA RecordKeeps ==
  ASSUME GuardInv, NEW p \in Process, NEW rows \in SUBSET running, pc[p] = "start",
         RecordRun(p, rows), backend' = backend,
         backend = "sqlite" /\ p \in Historical => \A r \in rows : r[1] \notin Historical
  PROVE  GuardInv'
<1> USE ProcessAssumption DEF GuardInv
<1>1. PICK k \in Serial : run' = [run EXCEPT ![p] = <<p, k>>] /\ running' = rows \cup {<<p, k>>}
  BY DEF RecordRun
<1>2. <<p, k>> \in Run
  BY <1>1 DEF Run
<1>3. RunType'
  BY <1>1, <1>2 DEF RecordRun, Go, RunType
<1>4. OwnRun'
  BY <1>1, <1>2 DEF RecordRun, Go, OwnRun, Capturing, RunType
<1>5. AdvisoryHeld'
  BY DEF RecordRun, Go, AdvisoryHeld, PastGuard, Capturing, RunType
<1>6. OneRow'
  BY <1>1 DEF OneRow
<1> QED BY <1>3, <1>4, <1>5, <1>6

\* A process that only moves on, or another part of the state.
LEMMA MoveKeeps ==
  ASSUME GuardInv, NEW p \in Process, NEW step \in {"guard", "start", "query", "persist", "ingest", "materialize"},
         Go(p, step), UNCHANGED <<backend, run, running, advisory>>,
         step = "guard" \/ PastGuard(p) \/ p \notin Historical,
         step \in {"guard", "start"} \/ Capturing(p)
  PROVE  GuardInv'
<1> USE ProcessAssumption DEF GuardInv
<1>1. RunType'
  BY DEF Go, RunType
<1>2. OwnRun'
  BY DEF Go, OwnRun, Capturing, RunType
<1>3. AdvisoryHeld'
  BY DEF Go, AdvisoryHeld, PastGuard, Capturing, RunType
<1>4. OneRow'
  BY DEF OneRow
<1> QED BY <1>1, <1>2, <1>3, <1>4

LEMMA StepGuard == GuardInv /\ [Next]_vars => GuardInv'
<1> SUFFICES ASSUME GuardInv, [Next]_vars PROVE GuardInv'
  OBVIOUS
<1> USE DEF world, control, guards, stored
<1>1. ASSUME NEW p \in Process, EnterLock(p) PROVE GuardInv'
  BY <1>1, MoveKeeps DEF EnterLock
<1>2. ASSUME NEW p \in Process, RobLock(p) PROVE GuardInv'
  BY <1>2, MoveKeeps DEF RobLock
<1>3. ASSUME NEW p \in Process, CurrentLivePasses(p) PROVE GuardInv'
  BY <1>3, MoveKeeps DEF CurrentLivePasses
<1>4. ASSUME NEW p \in Process, SqliteGuard(p) PROVE GuardInv'
  <2> USE <1>4 DEF SqliteGuard
  <2>1. CASE ActiveRun
    BY <2>1, LeaveKeeps DEF Swept
  <2>2. CASE ~ActiveRun
    <3>1. RunType'
      BY <2>2 DEF GuardInv, Go, RunType, Swept
    <3>2. OwnRun'
      BY <2>2 DEF GuardInv, Go, RunType, OwnRun, Capturing
    <3>3. AdvisoryHeld' /\ OneRow'
      BY <2>2 DEF GuardInv, AdvisoryHeld, OneRow, Swept
    <3> QED BY <3>1, <3>2, <3>3 DEF GuardInv
  <2> QED BY <2>1, <2>2
<1>5. ASSUME NEW p \in Process, PostgresGuard(p) PROVE GuardInv'
  <2> USE <1>5 DEF PostgresGuard
  <2>1. CASE advisory # None
    BY <2>1, LeaveKeeps
  <2>2. CASE advisory = None
    <3>1. RunType' /\ OwnRun'
      BY <2>2 DEF GuardInv, Go, RunType, OwnRun, Capturing
    <3>2. AdvisoryHeld'
      BY <2>2, ProcessAssumption DEF GuardInv, Go, RunType, AdvisoryHeld, PastGuard, Capturing
    <3>3. OneRow'
      BY <2>2 DEF GuardInv, OneRow
    <3> QED BY <2>2, <3>1, <3>2, <3>3 DEF GuardInv
  <2> QED BY <2>1, <2>2
<1>6. ASSUME NEW p \in Process, StartRun(p) PROVE GuardInv'
  <2> USE <1>6 DEF StartRun
  <2>1. CASE p \in Historical /\ backend = "sqlite" /\ ActiveRun
    BY <2>1, LeaveKeeps
  <2>2. CASE p \in Historical /\ backend = "sqlite" /\ ~ActiveRun
    BY <2>2, RecordKeeps DEF ActiveRun, Swept
  <2>3. CASE ~(p \in Historical /\ backend = "sqlite")
    BY <2>3, RecordKeeps
  <2> QED BY <2>1, <2>2, <2>3
<1>7. ASSUME NEW p \in Process, QueryAnswers(p) PROVE GuardInv'
  BY <1>7, MoveKeeps DEF QueryAnswers, PastGuard, Capturing
<1>8. ASSUME NEW p \in Process, QueryFails(p) PROVE GuardInv'
  BY <1>8, MoveKeeps DEF QueryFails, PastGuard, Capturing
<1>9. ASSUME NEW p \in Process, PersistSample(p) \/ PersistFails(p) PROVE GuardInv'
  BY <1>9, MoveKeeps DEF PersistSample, PersistFails, Sampled, PastGuard, Capturing
<1>13. ASSUME NEW p \in Process, IngestLog(p) PROVE GuardInv'
  BY <1>13, MoveKeeps DEF IngestLog, PastGuard, Capturing
<1>10. ASSUME NEW p \in Process, Finalize(p) PROVE GuardInv'
  BY <1>10, LeaveKeeps DEF Finalize, Finalized
<1>11. ASSUME NEW p \in Process, Die(p) PROVE GuardInv'
  BY <1>11, LeaveKeeps DEF Die
<1>12. ASSUME Tick \/ RunAges \/ UNCHANGED vars PROVE GuardInv'
  BY <1>12 DEF Tick, RunAges, vars, GuardInv, RunType, OwnRun, AdvisoryHeld, OneRow,
     PastGuard, Capturing
<1> QED
  BY <1>1, <1>2, <1>3, <1>4, <1>5, <1>6, <1>7, <1>8, <1>9, <1>10, <1>11, <1>12, <1>13
  DEF Next, Guard, CaptureStep

\* At most one process runs the heavy historical path, whatever happens to the
\* writer lock, unless a capture outlives the time its row may be 'running'.
THEOREM HeavyCaptureAlone == Spec => []OneHeavyCapture
<1>1. GuardInv => OneHeavyCapture
  <2> SUFFICES ASSUME GuardInv, NEW p \in Historical, NEW q \in Historical,
                      Capturing(p), Capturing(q), {run[p], run[q]} \subseteq running
               PROVE  p = q
    BY DEF OneHeavyCapture
  <2> USE ProcessAssumption DEF GuardInv
  <2>1. run[p][1] = p /\ run[q][1] = q
    BY DEF OwnRun
  <2>2. CASE backend = "sqlite"
    BY <2>1, <2>2 DEF OneRow
  <2>3. CASE backend = "postgres"
    BY <2>3 DEF AdvisoryHeld, PastGuard
  <2> QED BY <2>2, <2>3
<1> QED BY InitGuard, StepGuard, <1>1, PTL DEF Spec
-----------------------------------------------------------------------------
(***************************************************************************)
(* What is stored.  As long as the lock is not robbed there is one capture *)
(* at a time, so its sample is not older than the checkpoint, and a window *)
(* is only ever extended by a later sample.                                *)
(***************************************************************************)
Window == [map : Map, first : Nat, last : Nat, count : Nat]

StoredType ==
  /\ pc \in [Process -> {"idle", "guard", "start", "query", "persist", "ingest", "materialize"}]
  /\ robbed \in BOOLEAN /\ now \in Nat /\ map \in Map
  /\ captured \in [Process -> Nat] /\ sampled \in [Process -> Map \cup {None}]
  /\ samples \subseteq [at : Nat, map : Map \cup {None}] /\ IsFiniteSet(samples)
  /\ newest \in Int

\* One capture at a time; what it has noted is not older than what is stored.
OneAtATime ==
  ~robbed =>
    /\ \A p \in Process : pc[p] # "idle" => p \in writers
    /\ \A p, q \in writers : p = q
    /\ newest <= now
    /\ \A p \in Process :
         pc[p] \in {"query", "persist"} => newest <= captured[p] /\ captured[p] <= now

InStep ==
  /\ windows \in Seq(Window)
  /\ CheckpointIsNewest /\ WindowsFollow /\ EverySampleCounts
  /\ \A w \in Windows : WindowIsExact(w)

StoredInv == StoredType /\ OneAtATime /\ (~robbed => InStep)

LEMMA InitStored == Init => StoredInv
<1> SUFFICES ASSUME Init PROVE StoredInv
  OBVIOUS
<1>1. StoredType
  <2>1. samples \subseteq [at : Nat, map : Map \cup {None}] /\ IsFiniteSet(samples)
    BY FS_EmptySet DEF Init
  <2>2. captured \in [Process -> Nat] /\ sampled \in [Process -> Map \cup {None}]
    BY DEF Init
  <2>3. pc \in [Process -> {"idle", "guard", "start", "query", "persist", "ingest", "materialize"}]
    BY DEF Init
  <2>4. now \in Nat /\ map \in Map /\ newest \in Int
    BY DEF Init
  <2>5. robbed \in BOOLEAN
    BY DEF Init
  <2> QED BY <2>1, <2>2, <2>3, <2>4, <2>5 DEF StoredType
<1>2. OneAtATime
  BY DEF Init, OneAtATime, Lock!Init
<1>3. InStep
  BY DEF Init, InStep, CheckpointIsNewest, WindowsFollow, EverySampleCounts, Windows
<1> QED BY <1>1, <1>2, <1>3 DEF StoredInv

\* A window begins and ends with samples of the past.
LEMMA WindowEnds ==
  ASSUME StoredType, windows \in Seq(Window), CheckpointIsNewest,
         NEW w \in Windows, WindowIsExact(w)
  PROVE  w \in Window /\ w.first <= w.last /\ w.last <= newest
<1>1. w \in Window
  BY DEF Windows
<1>2. PICK s \in Inside(w) : s.at = w.first
  BY DEF WindowIsExact
<1>3. PICK t \in Inside(w) : t.at = w.last
  BY DEF WindowIsExact
<1>4. s \in samples /\ t \in samples /\ s.at <= w.last
  BY DEF Inside
<1> QED BY <1>1, <1>2, <1>3, <1>4 DEF CheckpointIsNewest

\* Windows are stored in the order of their samples.
LEMMA LastWindow ==
  ASSUME StoredType, InStep, windows # <<>>,
         NEW i \in DOMAIN windows, NEW n, n = Len(windows)
  PROVE  n \in DOMAIN windows /\ i <= n /\ (i # n => windows[i].last < windows[n].last)
<1>1. n \in Nat \ {0} /\ DOMAIN windows = 1..n
  BY DEF InStep
<1>2. windows[i] \in Windows /\ windows[n] \in Windows
  BY <1>1 DEF Windows
<1>3. /\ windows[i] \in Window /\ windows[n] \in Window
      /\ windows[n].first <= windows[n].last
  BY <1>2, WindowEnds DEF InStep
<1>4. CASE i < n
  <2>1. windows[i].last < windows[n].first
    BY <1>1, <1>4 DEF InStep, WindowsFollow
  <2> QED BY <1>1, <1>3, <2>1 DEF Window
<1> QED BY <1>1, <1>4

\* The window that was seen last is the last one.
LEMMA LatestIsLast ==
  ASSUME StoredType, InStep, windows # <<>>
  PROVE  Latest = Len(windows)
<1> DEFINE n == Len(windows)
           IsLatest(i) == \A j \in DOMAIN windows :
             \/ windows[j].last < windows[i].last
             \/ windows[j].last = windows[i].last /\ j <= i
<1>1. n \in Nat \ {0} /\ DOMAIN windows = 1..n
  BY DEF InStep
<1>2. \A i \in 1..n : windows[i].last \in Nat
  <2> TAKE i \in 1..n
  <2>1. windows[i] \in Window
    BY <1>1 DEF InStep
  <2> QED BY <2>1 DEF Window
<1>3. \A i \in 1..n : i # n => windows[i].last < windows[n].last
  BY <1>1, LastWindow
<1> HIDE DEF n
<1>4. IsLatest(n)
  BY <1>1, <1>3
<1>5. ASSUME NEW i \in DOMAIN windows, IsLatest(i) PROVE i = n
  <2>1. ~ (i < n)
    BY <1>1, <1>2, <1>3, <1>5
  <2> QED BY <1>1, <2>1
<1> HIDE DEF IsLatest
<1>6. n \in DOMAIN windows
  BY <1>1
<1>7. (CHOOSE i \in DOMAIN windows : IsLatest(i)) = n
  BY <1>4, <1>5, <1>6
<1> QED BY <1>7 DEF Latest, IsLatest, n

\* A sample that is newer than all others leaves an older window as it is.
LEMMA OlderWindowStays ==
  ASSUME NEW w \in Window, WindowIsExact(w), NEW x, x.at \in Nat, w.last < x.at,
         samples' = samples \cup {x}
  PROVE  Inside(w)' = Inside(w) /\ WindowIsExact(w)'
<1>1. w.first \in Nat /\ w.last \in Nat
  BY DEF Window
<1>2. Inside(w)' = Inside(w)
  BY <1>1 DEF Inside
<1> QED BY <1>2 DEF WindowIsExact

\* A later sample without a map, a first sample of a window and a sample that
\* extends the last window all leave samples, checkpoint and windows in step.
LEMMA NewSample ==
  ASSUME StoredType, InStep, NEW t \in Nat, NEW m \in Map \cup {None}, newest <= t,
         ~Duplicate(t), samples' = samples \cup {[at |-> t, map |-> m]}, newest' = t,
         windows' = IF m = None THEN windows ELSE WithSample(m, t)
  PROVE  InStep'
<1> DEFINE x == [at |-> t, map |-> m]
<1>0. newest \in Int /\ Gap \in Nat /\ windows \in Seq(Window)
  BY BoundsAssumption DEF StoredType, InStep
<1>1. newest < t /\ \A s \in samples : s.at \in Nat /\ s.at <= newest
  <2>1. newest # t
    BY DEF InStep, CheckpointIsNewest, Duplicate
  <2> QED BY <1>0, <2>1 DEF InStep, CheckpointIsNewest, StoredType
<1>2. CheckpointIsNewest'
  <2>1. x \in samples' /\ x.at = newest' /\ newest' # -1
    OBVIOUS
  <2>2. \A s \in samples' : s.at <= newest'
    BY <1>0, <1>1
  <2> QED BY <2>1, <2>2 DEF CheckpointIsNewest
<1>3. \A w \in Windows : w \in Window /\ w.first <= w.last /\ w.last < t
  <2> TAKE w \in Windows
  <2>1. w \in Window /\ w.first <= w.last /\ w.last <= newest
    BY WindowEnds DEF InStep
  <2> QED BY <1>0, <1>1, <2>1 DEF Window
<1>4. \A w \in Windows : Inside(w)' = Inside(w) /\ WindowIsExact(w)'
  <2> TAKE w \in Windows
  <2>1. w \in Window /\ w.last < t
    BY <1>3
  <2> QED BY <2>1, OlderWindowStays DEF InStep
<1>5. CASE m = None
  <2>1. WindowsFollow' /\ Windows' = Windows /\ windows' \in Seq(Window)
    BY <1>0, <1>5 DEF InStep, WindowsFollow, Windows
  <2>2. EverySampleCounts'
    <3> SUFFICES ASSUME NEW s \in samples', s.map # None
                 PROVE  \E w \in Windows' : s \in Inside(w)'
      BY DEF EverySampleCounts
    <3>1. s \in samples
      BY <1>5
    <3> QED BY <1>4, <2>1, <3>1 DEF InStep, EverySampleCounts
  <2> QED BY <1>2, <1>4, <2>1, <2>2 DEF InStep
<1>6. CASE m # None /\ ~(windows # <<>> /\ Extends(windows[Latest], m, t))
  <2> DEFINE v == NewWindow(m, t)
  <2>1. windows' = Append(windows, v) /\ v \in Window
    BY <1>6 DEF WithSample, NewWindow, Window
  <2>2. Windows' = Windows \cup {v}
    BY <1>0, <2>1 DEF Windows
  <2>3. Inside(v)' = {x}
    <3>1. v.first = t /\ v.last = t
      BY DEF NewWindow
    <3> QED BY <1>0, <1>1, <1>6, <3>1 DEF Inside
  <2>4. WindowIsExact(v)'
    <3>1. v.map = m /\ v.first = t /\ v.last = t /\ v.count = 1
      BY DEF NewWindow
    <3>2. Cardinality(Inside(v)') = 1
      BY <2>3, FS_Singleton
    <3> HIDE DEF v
    <3> QED BY <2>3, <3>1, <3>2 DEF WindowIsExact
  <2>5. WindowsFollow'
    <3> SUFFICES ASSUME NEW i \in DOMAIN windows', NEW j \in DOMAIN windows', i < j
                 PROVE  windows'[i].last < windows'[j].first
      BY DEF WindowsFollow
    <3>1. CASE j = Len(windows) + 1
      <4>1. i \in DOMAIN windows /\ windows'[i] = windows[i] /\ windows'[j] = v
        BY <1>0, <2>1, <3>1
      <4> QED BY <1>3, <4>1 DEF Windows, NewWindow
    <3>2. CASE j # Len(windows) + 1
      <4>1. /\ i \in DOMAIN windows /\ windows'[i] = windows[i]
            /\ j \in DOMAIN windows /\ windows'[j] = windows[j]
        BY <1>0, <2>1, <3>2
      <4> QED BY <4>1 DEF InStep, WindowsFollow
    <3> QED BY <3>1, <3>2
  <2>6. EverySampleCounts'
    <3> SUFFICES ASSUME NEW s \in samples', s.map # None
                 PROVE  \E w \in Windows' : s \in Inside(w)'
      BY DEF EverySampleCounts
    <3>1. CASE s \in samples
      BY <1>4, <2>2, <3>1 DEF InStep, EverySampleCounts
    <3> QED BY <2>2, <2>3, <3>1
  <2>7. windows' \in Seq(Window)
    BY <1>0, <2>1
  <2> QED BY <1>2, <1>4, <2>2, <2>4, <2>5, <2>6, <2>7 DEF InStep
<1>7. CASE m # None /\ windows # <<>> /\ Extends(windows[Latest], m, t)
  <2> PICK n : n = Len(windows)
    OBVIOUS
  <2> PICK w : w = windows[n]
    OBVIOUS
  <2> PICK v : v = [w EXCEPT !.last = t, !.count = @ + 1]
    OBVIOUS
  <2>1. n \in DOMAIN windows /\ \A i \in DOMAIN windows :
                                  i <= n /\ (i # n => windows[i].last < w.last)
    BY <1>7, LastWindow, <1>0
  <2>2. w \in Windows /\ w \in Window /\ v \in Window
    <3>1. w \in Windows
      BY <2>1 DEF Windows
    <3>2. w \in Window
      BY <1>3, <3>1
    <3>3. v = [map |-> w.map, first |-> w.first, last |-> t, count |-> w.count + 1]
      BY <3>2 DEF Window
    <3>4. w.map \in Map /\ w.first \in Nat /\ w.count \in Nat
      BY <3>2 DEF Window
    <3>5. [map |-> w.map, first |-> w.first, last |-> t, count |-> w.count + 1] \in Window
      BY <3>4 DEF Window
    <3> QED BY <3>1, <3>2, <3>3, <3>5
  <2>3. windows' = [windows EXCEPT ![n] = v]
    BY <1>7, LatestIsLast DEF WithSample, Extended
  <2>4. w.map = m /\ t - w.last <= Gap
    BY <1>7, LatestIsLast DEF Extends
  <2>5. windows' \in Seq(Window)
    BY <1>0, <2>1, <2>2, <2>3
  <2>6. /\ v.map = m /\ v.first = w.first /\ v.last = t /\ v.count = w.count + 1
        /\ w.first \in Nat /\ w.last \in Nat /\ w.count \in Nat
    BY <2>2, <2>4 DEF Window
  <2>7. /\ Windows' \subseteq Windows \cup {v} /\ v \in Windows'
        /\ \A u \in Windows \ {w} : u \in Windows'
    BY <1>0, <2>1, <2>3 DEF Windows
  <2>8. \A s \in samples : s.map # None => s.at <= w.last
    <3> SUFFICES ASSUME NEW s \in samples, s.map # None PROVE s.at <= w.last
      OBVIOUS
    <3>1. PICK i \in DOMAIN windows : s \in Inside(windows[i])
      BY DEF InStep, EverySampleCounts, Windows
    <3>2. s.at <= windows[i].last
      BY <3>1 DEF Inside
    <3>3. windows[i] \in Window
      BY <1>0
    <3> QED BY <1>1, <2>1, <2>6, <3>2, <3>3 DEF Window
  <2>9. Inside(v)' = Inside(w) \cup {x}
    <3>1. w.first <= w.last /\ w.last < t
      BY <1>3, <2>2
    <3>2. \A s : s \in Inside(v)' <=> s \in samples' /\ s.map # None /\ w.first <= s.at /\ s.at <= t
      BY <2>6 DEF Inside
    <3>3. ASSUME NEW s \in samples, s.map # None, w.first <= s.at PROVE s \in Inside(w)
      BY <2>8, <3>3 DEF Inside
    <3>4. Inside(v)' \subseteq Inside(w) \cup {x}
      BY <3>2, <3>3
    <3>5. ASSUME NEW s \in Inside(w) PROVE s \in Inside(v)'
      <4>1. s \in samples /\ s.map # None /\ w.first <= s.at /\ s.at <= w.last
        BY <3>5 DEF Inside
      <4>2. s.at \in Nat
        BY <1>1, <4>1
      <4> QED BY <2>6, <3>1, <3>2, <4>1, <4>2
    <3>6. x \in Inside(v)'
      <4>1. x.map # None /\ w.first <= x.at /\ x.at <= t
        BY <1>7, <2>6, <3>1
      <4> QED BY <3>2, <4>1
    <3> QED BY <3>4, <3>5, <3>6
  <2>10. WindowIsExact(w)
    BY <2>2 DEF InStep
  <2>11. WindowIsExact(v)'
    <3>1. v.count = Cardinality(Inside(v)')
      <4>1. IsFiniteSet(Inside(w))
        BY FS_Subset DEF StoredType, Inside
      <4>2. x \notin Inside(w)
        BY DEF Inside, Duplicate
      <4>3. Cardinality(Inside(w) \cup {x}) = Cardinality(Inside(w)) + 1
        BY <4>1, <4>2, FS_AddElement
      <4> QED BY <2>6, <2>9, <2>10, <4>3 DEF WindowIsExact
    <3>2. {v.first, v.last} \subseteq {s.at : s \in Inside(v)'}
      <4>1. PICK s \in Inside(w) : s.at = w.first
        BY <2>10 DEF WindowIsExact
      <4>2. s \in Inside(v)' /\ x \in Inside(v)' /\ x.at = t
        BY <2>9
      <4> QED BY <2>6, <4>1, <4>2
    <3>3. \A s \in Inside(v)' : s.map = v.map
      BY <2>4, <2>6, <2>9, <2>10 DEF WindowIsExact
    <3>4. ASSUME NEW s \in Inside(v)'
          PROVE  s.at = v.last \/ \E u \in Inside(v)' : s.at < u.at /\ u.at - s.at <= Gap
      <4>1. CASE s = x
        BY <2>6, <4>1
      <4>2. CASE s \in Inside(w) /\ s.at = w.last
        <5>1. x \in Inside(v)' /\ x.at = t /\ w.last < t
          BY <1>3, <2>2, <2>9
        <5> QED BY <2>4, <4>2, <5>1
      <4>3. CASE s \in Inside(w) /\ s.at # w.last
        BY <2>9, <2>10, <4>3 DEF WindowIsExact
      <4> QED BY <2>9, <4>1, <4>2, <4>3
    <3> QED BY <3>1, <3>2, <3>3, <3>4 DEF WindowIsExact
  <2>12. WindowsFollow'
    <3> SUFFICES ASSUME NEW i \in DOMAIN windows', NEW j \in DOMAIN windows', i < j
                 PROVE  windows'[i].last < windows'[j].first
      BY DEF WindowsFollow
    <3>1. i \in DOMAIN windows /\ j \in DOMAIN windows /\ i # n
      BY <1>0, <2>1, <2>3
    <3>2. windows'[i].last = windows[i].last
      BY <2>3, <3>1
    <3>3. windows'[j].first = windows[j].first
      BY <2>3, <2>6, <3>1
    <3> QED BY <3>1, <3>2, <3>3 DEF InStep, WindowsFollow
  <2>13. EverySampleCounts'
    <3> SUFFICES ASSUME NEW s \in samples', s.map # None
                 PROVE  \E u \in Windows' : s \in Inside(u)'
      BY DEF EverySampleCounts
    <3>1. CASE s = x
      BY <2>7, <2>9, <3>1
    <3>2. CASE s \in samples
      <4>1. PICK u \in Windows : s \in Inside(u)
        BY <3>2 DEF InStep, EverySampleCounts
      <4>2. CASE u = w
        BY <2>7, <2>9, <4>1, <4>2
      <4>3. CASE u # w
        BY <1>4, <2>7, <4>1, <4>3
      <4> QED BY <4>2, <4>3
    <3> QED BY <3>1, <3>2
  <2>14. \A u \in Windows' : WindowIsExact(u)'
    BY <1>4, <2>7, <2>11
  <2> QED BY <1>2, <2>5, <2>12, <2>13, <2>14 DEF InStep
<1> QED BY <1>5, <1>6, <1>7

LEMMA NothingStored == ASSUME InStep, UNCHANGED stored PROVE InStep'
<1>1. UNCHANGED <<samples, newest, windows>>
  BY DEF stored
<1>2. windows' \in Seq(Window) /\ Windows' = Windows
  BY <1>1 DEF InStep, Windows
<1>3. CheckpointIsNewest' /\ WindowsFollow'
  BY <1>1 DEF InStep, CheckpointIsNewest, WindowsFollow
<1>4. \A w : Inside(w)' = Inside(w)
  BY <1>1 DEF Inside
<1>5. EverySampleCounts'
  BY <1>1, <1>2, <1>4 DEF InStep, EverySampleCounts
<1>6. \A w \in Windows' : WindowIsExact(w)'
  BY <1>2, <1>4 DEF InStep, WindowIsExact
<1> QED BY <1>2, <1>3, <1>5, <1>6 DEF InStep

\* A process that only moves on within the lock, or leaves it.
LEMMA MovesOn ==
  ASSUME StoredInv, NEW p \in Process,
         NEW step \in {"idle", "guard", "start", "query", "persist", "ingest", "materialize"},
         Go(p, step), pc[p] # "idle", UNCHANGED <<backend, now, map, robbed, stored>>,
         writers' = IF step = "idle" THEN writers \ {p} ELSE writers,
         \/ captured' = captured /\ step # "query"
         \/ captured' = [captured EXCEPT ![p] = 0] /\ step \notin {"query", "persist"}
         \/ captured' = [captured EXCEPT ![p] = now] /\ step = "query",
         step = "persist" => pc[p] = "query",
         sampled' \in [Process -> Map \cup {None}]
  PROVE  StoredInv'
<1>1. StoredType'
  <2>1. captured' \in [Process -> Nat] /\ pc' \in [Process -> {"idle", "guard", "start", "query", "persist", "ingest", "materialize"}]
    BY DEF StoredInv, StoredType, Go
  <2> QED BY <2>1 DEF StoredInv, StoredType, stored
<1>2. OneAtATime'
  <2> SUFFICES ASSUME ~robbed PROVE OneAtATime'
    BY DEF OneAtATime
  <2>1. /\ \A q \in Process : pc'[q] # "idle" => q \in writers'
        /\ \A q, r \in writers' : q = r
        /\ newest' <= now'
    BY DEF StoredInv, StoredType, OneAtATime, Go, stored
  <2>2. ASSUME NEW q \in Process, pc'[q] \in {"query", "persist"}
        PROVE  newest' <= captured'[q] /\ captured'[q] <= now'
    BY <2>2 DEF StoredInv, StoredType, OneAtATime, Go, stored
  <2> QED BY <2>1, <2>2 DEF OneAtATime
<1>3. (~robbed => InStep)'
  BY NothingStored DEF StoredInv
<1> QED BY <1>1, <1>2, <1>3 DEF StoredInv

LEMMA PersistKeeps ==
  ASSUME StoredInv, NEW p \in Process, PersistSample(p)
  PROVE  StoredInv'
<1> DEFINE t == captured[p]
           m == sampled[p]
           x == [at |-> t, map |-> m]
<1>1. t \in Nat /\ m \in Map \cup {None} /\ newest' = t
  BY DEF StoredInv, StoredType, PersistSample, Checkpoint
<1>2. samples' \subseteq [at : Nat, map : Map \cup {None}] /\ IsFiniteSet(samples')
  <2>1. samples' = samples \/ samples' = samples \cup {x}
    BY DEF PersistSample
  <2>2. IsFiniteSet(samples \cup {x})
    BY FS_AddElement DEF StoredInv, StoredType
  <2>3. x \in [at : Nat, map : Map \cup {None}]
    BY <1>1
  <2> QED BY <2>1, <2>2, <2>3 DEF StoredInv, StoredType
<1>3. OneAtATime'
  BY <1>1 DEF StoredInv, StoredType, OneAtATime, PersistSample, Sampled, Go, world
<1>4. StoredType'
  <2>1. pc' \in [Process -> {"idle", "guard", "start", "query", "persist", "ingest", "materialize"}]
    BY DEF StoredInv, StoredType, PersistSample, Sampled, Go
  <2>2. captured' \in [Process -> Nat] /\ sampled' \in [Process -> Map \cup {None}]
    BY DEF StoredInv, StoredType, PersistSample, Sampled
  <2> QED BY <1>1, <1>2, <2>1, <2>2 DEF StoredInv, StoredType, PersistSample, world
<1>5. ASSUME ~robbed PROVE InStep'
  <2>1. newest <= t
    BY <1>5 DEF StoredInv, OneAtATime, PersistSample
  <2>2. CASE Duplicate(t)
    <3>1. newest = t
      <4>1. t <= newest
        BY <1>5, <2>2 DEF StoredInv, InStep, CheckpointIsNewest, Duplicate
      <4> QED BY <1>1, <2>1, <4>1 DEF StoredInv, StoredType
    <3>2. UNCHANGED stored
      BY <1>1, <2>2, <3>1 DEF PersistSample, stored
    <3> QED BY <1>5, <3>2, NothingStored DEF StoredInv
  <2>3. CASE ~Duplicate(t)
    <3>1. samples' = samples \cup {x} /\ windows' = IF m = None THEN windows ELSE WithSample(m, t)
      BY <2>3 DEF PersistSample
    <3> HIDE DEF t, m
    <3> QED BY <1>1, <1>5, <2>1, <2>3, <3>1, NewSample DEF StoredInv
  <2> QED BY <2>2, <2>3
<1> QED BY <1>3, <1>4, <1>5 DEF StoredInv, PersistSample

LEMMA StepStored == StoredInv /\ [Next]_vars => StoredInv'
<1> SUFFICES ASSUME StoredInv, [Next]_vars PROVE StoredInv'
  OBVIOUS
<1>0. sampled \in [Process -> Map \cup {None}] /\ map \in Map
  BY DEF StoredInv, StoredType
<1> USE DEF world, control, guards, stored
<1>1. ASSUME NEW p \in Process, EnterLock(p) \/ RobLock(p) PROVE StoredInv'
  <2> USE <1>1 DEF EnterLock, RobLock, Lock!Enter
  <2>1. StoredType'
    BY DEF StoredInv, StoredType, Go
  <2>2. OneAtATime'
    BY DEF StoredInv, StoredType, OneAtATime, Go
  <2>3. (~robbed => InStep)'
    BY NothingStored DEF StoredInv
  <2> QED BY <2>1, <2>2, <2>3 DEF StoredInv
<1>2. ASSUME NEW p \in Process, CurrentLivePasses(p) PROVE StoredInv'
  BY <1>0, <1>2, MovesOn DEF CurrentLivePasses, Go
<1>3. ASSUME NEW p \in Process, Leave(p), UNCHANGED <<world, robbed, stored>>, pc[p] # "idle"
      PROVE  StoredInv'
  <2>1. sampled' \in [Process -> Map \cup {None}]
    BY <1>0, <1>3 DEF Leave
  <2> QED BY <1>3, <2>1, MovesOn DEF Leave
<1>4. ASSUME NEW p \in Process, Guard(p) PROVE StoredInv'
  BY <1>0, <1>2, <1>3, <1>4, MovesOn DEF Guard, SqliteGuard, PostgresGuard
<1>5. ASSUME NEW p \in Process, StartRun(p) PROVE StoredInv'
  BY <1>0, <1>3, <1>5, MovesOn DEF StartRun, RecordRun
<1>6. ASSUME NEW p \in Process, QueryAnswers(p) PROVE StoredInv'
  BY <1>0, <1>6, MovesOn DEF QueryAnswers
<1>7. ASSUME NEW p \in Process, QueryFails(p) \/ IngestLog(p) PROVE StoredInv'
  BY <1>0, <1>7, MovesOn DEF QueryFails, IngestLog
<1>8. ASSUME NEW p \in Process, PersistFails(p) PROVE StoredInv'
  <2>1. sampled' \in [Process -> Map \cup {None}]
    BY <1>0, <1>8 DEF PersistFails, Sampled
  <2> QED BY <1>8, <2>1, MovesOn DEF PersistFails, Sampled
<1>9. ASSUME NEW p \in Process, Finalize(p) \/ Die(p) PROVE StoredInv'
  BY <1>3, <1>9 DEF Finalize, Die, Capturing
<1>10. ASSUME Tick \/ RunAges \/ UNCHANGED vars PROVE StoredInv'
  <2> USE <1>10 DEF Tick, RunAges, vars
  <2>1. StoredType'
    BY DEF StoredInv, StoredType
  <2>2. OneAtATime'
    BY DEF StoredInv, StoredType, OneAtATime
  <2>3. (~robbed => InStep)'
    BY NothingStored DEF StoredInv
  <2> QED BY <2>1, <2>2, <2>3 DEF StoredInv
<1> QED
  BY <1>1, <1>4, <1>5, <1>6, <1>7, <1>8, <1>9, <1>10, PersistKeeps DEF Next, CaptureStep

\* Samples, checkpoint and windows agree after every capture and every fault, as
\* long as no waiter takes the lock of a live process.
THEOREM StoredStaysInStep == Spec => []StoredInStep
<1>1. StoredInv => StoredInStep
  BY DEF StoredInv, InStep, StoredInStep
<1> QED BY InitStored, StepStored, <1>1, PTL DEF Spec
=============================================================================
