--------------------------- MODULE SnapshotFiles ---------------------------
(***************************************************************************)
(* The precomputed snapshots of historical_snapshot_storage.py.  Under     *)
(* SQLite each one is a JSON FILE that is read, judged, truncated and      *)
(* written in place, by the runner and by any command an operator starts   *)
(* beside it; an empty result does not replace a document with content.    *)
(* Under PostgreSQL each one is a row, upserted in one statement and never *)
(* judged (postgres_display_storage.py).                                   *)
(*                                                                         *)
(* A payload is the set of matches it was built from; the empty set stands *)
(* for what _is_effectively_empty_snapshot_payload calls empty.            *)
(***************************************************************************)
EXTENDS Integers

CONSTANTS
  Refresher,   \* the processes that rebuild read models
  MaxKills     \* bound: process kills in a behaviour

ASSUME MaxKillsAssumption == MaxKills \in Nat

VARIABLES
  backend,  \* use_postgres_rcon_storage(): "sqlite" or "postgres"
  file,     \* the stored snapshot: Absent, Torn, or a document
  found,    \* per refresher: the document its _read_snapshot_document returned
  payload,  \* per refresher: what it has built and is about to persist
  pstep,    \* per refresher: where it is in persist_historical_snapshot
  kills,    \* number of kills so far
  raced     \* history: refreshers beside which another one stored since they read

fileVars == <<backend, file, found, payload, pstep, kills, raced>>

Absent == [state |-> "absent", items |-> {}]
Torn == [state |-> "torn", items |-> {}]
Document(items) == [state |-> "document", items |-> items]
Empty(doc) == doc.items = {}

FileInit ==
  /\ backend \in {"sqlite", "postgres"}
  /\ file = Absent
  /\ found = [r \in Refresher |-> Absent]
  /\ payload = [r \in Refresher |-> {}]
  /\ pstep = [r \in Refresher |-> "none"]
  /\ kills = 0
  /\ raced = {}

-----------------------------------------------------------------------------
\* Refreshers that have judged, or are filling, a document r has just replaced.
Overtaken(r) == raced \cup {q \in Refresher \ {r} : pstep[q] \in {"judge", "write"}}

\* persist_historical_snapshot returns.
Persisted(r) ==
  /\ pstep' = [pstep EXCEPT ![r] = "none"]
  /\ found' = [found EXCEPT ![r] = Absent]
  /\ payload' = [payload EXCEPT ![r] = {}]

\* Missing, unreadable and half-written documents all count as no document.
ReadDocument(r) ==
  /\ pstep[r] = "read"
  /\ found' = [found EXCEPT ![r] = IF file = Torn THEN Absent ELSE file]
  /\ raced' = raced \ {r}
  /\ pstep' = [pstep EXCEPT ![r] = "judge"]
  /\ UNCHANGED <<backend, file, payload, kills>>

\* Mutant: only an absent document is worth keeping.
KeepNothing(r) == payload[r] = {} /\ found[r] = Absent

\* An empty payload does not replace a document with content.
ShouldPreserve(r) == payload[r] = {} /\ ~Empty(found[r])

PreserveDocument(r) ==
  /\ pstep[r] = "judge"
  /\ ShouldPreserve(r)
  /\ Persisted(r)
  /\ UNCHANGED <<backend, file, kills, raced>>

\* write_text opens the file for writing, which empties it ...
TruncateFile(r) ==
  /\ pstep[r] = "judge"
  /\ ~ShouldPreserve(r)
  /\ file' = Torn
  /\ raced' = Overtaken(r)
  /\ pstep' = [pstep EXCEPT ![r] = "write"]
  /\ UNCHANGED <<backend, found, payload, kills>>

\* ... and fills it.
WriteDocument(r) ==
  /\ pstep[r] = "write"
  /\ file' = Document(payload[r])
  /\ raced' = Overtaken(r)
  /\ Persisted(r)
  /\ UNCHANGED <<backend, kills>>

\* persist_snapshot_record: one upsert, whatever the payload.
UpsertRecord(r) ==
  /\ pstep[r] = "upsert"
  /\ file' = Document(payload[r])
  /\ Persisted(r)
  /\ UNCHANGED <<backend, kills, raced>>

PersistStep(r) ==
  \/ ReadDocument(r) \/ PreserveDocument(r) \/ TruncateFile(r)
  \/ WriteDocument(r) \/ UpsertRecord(r)

-----------------------------------------------------------------------------
(***************************************************************************)
(* Properties.                                                             *)
(***************************************************************************)

\* A stored snapshot with content is never replaced by an empty one, whatever
\* the windows roll over to, as long as no other process stored between this
\* one's read and its write: what _should_preserve_existing_snapshot is for.  (A
\* kill that leaves the file half written has lost the content by itself.)
ContentSurvives ==
  [][\A r \in Refresher :
       backend = "sqlite" /\ r \notin raced /\ pstep[r] = "judge" /\ pstep'[r] = "write"
       => Empty(file) \/ payload[r] # {}]_fileVars

\* A reader that meets a half-written file fails; the next refresh repairs it,
\* also when the process that tore it was killed.
TornFileRepaired == file = Torn ~> file # Torn

\* A document is neither emptied nor left torn by the refreshes.
DocumentSurvives == ContentSurvives /\ TornFileRepaired
=============================================================================
