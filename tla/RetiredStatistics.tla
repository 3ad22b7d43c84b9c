-------------------------- MODULE RetiredStatistics --------------------------
(***************************************************************************)
(* Retiring Home Assistant's completed-period statistics                   *)
(* (scripts/retire-period-statistics.py).  An init container moves the     *)
(* rows of the retired series out of the recorder into an archive file, or *)
(* back, before Home Assistant starts.  It is killed or loses its node     *)
(* between any two file operations, git moves between the versions of the  *)
(* Deployment in any order, and Home Assistant records in between.         *)
(***************************************************************************)
EXTENDS Naturals, FiniteSets

CONSTANTS
  MaxRows,        \* bound: rows the retired series ever get
  MaxOther,       \* bound: row ids of other series
  OrderedRename,  \* does the filesystem persist a rename with any later fsync?
  Faults          \* bound: kills, outages and commits in a behaviour

ASSUME RetirementAssumption ==
  /\ MaxRows \in Nat /\ MaxOther \in Nat /\ Faults \in Nat
  /\ OrderedRename \in BOOLEAN

VARIABLES
  pod,       \* the Deployment's version: its init step and its sensors
  pc,        \* where the init container is, or "running": Home Assistant is
  db,        \* rows of retired series in the recorder, with their row ids
  other,     \* the highest row id of any other series
  archive,   \* the archive file, or NoArchive
  durable,   \* what an outage would leave of it
  recorded,  \* rows 1 .. recorded were recorded for retired series so far
  faults     \* faults left

recorder == <<db, other, recorded>>
disk     == <<archive, durable>>
vars == <<pod, pc, recorder, disk, faults>>

\* "tracked" sensors have a state_class, so Home Assistant keeps statistics of them.
Versions == [step : {"retire", "restore", "off"}, sensors : {"tracked", "retired"}]
Rows == 1 .. MaxRows
Ids == 1 .. MaxOther + 2 * MaxRows
Entries == [row : Rows, id : Ids]
NoArchive == {}    \* a file is never empty: retire() returns first

TypeOK ==
  /\ pod \in Versions
  /\ pc \in {"init", "failed", "rename", "sync", "delete", "running"}
  /\ db \in SUBSET Entries
  /\ other \in 0 .. MaxOther
  /\ archive \in SUBSET Entries
  /\ durable \in SUBSET Entries
  /\ recorded \in 0 .. MaxRows
  /\ faults \in 0 .. Faults

\* The series are tracked, nothing was ever retired.
Init ==
  /\ pod = [step |-> "off", sensors |-> "tracked"]
  /\ pc = "init"
  /\ db = {}
  /\ other = 0
  /\ archive = NoArchive
  /\ durable = NoArchive
  /\ recorded = 0
  /\ faults = Faults

Fault == faults > 0 /\ faults' = faults - 1

RowsOf(s) == {e.row : e \in s}

\* SQLite's next row id is one above the highest in use.
HighestId ==
  CHOOSE n \in {other} \cup {e.id : e \in db} : n >= other /\ \A e \in db : n >= e.id

-----------------------------------------------------------------------------
(* The init container.  Only it writes while Home Assistant is stopped.    *)

NoStep ==
  /\ pc = "init" /\ pod.step = "off"
  /\ pc' = "running"
  /\ UNCHANGED <<pod, recorder, disk, faults>>

\* Mutant: the templates are not looked at.
VerifyNothing == TRUE

\* verify_config(): the sensors really are without a state class.
VerifyConfig == pod.sensors = "retired"

\* Mutant: an archive that is there is replaced.
SaveArchiveOver == pc' = "rename"

\* Mutant: an archive that is there is always another one's.
SaveArchiveOnce == pc' = IF archive = NoArchive THEN "rename" ELSE "failed"

\* save_archive(): written once, trusted when equal row by row and id by id.
SaveArchive ==
  pc' = IF archive = NoArchive THEN "rename"
        ELSE IF archive = db THEN "delete" ELSE "failed"

\* retire(), up to the first write.  Nothing to retire is a success.
Retire ==
  /\ pc = "init" /\ pod.step = "retire"
  /\ IF ~VerifyConfig THEN pc' = "failed"
     ELSE IF db = {} THEN pc' = "running"
     ELSE SaveArchive
  /\ UNCHANGED <<pod, recorder, disk, faults>>

\* temporary.replace(path): its content is synced, the directory is not yet.
Rename ==
  /\ pc = "rename"
  /\ archive' = db
  /\ pc' = "sync"
  /\ UNCHANGED <<pod, recorder, durable, faults>>

SyncDirectory ==
  /\ pc = "sync"
  /\ durable' = archive
  /\ pc' = "delete"
  /\ UNCHANGED <<pod, recorder, archive, faults>>

\* The DELETEs and db.commit(), which syncs the database.
CommitDelete ==
  /\ pc = "delete"
  /\ db' = {}
  /\ durable' = IF OrderedRename THEN archive ELSE durable
  /\ pc' = "running"
  /\ UNCHANGED <<pod, other, recorded, archive, faults>>

Inserted ==
  {[row |-> e.row, id |-> HighestId + Cardinality({d \in archive : d.id <= e.id})] : e \in archive}

\* Mutant: rows of an earlier restore are not looked for.
RestoreAgain ==
  /\ pc = "init" /\ pod.step = "restore"
  /\ IF archive = NoArchive
       THEN pc' = "failed" /\ UNCHANGED db
       ELSE pc' = "running" /\ db' = db \cup Inserted
  /\ UNCHANGED <<pod, other, recorded, disk, faults>>

\* restore(), one transaction: the archived rows in their order under fresh ids,
\* unless they are there already, whatever their ids.
Restore ==
  /\ pc = "init" /\ pod.step = "restore"
  /\ IF archive = NoArchive \/ RowsOf(db) \notin {{}, RowsOf(archive)}
       THEN pc' = "failed" /\ UNCHANGED db
       ELSE pc' = "running" /\ db' = IF db = {} THEN Inserted ELSE db
  /\ UNCHANGED <<pod, other, recorded, disk, faults>>

\* The kubelet starts a failed init container again.
Retry ==
  /\ pc = "failed"
  /\ pc' = "init"
  /\ UNCHANGED <<pod, recorder, disk, faults>>

-----------------------------------------------------------------------------
(* Home Assistant and the world. *)

RecordTracked ==
  /\ pc = "running" /\ pod.sensors = "tracked"
  /\ recorded < MaxRows
  /\ recorded' = recorded + 1
  /\ db' = db \cup {[row |-> recorded + 1, id |-> HighestId + 1]}
  /\ UNCHANGED <<pod, pc, other, disk, faults>>

RecordOther ==
  /\ pc = "running"
  /\ HighestId < MaxOther
  /\ other' = HighestId + 1
  /\ UNCHANGED <<pod, pc, db, recorded, disk, faults>>

\* A commit changes the Deployment; Recreate stops the old pod wherever it is.
GitChanges ==
  /\ Fault
  /\ pod' \in Versions \ {pod}
  /\ pc' = "init"
  /\ UNCHANGED <<recorder, disk>>

Kill ==
  /\ Fault
  /\ pc' = "init"
  /\ UNCHANGED <<pod, recorder, disk>>

\* A rename that was not synced may not survive.
Outage ==
  /\ Fault
  /\ pc' = "init"
  /\ archive' \in {archive, durable}
  /\ durable' = archive'
  /\ UNCHANGED <<pod, recorder>>

-----------------------------------------------------------------------------

Container ==
  \/ NoStep \/ Retire \/ Rename \/ SyncDirectory \/ CommitDelete
  \/ Restore \/ Retry

HomeAssistant == RecordTracked \/ RecordOther

Next == Container \/ HomeAssistant \/ GitChanges \/ Kill \/ Outage

Spec == Init /\ [][Next]_vars

\* The kubelet runs the init container until it succeeds.
FairSpec == Spec /\ WF_vars(Container)

-----------------------------------------------------------------------------
(* Properties. *)

\* "The archive must be durable before any deletion can commit": every row ever
\* recorded is in the recorder or in the archive, whatever is killed, reverted,
\* restored, recorded anew and retired again.
NothingLost == \A r \in 1 .. recorded : r \in RowsOf(db) \cup RowsOf(archive)

\* Home Assistant never starts over statistics it would warn about: with the retiring
\* step in place the recorder holds none, and gets none while it runs.
RetiredBeforeStart == pod.step = "retire" /\ pc = "running" => db = {}

\* "It is idempotent": a restore that succeeds, for the first or another time, leaves
\* every archived row in the recorder exactly once, and no other.
RestoredExactly ==
  [][pod.step = "restore" /\ pc = "init" /\ pc' = "running"
       => RowsOf(db') = RowsOf(archive) /\ Cardinality(db') = Cardinality(archive)]_vars

\* Why a step may refuse for good: sensors that are not retired, an archive of other
\* rows or row ids, no archive.  No crash leaves anything else it trips over.
Refused ==
  \/ /\ pod.step = "retire"
     /\ ~VerifyConfig \/ (db # {} /\ archive \notin {NoArchive, db})
  \/ /\ pod.step = "restore"
     /\ archive = NoArchive \/ RowsOf(db) \notin {{}, RowsOf(archive)}

\* Home Assistant starts in the end, unless the step has one of these reasons.
Starts == <>[](pc = "running" \/ Refused)

-----------------------------------------------------------------------------
(* Why nothing is lost (inductive): an archive that is there was written from the *)
(* recorder's rows, and stays a part of them until it is durable.                 *)

ArchiveInv ==
  /\ recorded \in Nat
  /\ NothingLost
  /\ pc \in {"rename", "sync", "delete"} => pod.step = "retire" /\ VerifyConfig
  /\ pc = "rename" => archive = NoArchive
  /\ pc \in {"sync", "delete"} => archive = db
  /\ durable \in {NoArchive, archive}
  /\ durable # archive => archive \subseteq db

\* Why the step has done its work when Home Assistant runs: the templates were verified
\* before the first write, and a pod keeps its templates.
StartInv ==
  /\ RetiredBeforeStart
  /\ pod.step = "retire" /\ pc \in {"rename", "sync", "delete", "running"} => VerifyConfig

=============================================================================
