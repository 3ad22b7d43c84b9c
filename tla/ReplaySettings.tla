---------------------------- MODULE ReplaySettings ----------------------------
(***************************************************************************)
(* configure-replay-retention.py: one transaction that brings the declared *)
(* replay settings and authorized URLs into PostHog's projects, row by row *)
(* under row locks, while users edit the projects.                         *)
(***************************************************************************)
EXTENDS Naturals, Sequences

CONSTANTS
  Teams,      \* the declared projects, in order
  Declared,   \* SELF_HOSTED_APP_URLS
  Others,     \* URLs users may add
  Edits,      \* bound: what users do
  Faults      \* bound: kills

VARIABLES
  row,      \* by project: are its settings the declared ones, and its URLs; or None
  locked,   \* rows the transaction has locked
  saved,    \* what it has saved and not committed
  seen,     \* the row it has read
  pc, at,   \* its next step, and the project it is at
  edited,   \* projects that were created or edited since they were read, or since the Job began
  edits, faults

vars == <<row, locked, saved, seen, pc, at, edited, edits, faults>>

Ids == {Teams[i] : i \in DOMAIN Teams}
Urls == Declared \cup Others
None == [kept |-> FALSE, urls |-> {"none"}]
Rows == [kept : BOOLEAN, urls : SUBSET Urls]

TypeOK ==
  /\ row \in [Ids -> Rows \cup {None}] /\ seen \in Rows \cup {None}
  /\ locked \subseteq Ids /\ DOMAIN saved \subseteq Ids /\ \A t \in DOMAIN saved : saved[t] \in Rows
  /\ pc \in {"idle", "read", "save", "complete"} /\ at \in 1 .. Len(Teams) + 1
  /\ edited \subseteq Ids /\ edits \in 0 .. Edits /\ faults \in 0 .. Faults

Init ==
  /\ row = [t \in Ids |-> None]
  /\ locked = {} /\ saved = <<>> /\ seen = None
  /\ pc = "idle" /\ at = 1
  /\ edited = {} /\ edits = Edits /\ faults = Faults

-----------------------------------------------------------------------------
(* configure_retention() *)

\* The Job of the next sync.
Begin ==
  /\ pc \in {"idle", "complete"} /\ pc' = "read" /\ at' = 1
  /\ edited' = {}
  /\ UNCHANGED <<row, locked, saved, seen, edits, faults>>

\* Mutant: the row is read as it is.
ReadUnlocked ==
  /\ pc = "read" /\ at <= Len(Teams) /\ row[Teams[at]] # None
  /\ seen' = row[Teams[at]] /\ pc' = "save"
  /\ edited' = edited \ {Teams[at]}
  /\ UNCHANGED <<row, locked, saved, at, edits, faults>>

\* select_for_update()
Read ==
  /\ pc = "read" /\ at <= Len(Teams) /\ row[Teams[at]] # None
  /\ seen' = row[Teams[at]] /\ pc' = "save"
  /\ locked' = locked \cup {Teams[at]}
  /\ edited' = edited \ {Teams[at]}
  /\ UNCHANGED <<row, saved, at, edits, faults>>

\* Mutant: a project that is not there ends the loop.
SkipAll ==
  /\ pc = "read" /\ at <= Len(Teams) /\ row[Teams[at]] = None
  /\ at' = Len(Teams) + 1
  /\ UNCHANGED <<row, locked, saved, seen, pc, edited, edits, faults>>

Skip ==
  /\ pc = "read" /\ at <= Len(Teams) /\ row[Teams[at]] = None
  /\ at' = at + 1
  /\ UNCHANGED <<row, locked, saved, seen, pc, edited, edits, faults>>

Merged == [kept |-> TRUE, urls |-> seen.urls \cup Declared]

\* Only fields that differ are saved.
Save ==
  /\ pc = "save" /\ pc' = "read" /\ at' = at + 1
  /\ saved' = (IF Merged = seen THEN saved
             ELSE [t \in DOMAIN saved \cup {Teams[at]} |-> IF t = Teams[at] THEN Merged ELSE saved[t]])
  /\ UNCHANGED <<row, locked, seen, edited, edits, faults>>

Commit ==
  /\ pc = "read" /\ at > Len(Teams) /\ pc' = "complete"
  /\ row' = [t \in Ids |-> IF t \in DOMAIN saved THEN saved[t] ELSE row[t]]
  /\ locked' = {} /\ saved' = <<>> /\ seen' = None
  /\ UNCHANGED <<at, edited, edits, faults>>

\* Killed: the database rolls back.
Rollback ==
  /\ pc \in {"read", "save"} /\ faults > 0 /\ faults' = faults - 1
  /\ pc' = "idle" /\ at' = 1
  /\ locked' = {} /\ saved' = <<>> /\ seen' = None
  /\ UNCHANGED <<row, edited, edits>>

-----------------------------------------------------------------------------
(* Users.  Their updates wait for row locks; a save is one, too. *)

Edit(t) ==
  /\ t \notin locked \cup DOMAIN saved
  /\ edits > 0 /\ edits' = edits - 1
  /\ \E r \in Rows : r # row[t] /\ row' = [row EXCEPT ![t] = r]
  /\ edited' = edited \cup {t}
  /\ UNCHANGED <<locked, saved, seen, pc, at, faults>>

Next ==
  \/ Begin \/ Read \/ Skip \/ Save \/ Commit \/ Rollback
  \/ \E t \in Ids : Edit(t)

Spec == Init /\ [][Next]_vars

-----------------------------------------------------------------------------
(* Properties *)

\* "Additive: URLs added in the UI stay": also those that are added while the transaction
\* is under way.
UrlsKept ==
  [][pc' # pc => \A t \in Ids : row[t] # None => row[t].urls \subseteq row'[t].urls]_vars

\* A Job that is complete has reconciled every project there was, whichever others are
\* not created yet, unless users have edited it since.
Reconciled ==
  pc = "complete" => \A t \in Ids \ edited : row[t] = None \/ (row[t].kept /\ Declared \subseteq row[t].urls)
=============================================================================
