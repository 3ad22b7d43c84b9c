--------------------------- MODULE PresentonSettings ---------------------------
(***************************************************************************)
(* The init container of Presenton (presenton/scripts/reconcile-llm.py),   *)
(* which writes git's model fields into the three copies of its settings,  *)
(* the row of its database, userConfig.json and its .bak, before the       *)
(* application opens them.  A copy is a record of the key it holds and the *)
(* preferences, or Absent, or a Torn file.                                 *)
(***************************************************************************)
EXTENDS Naturals

CONSTANTS
  Keys,   \* credentials the Secret may hold
  Prefs,  \* preferences a user may save
  Faults  \* bound: kills and rotations of the key

VARIABLES
  secret,
  row, config, backup,
  pc,      \* the container's next step, or "running": the application is
  key,     \* the container's environment
  data,    \* the settings it has read
  faults

vars == <<secret, row, config, backup, pc, key, data, faults>>

Absent == [key |-> "absent", prefs |-> "none"]
Torn == [key |-> "torn", prefs |-> "none"]
Settings == [key : Keys \cup {"old"}, prefs : Prefs \cup {"none"}]

TypeOK ==
  /\ secret \in Keys /\ key \in Keys
  /\ row \in Settings \cup {Absent}
  /\ config \in Settings \cup {Absent, Torn} /\ backup \in Settings \cup {Absent, Torn}
  /\ data \in Settings \cup {Absent}
  /\ pc \in {"read", "row", "config", "backup", "running"} /\ faults \in 0 .. Faults

\* What an older release left on the volume.
Init ==
  /\ secret \in Keys /\ key = secret
  /\ \E p \in Prefs :
       LET left == {Absent, [key |-> "old", prefs |-> p]}
       IN  row \in left /\ config \in left /\ backup \in left
  /\ pc = "read" /\ data = Absent /\ faults = Faults

-----------------------------------------------------------------------------
(* reconcile() *)

Source == IF config # Absent THEN config ELSE backup

\* Invalid JSON is a refusal.
Read ==
  /\ pc = "read" /\ Source # Torn
  /\ data' = (IF Source = Absent THEN [key |-> key, prefs |-> "none"] ELSE Source)
  /\ pc' = "row"
  /\ UNCHANGED <<secret, row, config, backup, key, faults>>

UpdateRow ==
  /\ pc = "row" /\ pc' = "config"
  /\ row' = (IF row = Absent THEN Absent ELSE [row EXCEPT !.key = key])
  /\ data' = [data EXCEPT !.key = key]
  /\ UNCHANGED <<secret, config, backup, key, faults>>

\* Mutant: a file that is right already ends it.
WriteConfigOnce ==
  /\ pc = "config" /\ config' = data
  /\ pc' = (IF config = data THEN "running" ELSE "backup")
  /\ UNCHANGED <<secret, row, backup, key, data, faults>>

\* Mutant: the file is written in place.
WriteConfigInPlace ==
  /\ pc = "config"
  /\ \/ config # Torn /\ config' = Torn /\ UNCHANGED pc
     \/ config = Torn /\ config' = data /\ pc' = "backup"
  /\ UNCHANGED <<secret, row, backup, key, data, faults>>

\* A temporary file and a rename.
WriteConfig ==
  /\ pc = "config" /\ config' = data
  /\ pc' = "backup"
  /\ UNCHANGED <<secret, row, backup, key, data, faults>>

WriteBackup ==
  /\ pc = "backup" /\ backup' = data
  /\ pc' = "running"
  /\ UNCHANGED <<secret, row, config, key, data, faults>>

Reconcile == Read \/ UpdateRow \/ WriteConfig \/ WriteBackup

-----------------------------------------------------------------------------
(* The kubelet, the Secret and Presenton *)

Fault == faults > 0 /\ faults' = faults - 1

\* A container that starts again, or a new pod, has the key of the Secret.
Restart ==
  /\ Fault /\ pc' = "read" /\ key' = secret /\ data' = Absent
  /\ UNCHANGED <<secret, row, config, backup>>

Rotate ==
  /\ Fault /\ secret' \in Keys \ {secret}
  /\ UNCHANGED <<row, config, backup, pc, key, data>>

\* "saves provider settings in SQLite's row and mirrors them": CAN_CHANGE_KEYS is false,
\* and a database that is new begins with the file's settings.
Save ==
  /\ pc = "running"
  /\ \E p \in Prefs : row' = [(IF row = Absent THEN config ELSE row) EXCEPT !.prefs = p]
  /\ row' # row
  /\ UNCHANGED <<secret, config, backup, pc, key, data, faults>>

Mirror ==
  /\ pc = "running" /\ row # Absent /\ config # row
  /\ config' = row
  /\ UNCHANGED <<secret, row, backup, pc, key, data, faults>>

Next == Reconcile \/ Restart \/ Rotate \/ Save \/ Mirror
Spec == Init /\ [][Next]_vars

\* The kubelet runs the container until it succeeds.
FairSpec == Spec /\ WF_vars(Reconcile)

-----------------------------------------------------------------------------
(* Properties *)

\* "so a later fallback cannot restore the old endpoint": while Presenton runs, every copy
\* there is holds the fields its pod was given, wherever earlier containers were killed
\* and whatever is saved.
GitOwned == pc = "running" => \A c \in {row, config, backup} \ {Absent} : c.key = key

\* "Invalid saved JSON fails startup", but no kill ever makes the container's own writing
\* a reason to: Presenton starts.
PresentonStarts == []<>(pc = "running")
=============================================================================
