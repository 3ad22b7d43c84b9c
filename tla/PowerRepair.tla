------------------------------ MODULE PowerRepair ------------------------------
(***************************************************************************)
(* Repair of the power statistics after the restart of September 24        *)
(* (home-assistant/scripts/repair-power-statistics.py) and its undo.  The  *)
(* sums recorded since the boundary restart too low; an init container     *)
(* raises them all by the offset it computes at the boundary, after it has *)
(* written a journal of the originals.  It is killed or loses its node at  *)
(* any step, git moves between the versions of the Deployment, and Home    *)
(* Assistant records new rows, each from the sum of the last.              *)
(***************************************************************************)
EXTENDS Naturals, Sequences

CONSTANTS
  MaxRows,  \* bound: rows recorded since the boundary
  Faults    \* bound: kills, outages and commits

VARIABLES
  step,     \* what the Deployment runs first: "repair", "undo" or "off"
  pc,       \* the init container's place, or "running": Home Assistant is
  rows,     \* the rows since the boundary: is each "low" or "raised"?
  journal,  \* the originals in the repair journal, or NoJournal
  durable,  \* would the journal survive an outage?
  faults    \* faults left

vars == <<step, pc, rows, journal, durable, faults>>

NoJournal == <<>>     \* a repair has at least the row at the boundary

TypeOK ==
  /\ step \in {"repair", "undo", "off"}
  /\ pc \in {"init", "journal", "commit", "failed", "running"}
  /\ Len(rows) \in 1 .. MaxRows /\ Len(journal) \in 0 .. MaxRows
  /\ durable \in BOOLEAN /\ faults \in 0 .. Faults

Init ==
  /\ step = "off" /\ pc = "init"
  /\ rows = <<"low">>
  /\ journal = NoJournal /\ durable = TRUE
  /\ faults = Faults

\* plan_repairs(): the offset at the boundary is not zero.
Pending == rows[1] = "low"

All(base) == [i \in DOMAIN rows |-> base]

-----------------------------------------------------------------------------
(* The init container *)

NoStep ==
  /\ pc = "init" /\ step = "off" /\ pc' = "running"
  /\ UNCHANGED <<step, rows, journal, durable, faults>>

\* Mutant: the rows are raised without a journal.
PlanUnjournalled ==
  /\ pc = "init" /\ step = "repair"
  /\ pc' = IF ~Pending THEN "running" ELSE "commit"
  /\ UNCHANGED <<step, rows, journal, durable, faults>>

\* Mutant: a journal that is there is always another repair's.
PlanOnce ==
  /\ pc = "init" /\ step = "repair"
  /\ pc' = IF ~Pending THEN "running"
           ELSE IF journal = NoJournal THEN "journal" ELSE "failed"
  /\ UNCHANGED <<step, rows, journal, durable, faults>>

\* repair(): a journal that is there must hold exactly these rows.
Plan ==
  /\ pc = "init" /\ step = "repair"
  /\ pc' = IF ~Pending THEN "running"
           ELSE IF journal = NoJournal THEN "journal"
           ELSE IF journal = rows THEN "commit" ELSE "failed"
  /\ UNCHANGED <<step, rows, journal, durable, faults>>

\* temporary.replace(backup): synced before, the directory is not.
WriteJournal ==
  /\ pc = "journal" /\ pc' = "commit"
  /\ journal' = rows /\ durable' = FALSE
  /\ UNCHANGED <<step, rows, faults>>

\* The UPDATEs in one transaction; its sync persists the earlier rename.
Commit ==
  /\ pc = "commit" /\ pc' = "running"
  /\ rows' = All("raised") /\ durable' = TRUE
  /\ UNCHANGED <<step, journal, faults>>

\* Mutant: only the rows of the journal are lowered.
LoweredJournalled == [i \in DOMAIN rows |-> IF i <= Len(journal) THEN "low" ELSE rows[i]]

\* "New rows inherit the repaired baseline, so undo their offset too."
Lowered == All("low")

\* undo(): nothing to do when the repair is pending again.
Undo ==
  /\ pc = "init" /\ step = "undo"
  /\ IF journal = NoJournal THEN pc' = "failed" /\ UNCHANGED rows
     ELSE pc' = "running" /\ rows' = IF Pending THEN rows ELSE Lowered
  /\ UNCHANGED <<step, journal, durable, faults>>

Retry ==
  /\ pc = "failed" /\ pc' = "init"
  /\ UNCHANGED <<step, rows, journal, durable, faults>>

-----------------------------------------------------------------------------
(* Home Assistant and the world *)

Record ==
  /\ pc = "running" /\ Len(rows) < MaxRows
  /\ rows' = Append(rows, rows[Len(rows)])
  /\ UNCHANGED <<step, pc, journal, durable, faults>>

Fault == faults > 0 /\ faults' = faults - 1

GitChanges ==
  /\ Fault
  /\ step' \in {"repair", "undo", "off"} \ {step} /\ pc' = "init"
  /\ UNCHANGED <<rows, journal, durable>>

Kill ==
  /\ Fault /\ pc' = "init"
  /\ UNCHANGED <<step, rows, journal, durable>>

Outage ==
  /\ Fault /\ pc' = "init"
  /\ journal' \in {journal} \cup (IF durable THEN {} ELSE {NoJournal})
  /\ durable' = TRUE
  /\ UNCHANGED <<step, rows>>

Container == NoStep \/ Plan \/ WriteJournal \/ Commit \/ Undo \/ Retry
Next == Container \/ Record \/ GitChanges \/ Kill \/ Outage
Spec == Init /\ [][Next]_vars
FairSpec == Spec /\ WF_vars(Container)

-----------------------------------------------------------------------------
(* Properties *)

\* The series never has a step in it: repairs, undos and records in any order leave all
\* rows since the boundary on one baseline.
OneBaseline == \A i \in DOMAIN rows : rows[i] = rows[1]

\* "originals saved": raised rows can be lowered again, the journal of what they were is
\* there and starts the rows there are.
Undoable == rows[1] = "raised" =>
  journal # NoJournal /\ Len(journal) <= Len(rows) /\ \A i \in DOMAIN journal : journal[i] = "low"

\* Why the container may refuse for good: rows recorded since the journal was written, by
\* a Home Assistant that ran without the repair, or an undo without a journal.
Refused ==
  \/ step = "repair" /\ Pending /\ journal \notin {NoJournal, rows}
  \/ step = "undo" /\ journal = NoJournal

\* Home Assistant starts in the end, repaired if the repair is on, unless refused.
StartsRepaired == <>[](Refused \/ (pc = "running" /\ (step = "repair" => ~Pending)))
=============================================================================
