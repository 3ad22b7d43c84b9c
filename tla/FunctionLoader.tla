---------------------------- MODULE FunctionLoader ----------------------------
(***************************************************************************)
(* load-functions.py, the PostSync Job that puts the filters of git into   *)
(* Open WebUI's table of functions, one after the other, while Open WebUI  *)
(* uses the table and an administrator edits it.  Its calls answer None    *)
(* when they fail.  The Job is retried from the first function.            *)
(***************************************************************************)
EXTENDS Naturals, Sequences

CONSTANTS
  Functions,  \* FUNCTIONS, in order
  Versions,   \* the codes git may hold
  Backoff,    \* backoffLimit
  Edits       \* bound: what administrators do

VARIABLES
  git,       \* the code that is mounted
  table,     \* by function: its code and whether it is active, or None
  pc, at,    \* the loader's next call and the function it is at
  failures,  \* of this Job's container
  edits,     \* left
  apart      \* functions that were edited, or whose activation was lost, since they were written

vars == <<git, table, pc, at, failures, edits, apart>>

Ids == {Functions[i] : i \in DOMAIN Functions}
None == [code |-> "none", active |-> FALSE]

TypeOK ==
  /\ git \in Versions
  /\ table \in [Ids -> [code : Versions \cup {"none", "edited"}, active : BOOLEAN]]
  /\ pc \in {"idle", "read", "update", "insert", "activate", "complete", "failed"}
  /\ at \in DOMAIN Functions /\ failures \in 0 .. Backoff + 1
  /\ edits \in 0 .. Edits /\ apart \subseteq Ids

Init ==
  /\ git = CHOOSE v \in Versions : TRUE
  /\ table = [f \in Ids |-> None]
  /\ pc = "idle" /\ at = 1 /\ failures = 0
  /\ edits = Edits /\ apart = {}

-----------------------------------------------------------------------------
(* The Job *)

Sync ==
  /\ pc \in {"idle", "complete", "failed"} /\ pc' = "read" /\ at' = 1
  /\ git' \in Versions /\ failures' = 0
  /\ UNCHANGED <<table, edits, apart>>

\* sys.exit(1), or a kill: everything from the start.
Fail ==
  /\ failures' = failures + 1
  /\ pc' = (IF failures < Backoff THEN "read" ELSE "failed") /\ at' = 1
  /\ UNCHANGED <<git, table, edits, apart>>

NextFunction ==
  IF at = Len(Functions) THEN pc' = "complete" /\ at' = at ELSE pc' = "read" /\ at' = at + 1

Write(row) == table' = [table EXCEPT ![Functions[at]] = row] /\ apart' = apart \ {Functions[at]}

Read ==
  /\ pc = "read"
  /\ \/ table[Functions[at]] # None /\ pc' = "update"
     \/ pc' = "insert"
  /\ UNCHANGED <<git, table, at, failures, edits, apart>>

\* Mutant: the flags are the insert's business.
UpdateCodeOnly ==
  /\ pc = "update" /\ table[Functions[at]] # None
  /\ Write([table[Functions[at]] EXCEPT !.code = git]) /\ NextFunction
  /\ UNCHANGED <<git, failures, edits>>

Update ==
  /\ pc = "update" /\ table[Functions[at]] # None
  /\ Write([code |-> git, active |-> TRUE]) /\ NextFunction
  /\ UNCHANGED <<git, failures, edits>>

Insert ==
  /\ pc = "insert" /\ table[Functions[at]] = None
  /\ Write([code |-> git, active |-> FALSE])
  /\ pc' = "activate"
  /\ UNCHANGED <<git, at, failures, edits>>

\* Whether it was done is printed.
Activate ==
  /\ pc = "activate" /\ NextFunction
  /\ \/ /\ table[Functions[at]] # None
        /\ table' = [table EXCEPT ![Functions[at]].active = TRUE]
        /\ UNCHANGED apart
     \/ UNCHANGED table /\ apart' = apart \cup {Functions[at]}
  /\ UNCHANGED <<git, failures, edits>>

Killed == pc \in {"read", "update", "insert", "activate"} /\ Fail

-----------------------------------------------------------------------------
(* Around it *)

Edit(f) ==
  /\ edits > 0 /\ edits' = edits - 1
  /\ table' \in {[table EXCEPT ![f] = r] : r \in {None} \cup [code : {table[f].code, "edited"} \ {"none"}, active : BOOLEAN]}
  /\ apart' = apart \cup {f}
  /\ UNCHANGED <<git, pc, at, failures>>

Next == Sync \/ Read \/ Update \/ Insert \/ Activate \/ Killed \/ \E f \in Ids : Edit(f)
Spec == Init /\ [][Next]_vars

-----------------------------------------------------------------------------
(* Properties *)

\* A Job that is complete has every function run, with the code of git, however often it
\* was killed on the way and wherever, unless someone else has edited it or the answer to
\* its first activation, which nobody looks at, was a failure.
ServedAsInGit ==
  pc = "complete" => \A f \in Ids \ apart : table[f] = [code |-> git, active |-> TRUE]
=============================================================================
