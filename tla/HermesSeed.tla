------------------------------ MODULE HermesSeed ------------------------------
(***************************************************************************)
(* The init container of the Hermes agent (hermes/scripts/seed.sh).  It    *)
(* installs third-party skills pinned by commit, restores the agent's own  *)
(* skills from git, and parks tasks whose worker crashed behind an open    *)
(* pull request (reconcile-kanban.py), before the gateway starts.  It may  *)
(* be killed between any two commands; it tolerates fetches that fail.     *)
(***************************************************************************)
EXTENDS Naturals, FiniteSets

CONSTANTS
  Commits,  \* commits external-skills.txt may pin for the skill
  Tasks,    \* tasks of the kanban board
  Faults    \* bound: kills, failures and commits

NoCommit == "none"

VARIABLES
  pinned,   \* the commit in git
  skill,    \* the installed external skill: its files and its marker .source-sha
  cut,      \* was rm of the copy that is there cut off, its marker still in it?
  own,      \* the agent's own skill: "missing", "torn" or "whole"
  ready,    \* crashed tasks behind an open PR that the dispatcher may still take
  toBlock,  \* those that were read and are not blocked yet
  pc,       \* the next command, or "running": the gateway is
  parked,   \* did the last reconciliation succeed?
  faults    \* faults left

vars == <<pinned, skill, cut, own, ready, toBlock, pc, parked, faults>>

Files == [of : Commits \cup {NoCommit}, whole : BOOLEAN]
NoFiles == [of |-> NoCommit, whole |-> FALSE]

TypeOK ==
  /\ pinned \in Commits
  /\ skill \in [files : Files, marker : Commits \cup {NoCommit}]
  /\ cut \in BOOLEAN /\ own \in {"missing", "torn", "whole"}
  /\ ready \subseteq Tasks /\ toBlock \subseteq ready
  /\ pc \in {"skill", "remove", "copy", "mark", "own", "copyOwn", "read", "block", "running"}
  /\ parked \in BOOLEAN /\ faults \in 0 .. Faults

Init ==
  /\ pinned = CHOOSE c \in Commits : TRUE
  /\ skill = [files |-> NoFiles, marker |-> NoCommit]
  /\ cut = FALSE /\ own = "missing"
  /\ ready = {} /\ toBlock = {}
  /\ pc = "skill"
  /\ parked = FALSE /\ faults = Faults

Fault == faults > 0 /\ faults' = faults - 1

-----------------------------------------------------------------------------
(* External skills *)

\* The marker is compared with the pin; a fetch that fails leaves the old skill.
CheckSkill ==
  /\ pc = "skill"
  /\ \/ pc' = (IF skill.marker = pinned THEN "own" ELSE "remove") /\ UNCHANGED faults
     \/ skill.marker # pinned /\ Fault /\ pc' = "own"
  /\ UNCHANGED <<pinned, skill, cut, own, ready, toBlock, parked>>

\* Mutant: the old skill, marker included, is copied over.
KeepOld ==
  /\ pc = "remove" /\ pc' = "copy"
  /\ UNCHANGED <<pinned, skill, cut, own, ready, toBlock, parked, faults>>

\* rm -rf of the directory takes one file after the other, the marker whenever it comes to it.
RemoveOld ==
  /\ pc = "remove"
  /\ \/ /\ skill.files.whole /\ UNCHANGED <<pc, cut>>
        /\ \E m \in {skill.marker, NoCommit} :
             skill' = [files |-> [skill.files EXCEPT !.whole = FALSE], marker |-> m]
     \/ pc' = "copy" /\ skill' = [files |-> NoFiles, marker |-> NoCommit] /\ cut' = FALSE
  /\ UNCHANGED <<pinned, own, ready, toBlock, parked, faults>>

\* cp -R: file by file.  When it fails the marker is not written and the script goes on.
CopySkill ==
  /\ pc = "copy"
  /\ \/ /\ ~(skill.files.of = pinned) /\ pc' = "copy"
        /\ skill' = [skill EXCEPT !.files = [of |-> pinned, whole |-> FALSE]]
        /\ UNCHANGED faults
     \/ /\ skill.files.of = pinned /\ pc' = "mark"
        /\ skill' = [skill EXCEPT !.files.whole = TRUE]
        /\ UNCHANGED faults
     \/ Fault /\ pc' = "own" /\ UNCHANGED skill
  /\ UNCHANGED <<pinned, cut, own, ready, toBlock, parked>>

MarkSkill ==
  /\ pc = "mark" /\ pc' = "own"
  /\ skill' = [skill EXCEPT !.marker = pinned]
  /\ UNCHANGED <<pinned, cut, own, ready, toBlock, parked, faults>>

-----------------------------------------------------------------------------
(* The agent's own skills: installed only where SKILL.md is missing *)

CheckOwn ==
  /\ pc = "own"
  /\ \/ pc' = (IF own = "whole" THEN "read" ELSE "copyOwn") /\ UNCHANGED faults
     \/ Fault /\ pc' = "read"
  /\ UNCHANGED <<pinned, skill, cut, own, ready, toBlock, parked>>

\* Mutant: a copy without SKILL.md in its place is an error.
CopyOwnChecked ==
  /\ pc = "copyOwn"
  /\ \/ own' = (IF own = "missing" THEN "whole" ELSE own) /\ UNCHANGED faults
        /\ pc' = IF own = "torn" THEN "skill" ELSE "read"
     \/ Fault /\ own = "missing" /\ own' = "torn" /\ pc' = "skill"
  /\ UNCHANGED <<pinned, skill, cut, ready, toBlock, parked>>

\* Into a directory that is there, cp -R copies the skill one level too deep.
CopyOwn ==
  /\ pc = "copyOwn"
  /\ \/ own' = (IF own = "missing" THEN "whole" ELSE own) /\ pc' = "read" /\ UNCHANGED faults
     \/ Fault /\ own = "missing" /\ own' = "torn" /\ pc' = "skill"
  /\ UNCHANGED <<pinned, skill, cut, ready, toBlock, parked>>

-----------------------------------------------------------------------------
(* reconcile-kanban.py *)

ReadTasks ==
  /\ pc = "read"
  /\ \/ toBlock' = ready /\ pc' = "block" /\ UNCHANGED <<parked, faults>>
     \/ Fault /\ parked' = FALSE /\ pc' = "running" /\ UNCHANGED toBlock
  /\ UNCHANGED <<pinned, skill, cut, own, ready>>

\* Mutant: a block that fails is passed over.
BlockAnyway ==
  /\ pc = "block"
  /\ IF toBlock = {}
       THEN pc' = "running" /\ parked' = TRUE /\ UNCHANGED <<ready, toBlock, faults>>
       ELSE \E t \in toBlock :
              /\ toBlock' = toBlock \ {t}
              /\ \/ ready' = ready \ {t} /\ UNCHANGED faults
                 \/ Fault /\ UNCHANGED ready
              /\ UNCHANGED <<pc, parked>>
  /\ UNCHANGED <<pinned, skill, cut, own>>

\* hermes kanban block, one task after the other; a failure ends the reconciliation, and
\* seed.sh starts the gateway all the same.
Block ==
  /\ pc = "block"
  /\ IF toBlock = {}
       THEN pc' = "running" /\ parked' = TRUE /\ UNCHANGED <<ready, toBlock, faults>>
       ELSE \E t \in toBlock :
              \/ /\ toBlock' = toBlock \ {t} /\ ready' = ready \ {t}
                 /\ UNCHANGED <<pc, parked, faults>>
              \/ /\ Fault /\ toBlock' = {} /\ pc' = "running" /\ parked' = FALSE
                 /\ UNCHANGED ready
  /\ UNCHANGED <<pinned, skill, cut, own>>

-----------------------------------------------------------------------------
(* The gateway and the world *)

\* Workers crash while the gateway runs, or with it, behind a pull request they opened.
WorkerCrashes(t) ==
  /\ pc = "running" /\ t \notin ready
  /\ Fault
  /\ ready' = ready \cup {t} /\ parked' = FALSE
  /\ UNCHANGED <<pinned, skill, cut, own, toBlock, pc>>

\* What is killed is cut off where it is.
CutOff == cut' = (cut \/ (pc = "remove" /\ ~skill.files.whole /\ skill.marker # NoCommit))

\* The pod is replaced, or the init container killed.
PodStarts ==
  /\ Fault /\ CutOff
  /\ pc' = "skill" /\ toBlock' = {} /\ parked' = FALSE
  /\ UNCHANGED <<pinned, skill, own, ready>>

\* A commit pins another version; the Deployment rolls out.
Pin ==
  /\ Fault /\ CutOff
  /\ pinned' \in Commits \ {pinned}
  /\ pc' = "skill" /\ toBlock' = {} /\ parked' = FALSE
  /\ UNCHANGED <<skill, own, ready>>

Seed ==
  \/ CheckSkill \/ RemoveOld \/ CopySkill \/ MarkSkill \/ CheckOwn \/ CopyOwn
  \/ ReadTasks \/ Block

Next == Seed \/ PodStarts \/ Pin \/ \E t \in Tasks : WorkerCrashes(t)
Spec == Init /\ [][Next]_vars
FairSpec == Spec /\ WF_vars(Seed)

-----------------------------------------------------------------------------
(* Properties *)

\* "pinned by commit": a marker that makes the next start skip the skill stands over a whole
\* copy of that commit, whatever was killed or failed in between.  The one exception is what
\* seed.sh:26,33 leaves: rm -rf cut off before it came to the marker, and that commit pinned
\* again before another start removes the rest.
MarkerMeansWhole ==
  skill.marker = pinned /\ ~cut => skill.files = [of |-> pinned, whole |-> TRUE]

\* "Park crashed, PR-guarded tasks before the gateway starts accepting work", where the
\* reconciliation says it succeeded.
ParkedMeansNone == pc = "running" /\ parked => ready = {}

\* No failure of the seed keeps the gateway from starting.
GatewayStarts == <>[](pc = "running")
=============================================================================
