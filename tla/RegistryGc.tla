------------------------------ MODULE RegistryGc ------------------------------
(***************************************************************************)
(* The weekly garbage collection of the container registry                 *)
(* (container-registry/scripts/run-garbage-collection.sh).  It makes the   *)
(* registry read-only by a rollout, collects inside its pod, and restores  *)
(* writes in an EXIT trap, while images are pushed and deleted.  The       *)
(* script runs without "set -e": a command that fails is followed by the   *)
(* next one.                                                               *)
(***************************************************************************)
EXTENDS Naturals

CONSTANTS
  Images,   \* an image has one manifest and one blob of its own
  Faults    \* failing commands and killed jobs in a behaviour

VARIABLES
  wanted,     \* the Deployment's environment: "rw" or "ro"
  pod,        \* the registry's pod: how it was started, or "none"
  blobs,      \* images whose blob is in the store
  manifests,  \* images whose manifest is
  garbage,    \* what the collector in the pod has marked, when it is running
  collector,  \* is it?
  pc,         \* where the script is
  flipFailed, \* did a command before the collection ever fail?
  faults      \* faults left

registry == <<wanted, pod>>
store    == <<blobs, manifests>>
gc       == <<garbage, collector>>
vars == <<registry, store, gc, pc, flipFailed, faults>>

TypeOK ==
  /\ wanted \in {"rw", "ro"} /\ pod \in {"rw", "ro", "none"}
  /\ blobs \subseteq Images /\ manifests \subseteq Images /\ garbage \subseteq Images
  /\ collector \in BOOLEAN /\ flipFailed \in BOOLEAN /\ faults \in 0 .. Faults
  /\ pc \in {"idle", "flip", "status", "exec", "collecting", "restore", "settle"}

Init ==
  /\ wanted = "rw" /\ pod = "rw"
  /\ blobs = {} /\ manifests = {}
  /\ garbage = {} /\ collector = FALSE
  /\ pc = "idle"
  /\ flipFailed = FALSE
  /\ faults = Faults

Fault == faults > 0 /\ faults' = faults - 1

-----------------------------------------------------------------------------
(* The script *)

\* The CronJob; concurrencyPolicy Forbid.
Schedule ==
  /\ pc = "idle" /\ pc' = "flip"
  /\ UNCHANGED <<registry, store, gc, flipFailed, faults>>

\* kubectl set env ... readonly; when it fails the script goes on.
Flip ==
  /\ pc = "flip" /\ pc' = "status"
  /\ \/ wanted' = "ro" /\ UNCHANGED <<flipFailed, faults>>
     \/ Fault /\ flipFailed' = TRUE /\ UNCHANGED wanted
  /\ UNCHANGED <<pod, store, gc>>

\* Mutant: nobody waits for the rollout.
StatusAtOnce ==
  /\ pc = "status" /\ pc' = "exec"
  /\ UNCHANGED <<registry, store, gc, flipFailed, faults>>

\* kubectl rollout status --timeout=180s: done, or timed out, which changes nothing.
Status ==
  /\ pc = "status" /\ pc' = "exec"
  /\ \/ pod = wanted /\ UNCHANGED <<flipFailed, faults>>
     \/ pod # wanted /\ Fault /\ flipFailed' = TRUE
  /\ UNCHANGED <<registry, store, gc>>

\* kubectl exec starts the collector in the pod there is; with none it fails.
Exec ==
  /\ pc = "exec"
  /\ IF pod = "none" THEN pc' = "restore" /\ UNCHANGED gc
     ELSE pc' = "collecting" /\ collector' = TRUE /\ garbage' = blobs \ manifests
  /\ UNCHANGED <<registry, store, flipFailed, faults>>

Done ==
  /\ pc = "collecting" /\ ~collector /\ pc' = "restore"
  /\ UNCHANGED <<registry, store, gc, flipFailed, faults>>

\* Mutant: the trap is not set.
NoRestore ==
  /\ pc = "restore" /\ pc' = "settle"
  /\ UNCHANGED <<registry, store, gc, flipFailed, faults>>

\* restore_writes(): its own failures are ignored.
Restore ==
  /\ pc = "restore" /\ pc' = "settle"
  /\ \/ wanted' = "rw" /\ UNCHANGED faults
     \/ Fault /\ UNCHANGED wanted
  /\ UNCHANGED <<pod, store, gc, flipFailed>>

Settle ==
  /\ pc = "settle" /\ pc' = "idle"
  /\ \/ pod = wanted /\ UNCHANGED faults
     \/ pod # wanted /\ Fault
  /\ UNCHANGED <<registry, store, gc, flipFailed>>

\* A terminated script still runs its trap, a killed one or one on a lost node does not.
Killed ==
  /\ pc \notin {"idle", "restore", "settle"}
  /\ Fault
  /\ pc' \in {"restore", "idle"}
  /\ UNCHANGED <<registry, store, gc, flipFailed>>

-----------------------------------------------------------------------------
(* The registry and its clients *)

\* strategy Recreate: the old pod goes, with a collector in it, before the new one comes.
StopPod ==
  /\ pod \notin {wanted, "none"}
  /\ pod' = "none"
  /\ garbage' = {} /\ collector' = FALSE
  /\ UNCHANGED <<wanted, store, pc, flipFailed, faults>>

StartPod ==
  /\ pod = "none" /\ pod' = wanted
  /\ UNCHANGED <<wanted, store, gc, pc, flipFailed, faults>>

\* The collector's second phase deletes what its first one marked.
Sweep ==
  /\ collector /\ collector' = FALSE
  /\ blobs' = blobs \ garbage /\ garbage' = {}
  /\ UNCHANGED <<registry, manifests, pc, flipFailed, faults>>

Push(i) ==
  /\ pod = "rw"
  /\ \/ blobs' = blobs \cup {i} /\ UNCHANGED manifests
     \/ i \in blobs /\ manifests' = manifests \cup {i} /\ UNCHANGED blobs
  /\ UNCHANGED <<registry, gc, pc, flipFailed, faults>>

Remove(i) ==
  /\ pod = "rw"
  /\ manifests' = manifests \ {i}
  /\ UNCHANGED <<registry, blobs, gc, pc, flipFailed, faults>>

Script == Schedule \/ Flip \/ Status \/ Exec \/ Done \/ Restore \/ Settle
Rollout == StopPod \/ StartPod

Next ==
  \/ Script \/ Killed \/ Rollout \/ Sweep
  \/ \E i \in Images : Push(i) \/ Remove(i)

Spec == Init /\ [][Next]_vars

\* The CronJob comes round again, kubelet and Deployment do their work.
FairSpec == Spec /\ WF_vars(Script) /\ WF_vars(Rollout) /\ WF_vars(Sweep)

-----------------------------------------------------------------------------
(* Properties *)

\* "The registry is flipped read-only first because a push during the sweep corrupts the
\* store": every manifest has its blob.
StoreIntact == manifests \subseteq blobs

\* ... which the code keeps as long as the flip and its rollout did not fail.
IntactAfterFlip == flipFailed \/ StoreIntact

\* "Restore writes on every exit path": killed scripts and failed restores included, the
\* registry takes writes again, at the latest after the next run.
WritesComeBack == []<>(pod = "rw")
=============================================================================
