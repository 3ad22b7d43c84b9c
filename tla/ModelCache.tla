------------------------------ MODULE ModelCache ------------------------------
(***************************************************************************)
(* Staging of a pinned checkpoint (ai/vllm/scripts/model_cache.py).  One   *)
(* job downloads the files of a manifest into the archive, a second copies *)
(* them to the local disk, and the serving pod waits for the local copy.   *)
(* Both jobs crash and are retried, the web server cuts or garbles         *)
(* replies, a disk may rot, and git moves between manifests that share a   *)
(* directory.  Readiness is one file: the marker.                          *)
(*                                                                         *)
(* A file is the data it starts with and how much of it is there; files    *)
(* are named by their place in the manifest's list, which is the order the *)
(* jobs take them in.                                                      *)
(***************************************************************************)
EXTENDS Naturals

CONSTANTS
  Manifests,     \* versions of model-manifest.json
  N,             \* files in a manifest
  Tags,          \* the contents some manifest pins
  Junk,          \* any other content
  Rotten,        \* what a disk gives back for a file it has changed
  Want(_, _),    \* Want(m, i): the content manifest m pins for file i
  SizeOf(_),     \* SizeOf(t): its length in units (chunks of 8 MiB)
  None,          \* no file, no marker, no reply
  Faults,        \* crashes, bad replies and rot a behaviour may contain
  Rots           \* may a disk change a finished file?

Index == 1 .. N
Sizes == UNION {1 .. SizeOf(t) : t \in Tags}
Files == [tag : Tags \cup {Junk, Rotten}, len : Sizes \cup {0}]

ASSUME CacheAssumption ==
  /\ N \in Nat \ {0}
  /\ \A m \in Manifests, i \in 1 .. N : Want(m, i) \in Tags
  /\ \A t \in Tags : SizeOf(t) \in Nat \ {0}
  /\ Junk \notin Tags /\ Rotten \notin Tags
  /\ None \notin Manifests \cup Files
  /\ Faults \in Nat
  /\ Rots \in BOOLEAN

VARIABLES
  git,      \* the manifest on the main branch
  dest,     \* dest[r][i]: file i under root r
  part,     \* part[r][i]: the same with ".part"
  marker,   \* marker[r]: the manifest named by .verified-manifest
  pc,       \* pc[r]: the next step of the job that writes root r
  man,      \* man[r]: the manifest that job was started with
  idx,      \* idx[r]: the artifact it is at
  reply,    \* the download's HTTP reply: the content it carries, how far it is read
  server,   \* the serving pod: waiting for readiness, or serving
  faults    \* faults left

disk == <<dest, part, marker>>
job  == <<pc, man, idx>>
vars == <<git, disk, job, reply, server, faults>>

Roots == {"archive", "local"}   \* written by "download" and by "sync"
NoReply == [tag |-> Junk, pos |-> 0]
Empty == [tag |-> Junk, len |-> 0]

Pcs == {"start", "begin", "source", "file", "transfer", "verify", "finish",
        "done", "failed"}

TypeOK ==
  /\ git \in Manifests
  /\ dest \in [Roots -> [Index -> Files \cup {None}]]
  /\ part \in [Roots -> [Index -> Files \cup {None}]]
  /\ marker \in [Roots -> Manifests \cup {None}]
  /\ pc \in [Roots -> Pcs]
  /\ man \in [Roots -> Manifests]
  /\ idx \in [Roots -> Index]
  /\ reply \in [tag : Tags \cup {Junk}, pos : Sizes \cup {0}]
  /\ server \in {"waiting", "serving"}
  /\ faults \in 0 .. Faults

Init ==
  /\ git \in Manifests
  /\ dest = [r \in Roots |-> [i \in Index |-> None]]
  /\ part = [r \in Roots |-> [i \in Index |-> None]]
  /\ marker = [r \in Roots |-> None]
  /\ pc = [r \in Roots |-> "start"]
  /\ man = [r \in Roots |-> git]
  /\ idx = [r \in Roots |-> 1]
  /\ reply = NoReply
  /\ server = "waiting"
  /\ faults = Faults

-----------------------------------------------------------------------------
(* What the jobs compute from the disk *)

Whole(t) == [tag |-> t, len |-> SizeOf(t)]
Length(f) == IF f = None THEN 0 ELSE f.len

Valid(f, m, i) == f = Whole(Want(m, i))

\* Readiness reads the marker and the sizes, never the contents.
Ready(r, m) ==
  /\ marker[r] = m
  /\ \A i \in Index : dest[r][i] # None /\ dest[r][i].len = SizeOf(Want(m, i))

\* A file no job can be blamed for: whole and verified, or changed by the disk since.
Rotted(f) == f # None /\ f.tag = Rotten
Sound(f, m, i) == Valid(f, m, i) \/ Rotted(f)

Verified(r, m) == \A i \in Index : Sound(dest[r][i], m, i)

\* One more unit of t, from position pos of it: the file stays a beginning of t
\* only if it was one, and of that length.
Append(f, t, pos) ==
  [tag |-> IF f.len = pos /\ (pos = 0 \/ f.tag = t) THEN t ELSE Junk,
   len |-> f.len + 1]

At(r, step) == pc[r] = step
Goto(r, step) == pc' = [pc EXCEPT ![r] = step]
PutPart(r, i, f) == part' = [part EXCEPT ![r][i] = f]

\* After file i: the next one, or finish.
NextFile(r) ==
  /\ idx' = [idx EXCEPT ![r] = IF @ = N THEN @ ELSE @ + 1]
  /\ Goto(r, IF idx[r] = N THEN "finish" ELSE "file")

-----------------------------------------------------------------------------
(* Steps both jobs have; m is the manifest read when the job started *)

\* Mutant: any marker means there is nothing to do.
StartAnyMarker(r) ==
  /\ At(r, "start")
  /\ Goto(r, IF marker[r] # None THEN "done" ELSE "begin")
  /\ UNCHANGED <<git, disk, man, idx, reply, server, faults>>

\* A verified checkpoint for this exact manifest is not looked at again.
Start(r) ==
  /\ At(r, "start")
  /\ Goto(r, IF Ready(r, man[r]) THEN "done" ELSE "begin")
  /\ UNCHANGED <<git, disk, man, idx, reply, server, faults>>

\* Mutant: the old marker stays while its files are replaced.
BeginKeepMarker(r) ==
  /\ At(r, "begin")
  /\ Goto(r, IF r = "local" THEN "source" ELSE "file")
  /\ idx' = [idx EXCEPT ![r] = 1]
  /\ UNCHANGED <<git, disk, man, reply, server, faults>>

Begin(r) ==
  /\ At(r, "begin")
  /\ marker' = [marker EXCEPT ![r] = None]
  /\ Goto(r, IF r = "local" THEN "source" ELSE "file")
  /\ idx' = [idx EXCEPT ![r] = 1]
  /\ UNCHANGED <<git, dest, part, man, reply, server, faults>>

\* The marker is written aside and renamed: it is there or it is not.
Finish(r) ==
  /\ At(r, "finish")
  /\ marker' = [marker EXCEPT ![r] = man[r]]
  /\ Goto(r, "done")
  /\ UNCHANGED <<git, dest, part, man, idx, reply, server, faults>>

\* Mutant: the size is checked, the hash is not.
VerifySize(r) ==
  LET i == idx[r] IN
  /\ At(r, "verify")
  /\ PutPart(r, i, None)
  /\ IF Length(part[r][i]) = SizeOf(Want(man[r], i))
       THEN /\ dest' = [dest EXCEPT ![r][i] = part[r][i]]
            /\ NextFile(r)
       ELSE /\ Goto(r, "failed")
            /\ UNCHANGED <<dest, idx>>
  /\ UNCHANGED <<git, marker, man, reply, server, faults>>

\* A part that verifies replaces the file; one that does not is unlinked.
Verify(r) ==
  LET i == idx[r] IN
  /\ At(r, "verify")
  /\ PutPart(r, i, None)
  /\ IF Valid(part[r][i], man[r], i)
       THEN /\ dest' = [dest EXCEPT ![r][i] = part[r][i]]
            /\ NextFile(r)
       ELSE /\ Goto(r, "failed")
            /\ UNCHANGED <<dest, idx>>
  /\ UNCHANGED <<git, marker, man, reply, server, faults>>

-----------------------------------------------------------------------------
(* download: for each file of the archive *)

Wanted(r) == Want(man[r], idx[r])

SkipValid ==
  /\ At("archive", "file")
  /\ Valid(dest["archive"][idx["archive"]], man["archive"], idx["archive"])
  /\ NextFile("archive")
  /\ UNCHANGED <<git, disk, man, reply, server, faults>>

\* A part that is already as long as the file is unlinked: it was never verified.
KeptPart(f, t) == IF Length(f) >= SizeOf(t) THEN None ELSE f

\* Mutant: the reply to a Range request is appended whatever its status.
OpenedToAppend(kept, resume) == IF resume \/ kept # None THEN kept ELSE Empty

\* Mode "ab" for a resumed reply, "wb" for any other.
Opened(kept, resume) == IF resume THEN kept ELSE Empty

\* A Range request is made for the rest of the part.  206 appends to it, 200
\* starts it again; an error or a 206 from another offset fails the job.
Request ==
  LET i == idx["archive"]
      t == Wanted("archive")
      kept == KeptPart(part["archive"][i], t)
  IN
  /\ At("archive", "file")
  /\ ~Valid(dest["archive"][i], man["archive"], i)
  /\ \/ /\ \E body \in {t} \cup (IF faults > 0 THEN {Junk} ELSE {}) :
             /\ faults' = IF body = t THEN faults ELSE faults - 1
             /\ \E resume \in {FALSE} \cup (IF Length(kept) > 0 THEN {TRUE} ELSE {}) :
                  /\ reply' = [tag |-> body, pos |-> IF resume THEN Length(kept) ELSE 0]
                  /\ PutPart("archive", i, Opened(kept, resume))
        /\ Goto("archive", "transfer")
     \/ /\ faults > 0
        /\ faults' = faults - 1
        /\ PutPart("archive", i, kept)
        /\ Goto("archive", "failed")
        /\ UNCHANGED reply
  /\ UNCHANGED <<git, dest, marker, man, idx, server>>

ReceiveChunk ==
  LET i == idx["archive"] IN
  /\ At("archive", "transfer")
  /\ reply.pos < SizeOf(Wanted("archive"))
  /\ PutPart("archive", i, Append(part["archive"][i], reply.tag, reply.pos))
  /\ reply' = [reply EXCEPT !.pos = @ + 1]
  /\ UNCHANGED <<git, dest, marker, job, server, faults>>

\* The reply ends, or the connection is closed before it does: both read as EOF.
EndOfReply ==
  /\ At("archive", "transfer")
  /\ \/ reply.pos = SizeOf(Wanted("archive")) /\ UNCHANGED faults
     \/ /\ reply.pos < SizeOf(Wanted("archive"))
        /\ faults > 0
        /\ faults' = faults - 1
  /\ reply' = NoReply
  /\ Goto("archive", "verify")
  /\ UNCHANGED <<git, disk, man, idx, server>>

-----------------------------------------------------------------------------
(* sync: for each file of the local copy *)

CheckSource ==
  /\ At("local", "source")
  /\ Goto("local", IF Ready("archive", man["local"]) THEN "file" ELSE "failed")
  /\ UNCHANGED <<git, disk, man, idx, reply, server, faults>>

\* The origin is verified before anything else, even if the copy is good.
CheckOrigin ==
  LET i == idx["local"] IN
  /\ At("local", "file")
  /\ IF ~Valid(dest["archive"][i], man["local"], i)
       THEN Goto("local", "failed") /\ UNCHANGED idx
       ELSE IF Valid(dest["local"][i], man["local"], i)
         THEN NextFile("local")
         ELSE Goto("local", "transfer") /\ UNCHANGED idx
  /\ UNCHANGED <<git, disk, man, reply, server, faults>>

\* The archive's file is opened again by name: a download may have replaced it.
CopyFile ==
  /\ At("local", "transfer")
  /\ PutPart("local", idx["local"], dest["archive"][idx["local"]])
  /\ Goto("local", "verify")
  /\ UNCHANGED <<git, dest, marker, man, idx, reply, server, faults>>

-----------------------------------------------------------------------------
(* The serving pod's init container *)

Wait ==
  /\ server = "waiting"
  /\ Ready("local", git)
  /\ server' = "serving"
  /\ UNCHANGED <<git, disk, job, reply, faults>>

-----------------------------------------------------------------------------
(* The outside *)

Fault == faults > 0 /\ faults' = faults - 1

\* Killed, evicted, timed out, disk full: what is on disk stays as it is.
Crash(r) ==
  /\ pc[r] \notin {"start", "done", "failed"}
  /\ Fault
  /\ Goto(r, "failed")
  /\ IF r = "local" /\ At(r, "transfer")
       THEN \E n \in 0 .. dest["archive"][idx[r]].len :
              PutPart(r, idx[r], [dest["archive"][idx[r]] EXCEPT !.len = n])
       ELSE UNCHANGED part
  /\ reply' = IF r = "archive" THEN NoReply ELSE reply
  /\ UNCHANGED <<git, dest, marker, man, idx, server>>

\* restartPolicy OnFailure: the container starts again with the same ConfigMap.
Restart(r) ==
  /\ At(r, "failed")
  /\ Goto(r, "start")
  /\ UNCHANGED <<git, disk, man, idx, reply, server, faults>>

\* Argo CD syncs: the hook job is created anew from what git says.
Resync(r) ==
  /\ pc[r] \in {"done", "failed"}
  /\ Goto(r, "start")
  /\ man' = [man EXCEPT ![r] = git]
  /\ UNCHANGED <<git, disk, idx, reply, server, faults>>

\* A commit changes the manifest; the Deployment is recreated with it.
ManifestChanges ==
  /\ Fault
  /\ git' \in Manifests \ {git}
  /\ server' = "waiting"
  /\ UNCHANGED <<disk, job, reply>>

Rot(r, i) ==
  /\ Rots
  /\ Fault
  /\ dest[r][i] # None
  /\ \E n \in {dest[r][i].len, 0} :
       dest' = [dest EXCEPT ![r][i] = [tag |-> Rotten, len |-> n]]
  /\ UNCHANGED <<git, part, marker, job, reply, server>>

-----------------------------------------------------------------------------

Steps(r) == Start(r) \/ Begin(r) \/ Verify(r) \/ Finish(r)
Download == Steps("archive") \/ SkipValid \/ Request \/ ReceiveChunk \/ EndOfReply
Sync     == Steps("local") \/ CheckSource \/ CheckOrigin \/ CopyFile

Next ==
  \/ Download
  \/ Sync
  \/ Wait
  \/ \E r \in Roots : Crash(r) \/ Restart(r) \/ Resync(r)
  \/ ManifestChanges
  \/ \E r \in Roots, i \in Index : Rot(r, i)

Spec == Init /\ [][Next]_vars

\* Jobs run.  backoffLimit ends the restarts of a job that keeps failing, so a
\* later sync (automated, selfHeal) gets its turn at a failed or outdated one.
Fairness ==
  /\ WF_vars(Download)
  /\ WF_vars(Sync)
  /\ WF_vars(Wait)
  /\ \A r \in Roots : SF_vars((At(r, "failed") \/ man[r] # git) /\ Resync(r))

FairSpec == Spec /\ Fairness

-----------------------------------------------------------------------------
(* Correctness *)

\* A root that is ready for a manifest holds that manifest's files, every one
\* whole and verified (the disk may have changed it since), after any crashes,
\* bad replies, retries and changes of the manifest, though ready() looks only
\* at the marker and at sizes.
ReadyIsVerified ==
  \A r \in Roots, m \in Manifests : Ready(r, m) => Verified(r, m)

\* "incomplete artifacts never replace verified files" (README): under its own
\* name there is only ever a whole file that some manifest pinned, although the
\* archive is being replaced, and may rot, while it is copied.
NeverIncomplete ==
  \A r \in Roots, i \in Index :
    dest[r][i] # None => \E m \in Manifests : Sound(dest[r][i], m, i)

\* A rotten file of the archive is never copied: what sync puts in place is
\* verified, even if the origin rots between its check and the copy.
CopiesAreVerified ==
  [][\A i \in Index :
       dest'["local"][i] # dest["local"][i] /\ faults' = faults
         => Valid(dest'["local"][i], man["local"], i)]_vars

\* Whatever parts, markers and files earlier jobs left behind, once faults and
\* commits stop the pod serves from a copy verified for the manifest in git.  The
\* exception is a disk that has changed a file: download() trusts the marker and the
\* sizes and leaves a rotten archive file of the right size, sync() hashes it and
\* fails each time; and nothing starts a sync because of a rotten copy.
Serves ==
  <>[](\/ server = "serving" /\ Verified("local", git)
       \/ \E r \in Roots, i \in Index : Rotted(dest[r][i]))

-----------------------------------------------------------------------------
(* Why (inductive): a marker is only ever there while nobody writes *)

\* A download appends at the position of the reply it reads; a copy reads a
\* file that is there.
StreamInv ==
  LET i == idx["archive"]
      p == part["archive"][i]
  IN
  /\ At("archive", "transfer") => p # None /\ p.len = reply.pos
  /\ At("local", "transfer") => dest["archive"][idx["local"]] # None

Writing(r) == pc[r] \in {"source", "file", "transfer", "verify", "finish"}

MarkerInv ==
  \A r \in Roots :
    /\ Writing(r) => marker[r] = None
    /\ \A m \in Manifests : marker[r] = m => Verified(r, m)

\* The files before the one a job is at are verified.
ProgressInv ==
  \A r \in Roots :
    /\ pc[r] \in {"source", "file", "transfer", "verify"} =>
         \A j \in Index : j < idx[r] => Sound(dest[r][j], man[r], j)
    /\ At(r, "finish") => Verified(r, man[r])

=============================================================================
