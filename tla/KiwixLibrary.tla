----------------------------- MODULE KiwixLibrary -----------------------------
(***************************************************************************)
(* The offline library (knowledge/kiwix/scripts).  A CronJob downloads the *)
(* archives of a pinned list, publishes each by a rename once it verifies, *)
(* and then removes older releases of its series.  A sidecar of the server *)
(* lists the published archives every minute and writes the catalog.  They *)
(* share only the directory; either dies between any two commands, and git *)
(* moves to newer releases and back.                                       *)
(***************************************************************************)
EXTENDS Naturals, Sequences, FiniteSets

CONSTANTS
  Archives,        \* file names of collections.tsv, in all its versions
  Older(_, _),     \* Older(a, b): a is an earlier dated release of b's series
  Dated,           \* archives whose name ends in _YYYY-MM
  Lists,           \* versions of collections.tsv, sequences of archives
  MaxAttempts,     \* wget attempts in one run (5)
  NoFile,          \* what a file that is not there is said to list
  TornCatalog,     \* may the sidecar die between its two renames?
  Faults           \* deaths, bad downloads and commits a behaviour may contain

ASSUME LibraryAssumption ==
  /\ \A l \in Lists : l \in Seq(Archives) /\ l # <<>>
  \* a list names one release of a series, and each archive once
  /\ \A l \in Lists : \A i, j \in 1 .. Len(l) :
       /\ ~Older(l[i], l[j])
       /\ i # j => l[i] # l[j]
  /\ \A a, b \in Archives : Older(a, b) => a \in Dated /\ b \in Dated /\ ~Older(b, a)
  \* within a series it is the order of the dates
  /\ \A a, b, c \in Archives :
       /\ Older(a, b) /\ Older(b, c) => Older(a, c)
       /\ Older(a, b) /\ Older(a, c) => b = c \/ Older(b, c) \/ Older(c, b)
  /\ MaxAttempts \in Nat \ {0}
  /\ NoFile \notin Archives
  /\ TornCatalog \in BOOLEAN
  /\ Faults \in Nat

\* A missing catalog or list.  A file with the pinned checksum is good.  Any other has another size (short)
\* or only another checksum (bad).
Missing == {NoFile}
Contents == {"absent", "short", "bad", "good"}

VARIABLES
  git,       \* collections.tsv on the main branch
  target,    \* target[a]: the archive under its own name
  partial,   \* partial[a]: .downloads/<a>.part
  marker,    \* archives with .downloads/<a>.sha256 holding their checksum
  dpc,       \* the downloader's next command
  list,      \* the list its pod was started with
  line,      \* the line it is at
  attempt,
  failed,
  ipc,       \* the indexer's next command
  found,     \* "$@", the archives it saw
  library,   \* archives in library.xml
  current,   \* files.current
  faults     \* faults left

files == <<target, partial, marker>>
down  == <<dpc, list, line, attempt, failed>>
index == <<ipc, found, library, current>>
vars == <<git, files, down, index, faults>>

DownPcs == {"line", "adopt", "wget", "verify", "mv", "mark", "cleanup", "idle"}
IndexPcs == {"list", "compare", "manage", "mvLibrary", "mvFiles", "sleep"}

TypeOK ==
  /\ git \in Lists
  /\ target \in [Archives -> Contents]
  /\ partial \in [Archives -> Contents]
  /\ marker \in SUBSET Archives
  /\ dpc \in DownPcs
  /\ list \in Lists
  /\ line \in 1 .. Len(list)
  /\ attempt \in 0 .. MaxAttempts
  /\ failed \in BOOLEAN
  /\ ipc \in IndexPcs
  /\ found \in SUBSET Archives
  /\ library \in (SUBSET Archives) \cup {Missing}
  /\ current \in (SUBSET Archives) \cup {Missing}
  /\ faults \in 0 .. Faults

\* The library may have been filled by hand before, also with broken files.
Init ==
  /\ git \in Lists
  /\ target \in [Archives -> Contents]
  /\ partial = [a \in Archives |-> "absent"]
  /\ marker = {}
  /\ dpc = "idle"
  /\ list = git
  /\ line = 1
  /\ attempt = 0
  /\ failed = FALSE
  /\ ipc = "list"
  /\ found = {}
  /\ library = Missing
  /\ current = Missing
  /\ faults = Faults

Fault == faults > 0 /\ faults' = faults - 1

-----------------------------------------------------------------------------
(* download-library.sh *)

file == list[line]

\* The next line; after the last one the run ends with $failed.
NextLine ==
  IF line < Len(list)
    THEN dpc' = "line" /\ line' = line + 1
    ELSE dpc' = "idle" /\ UNCHANGED line

\* A new run of the CronJob, or another pod of the same Job.
StartRun ==
  /\ dpc = "idle"
  /\ dpc' = "line"
  /\ list' = git
  /\ line' = 1
  /\ failed' = FALSE
  /\ UNCHANGED <<git, files, attempt, index, faults>>

\* Mutant: a file of the pinned size is adopted without its hash.
CheckTargetBySize ==
  /\ dpc = "line"
  /\ \/ /\ target[file] \in {"bad", "good"}
        /\ dpc' = IF file \in marker THEN "cleanup" ELSE "adopt"
        /\ UNCHANGED <<line, attempt, failed>>
     \/ /\ target[file] = "short"
        /\ failed' = TRUE
        /\ NextLine
        /\ UNCHANGED attempt
     \/ /\ target[file] = "absent"
        /\ attempt' = 0
        /\ dpc' = "wget"
        /\ UNCHANGED <<line, failed>>
  /\ UNCHANGED <<git, files, list, index, faults>>

\* What is there already: trusted by its marker and size, or hashed, or kept.
CheckTarget ==
  /\ dpc = "line"
  /\ \/ /\ target[file] \in {"bad", "good"} /\ file \in marker
        /\ dpc' = "cleanup"
        /\ UNCHANGED <<line, attempt, failed>>
     \/ /\ target[file] = "good" /\ file \notin marker
        /\ dpc' = "adopt"
        /\ UNCHANGED <<line, attempt, failed>>
     \/ /\ target[file] = "short" \/ (target[file] = "bad" /\ file \notin marker)
        /\ failed' = TRUE
        /\ NextLine
        /\ UNCHANGED attempt
     \/ /\ target[file] = "absent"
        /\ attempt' = 0
        /\ dpc' = "wget"
        /\ UNCHANGED <<line, failed>>
  /\ UNCHANGED <<git, files, list, index, faults>>

WriteMarker ==
  /\ dpc \in {"adopt", "mark"}
  /\ marker' = marker \cup {file}
  /\ dpc' = "cleanup"
  /\ UNCHANGED <<git, target, partial, list, line, attempt, failed, index, faults>>

\* Mutant: the attempts are not counted against the limit.
WgetAgain ==
  /\ dpc = "wget"
  /\ attempt' = attempt + 1
  /\ \/ /\ partial' = [partial EXCEPT ![file] = IF @ = "bad" THEN "bad" ELSE "good"]
        /\ dpc' = "verify"
        /\ UNCHANGED faults
     \/ /\ Fault
        /\ partial' = [partial EXCEPT ![file] = IF @ = "absent" THEN "short" ELSE @]
        /\ UNCHANGED dpc
  /\ UNCHANGED <<git, target, marker, list, line, failed, index>>

\* wget -c goes on from the part.  It succeeds with the whole file if the part
\* was a beginning of it, or with a wrong one; it may also stop short.
Wget ==
  /\ dpc = "wget"
  /\ attempt < MaxAttempts
  /\ attempt' = attempt + 1
  /\ \/ /\ partial' = [partial EXCEPT ![file] = IF @ = "bad" THEN "bad" ELSE "good"]
        /\ dpc' = "verify"
        /\ UNCHANGED faults
     \/ /\ Fault
        /\ partial' = [partial EXCEPT ![file] = "bad"]
        /\ dpc' = "verify"
     \/ /\ Fault
        /\ partial' = [partial EXCEPT ![file] = IF @ = "absent" THEN "short" ELSE @]
        /\ UNCHANGED dpc
  /\ UNCHANGED <<git, target, marker, list, line, failed, index>>

\* Mutant: the archive is given up, the run still succeeds.
GiveUpSilently ==
  /\ dpc = "wget"
  /\ attempt = MaxAttempts
  /\ NextLine
  /\ UNCHANGED <<git, files, list, attempt, failed, index, faults>>

GiveUp ==
  /\ dpc = "wget"
  /\ attempt = MaxAttempts
  /\ failed' = TRUE
  /\ NextLine
  /\ UNCHANGED <<git, files, list, attempt, index, faults>>

\* Mutant: the size is compared, the checksum is not.
VerifyPartialSize ==
  /\ dpc = "verify"
  /\ dpc' = "mv"
  /\ UNCHANGED <<git, files, list, line, attempt, failed, index, faults>>

\* Mutant: a part that does not verify is left for the next run to resume.
VerifyPartialKeep ==
  /\ dpc = "verify"
  /\ IF partial[file] = "good"
       THEN dpc' = "mv" /\ UNCHANGED <<line, failed>>
       ELSE failed' = TRUE /\ NextLine
  /\ UNCHANGED <<git, files, list, attempt, index, faults>>

VerifyPartial ==
  /\ dpc = "verify"
  /\ IF partial[file] = "good"
       THEN dpc' = "mv" /\ UNCHANGED <<partial, line, failed>>
       ELSE /\ partial' = [partial EXCEPT ![file] = "absent"]
            /\ failed' = TRUE
            /\ NextLine
  /\ UNCHANGED <<git, target, marker, list, attempt, index, faults>>

Publish ==
  /\ dpc = "mv"
  /\ target' = [target EXCEPT ![file] = partial[file]]
  /\ partial' = [partial EXCEPT ![file] = "absent"]
  /\ dpc' = "mark"
  /\ UNCHANGED <<git, marker, list, line, attempt, failed, index, faults>>

\* What cleanup_old_versions still finds: older releases of this series.
Superseded(f) ==
  {a \in Archives : Older(a, f) /\ (target[a] # "absent" \/ partial[a] # "absent")}

\* One file of the loop: rm -f takes its part of either name and its marker too.
RemoveOld ==
  /\ dpc = "cleanup"
  /\ \E a \in Superseded(file) :
       /\ \/ target[a] # "absent" /\ target' = [target EXCEPT ![a] = "absent"] /\ UNCHANGED partial
          \/ partial[a] # "absent" /\ partial' = [partial EXCEPT ![a] = "absent"] /\ UNCHANGED target
       /\ marker' = marker \ {a}
  /\ UNCHANGED <<git, down, index, faults>>

\* The last rm is of this archive's own part; a name without a date returns first.
EndCleanup ==
  /\ dpc = "cleanup"
  /\ Superseded(file) = {}
  /\ partial' = [partial EXCEPT ![file] = IF file \in Dated THEN "absent" ELSE @]
  /\ NextLine
  /\ UNCHANGED <<git, target, marker, list, attempt, failed, index, faults>>

\* Evicted, out of time or memory.  The next pod of the Job, or the next Job,
\* starts the list again.  rm of an old archive may be cut before its marker.
DownloaderDies ==
  /\ dpc # "idle"
  /\ Fault
  /\ dpc' = "idle"
  /\ failed' = TRUE
  /\ \/ UNCHANGED files
     \/ /\ dpc = "cleanup"
        /\ \E a \in Superseded(file) : target' = [target EXCEPT ![a] = "absent"]
        /\ UNCHANGED <<partial, marker>>
  /\ UNCHANGED <<git, list, line, attempt, index>>

-----------------------------------------------------------------------------
(* index-library.sh: rebuild, in the loop or once *)

Published == {a \in Archives : target[a] # "absent"}

\* set -- "$DATA_DIR"/*.zim, written to files.next
ListArchives ==
  /\ ipc = "list"
  /\ found' = Published
  /\ ipc' = "compare"
  /\ UNCHANGED <<git, files, down, library, current, faults>>

\* Mutant: only the number of archives is compared.
CompareCount ==
  /\ ipc = "compare"
  /\ ipc' = IF library # Missing /\ Cardinality(found) = Cardinality(current)
              THEN "sleep" ELSE "manage"
  /\ UNCHANGED <<git, files, down, found, library, current, faults>>

Compare ==
  /\ ipc = "compare"
  /\ ipc' = IF library # Missing /\ found = current THEN "sleep" ELSE "manage"
  /\ UNCHANGED <<git, files, down, found, library, current, faults>>

\* kiwix-manage opens every archive it was given: one that was removed since fails the
\* rebuild, a broken one may too, and the old catalog stays.
Manage ==
  /\ ipc = "manage"
  /\ \/ found \subseteq Published /\ ipc' = "mvLibrary"
     \/ (\E a \in found : target[a] # "good") /\ ipc' = "sleep"
  /\ UNCHANGED <<git, files, down, found, library, current, faults>>

MoveLibrary ==
  /\ ipc = "mvLibrary"
  /\ library' = found
  /\ ipc' = "mvFiles"
  /\ UNCHANGED <<git, files, down, found, current, faults>>

MoveFiles ==
  /\ ipc = "mvFiles"
  /\ current' = found
  /\ ipc' = "sleep"
  /\ UNCHANGED <<git, files, down, found, library, faults>>

Wake ==
  /\ ipc = "sleep"
  /\ ipc' = "list"
  /\ UNCHANGED <<git, files, down, found, library, current, faults>>

\* The container restarts: what is in the emptyDir stays.
IndexerRestarts ==
  /\ ipc = "mvFiles" => TornCatalog
  /\ Fault
  /\ ipc' = "list"
  /\ UNCHANGED <<git, files, down, found, library, current>>

\* A new pod has an empty emptyDir; its init container rebuilds once.
PodReplaced ==
  /\ Fault
  /\ ipc' = "list"
  /\ library' = Missing
  /\ current' = Missing
  /\ UNCHANGED <<git, files, down, found>>

-----------------------------------------------------------------------------

ListChanges ==
  /\ Fault
  /\ git' \in Lists \ {git}
  /\ UNCHANGED <<files, down, index>>

Downloader ==
  \/ StartRun \/ CheckTarget \/ WriteMarker \/ Wget \/ GiveUp
  \/ VerifyPartial \/ Publish \/ RemoveOld \/ EndCleanup

Indexer ==
  ListArchives \/ Compare \/ Manage \/ MoveLibrary \/ MoveFiles \/ Wake

Next ==
  \/ Downloader \/ DownloaderDies
  \/ Indexer \/ IndexerRestarts \/ PodReplaced
  \/ ListChanges

Spec == Init /\ [][Next]_vars

\* The CronJob starts a run every quarter of an hour, the sidecar loops.
FairSpec == Spec /\ WF_vars(Downloader) /\ WF_vars(Indexer)

-----------------------------------------------------------------------------
(* Correctness *)

Releases(a) == {b \in Archives : b = a \/ Older(a, b) \/ Older(b, a)}

\* A marker spares a file its hash, so the file it vouches for must be good,
\* whichever of the rename, the marker and the removals a crash cut off.
MarkerIsHonest ==
  \A a \in marker : target[a] \in {"absent", "good"}

\* "the library indexer never sees partial downloads": what the downloader itself
\* puts under an archive's name is whole and verified.
OnlyWholeArchives ==
  [][\A a \in Archives : target'[a] # target[a] => target'[a] \in {"absent", "good"}]_vars

\* Cleaning up, replacing, crashing and rolling back never cost the last good
\* release of a series.
SeriesNeverLost ==
  [][\A a \in Archives :
       (\E b \in Releases(a) : target[b] = "good")
         => \E b \in Releases(a) : target'[b] = "good"]_vars

\* A run that exits 0 leaves every archive of its list published and good.
SuccessMeansComplete ==
  [][dpc # "idle" /\ dpc' = "idle" /\ ~failed'
       => \A i \in 1 .. Len(list) : target'[list[i]] = "good"]_vars

NoBrokenFiles == \A a \in Archives : target[a] \in {"absent", "good"}

\* Once faults and commits stop, and unless a broken file that was put under an archive's
\* name stays there, the catalog lists exactly what is published: a rebuild that meets a
\* removal comes again.  (A broken file that does not open fails every rebuild, and
\* CheckTarget keeps it.)
CatalogConverges == <>[]NoBrokenFiles => <>[](library = Published)

\* Where nobody put a broken file there, which is kept for inspection, every pinned archive
\* is there in the end and the releases it supersedes are gone.
Complete ==
  \A i \in 1 .. Len(git) :
    target[git[i]] = "good" /\ \A a \in Archives : Older(a, git[i]) => target[a] = "absent"
LibraryConverges == []NoBrokenFiles => <>[]Complete

-----------------------------------------------------------------------------
(* Why (inductive): a file is verified before its name, its marker or the removal *)
(* of its predecessors, and keeps its content from then on.                       *)

VerifiedInv ==
  /\ TypeOK
  /\ MarkerIsHonest
  /\ dpc = "mv" => partial[file] = "good"
  /\ dpc \in {"adopt", "mark", "cleanup"} => target[file] = "good"

=============================================================================
