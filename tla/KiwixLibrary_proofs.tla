------------------------- MODULE KiwixLibrary_proofs -------------------------
(* What the downloader may never do, for any archives, lists, number of       *)
(* attempts and faults.                                                       *)
EXTENDS KiwixLibrary, TLAPS

\* The line a run is at names an archive.
LEMMA FileType == TypeOK => file \in Archives
BY LibraryAssumption DEF TypeOK, file

\* Going on to the next line leaves the run on a line or at its end.
LEMMA NextLineType ==
  ASSUME TypeOK, NextLine, list' = list
  PROVE  dpc' \in {"line", "idle"} /\ line' \in 1 .. Len(list')
<1>1. Len(list) \in Nat
  BY LibraryAssumption DEF TypeOK
<1> QED
  BY <1>1 DEF TypeOK, NextLine

\* A step of the indexer changes nothing the downloader keeps.
LEMMA IndexerFrame ==
  ASSUME Indexer \/ IndexerRestarts \/ PodReplaced
  PROVE  UNCHANGED <<git, target, partial, marker, dpc, list, line, attempt, failed>>
BY DEF Indexer, ListArchives, Compare, Manage, MoveLibrary, MoveFiles, Wake, IndexerRestarts,
   PodReplaced, files, down

\* A step of the downloader changes nothing the indexer keeps.
LEMMA DownloaderFrame ==
  ASSUME Downloader \/ DownloaderDies \/ ListChanges
  PROVE  UNCHANGED <<ipc, found, library, current>>
BY DEF Downloader, StartRun, CheckTarget, WriteMarker, Wget, GiveUp, VerifyPartial, Publish,
   RemoveOld, EndCleanup, DownloaderDies, ListChanges, index

IndexType ==
  /\ ipc \in IndexPcs
  /\ found \in SUBSET Archives
  /\ library \in (SUBSET Archives) \cup {Missing}
  /\ current \in (SUBSET Archives) \cup {Missing}

DownType ==
  /\ git \in Lists
  /\ target \in [Archives -> Contents]
  /\ partial \in [Archives -> Contents]
  /\ marker \in SUBSET Archives
  /\ dpc \in DownPcs
  /\ list \in Lists
  /\ line \in 1 .. Len(list)
  /\ attempt \in 0 .. MaxAttempts
  /\ failed \in BOOLEAN

FaultsType == faults \in 0 .. Faults

LEMMA TypeParts == TypeOK <=> IndexType /\ DownType /\ FaultsType
BY DEF TypeOK, IndexType, DownType, FaultsType

\* The indexer's own variables keep their types.
LEMMA IndexerStep ==
  ASSUME TypeOK, Indexer \/ IndexerRestarts \/ PodReplaced
  PROVE  IndexType'
<1> USE DEF IndexType, IndexPcs, TypeOK
<1>1. CASE ListArchives
  <2>1. Published \in SUBSET Archives
    BY DEF Published
  <2> QED
    BY <1>1, <2>1 DEF ListArchives
<1>2. CASE Compare \/ Manage \/ Wake
  BY <1>2 DEF Compare, Manage, Wake
<1>3. CASE MoveLibrary
  BY <1>3 DEF MoveLibrary
<1>4. CASE MoveFiles
  BY <1>4 DEF MoveFiles
<1>5. CASE IndexerRestarts
  BY <1>5 DEF IndexerRestarts
<1>6. CASE PodReplaced
  <2>1. ipc' = "list" /\ found' = found
    BY <1>6 DEF PodReplaced
  <2>2. library' = Missing /\ current' = Missing
    BY <1>6 DEF PodReplaced
  <2>3. library' \in (SUBSET Archives) \cup {Missing} /\ current' \in (SUBSET Archives) \cup {Missing}
    BY <2>2
  <2> QED
    BY <2>1, <2>3
<1> QED
  BY <1>1, <1>2, <1>3, <1>4, <1>5, <1>6 DEF Indexer

\* A fault is used up, or none is.
LEMMA FaultsStep ==
  ASSUME TypeOK, [Next]_vars
  PROVE  FaultsType'
<1>1. faults' = faults \/ (faults > 0 /\ faults' = faults - 1)
  BY DEF Next, vars, Fault, Downloader, Indexer, StartRun, CheckTarget, WriteMarker, Wget, GiveUp,
     VerifyPartial, Publish, RemoveOld, EndCleanup, DownloaderDies, ListChanges, ListArchives,
     Compare, Manage, MoveLibrary, MoveFiles, Wake, IndexerRestarts, PodReplaced
<1> QED
  BY <1>1, LibraryAssumption DEF TypeOK, FaultsType

\* What VerifiedInv says of the downloader.
FilesInv ==
  /\ MarkerIsHonest
  /\ dpc = "mv" => partial[file] = "good"
  /\ dpc \in {"adopt", "mark", "cleanup"} => target[file] = "good"

\* Every step of the downloader keeps it.
LEMMA DownloaderStep ==
  ASSUME TypeOK, FilesInv, Downloader \/ DownloaderDies \/ ListChanges
  PROVE  DownType' /\ FilesInv'
<1>0. file \in Archives
  BY FileType
<1> USE DEF FilesInv, MarkerIsHonest, DownType, TypeOK, DownPcs, Contents, files
<1>1. CASE StartRun
  <2>1. Len(git) \in Nat \ {0}
    <3>1. git \in Seq(Archives) /\ git # <<>>
      BY LibraryAssumption
    <3> QED
      BY <3>1
  <2>2. dpc' = "line" /\ list' = git /\ line' = 1 /\ failed' = FALSE
    BY <1>1 DEF StartRun
  <2>3. line' \in 1 .. Len(list')
    BY <2>1, <2>2
  <2>4. UNCHANGED <<git, target, partial, marker, attempt>>
    BY <1>1 DEF StartRun
  <2> QED
    BY <2>2, <2>3, <2>4
<1>2. CASE CheckTarget
  <2>1. CASE target[file] \in {"bad", "good"} /\ file \in marker /\ dpc' = "cleanup"
             /\ UNCHANGED <<line, attempt, failed>>
    BY <1>0, <1>2, <2>1 DEF CheckTarget, file
  <2>2. CASE target[file] = "good" /\ dpc' = "adopt" /\ UNCHANGED <<line, attempt, failed>>
    BY <1>0, <1>2, <2>2 DEF CheckTarget, file
  <2>3. CASE failed' = TRUE /\ NextLine /\ UNCHANGED attempt
    BY <1>0, <1>2, <2>3, NextLineType DEF CheckTarget
  <2>4. CASE attempt' = 0 /\ dpc' = "wget" /\ UNCHANGED <<line, failed>>
    BY <1>0, <1>2, <2>4, LibraryAssumption DEF CheckTarget
  <2> QED
    BY <1>2, <2>1, <2>2, <2>3, <2>4 DEF CheckTarget
<1>3. CASE WriteMarker
  BY <1>0, <1>3 DEF WriteMarker, file
<1>4. CASE Wget
  <2>1. \E c \in Contents : partial' = [partial EXCEPT ![file] = c]
    BY <1>0, <1>4 DEF Wget
  <2>2. dpc' \in {"wget", "verify"} /\ attempt' \in 0 .. MaxAttempts
    BY <1>4, LibraryAssumption DEF Wget
  <2> QED
    BY <1>0, <1>4, <2>1, <2>2 DEF Wget
<1>5. CASE GiveUp
  BY <1>5, NextLineType DEF GiveUp
<1>6. CASE VerifyPartial
  <2>1. CASE partial[file] = "good"
    BY <1>6, <2>1 DEF VerifyPartial, file
  <2>2. CASE partial[file] # "good"
    BY <1>0, <1>6, <2>2, NextLineType DEF VerifyPartial
  <2> QED
    BY <2>1, <2>2
<1>7. CASE Publish
  <2>1. target' = [target EXCEPT ![file] = "good"]
    BY <1>7 DEF Publish
  <2>2. file' = file
    BY <1>7 DEF Publish, file
  <2> QED
    BY <1>0, <1>7, <2>1, <2>2 DEF Publish
<1>8. CASE RemoveOld
  <2>1. PICK a \in Archives :
          /\ Older(a, file)
          /\ target' = [target EXCEPT ![a] = "absent"] \/ UNCHANGED target
          /\ partial' = [partial EXCEPT ![a] = "absent"] \/ UNCHANGED partial
          /\ marker' = marker \ {a}
    BY <1>8 DEF RemoveOld, Superseded
  <2>2. a # file
    BY <1>0, <2>1, LibraryAssumption
  <2>3. dpc = "cleanup" /\ UNCHANGED <<git, dpc, list, line, attempt, failed>>
    BY <1>8 DEF RemoveOld, down
  <2>4. file' = file
    BY <2>3 DEF file
  <2> QED
    BY <1>0, <2>1, <2>2, <2>3, <2>4
<1>9. CASE EndCleanup
  BY <1>0, <1>9, NextLineType DEF EndCleanup
<1>10. CASE DownloaderDies
  <2>1. target' = target \/ \E a \in Archives : target' = [target EXCEPT ![a] = "absent"]
    BY <1>10 DEF DownloaderDies, Superseded
  <2> QED
    BY <1>10, <2>1 DEF DownloaderDies
<1>11. CASE ListChanges
  BY <1>11 DEF ListChanges, down, file
<1> QED
  BY <1>1, <1>2, <1>3, <1>4, <1>5, <1>6, <1>7, <1>8, <1>9, <1>10, <1>11 DEF Downloader

-----------------------------------------------------------------------------

LEMMA InitVerified == Init => VerifiedInv
<1> SUFFICES ASSUME Init
             PROVE  VerifiedInv
  OBVIOUS
<1>1. list \in Seq(Archives) /\ list # <<>>
  BY LibraryAssumption DEF Init
<1>2. Len(list) \in Nat \ {0}
  BY <1>1
<1>3. DownType
  <2>1. line \in 1 .. Len(list) /\ attempt \in 0 .. MaxAttempts
    BY <1>2, LibraryAssumption DEF Init
  <2>2. partial \in [Archives -> Contents]
    BY DEF Init, Contents
  <2> QED
    BY <2>1, <2>2 DEF Init, DownType, DownPcs
<1>4. IndexType /\ FaultsType
  BY LibraryAssumption DEF Init, IndexType, FaultsType, IndexPcs
<1> QED
  BY <1>3, <1>4, TypeParts DEF Init, VerifiedInv, MarkerIsHonest

LEMMA StepVerified == VerifiedInv /\ [Next]_vars => VerifiedInv'
<1> SUFFICES ASSUME VerifiedInv, [Next]_vars
             PROVE  VerifiedInv'
  OBVIOUS
<1>1. TypeOK /\ FilesInv
  BY DEF VerifiedInv, FilesInv
<1>2. FaultsType'
  BY <1>1, FaultsStep
<1>3. CASE Downloader \/ DownloaderDies \/ ListChanges
  <2>1. DownType' /\ FilesInv'
    BY <1>1, <1>3, DownloaderStep
  <2>2. IndexType'
    BY <1>1, <1>3, DownloaderFrame, TypeParts DEF IndexType
  <2> QED
    BY <1>2, <2>1, <2>2 DEF VerifiedInv, TypeOK, DownType, IndexType, FaultsType, FilesInv
<1>4. CASE Indexer \/ IndexerRestarts \/ PodReplaced
  <2>1. IndexType'
    BY <1>1, <1>4, IndexerStep
  <2>2. DownType' /\ FilesInv'
    BY <1>1, <1>4, IndexerFrame, TypeParts DEF DownType, FilesInv, MarkerIsHonest, file
  <2> QED
    BY <1>2, <2>1, <2>2 DEF VerifiedInv, TypeOK, DownType, IndexType, FaultsType, FilesInv
<1>5. CASE UNCHANGED vars
  BY <1>1, <1>5 DEF vars, files, down, index, VerifiedInv, TypeOK, MarkerIsHonest, FilesInv, file
<1> QED
  BY <1>3, <1>4, <1>5 DEF Next

\* No marker and no name ever vouches for an archive that was not verified, and every
\* variable keeps its type (download-library.sh, index-library.sh).
THEOREM Verified == Spec => []VerifiedInv
BY InitVerified, StepVerified, PTL DEF Spec

\* Every variable of the library keeps its type.
THEOREM TypeCorrect == Spec => []TypeOK
<1>1. VerifiedInv => TypeOK
  BY DEF VerifiedInv
<1> QED
  BY <1>1, Verified, PTL

\* A marker never vouches for a file that is not good (download-library.sh:34-44, 73-76).
THEOREM MarkersAreHonest == Spec => []MarkerIsHonest
<1>1. VerifiedInv => MarkerIsHonest
  BY DEF VerifiedInv
<1> QED
  BY <1>1, Verified, PTL

\* Which archives a step may change: the one of the line is published, older ones of its
\* series are removed, and then the one of the line is good.
LEMMA TargetStep ==
  ASSUME VerifiedInv, Next
  PROVE  \/ target' = target
         \/ target' = [target EXCEPT ![file] = "good"]
         \/ /\ target[file] = "good"
            /\ \E a \in Archives : Older(a, file) /\ target' = [target EXCEPT ![a] = "absent"]
<1>1. CASE StartRun \/ CheckTarget \/ WriteMarker \/ Wget \/ GiveUp \/ VerifyPartial \/ EndCleanup
           \/ ListChanges \/ Indexer \/ IndexerRestarts \/ PodReplaced
  BY <1>1, IndexerFrame
  DEF StartRun, CheckTarget, WriteMarker, Wget, GiveUp, VerifyPartial, EndCleanup, ListChanges, files
<1>2. CASE Publish
  BY <1>2 DEF Publish, VerifiedInv
<1>3. CASE RemoveOld
  BY <1>3 DEF RemoveOld, Superseded, VerifiedInv
<1>4. CASE DownloaderDies
  BY <1>4 DEF DownloaderDies, Superseded, VerifiedInv, files
<1> QED
  BY <1>1, <1>2, <1>3, <1>4 DEF Next, Downloader

\* "the library indexer never sees partial downloads": the downloader puts only whole and
\* verified archives under their names.
THEOREM OnlyWhole == Spec => OnlyWholeArchives
<1> DEFINE Whole == \A a \in Archives : target'[a] # target[a] => target'[a] \in {"absent", "good"}
<1>1. VerifiedInv /\ [Next]_vars => [Whole]_vars
  <2> SUFFICES ASSUME VerifiedInv, Next, NEW a \in Archives, target'[a] # target[a]
               PROVE  target'[a] \in {"absent", "good"}
    OBVIOUS
  <2>1. target \in [Archives -> Contents] /\ file \in Archives
    BY FileType DEF VerifiedInv, TypeOK
  <2> QED
    BY <2>1, TargetStep
<1> QED
  BY <1>1, Verified, PTL DEF Spec, OnlyWholeArchives

\* No replacement, clean-up, crash or rollback costs a series its last good release
\* (cleanup_old_versions).
THEOREM NeverLost == Spec => SeriesNeverLost
<1> DEFINE Kept == \A a \in Archives :
                     (\E b \in Releases(a) : target[b] = "good")
                       => \E b \in Releases(a) : target'[b] = "good"
<1>1. VerifiedInv /\ [Next]_vars => [Kept]_vars
  <2> SUFFICES ASSUME VerifiedInv, Next, NEW a \in Archives, NEW b \in Releases(a), target[b] = "good"
               PROVE  \E c \in Releases(a) : target'[c] = "good"
    OBVIOUS
  <2>1. target \in [Archives -> Contents] /\ file \in Archives /\ b \in Archives
    BY FileType DEF VerifiedInv, TypeOK, Releases
  <2>2. CASE target' = target \/ target' = [target EXCEPT ![file] = "good"]
    BY <2>1, <2>2
  <2>3. CASE target[file] = "good"
             /\ \E o \in Archives : Older(o, file) /\ target' = [target EXCEPT ![o] = "absent"]
    <3>1. PICK o \in Archives : Older(o, file) /\ target' = [target EXCEPT ![o] = "absent"]
      BY <2>3
    <3>2. CASE o # b
      BY <2>1, <3>1, <3>2
    <3>3. CASE o = b
      <4>1. target'[file] = "good"
        BY <2>1, <2>3, <3>1, LibraryAssumption
      <4>2. file \in Releases(a)
        BY <2>1, <3>1, <3>3, LibraryAssumption DEF Releases
      <4> QED
        BY <4>1, <4>2
    <3> QED
      BY <3>2, <3>3
  <2> QED
    BY <2>2, <2>3, TargetStep
<1> QED
  BY <1>1, Verified, PTL DEF Spec, SeriesNeverLost
-----------------------------------------------------------------------------
\* A run that has not failed has every line behind it published and good.
DoneInv == dpc # "idle" /\ ~failed => \A i \in 1 .. line - 1 : target[list[i]] = "good"

\* An archive of the list is not older than the one of the line, so it is not removed.
LEMMA ListedStays ==
  ASSUME VerifiedInv, Next, NEW i \in 1 .. Len(list), target[list[i]] = "good"
  PROVE  target'[list[i]] = "good"
<1>1. list \in Seq(Archives) /\ list[i] \in Archives /\ target \in [Archives -> Contents] /\ file \in Archives
  BY FileType, LibraryAssumption DEF VerifiedInv, TypeOK
<1>2. ~Older(list[i], file)
  BY LibraryAssumption DEF VerifiedInv, TypeOK, file
<1> QED
  BY <1>1, <1>2, TargetStep

\* The line is the one before, or the next one when its archive is good or the run has failed;
\* and a run that ends without a failure has come to the end of its list.
LEMMA LineStep ==
  ASSUME VerifiedInv, Next
  PROVE  \/ dpc' = "line" /\ line' = 1 /\ dpc = "idle"
         \/ dpc' = "idle" /\ failed'
         \/ UNCHANGED <<dpc, list, line, failed>>
         \/ /\ UNCHANGED <<list, line, failed>> /\ dpc # "idle" /\ dpc' # "idle"
         \/ /\ UNCHANGED list /\ NextLine /\ dpc # "idle"
            /\ failed' \/ (failed' = failed /\ target[file] = "good" /\ target' = target)
<1>1. CASE StartRun
  BY <1>1 DEF StartRun
<1>2. CASE CheckTarget
  BY <1>2 DEF CheckTarget
<1>3. CASE WriteMarker \/ Wget
  BY <1>3 DEF WriteMarker, Wget
<1>4. CASE GiveUp
  BY <1>4 DEF GiveUp
<1>5. CASE VerifyPartial
  BY <1>5 DEF VerifyPartial
<1>6. CASE Publish
  BY <1>6 DEF Publish
<1>7. CASE RemoveOld \/ ListChanges
  BY <1>7 DEF RemoveOld, ListChanges, down
<1>8. CASE EndCleanup
  BY <1>8 DEF EndCleanup, VerifiedInv
<1>9. CASE DownloaderDies
  BY <1>9 DEF DownloaderDies
<1>10. CASE Indexer \/ IndexerRestarts \/ PodReplaced
  BY <1>10, IndexerFrame
<1> QED
  BY <1>1, <1>2, <1>3, <1>4, <1>5, <1>6, <1>7, <1>8, <1>9, <1>10 DEF Next, Downloader

LEMMA StepDone == VerifiedInv /\ DoneInv /\ [Next]_vars => DoneInv'
<1> SUFFICES ASSUME VerifiedInv, DoneInv, Next, dpc' # "idle", ~failed', NEW i \in 1 .. line' - 1
             PROVE  target'[list'[i]] = "good"
  BY DEF DoneInv, vars, files, down
<1>0. Len(list) \in Nat /\ line \in 1 .. Len(list)
  BY LibraryAssumption DEF VerifiedInv, TypeOK
<1>1. CASE line' = 1
  BY <1>1
<1>2. CASE dpc # "idle" /\ UNCHANGED <<list, line, failed>>
  BY <1>0, <1>2, ListedStays DEF DoneInv
<1>3. CASE UNCHANGED list /\ NextLine /\ dpc # "idle" /\ failed' = failed /\ target[file] = "good"
  <2>1. line' = line + 1
    BY <1>3 DEF NextLine
  <2>2. i \in 1 .. Len(list) /\ target[list[i]] = "good"
    BY <1>0, <1>3, <2>1 DEF DoneInv, file
  <2> QED
    BY <1>3, <2>2, ListedStays
<1> QED
  BY <1>1, <1>2, <1>3, LineStep

\* "exit 0": a run that ends without a failure leaves every archive of its list published
\* and good, whatever it found there (download-library.sh:29-80).
THEOREM Succeeds == Spec => SuccessMeansComplete
<1> DEFINE Success == dpc # "idle" /\ dpc' = "idle" /\ ~failed' => \A i \in 1 .. Len(list) : target'[list[i]] = "good"
<1>1. VerifiedInv /\ DoneInv /\ [Next]_vars => [Success]_vars
  <2> SUFFICES ASSUME VerifiedInv, DoneInv, Next, dpc # "idle", dpc' = "idle", ~failed', NEW i \in 1 .. Len(list)
               PROVE  target'[list[i]] = "good"
    OBVIOUS
  <2>0. Len(list) \in Nat /\ line \in 1 .. Len(list)
    BY LibraryAssumption DEF VerifiedInv, TypeOK
  <2>1. NextLine /\ failed' = failed /\ target[file] = "good"
    BY LineStep
  <2>2. line = Len(list)
    BY <2>0, <2>1 DEF NextLine
  <2>3. target[list[i]] = "good"
    BY <2>0, <2>1, <2>2 DEF DoneInv, file
  <2> QED
    BY <2>3, ListedStays
<1>2. Init => DoneInv
  BY DEF Init, DoneInv
<1> QED
  BY <1>1, <1>2, Verified, StepDone, PTL DEF Spec, SuccessMeansComplete
=============================================================================
