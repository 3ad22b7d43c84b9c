-------------------------- MODULE Applications_proofs --------------------------
(***************************************************************************)
(* Proofs about the programs beside Hermes, HolmesGPT, Open WebUI,         *)
(* Presenton and PostHog, each with an inductive invariant, and about all  *)
(* the applications together: a behaviour of the composition is one of     *)
(* each program, so that what holds of each holds there.                   *)
(***************************************************************************)
EXTENDS Statistics_proofs

-----------------------------------------------------------------------------
(* HermesSeed *)

\* The marker is written last, and whatever commit it is of, what is beside it is whole, unless
\* it is being removed or its removal was cut off.
MarkerFits ==
  \/ skill.marker = "none" \/ cut
  \/ skill.files = [of |-> skill.marker, whole |-> TRUE]
  \/ seedPc = "remove" /\ ~skill.files.whole /\ skill.marker # pinned

\* ... and a seeding that is at a file has what comes before it.
HermesInv ==
  /\ HS!TypeOK /\ MarkerFits /\ HS!ParkedMeansNone
  /\ seedPc = "remove" => skill.marker # pinned
  /\ seedPc = "copy" => skill.marker = "none"
  /\ seedPc = "mark" => skill.files = [of |-> pinned, whole |-> TRUE]
  /\ seedPc = "block" => ready \subseteq toBlock

LEMMA HermesInit == HS!Init => HermesInv
<1> SUFFICES ASSUME HS!Init PROVE HermesInv
  OBVIOUS
<1> USE HermesAssumption DEF HS!Init, HS!NoCommit, HS!NoFiles, HS!Files
<1>1. pinned \in Commits /\ parked = FALSE
  OBVIOUS
<1>2. skill \in [files : HS!Files, marker : Commits \cup {"none"}]
  OBVIOUS
<1>3. HS!TypeOK
  <2>1. parked \in BOOLEAN
    OBVIOUS
  <2>2. cut = FALSE
    OBVIOUS
  <2>3. cut \in BOOLEAN
    BY <2>2
  <2> QED
    BY <1>1, <1>2, <2>1, <2>3 DEF HS!TypeOK
<1> QED
  BY <1>1, <1>3 DEF HermesInv, MarkerFits, HS!ParkedMeansNone

LEMMA HermesStep == HermesInv /\ [HS!Next]_(HS!vars) => HermesInv'
<1> SUFFICES ASSUME HermesInv, [HS!Next]_(HS!vars) PROVE HermesInv'
  OBVIOUS
<1> USE HermesAssumption DEF HS!NoCommit, HS!NoFiles, HS!Files, HS!Fault, HermesInv
<1>1. skill' \in [files : HS!Files, marker : Commits \cup {"none"}]
  <2> USE DEF HS!TypeOK
  <2>1. CASE HS!CopySkill
    <3>1. CASE skill' = [skill EXCEPT !.files = [of |-> pinned, whole |-> FALSE]]
      BY <3>1
    <3>2. CASE skill' = [skill EXCEPT !.files.whole = TRUE]
      BY <3>2
    <3> QED
      BY <2>1, <3>1, <3>2 DEF HS!CopySkill
  <2>2. CASE skill' = [files |-> HS!NoFiles, marker |-> "none"]
    BY <2>2
  <2>5. CASE skill' = [skill EXCEPT !.marker = pinned]
    BY <2>5
  <2>6. ASSUME NEW m \in {skill.marker, "none"}, skill' = [files |-> [skill.files EXCEPT !.whole = FALSE], marker |-> m]
        PROVE  skill' \in [files : HS!Files, marker : Commits \cup {"none"}]
    BY <2>6
  <2>3. CASE UNCHANGED skill
    BY <2>3
  <2>4. \/ HS!CopySkill \/ HS!RemoveOld
        \/ skill' = [skill EXCEPT !.marker = pinned] \/ UNCHANGED skill
    BY DEF HS!MarkSkill, HS!Next, HS!Seed, HS!CheckSkill, HS!CheckOwn, HS!CopyOwn, HS!ReadTasks, HS!Block, HS!WorkerCrashes, HS!PodStarts, HS!Pin, HS!vars
  <2> QED
    BY <2>1, <2>2, <2>3, <2>4, <2>5, <2>6 DEF HS!RemoveOld
<1>2. HS!TypeOK'
  <2> USE DEF HS!TypeOK, HS!CheckSkill, HS!RemoveOld, HS!CopySkill, HS!MarkSkill, HS!CheckOwn, HS!CopyOwn, HS!ReadTasks, HS!Block, HS!WorkerCrashes, HS!PodStarts, HS!Pin, HS!CutOff, HS!vars, HS!Next, HS!Seed
  <2>7. cut' \in BOOLEAN
    OBVIOUS
  <2>1. pinned' \in Commits
    OBVIOUS
  <2>2. own' \in {"missing", "torn", "whole"}
    OBVIOUS
  <2>3. ready' \subseteq Tasks /\ toBlock' \subseteq ready'
    OBVIOUS
  <2>4. parked' \in BOOLEAN
    OBVIOUS
  <2>5. seedFaults' \in 0 .. SeedFaults
    OBVIOUS
  <2>6. seedPc' \in {"skill", "remove", "copy", "mark", "own", "copyOwn", "read", "block", "running"}
    OBVIOUS
  <2> QED
    BY <1>1, <2>1, <2>2, <2>3, <2>4, <2>5, <2>6, <2>7
<1>3. MarkerFits' /\ (seedPc = "remove" => skill.marker # pinned)' /\ (seedPc = "copy" => skill.marker = "none")'
        /\ (seedPc = "mark" => skill.files = [of |-> pinned, whole |-> TRUE])'
  <2> USE DEF HS!TypeOK, MarkerFits
  <2>1. CASE HS!CopySkill
    <3>1. CASE skill' = [skill EXCEPT !.files = [of |-> pinned, whole |-> FALSE]] /\ seedPc' = "copy"
      BY <2>1, <3>1 DEF HS!CopySkill
    <3>2. CASE skill.files.of = pinned /\ skill' = [skill EXCEPT !.files.whole = TRUE] /\ seedPc' = "mark"
      <4>1. skill'.files = [of |-> pinned, whole |-> TRUE] /\ skill'.marker = skill.marker
        BY <3>2
      <4> QED
        BY <2>1, <3>2, <4>1 DEF HS!CopySkill
    <3>3. CASE UNCHANGED skill /\ seedPc' = "own"
      BY <2>1, <3>3 DEF HS!CopySkill
    <3> QED
      BY <2>1, <3>1, <3>2, <3>3 DEF HS!CopySkill
  <2>2. CASE UNCHANGED <<skill, cut, seedPc, pinned>>
    BY <2>2
  <2>3. CASE seedPc \notin {"remove", "copy", "mark"} /\ seedPc' \notin {"remove", "copy", "mark"} /\ UNCHANGED <<skill, cut, pinned>>
    BY <2>3
  <2>4. CASE HS!RemoveOld
    <3>1. CASE skill' = [files |-> HS!NoFiles, marker |-> "none"] /\ seedPc' = "copy"
      BY <2>4, <3>1 DEF HS!RemoveOld
    <3>2. ASSUME seedPc = "remove", UNCHANGED <<seedPc, cut, pinned>>, NEW m \in {skill.marker, "none"},
                 skill' = [files |-> [skill.files EXCEPT !.whole = FALSE], marker |-> m]
          PROVE  /\ MarkerFits' /\ (seedPc = "remove" => skill.marker # pinned)'
                 /\ seedPc' = "remove"
      <4>1. skill'.marker = m /\ ~skill'.files.whole /\ m # pinned
        BY <3>2
      <4> QED
        BY <3>2, <4>1
    <3> QED
      BY <2>4, <3>1, <3>2 DEF HS!RemoveOld
  <2>5. CASE HS!MarkSkill
    <3>1. skill' = [skill EXCEPT !.marker = pinned] /\ skill.files = [of |-> pinned, whole |-> TRUE]
          /\ seedPc' = "own" /\ UNCHANGED pinned
      BY <2>5 DEF HS!MarkSkill
    <3>2. skill'.marker = pinned /\ skill'.files = [of |-> pinned, whole |-> TRUE]
      BY <3>1
    <3> QED
      BY <3>1, <3>2
  <2>6. CASE HS!CheckSkill
    BY <2>6 DEF HS!CheckSkill
  <2>7. CASE HS!PodStarts \/ HS!Pin
    BY <2>7 DEF HS!PodStarts, HS!Pin, HS!CutOff
  <2> QED
    BY <2>1, <2>2, <2>3, <2>4, <2>5, <2>6, <2>7 DEF HS!Next, HS!Seed, HS!CheckOwn, HS!CopyOwn, HS!ReadTasks, HS!Block, HS!WorkerCrashes, HS!vars
<1>4. HS!ParkedMeansNone' /\ (seedPc = "block" => ready \subseteq toBlock)'
  <2> USE DEF HS!TypeOK, HS!ParkedMeansNone
  <2>1. CASE HS!Block
    <3>1. CASE toBlock = {} /\ UNCHANGED ready /\ seedPc' = "running"
      BY <2>1, <3>1 DEF HS!Block
    <3>2. CASE \E t \in toBlock : toBlock' = toBlock \ {t} /\ ready' = ready \ {t} /\ UNCHANGED seedPc
      BY <2>1, <3>2 DEF HS!Block
    <3>3. CASE seedPc' = "running" /\ ~parked'
      BY <3>3
    <3> QED
      BY <2>1, <3>1, <3>2, <3>3 DEF HS!Block
  <2>2. CASE UNCHANGED <<ready, toBlock, seedPc, parked>> \/ seedPc' \notin {"block", "running"}
    BY <2>2
  <2>3. CASE HS!ReadTasks \/ \E t \in Tasks : HS!WorkerCrashes(t)
    BY <2>3 DEF HS!ReadTasks, HS!WorkerCrashes
  <2> QED
    BY <2>1, <2>2, <2>3 DEF HS!Next, HS!Seed, HS!CheckSkill, HS!RemoveOld, HS!CopySkill, HS!MarkSkill, HS!CheckOwn, HS!CopyOwn, HS!PodStarts, HS!Pin, HS!vars
<1> QED
  BY <1>2, <1>3, <1>4

-----------------------------------------------------------------------------
(* UsageExporter *)

\* Ticks since the last scrape that read state.db, or more.
Since == lost * ScrapeEvery + (ScrapeEvery - due)
\* Whatever the exporter has not been asked about yet is held back for as long as the
\* scrapes since the last may need; what Prometheus has, the exporter knows.
Exported(f, h, d, b, c) ==
  /\ ~d => DOMAIN f = {}
  /\ \A l \in DOMAIN f \cup h : l \in Sets /\ calls[l] > 0
  /\ DOMAIN b.lines \subseteq DOMAIN f \cup h
  /\ ~b.up => DOMAIN b.lines = {}
  /\ b.up => DOMAIN f \cup h \subseteq DOMAIN b.lines
  /\ \A l \in DOMAIN b.lines : b.lines[l] \in 0 .. calls[l] /\ (b.lines[l] > 0 => l \in h \/ f[l] >= Hold)
  /\ \A l \in DOMAIN sample : sample[l] \in 0 .. calls[l] /\ calls[l] > 0
  /\ \A l \in DOMAIN sample : d => l \in DOMAIN f \cup h
  /\ \A l \in DOMAIN sample \cap DOMAIN f : f[l] < Hold => sample[l] = 0
  /\ \A l \in DOMAIN sample \cap DOMAIN b.lines : b.lines[l] >= sample[l]
  /\ d /\ Since = 0 => c <= CacheTicks
  /\ \A l \in DOMAIN f \ DOMAIN sample : f[l] < Since
UsageInv == UE!TypeOK /\ Exported(first, history, done, body, cached)

LEMMA UsageInit == UE!Init => UsageInv
<1> SUFFICES ASSUME UE!Init PROVE UsageInv
  OBVIOUS
<1> USE UsageAssumption DEF UE!Init, UE!Fresh
<1>1. DOMAIN sample = {} /\ DOMAIN first = {} /\ DOMAIN body.lines = {} /\ body.up = FALSE
  OBVIOUS
<1>2. calls \in [Sets -> 0 .. MaxCalls]
  OBVIOUS
<1>5. readable \in BOOLEAN /\ done \in BOOLEAN
  OBVIOUS
<1>3. UE!TypeOK
  BY <1>1, <1>2, <1>5 DEF UE!TypeOK
<1>4. ~done
  OBVIOUS
<1> QED
  BY <1>1, <1>3, <1>4 DEF UsageInv, Exported

\* An answer, rendered anew or from the cache (do_GET).
LEMMA GetExports ==
  ASSUME UsageInv, UE!Get
  PROVE  /\ Exported(first', history', done', body', cached')
         /\ DOMAIN first' \subseteq Sets /\ \A l \in DOMAIN first' : first'[l] \in 0 .. Hold
         /\ history' \subseteq Sets \ DOMAIN first' /\ done' \in BOOLEAN
         /\ DOMAIN body'.lines \subseteq Sets /\ cached' \in 0 .. CacheTicks
<1> USE UsageAssumption DEF UsageInv
<1>1. Since \in Nat /\ lost \in Nat
  BY DEF Since, UE!TypeOK
<1>2. CASE cached <= CacheTicks
  <2>1. UNCHANGED <<first, history, done, body, cached>>
    BY <1>2, UsageAssumption DEF UE!Get, UE!exporter, UE!TypeOK
  <2> QED
    BY <1>2, <2>1 DEF Exported, UE!TypeOK
<1>e. Exported(first, history, done, body, cached)
  OBVIOUS
<1>4. cached > CacheTicks => ~(done /\ Since = 0)
  BY <1>e DEF Exported, UE!TypeOK
<1>5. ~done => DOMAIN first = {}
  BY <1>e DEF Exported
<1>6. \A l \in DOMAIN first \cup history : l \in Sets /\ calls[l] > 0
  BY <1>e DEF Exported
<1>7. \A l \in DOMAIN sample : l \in Sets /\ sample[l] \in 0 .. calls[l] /\ calls[l] > 0
  BY <1>e DEF Exported, UE!TypeOK
<1>8. \A l \in DOMAIN sample : done => l \in DOMAIN first \cup history
  BY <1>e DEF Exported
<1>9. \A l \in DOMAIN sample \cap DOMAIN first : first[l] < Hold => sample[l] = 0
  BY <1>e DEF Exported
<1>10. \A l \in DOMAIN first \ DOMAIN sample : first[l] < Since
  BY <1>e DEF Exported
<1>3. CASE UE!Render /\ cached > CacheTicks
  <2> DEFINE new == UE!Rows \ (DOMAIN first \cup history)
             ages ==IF done THEN [l \in DOMAIN first \cup new |-> IF l \in new THEN 0 ELSE first[l]] ELSE first
  <2>1. /\ first' = ages /\ history' = history \cup (IF done THEN {} ELSE new) /\ done' = (done \/ readable)
        /\ body' = [up |-> readable, lines |-> [l \in UE!Rows |-> IF UE!Held(l, ages) THEN 0 ELSE calls[l]]]
        /\ cached' = 0
    BY <1>3 DEF UE!Render, UE!Baseline
  <2>2. body'.up = readable /\ body'.lines = [l \in UE!Rows |-> IF UE!Held(l, ages) THEN 0 ELSE calls[l]]
    BY <2>1
  <2>3. /\ \A l \in UE!Rows : readable /\ l \in Sets /\ calls[l] \in Nat /\ calls[l] > 0
        /\ readable => \A l \in Sets : calls[l] > 0 => l \in UE!Rows
    BY DEF UE!Rows, UE!TypeOK
  <2>4. DOMAIN first' = IF done THEN DOMAIN first \cup new ELSE DOMAIN first
    BY <2>1
  <2>5. \A l \in DOMAIN first : first'[l] = first[l] /\ first[l] \in 0 .. Hold
    BY <2>1 DEF UE!TypeOK
  <2>6. \A l \in DOMAIN first' \ DOMAIN first : first'[l] = 0 /\ done /\ l \notin history
    BY <2>1
  <2>7. DOMAIN first' \cup history' = DOMAIN first \cup history \cup UE!Rows
    BY <2>1, <2>4
  <2>8. \A l \in DOMAIN body'.lines :
          /\ l \in UE!Rows
          /\ body'.lines[l] = IF l \in DOMAIN first' /\ first'[l] < Hold THEN 0 ELSE calls[l]
    BY <2>1, <2>2 DEF UE!Held
  <2>9. ~done => DOMAIN first = {}
    BY DEF Exported
  <2> HIDE DEF new, ages
  <2>10. /\ ~done' => DOMAIN first' = {}
         /\ \A l \in DOMAIN first' \cup history' : l \in Sets /\ calls[l] > 0
    BY <2>1, <2>3, <2>4, <2>7, <2>9 DEF Exported
  <2>11. /\ DOMAIN body'.lines \subseteq DOMAIN first' \cup history'
         /\ ~body'.up => DOMAIN body'.lines = {}
         /\ body'.up => DOMAIN first' \cup history' \subseteq DOMAIN body'.lines
    BY <2>2, <2>3, <2>7, <2>8, <2>10
  <2>12. \A l \in DOMAIN body'.lines : body'.lines[l] \in 0 .. calls[l] /\ (body'.lines[l] > 0 => l \in history' \/ first'[l] >= Hold)
    BY <2>3, <2>5, <2>6, <2>7, <2>8
  <2>18. ~done /\ done' => readable
    BY <2>1
  <2>13. \A l \in DOMAIN sample : sample[l] \in 0 .. calls[l] /\ (done' => l \in DOMAIN first' \cup history')
    <3> SUFFICES ASSUME NEW l \in DOMAIN sample, done' PROVE l \in DOMAIN first' \cup history'
      BY <1>7
    <3>1. CASE done
      BY <3>1, <1>8, <2>7
    <3>2. CASE ~done
      <4>1. calls[l] > 0
        BY <1>7
      <4> QED
        BY <3>2, <4>1, <2>18, <2>3, <2>7, <1>7
    <3> QED
      BY <3>1, <3>2
  <2>14. \A l \in DOMAIN sample \cap DOMAIN first' : first'[l] < Hold => sample[l] = 0
    BY <2>5, <2>6, <1>8, <1>9
  <2>15. \A l \in DOMAIN sample \cap DOMAIN body'.lines : body'.lines[l] >= sample[l]
    BY <2>3, <2>8, <2>13, <2>14
  <2>16. done' /\ Since = 0 => cached' <= CacheTicks
    BY <2>1
  <2>17. \A l \in DOMAIN first' \ DOMAIN sample : first'[l] < Since
    <3> SUFFICES ASSUME NEW l \in DOMAIN first' \ DOMAIN sample PROVE first'[l] < Since
      OBVIOUS
    <3>1. CASE l \in DOMAIN first
      BY <3>1, <2>5, <1>10
    <3>2. CASE l \notin DOMAIN first
      BY <3>2, <2>6, <1>1, <1>3, <1>4
    <3> QED
      BY <3>1, <3>2
  <2>19. Exported(first', history', done', body', cached')
    BY <1>7, <2>10, <2>11, <2>12, <2>13, <2>14, <2>15, <2>16, <2>17 DEF Exported
  <2>20. DOMAIN first' \subseteq Sets /\ history' \subseteq Sets
    BY <2>10
  <2>21. \A l \in DOMAIN first' : first'[l] \in 0 .. Hold /\ l \notin history'
    <3>1. \A l \in DOMAIN first : l \notin history
      BY DEF UE!TypeOK
    <3>2. \A l \in DOMAIN first : l \notin history'
      BY <3>1, <2>1 DEF new
    <3>3. \A l \in DOMAIN first' \ DOMAIN first : l \notin history'
      BY <2>1, <2>6
    <3> QED
      BY <3>2, <3>3, <2>5, <2>6
  <2>22. done' \in BOOLEAN
    BY <2>1 DEF UE!TypeOK
  <2>23. DOMAIN body'.lines \subseteq Sets /\ cached' \in 0 .. CacheTicks
    BY <2>1, <2>3, <2>8
  <2> QED
    BY <2>19, <2>20, <2>21, <2>22, <2>23
<1> QED
  BY <1>2, <1>3 DEF UE!Get, UE!TypeOK

\* What a scrape makes of the answer.
LEMMA ScrapeStep ==
  ASSUME UsageInv, UE!Scrape
  PROVE  /\ UsageInv'
         /\ \A l \in DOMAIN sample : l \in DOMAIN sample' /\ sample'[l] >= sample[l]
         /\ \A l \in DOMAIN sample' \ DOMAIN sample : sample'[l] > 0 => l \in history' \/ (lost + 1) * ScrapeEvery > Hold
<1> USE UsageAssumption
<1>t. UE!TypeOK
  BY DEF UsageInv
<1>1. Exported(first, history, done, body, cached)
  BY DEF UsageInv
<1>2. /\ Exported(first', history', done', body', cached')
      /\ DOMAIN first' \subseteq Sets /\ (\A l \in DOMAIN first' : first'[l] \in 0 .. Hold)
      /\ history' \subseteq Sets \ DOMAIN first' /\ done' \in BOOLEAN
      /\ DOMAIN body'.lines \subseteq Sets /\ cached' \in 0 .. CacheTicks + 1
  <2>1. CASE UE!Get
    BY <2>1, GetExports
  <2>2. CASE UNCHANGED UE!exporter
    BY <2>2, <1>1, <1>t DEF UE!exporter, UE!TypeOK
  <2> QED
    BY <2>1, <2>2 DEF UE!Scrape
<1>3. due = 0 /\ due' = ScrapeEvery /\ calls' = calls /\ readable' = readable /\ lost \in Nat
  BY <1>t DEF UE!Scrape, UE!TypeOK
<1>4. lost' \in 0 .. MaxLost /\ (lost' = 0 \/ lost' = lost + 1)
  BY <1>t DEF UE!Scrape, UE!TypeOK
<1>5. Since = (lost + 1) * ScrapeEvery /\ Since \in Nat
  <2>1. \A a, b \in Nat : a * b + (b - 0) = (a + 1) * b /\ (a + 1) * b \in Nat
    OBVIOUS
  <2> QED
    BY <1>3, <2>1 DEF Since
<1>6. Since' = lost' * ScrapeEvery
  BY <1>3, <1>4 DEF Since
<1> DEFINE seen2 == [l \in DOMAIN body'.lines \cup DOMAIN sample |->
                     IF l \in DOMAIN body'.lines THEN body'.lines[l] ELSE sample[l]]
<1>7. \/ sample' = seen2 /\ (body'.up => lost' = 0) /\ (~body'.up => lost' = lost + 1) /\ cached' \in 0 .. CacheTicks
      \/ sample' = sample /\ lost' = lost + 1
  <2>1. UE!Get => cached' \in 0 .. CacheTicks
    BY GetExports
  <2> QED
    BY <2>1 DEF UE!Scrape
<1>8. \A l \in DOMAIN sample : l \in Sets /\ sample[l] \in 0 .. calls[l] /\ calls[l] \in Nat /\ calls[l] > 0
  BY <1>1, <1>t DEF Exported, UE!TypeOK
<1>9. \A l \in DOMAIN body'.lines : l \in DOMAIN first' \cup history' /\ l \in Sets /\ calls[l] > 0
  BY <1>2 DEF Exported
<1>10. \A l \in DOMAIN body'.lines : body'.lines[l] \in 0 .. calls[l] /\ (body'.lines[l] > 0 => l \in history' \/ first'[l] >= Hold)
  BY <1>2 DEF Exported
<1>11. \A l \in DOMAIN sample \cap DOMAIN body'.lines : body'.lines[l] >= sample[l]
  BY <1>2 DEF Exported
<1>12. \A l \in DOMAIN sample : done' => l \in DOMAIN first' \cup history'
  BY <1>2 DEF Exported
<1>13. \A l \in DOMAIN sample \cap DOMAIN first' : first'[l] < Hold => sample[l] = 0
  BY <1>2 DEF Exported
<1>14. \A l \in DOMAIN first' \ DOMAIN sample : first'[l] < Since /\ first'[l] \in Nat
  BY <1>2 DEF Exported
<1>15. \A l \in DOMAIN sample : l \in DOMAIN sample' /\ sample'[l] >= sample[l]
  BY <1>7, <1>8, <1>11
<1>16. \A l \in DOMAIN sample' \ DOMAIN sample : l \in DOMAIN body'.lines /\ sample'[l] = body'.lines[l]
  BY <1>7
<1>17. \A l \in DOMAIN sample' :
         \/ sample'[l] = sample[l] /\ l \in DOMAIN sample
         \/ sample'[l] = body'.lines[l] /\ l \in DOMAIN body'.lines
  <2>1. CASE sample' = seen2
    BY <2>1
  <2>2. CASE sample' = sample
    BY <2>2
  <2> QED
    BY <1>7, <2>1, <2>2
<1>18. \A l \in DOMAIN sample' \ DOMAIN sample : sample'[l] > 0 => l \in history' \/ (lost + 1) * ScrapeEvery > Hold
  <2> SUFFICES ASSUME NEW l \in DOMAIN sample' \ DOMAIN sample, sample'[l] > 0, l \notin history'
               PROVE  Since > Hold
    BY <1>5
  <2>1. l \in DOMAIN first' /\ first'[l] >= Hold
    BY <1>9, <1>10, <1>16
  <2> QED
    BY <2>1, <1>5, <1>14
<1>19. UE!TypeOK'
  <2>1. DOMAIN sample' \subseteq Sets
    BY <1>8, <1>9, <1>17
  <2>2. calls' \in [Sets -> 0 .. MaxCalls] /\ readable' \in BOOLEAN
    BY <1>3, <1>t DEF UE!TypeOK
  <2> QED
    BY <1>2, <1>3, <1>4, <2>1, <2>2 DEF UE!TypeOK
<1>20. \A l \in DOMAIN sample' : sample'[l] \in 0 .. calls[l] /\ calls[l] > 0
  BY <1>8, <1>9, <1>10, <1>17
<1>21. \A l \in DOMAIN sample' : done' => l \in DOMAIN first' \cup history'
  BY <1>9, <1>12, <1>17
<1>22. \A l \in DOMAIN sample' \cap DOMAIN first' : first'[l] < Hold => sample'[l] = 0
  <2>1. \A l \in DOMAIN first' : l \notin history' /\ first'[l] \in Nat
    BY <1>2
  <2> QED
    BY <1>9, <1>10, <1>13, <1>17, <2>1
<1>23. \A l \in DOMAIN sample' \cap DOMAIN body'.lines : body'.lines[l] >= sample'[l]
  BY <1>7, <1>10, <1>11, <1>8
<1>24. done' /\ Since' = 0 => cached' <= CacheTicks
  <2> SUFFICES ASSUME 0 = Since' PROVE cached' <= CacheTicks
    OBVIOUS
  <2>1. \A a \in Nat : a * ScrapeEvery = 0 => a = 0
    BY SMT
  <2>2. lost' * ScrapeEvery = 0
    BY <1>6
  <2>5. lost' \in Nat
    BY <1>4
  <2>3. lost' = 0
    BY <2>1, <2>2, <2>5
  <2>4. lost' # lost + 1
    BY <1>3, <2>3
  <2> QED
    BY <1>7, <2>4
<1>25. \A l \in DOMAIN first' \ DOMAIN sample' : first'[l] < Since'
  <2>1. CASE lost' = lost + 1
    BY <2>1, <1>5, <1>6, <1>14, <1>15
  <2>2. CASE lost' # lost + 1
    <3>1. body'.up /\ sample' = seen2
      BY <2>2, <1>7
    <3>2. DOMAIN first' \subseteq DOMAIN body'.lines
      BY <3>1, <1>2 DEF Exported
    <3> QED
      BY <3>1, <3>2
  <2> QED
    BY <2>1, <2>2
<1>26. Exported(first, history, done, body, cached)'
  <2>1. /\ ~done' => DOMAIN first' = {}
        /\ \A l \in DOMAIN first' \cup history' : l \in Sets /\ calls[l] > 0
        /\ ~body'.up => DOMAIN body'.lines = {}
        /\ body'.up => DOMAIN first' \cup history' \subseteq DOMAIN body'.lines
    BY <1>2 DEF Exported
  <2> QED
    BY <1>3, <1>9, <1>10, <1>20, <1>21, <1>22, <1>23, <1>24, <1>25, <2>1 DEF Exported
<1> QED
  BY <1>15, <1>18, <1>19, <1>26 DEF UsageInv

LEMMA UsageStep ==
  ASSUME UsageInv, [UE!Next]_(UE!vars)
  PROVE  /\ UsageInv'
         /\ \A l \in DOMAIN sample : l \in DOMAIN sample' /\ sample'[l] >= sample[l]
         /\ \A l \in DOMAIN sample' \ DOMAIN sample : sample'[l] > 0 => l \in history' \/ (lost + 1) * ScrapeEvery > Hold
<1> USE UsageAssumption
<1>t. UE!TypeOK
  BY DEF UsageInv
<1>e. Exported(first, history, done, body, cached)
  BY DEF UsageInv
<1>s. /\ \A l \in DOMAIN sample : sample[l] \in Nat
      /\ Since \in Nat
  BY <1>e, <1>t DEF Exported, Since, UE!TypeOK
<1>1. CASE UE!Scrape
  BY <1>1, ScrapeStep
<1>2. CASE UE!SomeoneReads
  <2>1. UNCHANGED <<calls, readable, sample, due, lost>>
    BY <1>2 DEF UE!SomeoneReads
  <2>2. /\ Exported(first', history', done', body', cached')
        /\ DOMAIN first' \subseteq Sets /\ (\A l \in DOMAIN first' : first'[l] \in 0 .. Hold)
        /\ history' \subseteq Sets \ DOMAIN first' /\ done' \in BOOLEAN
        /\ DOMAIN body'.lines \subseteq Sets /\ cached' \in 0 .. CacheTicks
    BY <1>2, GetExports DEF UE!SomeoneReads
  <2>3. UE!TypeOK'
    BY <1>t, <2>1, <2>2 DEF UE!TypeOK
  <2>4. Since' = Since
    BY <2>1 DEF Since
  <2>5. Exported(first, history, done, body, cached)'
    BY <2>1, <2>2, <2>4 DEF Exported
  <2> QED
    BY <1>s, <2>1, <2>3, <2>5 DEF UsageInv
<1>3. CASE \E l \in Sets : UE!Call(l)
  <2> PICK n \in Sets : UE!Call(n)
    BY <1>3
  <2>1. /\ UNCHANGED <<readable, first, history, done, body, cached, sample, due, lost>>
        /\ calls' = [calls EXCEPT ![n] = @ + 1] /\ calls[n] < MaxCalls
    BY DEF UE!Call, UE!exporter
  <2>2. calls' \in [Sets -> 0 .. MaxCalls] /\ \A l \in Sets : calls[l] \in Nat /\ calls'[l] \in Nat /\ calls'[l] >= calls[l]
    BY <1>t, <2>1 DEF UE!TypeOK
  <2>3. UE!TypeOK'
    BY <1>t, <2>1, <2>2 DEF UE!TypeOK
  <2>4. Since' = Since
    BY <2>1 DEF Since
  <2>5. \A l \in DOMAIN first \cup history : l \in Sets /\ calls'[l] > 0
    BY <1>e, <2>2 DEF Exported
  <2>6. \A l \in DOMAIN sample : sample[l] \in 0 .. calls'[l] /\ calls'[l] > 0
    BY <1>e, <1>t, <2>2 DEF Exported, UE!TypeOK
  <2>7. \A l \in DOMAIN body.lines : body.lines[l] \in 0 .. calls'[l]
    BY <1>e, <1>t, <2>2 DEF Exported, UE!TypeOK
  <2>8. Exported(first, history, done, body, cached)'
    BY <1>e, <2>1, <2>4, <2>5, <2>6, <2>7 DEF Exported
  <2> QED
    BY <1>s, <2>1, <2>3, <2>8 DEF UsageInv
<1>4. CASE UE!Database
  <2>1. UNCHANGED <<calls, first, history, done, body, cached, sample, due, lost>> /\ readable' \in BOOLEAN
    BY <1>4 DEF UE!Database, UE!exporter
  <2>2. UE!TypeOK'
    BY <1>t, <2>1 DEF UE!TypeOK
  <2>3. Exported(first, history, done, body, cached)'
    BY <1>e, <2>1 DEF Exported, Since
  <2> QED
    BY <1>s, <2>1, <2>2, <2>3 DEF UsageInv
<1>5. CASE UE!Restart
  <2>1. /\ UNCHANGED <<calls, readable, sample, due, lost>>
        /\ DOMAIN first' = {} /\ history' = {} /\ done' = FALSE
        /\ body'.up = FALSE /\ DOMAIN body'.lines = {} /\ cached' = CacheTicks + 1
    BY <1>5 DEF UE!Restart
  <2>4. done' \in BOOLEAN
    BY <2>1
  <2>2. UE!TypeOK'
    BY <1>t, <2>1, <2>4 DEF UE!TypeOK
  <2>3. Exported(first, history, done, body, cached)'
    BY <1>e, <2>1 DEF Exported
  <2> QED
    BY <1>s, <2>1, <2>2, <2>3 DEF UsageInv
<1>6. CASE UE!Tick
  <2>1. /\ UNCHANGED <<calls, readable, history, done, body, sample, lost>>
        /\ due > 0 /\ due' = due - 1 /\ due \in Nat
        /\ cached' = IF cached > CacheTicks THEN cached ELSE cached + 1
    BY <1>6, <1>t DEF UE!Tick, UE!TypeOK
  <2>2. DOMAIN first' = DOMAIN first
    BY <1>6 DEF UE!Tick
  <2>3. \A l \in DOMAIN first : first[l] \in 0 .. Hold /\ first'[l] = IF first[l] < Hold THEN first[l] + 1 ELSE Hold
    BY <1>6, <1>t DEF UE!Tick, UE!TypeOK
  <2>4. Since' = Since + 1
    <3>1. \A x, y, z \in Int : x + (y - (z - 1)) = x + (y - z) + 1
      OBVIOUS
    <3>2. lost * ScrapeEvery \in Int /\ ScrapeEvery \in Int /\ due \in Int
      BY <1>t DEF UE!TypeOK
    <3> QED
      BY <2>1, <3>1, <3>2 DEF Since
  <2>5. UE!TypeOK'
    BY <1>t, <2>1, <2>2, <2>3 DEF UE!TypeOK
  <2>6. \A l \in DOMAIN sample \cap DOMAIN first' : first'[l] < Hold => sample[l] = 0
    BY <1>e, <2>2, <2>3 DEF Exported
  <2>7. \A l \in DOMAIN first' \ DOMAIN sample : first'[l] < Since'
    BY <1>e, <1>s, <2>2, <2>3, <2>4 DEF Exported
  <2>8. \A l \in DOMAIN body.lines : body.lines[l] > 0 => l \in history \/ first'[l] >= Hold
    BY <1>e, <2>2, <2>3 DEF Exported
  <2>9. Exported(first, history, done, body, cached)'
    BY <1>e, <1>s, <2>1, <2>2, <2>4, <2>6, <2>7, <2>8 DEF Exported
  <2> QED
    BY <1>s, <2>1, <2>5, <2>9 DEF UsageInv
<1>7. CASE UNCHANGED UE!vars
  <2>1. UNCHANGED <<calls, readable, first, history, done, body, cached, sample, due, lost>>
    BY <1>7 DEF UE!vars, UE!exporter
  <2>2. UE!TypeOK'
    BY <1>t, <2>1 DEF UE!TypeOK
  <2>3. Exported(first, history, done, body, cached)'
    BY <1>e, <2>1 DEF Exported, Since
  <2> QED
    BY <1>s, <2>1, <2>2, <2>3 DEF UsageInv
<1> QED
  BY <1>1, <1>2, <1>3, <1>4, <1>5, <1>6, <1>7 DEF UE!Next

-----------------------------------------------------------------------------
(* HolmesConsole *)

\* The investigations of this console that run in Holmes.
Own == upstream \ orphans

\* Nothing of it runs there while a question may be asked or is about to be sent; then
\* only what the thread waits for, until it is answered or lost, and lost it stays busy.
OneInv ==
  /\ worker.pc = "check" => Own = {}
  /\ worker.pc = "wait" => Own \subseteq {worker.id}
  /\ reply # "none" => worker.pc = "wait" /\ Own = {}
  /\ worker.pc \notin {"check", "wait"} /\ ~busy => Own = {}
  /\ worker.pc \in {"check", "wait"} => busy
  /\ HC!OneInvestigation


LEMMA OneInit == HC!Init => OneInv
  BY DEF HC!Init, OneInv, Own, HC!OneInvestigation, HC!Idle

\* The thread ends: what it waited for is over, or the console stays busy.
LEMMA FinishKeepsOne ==
  ASSUME OneInv, NEW state, NEW doubt \in BOOLEAN,
         worker.pc \in {"check", "wait"}, HC!Finish(state, doubt), UNCHANGED upstream,
         doubt \/ Own = {}
  PROVE  OneInv'
<1>1. Own' = Own
  BY DEF HC!Finish, Own
<1>2. worker' = HC!Idle /\ reply' = "none" /\ busy' \in {busy, doubt} /\ busy
  BY DEF HC!Finish, OneInv
<1>3. HC!OneInvestigation'
  BY DEF OneInv, HC!OneInvestigation, HC!Finish
<1> QED
  BY <1>1, <1>2, <1>3 DEF OneInv, HC!Idle

LEMMA OneStep == OneInv /\ [HC!Next]_(HC!vars) => OneInv'
<1> SUFFICES ASSUME OneInv, [HC!Next]_(HC!vars) PROVE OneInv'
  OBVIOUS
<1>1. CASE HC!Submit
  <2>1. Own = {} /\ reply = "none"
    BY <1>1 DEF HC!Submit, OneInv
  <2>2. worker'.pc = "check" /\ busy' /\ reply' = reply /\ Own' = Own
    BY <1>1 DEF HC!Submit, Own
  <2>3. HC!OneInvestigation'
    BY <1>1 DEF HC!Submit, OneInv, HC!OneInvestigation
  <2> QED
    BY <2>1, <2>2, <2>3 DEF OneInv
<1>2. CASE HC!CheckFails
  BY <1>2, FinishKeepsOne DEF HC!CheckFails, OneInv
<1>3. CASE HC!Send
  <2>1. CASE HC!Finish("failed", TRUE) /\ UNCHANGED upstream
    BY <1>3, <2>1, FinishKeepsOne DEF HC!Send
  <2>2. CASE /\ worker' = [worker EXCEPT !.pc = "wait"] /\ upstream' = upstream \cup {worker.id}
             /\ UNCHANGED <<HC!manager, age, reply, orphans>>
    <3>1. Own = {} /\ busy /\ reply = "none"
      BY <1>3 DEF HC!Send, OneInv
    <3>2. Own' \subseteq {worker.id}
      BY <2>2, <3>1 DEF Own
    <3>3. worker'.id = worker.id
      BY <2>2
    <3>4. worker'.pc \notin {"check"} /\ busy' /\ reply' = "none"
      BY <1>3, <2>2, <3>1 DEF HC!manager, HC!Send
    <3> QED
      BY <3>2, <3>3, <3>4 DEF OneInv, HC!OneInvestigation, Own
  <2> QED
    BY <1>3, <2>1, <2>2 DEF HC!Send
<1>4. CASE HC!Answered
  <2>1. Own = {} /\ (reply = "odd") \in BOOLEAN
    BY <1>4 DEF HC!Answered, OneInv
  <2> QED
    BY <1>4, <2>1, FinishKeepsOne DEF HC!Answered
<1>5. CASE HC!Lost
  BY <1>5, FinishKeepsOne DEF HC!Lost
<1>6. CASE HC!HolmesEnds
  <2>1. PICK i \in upstream :
          /\ upstream' = upstream \ {i}
          /\ IF worker = [pc |-> "wait", id |-> i] THEN reply' \in {"good", "refused", "invalid", "odd"}
             ELSE UNCHANGED reply
    BY <1>6 DEF HC!HolmesEnds
  <2>2. UNCHANGED <<busy, worker, orphans>>
    BY <1>6 DEF HC!HolmesEnds, HC!manager
  <2>3. Own' = Own \ {i}
    BY <2>1, <2>2 DEF Own
  <2>4. HC!OneInvestigation'
    BY <2>1, <2>2 DEF OneInv, HC!OneInvestigation
  <2>5. CASE worker = [pc |-> "wait", id |-> i]
    <3>1. worker.pc = "wait" /\ worker.id = i
      BY <2>5
    <3> QED
      BY <2>1, <2>2, <2>3, <2>4, <3>1 DEF OneInv
  <2>6. CASE worker # [pc |-> "wait", id |-> i]
    BY <2>1, <2>2, <2>3, <2>4, <2>6 DEF OneInv
  <2> QED
    BY <2>5, <2>6
<1>7. CASE HC!Tick
  BY <1>7 DEF HC!Tick, HC!manager, OneInv, Own, HC!OneInvestigation
<1>8. CASE HC!Restart
  BY <1>8 DEF HC!Restart, OneInv, Own, HC!OneInvestigation, HC!Idle
<1>9. CASE UNCHANGED HC!vars
  BY <1>9 DEF HC!vars, HC!manager, OneInv, Own, HC!OneInvestigation
<1> QED
  BY <1>1, <1>2, <1>3, <1>4, <1>5, <1>6, <1>7, <1>8, <1>9 DEF HC!Next, HC!Run



\* The result of the question that is being answered is not pruned: a new question, which
\* prunes, waits for its end.  So _run() always gets to its own end, and to busy.
HeldInv ==
  /\ results \in [HC!Ids -> {"none", "running", "complete", "failed"}]
  /\ asked \in 0 .. MaxAsks
  /\ worker.pc \in {"check", "wait"} =>
       busy /\ worker.id \in HC!Ids /\ results[worker.id] # "none"
  /\ HC!RefusalExplained

LEMMA HeldInit == HC!Init => HeldInv
  BY HolmesAssumption DEF HC!Init, HeldInv, HC!RefusalExplained, HC!Idle

LEMMA FinishKeepsHeld ==
  ASSUME HeldInv, NEW state \in {"complete", "failed"}, NEW doubt \in BOOLEAN,
         worker.pc \in {"check", "wait"}, HC!Finish(state, doubt)
  PROVE  HeldInv'
<1>1. /\ results' = [results EXCEPT ![worker.id] = state]
      /\ uncertain' = doubt /\ busy' = doubt /\ worker' = HC!Idle /\ asked' = asked
  BY DEF HC!Finish, HeldInv
<1>2. worker'.pc = "idle"
  BY <1>1 DEF HC!Idle
<1> QED
  BY <1>1, <1>2 DEF HeldInv, HC!RefusalExplained

LEMMA HeldStep == HeldInv /\ [HC!Next]_(HC!vars) => HeldInv'
<1> SUFFICES ASSUME HeldInv, [HC!Next]_(HC!vars) PROVE HeldInv'
  OBVIOUS
<1> USE HolmesAssumption
<1>1. CASE HC!Submit
  <2>1. /\ asked' = asked + 1 /\ asked' \in HC!Ids
        /\ busy' /\ worker' = [pc |-> "check", id |-> asked']
        /\ results' = [i \in HC!Ids |-> IF i = asked' THEN "running" ELSE IF i \in HC!Kept THEN results[i] ELSE "none"]
    BY <1>1 DEF HC!Submit, HeldInv, HC!Ids
  <2>2. results' \in [HC!Ids -> {"none", "running", "complete", "failed"}] /\ results'[asked'] = "running"
    BY <2>1 DEF HeldInv
  <2>3. worker' # HC!Idle /\ worker'.id = asked'
    BY <2>1 DEF HC!Idle
  <2>4. asked' \in 0 .. MaxAsks
    BY <2>1 DEF HC!Ids
  <2> QED
    BY <2>1, <2>2, <2>3, <2>4 DEF HeldInv, HC!RefusalExplained
<1>2. CASE HC!CheckFails
  BY <1>2, FinishKeepsHeld DEF HC!CheckFails
<1>3. CASE HC!Send
  <2>1. CASE HC!Finish("failed", TRUE)
    BY <1>3, <2>1, FinishKeepsHeld DEF HC!Send
  <2>2. CASE worker' = [worker EXCEPT !.pc = "wait"] /\ UNCHANGED HC!manager
    <3>1. worker'.id = worker.id /\ worker' # HC!Idle
      BY <1>3, <2>2 DEF HC!Idle, HC!Send
    <3> QED
      BY <1>3, <2>2, <3>1 DEF HeldInv, HC!RefusalExplained, HC!manager, HC!Send
  <2> QED
    BY <1>3, <2>1, <2>2 DEF HC!Send
<1>4. CASE HC!Answered
  <2>1. (reply = "odd") \in BOOLEAN /\ (IF reply = "good" THEN "complete" ELSE "failed") \in {"complete", "failed"}
    OBVIOUS
  <2> QED
    BY <1>4, <2>1, FinishKeepsHeld DEF HC!Answered
<1>5. CASE HC!Lost
  BY <1>5, FinishKeepsHeld DEF HC!Lost
<1>6. CASE HC!HolmesEnds \/ HC!Tick \/ UNCHANGED HC!vars
  BY <1>6 DEF HC!HolmesEnds, HC!Tick, HC!vars, HC!manager, HeldInv, HC!RefusalExplained
<1>7. CASE HC!Restart
  BY <1>7 DEF HC!Restart, HeldInv, HC!RefusalExplained, HC!Idle
<1> QED
  BY <1>1, <1>2, <1>3, <1>4, <1>5, <1>6, <1>7 DEF HC!Next, HC!Run


\* The rest of the console's types, once the thread's id is one.
LEMMA HolmesTypesInit == HC!Init => HC!TypeOK
<1> SUFFICES ASSUME HC!Init PROVE HC!TypeOK
  OBVIOUS
<1> USE HolmesAssumption DEF HC!Init, HC!Ids, HC!Idle
<1>1. results \in [HC!Ids -> {"none", "running", "complete", "failed"}] /\ age \in [HC!Ids -> 0 .. Ttl]
  OBVIOUS
<1>2. worker \in [pc : {"idle", "check", "wait"}, id : 0 .. MaxAsks]
  OBVIOUS
<1>3. busy \in BOOLEAN /\ uncertain \in BOOLEAN
  OBVIOUS
<1> QED
  BY <1>1, <1>2, <1>3 DEF HC!TypeOK

LEMMA HolmesTypesStep == HC!TypeOK /\ HeldInv /\ [HC!Next]_(HC!vars) => HC!TypeOK'
<1> SUFFICES ASSUME HC!TypeOK, HeldInv, [HC!Next]_(HC!vars) PROVE HC!TypeOK'
  OBVIOUS
<1> USE HolmesAssumption DEF HC!TypeOK
<1>a. HeldInv'
  BY HeldStep
<1>1. worker' \in [pc : {"idle", "check", "wait"}, id : 0 .. MaxAsks]
  <2>1. CASE worker' = HC!Idle
    BY <2>1 DEF HC!Idle
  <2>2. CASE HC!Submit
    BY <2>2 DEF HC!Submit
  <2>3. CASE worker' = [worker EXCEPT !.pc = "wait"]
    BY <2>3
  <2>4. CASE UNCHANGED worker
    BY <2>4
  <2> QED
    BY <2>1, <2>2, <2>3, <2>4 DEF HC!Next, HC!Run, HC!CheckFails, HC!Send, HC!Answered, HC!Lost, HC!Finish, HC!HolmesEnds, HC!Tick, HC!Restart, HC!vars
<1>2. upstream' \subseteq HC!Ids
  <2>1. CASE HC!Send
    BY <2>1 DEF HC!Send, HeldInv
  <2> QED
    BY <2>1 DEF HC!Next, HC!Run, HC!Submit, HC!CheckFails, HC!Answered, HC!Lost, HC!HolmesEnds, HC!Tick, HC!Restart, HC!vars
<1>3. orphans' \subseteq HC!Ids
  BY DEF HC!Next, HC!Run, HC!Submit, HC!CheckFails, HC!Send, HC!Finish, HC!Answered, HC!Lost, HC!HolmesEnds, HC!Tick, HC!Restart, HC!vars
<1>4. reply' \in {"none", "good", "refused", "invalid", "odd"}
  BY DEF HC!Next, HC!Run, HC!Submit, HC!CheckFails, HC!Send, HC!Finish, HC!Answered, HC!Lost, HC!HolmesEnds, HC!Tick, HC!Restart, HC!vars
<1>5. age' \in [HC!Ids -> 0 .. Ttl]
  <2>1. CASE HC!Tick
    BY <2>1 DEF HC!Tick
  <2>2. CASE HC!Submit
    <3>1. PICK n : age' = [age EXCEPT ![n] = 0]
      BY <2>2 DEF HC!Submit
    <3>2. 0 \in 0 .. Ttl
      OBVIOUS
    <3> QED
      BY <3>1, <3>2
  <2>3. CASE UNCHANGED age
    BY <2>3
  <2> QED
    BY <2>1, <2>2, <2>3 DEF HC!Next, HC!Run, HC!CheckFails, HC!Send, HC!Finish, HC!Answered, HC!Lost, HC!HolmesEnds, HC!Restart, HC!vars
<1>6. busy' \in BOOLEAN
  BY DEF HC!Next, HC!Run, HC!Submit, HC!CheckFails, HC!Send, HC!Finish, HC!Answered, HC!Lost, HC!HolmesEnds, HC!Tick, HC!Restart, HC!vars, HC!manager
<1>7. uncertain' \in BOOLEAN
  BY DEF HC!Next, HC!Run, HC!Submit, HC!CheckFails, HC!Send, HC!Finish, HC!Answered, HC!Lost, HC!HolmesEnds, HC!Tick, HC!Restart, HC!vars, HC!manager
<1> QED
  BY <1>a, <1>1, <1>2, <1>3, <1>4, <1>5, <1>6, <1>7 DEF HeldInv

-----------------------------------------------------------------------------
(* FunctionLoader *)

\* What is loaded of a function while the loader is at work, and how far it is.
Served(f) == f \in apart \/ table[f] = [code |-> gitCode, active |-> TRUE]
Loading == {"read", "update", "insert", "activate"}
FiltersInv ==
  /\ FL!TypeOK /\ (loaderPc \in Loading => failures <= Backoff) /\ FL!ServedAsInGit
  /\ loaderPc \in Loading =>
       \A i \in 1 .. loaderAt - 1 : Served(Functions[i])
  /\ loaderPc = "activate" => Functions[loaderAt] \in apart \/ table[Functions[loaderAt]].code = gitCode

FilterRows == [code : Codes \cup {"none", "edited"}, active : BOOLEAN]

LEMMA FiltersInit == FL!Init => FiltersInv
<1> SUFFICES ASSUME FL!Init PROVE FiltersInv
  OBVIOUS
<1> USE FiltersAssumption DEF FL!Init
<1>1. gitCode \in Codes
  OBVIOUS
<1>2. FL!None \in FilterRows
  BY DEF FL!None, FilterRows
<1>3. table \in [FL!Ids -> FilterRows]
  BY <1>2
<1>4. FL!TypeOK
  BY <1>1, <1>3 DEF FL!TypeOK, FilterRows
<1> QED
  BY <1>4 DEF FiltersInv, Loading, FL!ServedAsInGit

LEMMA FiltersType == FiltersInv /\ [FL!Next]_(FL!vars) => FL!TypeOK' /\ (loaderPc \in Loading => failures <= Backoff)'
<1> SUFFICES ASSUME FiltersInv, [FL!Next]_(FL!vars) PROVE FL!TypeOK' /\ (loaderPc \in Loading => failures <= Backoff)'
  OBVIOUS
<1> USE FiltersAssumption DEF FL!TypeOK, FiltersInv
<1>1. gitCode \in Codes /\ loaderAt \in 1 .. Len(Functions) /\ Functions[loaderAt] \in FL!Ids
  BY DEF FL!Ids
<1>2. table' \in [FL!Ids -> FilterRows]
  <2>0. table \in [FL!Ids -> FilterRows]
    BY DEF FilterRows
  <2>1. CASE FL!Update
    <3>1. [code |-> gitCode, active |-> TRUE] \in FilterRows
      BY <1>1 DEF FilterRows
    <3> QED
      BY <2>0, <2>1, <3>1 DEF FL!Update, FL!Write
  <2>2. CASE FL!Insert
    <3>1. [code |-> gitCode, active |-> FALSE] \in FilterRows
      BY <1>1 DEF FilterRows
    <3> QED
      BY <2>0, <2>2, <3>1 DEF FL!Insert, FL!Write
  <2>3. CASE FL!Activate
    <3>1. [table[Functions[loaderAt]] EXCEPT !.active = TRUE] \in FilterRows
      BY <1>1, <2>0 DEF FilterRows
    <3> QED
      BY <2>0, <2>3, <3>1 DEF FL!Activate
  <2>4. ASSUME NEW f \in FL!Ids, FL!Edit(f) PROVE table' \in [FL!Ids -> FilterRows]
    <3>1. PICK r \in {FL!None} \cup [code : {table[f].code, "edited"} \ {"none"}, active : BOOLEAN] :
            table' = [table EXCEPT ![f] = r]
      BY <2>4 DEF FL!Edit
    <3>2. r \in FilterRows
      <4>1. FL!None \in FilterRows
        BY DEF FL!None, FilterRows
      <4>2. {table[f].code, "edited"} \subseteq Codes \cup {"none", "edited"}
        BY <2>0 DEF FilterRows
      <4> QED
        BY <3>1, <4>1, <4>2 DEF FilterRows
    <3> QED
      BY <2>0, <3>1, <3>2
  <2>5. CASE UNCHANGED table
    BY <2>0, <2>5
  <2> QED
    BY <2>1, <2>2, <2>3, <2>4, <2>5 DEF FL!Next, FL!Sync, FL!Read, FL!Killed, FL!Fail, FL!vars
<1>3. gitCode' \in Codes /\ loaderAt' \in DOMAIN Functions
  BY <1>1 DEF FL!Next, FL!Sync, FL!Read, FL!Update, FL!Insert, FL!Activate, FL!Killed, FL!Fail, FL!Edit, FL!vars, FL!NextFunction
<1>4. loaderPc' \in {"idle", "read", "update", "insert", "activate", "complete", "failed"}
  BY <1>1 DEF FL!Next, FL!Sync, FL!Read, FL!Update, FL!Insert, FL!Activate, FL!Killed, FL!Fail, FL!Edit, FL!vars, FL!NextFunction
<1>5. adminEdits' \in 0 .. AdminEdits /\ apart' \subseteq FL!Ids
  BY <1>1 DEF FL!Next, FL!Sync, FL!Read, FL!Update, FL!Insert, FL!Activate, FL!Killed, FL!Fail, FL!Edit, FL!vars, FL!Write
<1>6. failures' \in 0 .. Backoff + 1 /\ (loaderPc \in Loading => failures <= Backoff)'
  BY <1>1 DEF Loading, FL!NextFunction,  FL!Next, FL!Sync, FL!Read, FL!Update, FL!Insert, FL!Activate, FL!Killed, FL!Fail, FL!Edit, FL!vars
<1> QED
  BY <1>2, <1>3, <1>4, <1>5, <1>6 DEF FilterRows

LEMMA FiltersStep == FiltersInv /\ [FL!Next]_(FL!vars) => FiltersInv'
<1> SUFFICES ASSUME FiltersInv, [FL!Next]_(FL!vars) PROVE FiltersInv'
  OBVIOUS
<1>1. FL!TypeOK' /\ (loaderPc \in Loading => failures <= Backoff)'
  BY FiltersType
<1>2. /\ table \in [FL!Ids -> FilterRows] /\ loaderAt \in 1 .. Len(Functions) /\ Functions[loaderAt] \in FL!Ids
      /\ Len(Functions) \in Nat
      /\ gitCode \in Codes
  BY FiltersAssumption DEF FiltersInv, FL!TypeOK, FL!Ids, FilterRows
<1>3. \A i \in 1 .. Len(Functions) : Functions[i] \in FL!Ids /\ \A k \in 1 .. Len(Functions) : Functions[i] = Functions[k] => i = k
  BY FiltersAssumption DEF FL!Ids
<1>4. \A f \in FL!Ids : \E i \in 1 .. Len(Functions) : f = Functions[i]
  BY FiltersAssumption DEF FL!Ids
<1> DEFINE Before == loaderPc \in Loading => \A i \in 1 .. loaderAt - 1 : Served(Functions[i])
           Mounted == loaderPc = "activate" => Functions[loaderAt] \in apart \/ table[Functions[loaderAt]].code = gitCode
           All == loaderPc = "complete" => \A f \in FL!Ids : Served(f)
<1>5. Before /\ Mounted /\ All
  BY DEF FiltersInv, FL!ServedAsInGit, Served
<1>6. Before' /\ Mounted' /\ All'
  <2>1. CASE FL!Update \/ FL!Activate
    <3>1. loaderPc \in Loading /\ gitCode' = gitCode /\ FL!NextFunction
      BY <2>1 DEF FL!Update, FL!Activate, Loading
    <3>2. \A f \in FL!Ids : f # Functions[loaderAt] /\ Served(f) => Served(f)'
      BY <1>2, <2>1 DEF FL!Update, FL!Activate, FL!Write, Served
    <3>3. \A f \in FL!Ids : f = Functions[loaderAt] => Served(f)'
      <4>1. CASE FL!Update
        BY <1>2, <4>1 DEF FL!Update, FL!Write, Served
      <4>2. CASE FL!Activate /\ Functions[loaderAt] \in apart'
        BY <4>2 DEF Served
      <4>3. CASE FL!Activate /\ Functions[loaderAt] \notin apart'
        <5>1. table' = [table EXCEPT ![Functions[loaderAt]].active = TRUE] /\ apart' = apart /\ loaderPc = "activate"
          BY <4>3 DEF FL!Activate
        <5>2. table[Functions[loaderAt]] \in FilterRows /\ table[Functions[loaderAt]].code = gitCode
          BY <1>2, <1>5, <4>3, <5>1
        <5>3. [table[Functions[loaderAt]] EXCEPT !.active = TRUE] = [code |-> gitCode, active |-> TRUE]
          <6>1. ASSUME NEW q \in FilterRows, NEW r \in FilterRows, q.code = r.code, q.active = r.active
                PROVE  q = r
            BY <6>1 DEF FilterRows
          <6>2. /\ [table[Functions[loaderAt]] EXCEPT !.active = TRUE] \in FilterRows
                /\ [table[Functions[loaderAt]] EXCEPT !.active = TRUE].code = gitCode
                /\ [table[Functions[loaderAt]] EXCEPT !.active = TRUE].active = TRUE
            BY <5>2 DEF FilterRows
          <6>3. [code |-> gitCode, active |-> TRUE] \in FilterRows
            BY <1>2 DEF FilterRows
          <6> QED
            BY <6>1, <6>2, <6>3
        <5>4. table'[Functions[loaderAt]] = [code |-> gitCode, active |-> TRUE]
          BY <1>2, <5>1, <5>3
        <5> QED
          BY <3>1, <5>4 DEF Served
      <4> QED
        BY <2>1, <4>1, <4>2, <4>3
    <3>4. \A i \in 1 .. loaderAt : Served(Functions[i])'
      BY <1>2, <1>3, <1>5, <3>1, <3>2, <3>3
    <3> QED
      BY <1>2, <1>4, <3>1, <3>4 DEF FL!NextFunction, Loading
  <2>2. CASE FL!Insert
    <3>1. loaderPc = "insert" /\ loaderPc' = "activate" /\ loaderAt' = loaderAt /\ gitCode' = gitCode
      BY <2>2 DEF FL!Insert
    <3>2. \A f \in FL!Ids : f # Functions[loaderAt] /\ Served(f) => Served(f)'
      BY <1>2, <2>2 DEF FL!Insert, FL!Write, Served
    <3>3. table'[Functions[loaderAt]].code = gitCode
      BY <1>2, <2>2 DEF FL!Insert, FL!Write
    <3> QED
      BY <1>2, <1>3, <1>5, <3>1, <3>2, <3>3 DEF Loading
  <2>3. ASSUME NEW g \in FL!Ids, FL!Edit(g) PROVE Before' /\ Mounted' /\ All'
    <3>1. UNCHANGED <<gitCode, loaderPc, loaderAt>> /\ apart' = apart \cup {g}
      BY <2>3 DEF FL!Edit
    <3>2. \A f \in FL!Ids : f # g => table'[f] = table[f]
      BY <1>2, <2>3 DEF FL!Edit
    <3>3. \A f \in FL!Ids : Served(f) => Served(f)'
      BY <3>1, <3>2 DEF Served
    <3> QED
      BY <1>2, <1>3, <1>5, <3>1, <3>2, <3>3
  <2>4. CASE FL!Read
    BY <1>5, <2>4 DEF FL!Read, Served, Loading
  <2>5. CASE FL!Sync \/ FL!Killed
    BY <2>5 DEF FL!Sync, FL!Killed, FL!Fail, Loading
  <2>6. CASE UNCHANGED FL!vars
    BY <1>5, <2>6 DEF FL!vars, Served
  <2> QED
    BY <2>1, <2>2, <2>3, <2>4, <2>5, <2>6 DEF FL!Next
<1> QED
  BY <1>1, <1>6 DEF FiltersInv, FL!ServedAsInGit, Served

-----------------------------------------------------------------------------
(* PresentonSettings *)

\* The key goes into the row, the config and the backup in this order.
PresentonInv ==
  /\ PN!TypeOK
  /\ presentonPc \in {"row", "config", "backup"} => data \in PN!Settings
  /\ presentonPc \in {"config", "backup"} => data.key = key
  /\ presentonPc \in {"config", "backup", "running"} => settingsRow = PN!Absent \/ settingsRow.key = key
  /\ presentonPc \in {"backup", "running"} => config \in PN!Settings /\ config.key = key
  /\ presentonPc = "running" => backup.key = key

LEMMA PresentonInit == PN!Init => PresentonInv
<1> SUFFICES ASSUME PN!Init PROVE PresentonInv
  OBVIOUS
<1> USE PresentonAssumption DEF PN!Init
<1>1. \A p \in Prefs : [key |-> "old", prefs |-> p] \in PN!Settings
  BY DEF PN!Settings
<1>2. {settingsRow, config, backup} \subseteq PN!Settings \cup {PN!Absent}
  BY <1>1
<1> QED
  BY <1>2 DEF PresentonInv, PN!TypeOK

LEMMA PresentonStep == PresentonInv /\ [PN!Next]_(PN!vars) => PresentonInv'
<1> SUFFICES ASSUME PresentonInv, [PN!Next]_(PN!vars) PROVE PresentonInv'
  OBVIOUS
<1> USE PresentonAssumption DEF PresentonInv
<1>1. \A s \in PN!Settings, k \in Keys : [s EXCEPT !.key = k] \in PN!Settings /\ [s EXCEPT !.key = k].key = k
  BY DEF PN!Settings
<1>2. \A s \in PN!Settings, p \in Prefs : [s EXCEPT !.prefs = p] \in PN!Settings /\ [s EXCEPT !.prefs = p].key = s.key
  BY DEF PN!Settings
<1>3. \A k \in Keys : [key |-> k, prefs |-> "none"] \in PN!Settings
  BY DEF PN!Settings
<1>4. PN!Absent.key \notin Keys /\ PN!Absent \notin PN!Settings /\ PN!Torn \notin PN!Settings /\ PN!Torn # PN!Absent
  BY DEF PN!Absent, PN!Torn, PN!Settings
<1> USE <1>1, <1>2, <1>3, <1>4 DEF PN!TypeOK
<1>5. CASE PN!Read
  BY <1>5 DEF PN!Read, PN!Source
<1>6. CASE PN!UpdateRow
  BY <1>6 DEF PN!UpdateRow
<1>7. CASE PN!WriteConfig
  BY <1>7 DEF PN!WriteConfig
<1>8. CASE PN!WriteBackup
  BY <1>8 DEF PN!WriteBackup
<1>9. CASE PN!Restart
  BY <1>9 DEF PN!Restart, PN!Fault
<1>10. CASE PN!Rotate
  BY <1>10 DEF PN!Rotate, PN!Fault
<1>11. CASE PN!Save
  BY <1>11 DEF PN!Save
<1>12. CASE PN!Mirror
  BY <1>12 DEF PN!Mirror
<1>13. CASE UNCHANGED PN!vars
  BY <1>13 DEF PN!vars
<1> QED
  BY <1>5, <1>6, <1>7, <1>8, <1>9, <1>10, <1>11, <1>12, <1>13 DEF PN!Next, PN!Reconcile
LEMMA PresentonOwned == PresentonInv => PN!GitOwned
  BY DEF PresentonInv, PN!GitOwned

-----------------------------------------------------------------------------
(* ReplaySettings *)

\* The row of a project as the transaction sees it.
Within(t) == IF t \in DOMAIN saved THEN saved[t] ELSE projects[t]
\* The loop has dealt with the project, or a user has.
Settled(t) == t \in edited \/ projects[t] = RS!None \/ (Within(t).kept /\ Declared \subseteq Within(t).urls)
\* A row that is saved holds what the locked one holds, and all are settled up to where
\* the loop is.
ReplayInv ==
  /\ RS!TypeOK /\ RS!Reconciled
  /\ replayPc \in {"idle", "complete"} => locked = {} /\ DOMAIN saved = {}
  /\ DOMAIN saved \subseteq locked
  /\ \A t \in DOMAIN saved : saved[t].kept /\ projects[t].urls \cup Declared \subseteq saved[t].urls
  /\ replayPc = "save" => /\ replayAt <= Len(Teams) /\ Teams[replayAt] \in locked
                          /\ seen = projects[Teams[replayAt]] /\ seen # RS!None
  /\ replayPc \in {"read", "save"} => \A i \in 1 .. replayAt - 1 : Settled(Teams[i])

LEMMA ReplayInit == RS!Init => ReplayInv
<1> SUFFICES ASSUME RS!Init PROVE ReplayInv
  OBVIOUS
<1> USE ReplayAssumption DEF RS!Init
<1>1. DOMAIN saved = {}
  OBVIOUS
<1>2. projects \in [RS!Ids -> RS!Rows \cup {RS!None}]
  OBVIOUS
<1>3. RS!TypeOK
  BY <1>1, <1>2 DEF RS!TypeOK
<1> QED
  BY <1>1, <1>3 DEF ReplayInv, RS!Reconciled

LEMMA RowsAreNone == RS!None \notin RS!Rows
  BY ReplayAssumption DEF RS!None, RS!Rows, RS!Urls

LEMMA MergedIsRow == ASSUME seen \in RS!Rows PROVE RS!Merged \in RS!Rows /\ RS!Merged.kept /\ seen.urls \cup Declared \subseteq RS!Merged.urls
<1>1. seen.urls \cup Declared \subseteq RS!Urls
  BY DEF RS!Rows, RS!Urls
<1> QED
  BY <1>1 DEF RS!Merged, RS!Rows

LEMMA ReplayType == ReplayInv /\ [RS!Next]_(RS!vars) => RS!TypeOK'
<1> SUFFICES ASSUME ReplayInv, [RS!Next]_(RS!vars) PROVE RS!TypeOK'
  OBVIOUS
<1> USE ReplayAssumption, RowsAreNone DEF RS!TypeOK, ReplayInv
<1>1. Len(Teams) \in Nat /\ \A i \in 1 .. Len(Teams) : Teams[i] \in RS!Ids
  BY DEF RS!Ids
<1>2. CASE RS!Begin
  BY <1>2 DEF RS!Begin
<1>3. CASE RS!Read
  BY <1>1, <1>3 DEF RS!Read
<1>4. CASE RS!Skip
  BY <1>1, <1>4 DEF RS!Skip
<1>5. CASE RS!Save
  <2>1. seen \in RS!Rows
    BY <1>5 DEF RS!Save
  <2>2. Teams[replayAt] \in RS!Ids
    BY <1>1, <1>5 DEF RS!Save
  <2>3. RS!Merged \in RS!Rows
    BY <2>1, MergedIsRow
  <2>4. DOMAIN saved' \subseteq RS!Ids /\ \A t \in DOMAIN saved' : saved'[t] \in RS!Rows
    <3>1. CASE saved' = saved
      BY <3>1
    <3>2. CASE saved' = [t \in DOMAIN saved \cup {Teams[replayAt]} |-> IF t = Teams[replayAt] THEN RS!Merged ELSE saved[t]]
      BY <2>2, <2>3, <3>2
    <3> QED
      BY <1>5, <3>1, <3>2 DEF RS!Save
  <2>5. UNCHANGED <<projects, locked, seen, edited, userEdits, replayFaults>> /\ replayPc' = "read"
          /\ replayAt' = replayAt + 1 /\ replayAt <= Len(Teams)
    BY <1>5 DEF RS!Save
  <2> QED
    BY <1>1, <2>4, <2>5
<1>6. CASE RS!Commit
  <2>1. projects' \in [RS!Ids -> RS!Rows \cup {RS!None}]
    BY <1>6 DEF RS!Commit
  <2> QED
    BY <1>6, <2>1 DEF RS!Commit
<1>7. CASE RS!Rollback
  BY <1>1, <1>7 DEF RS!Rollback
<1>8. ASSUME NEW t \in RS!Ids, RS!Edit(t) PROVE RS!TypeOK'
  BY <1>8 DEF RS!Edit
<1>9. CASE UNCHANGED RS!vars
  BY <1>9 DEF RS!vars
<1> QED
  BY <1>2, <1>3, <1>4, <1>5, <1>6, <1>7, <1>8, <1>9 DEF RS!Next

LEMMA ReplayStep == ReplayInv /\ [RS!Next]_(RS!vars) => ReplayInv'
<1> SUFFICES ASSUME ReplayInv, [RS!Next]_(RS!vars) PROVE ReplayInv'
  OBVIOUS
<1> USE RowsAreNone DEF ReplayInv, RS!Reconciled
<1>0. RS!TypeOK'
  BY ReplayType
<1>1. /\ Len(Teams) \in Nat /\ DOMAIN Teams = 1 .. Len(Teams) /\ \A i \in 1 .. Len(Teams) : Teams[i] \in RS!Ids
      /\ \A i, k \in 1 .. Len(Teams) : Teams[i] = Teams[k] => i = k
      /\ \A t \in RS!Ids : \E i \in 1 .. Len(Teams) : t = Teams[i]
  BY ReplayAssumption DEF RS!Ids
<1>2. /\ projects \in [RS!Ids -> RS!Rows \cup {RS!None}] /\ DOMAIN saved \subseteq RS!Ids /\ replayAt \in 1 .. Len(Teams) + 1
      /\ \A t \in DOMAIN saved : saved[t] \in RS!Rows
  BY DEF RS!TypeOK
<1>3. CASE RS!Begin
  BY <1>0, <1>3 DEF RS!Begin
<1>4. CASE RS!Read
  <2>1. \A t \in RS!Ids : t # Teams[replayAt] /\ Settled(t) => Settled(t)'
    BY <1>4 DEF RS!Read, Settled, Within
  <2>2. replayAt' = replayAt /\ UNCHANGED <<projects, saved>> /\ replayAt <= Len(Teams) /\ locked' = locked \cup {Teams[replayAt]}
    BY <1>4 DEF RS!Read
  <2>3. \A i \in 1 .. replayAt - 1 : Settled(Teams[i])'
    BY <1>1, <1>2, <1>4, <2>1, <2>2 DEF RS!Read
  <2> QED
    BY <1>0, <1>4, <2>2, <2>3 DEF RS!Read
<1>5. CASE RS!Skip
  <2>1. \A t \in RS!Ids : Settled(t) => Settled(t)'
    BY <1>5 DEF RS!Skip, Settled, Within
  <2>2. \A t \in RS!Ids : t = Teams[replayAt] => Settled(t)'
    BY <1>5 DEF RS!Skip, Settled
  <2>3. replayAt' = replayAt + 1 /\ replayAt <= Len(Teams) /\ UNCHANGED <<projects, saved, locked, replayPc>> /\ replayPc = "read"
    BY <1>5 DEF RS!Skip
  <2>4. \A i \in 1 .. replayAt' - 1 : Settled(Teams[i])'
    BY <1>1, <1>2, <2>1, <2>2, <2>3
  <2> QED
    BY <1>0, <2>3, <2>4
<1>6. CASE RS!Save
  <2>1. /\ replayAt' = replayAt + 1 /\ replayAt <= Len(Teams) /\ UNCHANGED <<projects, locked, edited>>
        /\ replayPc = "save" /\ replayPc' = "read" /\ seen = projects[Teams[replayAt]] /\ seen \in RS!Rows
    BY <1>2, <1>6 DEF RS!Save, RS!TypeOK
  <2>2. RS!Merged \in RS!Rows /\ RS!Merged.kept /\ seen.urls \cup Declared \subseteq RS!Merged.urls
    BY <2>1, MergedIsRow
  <2>3. \A t \in RS!Ids : t # Teams[replayAt] /\ Settled(t) => Settled(t)'
    BY <1>6, <2>1 DEF RS!Save, Settled, Within
  <2>4. \A t \in RS!Ids : t = Teams[replayAt] => Settled(t)'
    <3>1. CASE saved' = saved /\ RS!Merged = seen
      BY <2>1, <2>2, <3>1 DEF Settled, Within
    <3>2. CASE saved' = [t \in DOMAIN saved \cup {Teams[replayAt]} |-> IF t = Teams[replayAt] THEN RS!Merged ELSE saved[t]]
      BY <2>1, <2>2, <3>2 DEF Settled, Within
    <3> QED
      BY <1>6, <3>1, <3>2 DEF RS!Save
  <2>5. DOMAIN saved' \subseteq locked /\ \A t \in DOMAIN saved' : saved'[t].kept /\ projects[t].urls \cup Declared \subseteq saved'[t].urls
    <3>1. CASE saved' = saved
      BY <3>1
    <3>2. CASE saved' = [t \in DOMAIN saved \cup {Teams[replayAt]} |-> IF t = Teams[replayAt] THEN RS!Merged ELSE saved[t]]
      BY <2>1, <2>2, <3>2, <1>6 DEF RS!Save
    <3> QED
      BY <1>6, <3>1, <3>2 DEF RS!Save
  <2>6. \A i \in 1 .. replayAt' - 1 : Settled(Teams[i])'
    BY <1>1, <1>2, <2>1, <2>3, <2>4
  <2> QED
    BY <1>0, <2>1, <2>5, <2>6
<1>7. CASE RS!Commit
  <2>1. /\ replayPc = "read" /\ replayPc' = "complete" /\ replayAt > Len(Teams) /\ edited' = edited /\ locked' = {} /\ DOMAIN saved' = {}
        /\ projects' = [t \in RS!Ids |-> IF t \in DOMAIN saved THEN saved[t] ELSE projects[t]]
    BY <1>7 DEF RS!Commit
  <2>2. \A t \in RS!Ids : Settled(t)
    BY <1>1, <1>2, <2>1
  <2>3. \A t \in RS!Ids \ edited : projects'[t] = RS!None \/ (projects'[t].kept /\ Declared \subseteq projects'[t].urls)
    BY <2>1, <2>2 DEF Settled, Within
  <2> QED
    BY <1>0, <2>1, <2>3
<1>8. CASE RS!Rollback
  BY <1>0, <1>8 DEF RS!Rollback
<1>9. ASSUME NEW t \in RS!Ids, RS!Edit(t) PROVE ReplayInv'
  <2>1. /\ UNCHANGED <<locked, saved, seen, replayPc, replayAt>> /\ edited' = edited \cup {t}
        /\ t \notin locked \cup DOMAIN saved /\ \A u \in RS!Ids : u # t => projects'[u] = projects[u]
    BY <1>2, <1>9 DEF RS!Edit
  <2>2. \A u \in RS!Ids : Settled(u) => Settled(u)'
    BY <2>1 DEF Settled, Within
  <2>3. replayPc \in {"read", "save"} => \A i \in 1 .. replayAt - 1 : Settled(Teams[i])'
    BY <1>1, <1>2, <2>2
  <2> QED
    BY <1>0, <1>1, <1>2, <2>1, <2>3
<1>10. CASE UNCHANGED RS!vars
  <2>1. \A u \in RS!Ids : Settled(u) => Settled(u)'
    BY <1>10 DEF RS!vars, Settled, Within
  <2> QED
    BY <1>0, <1>1, <1>2, <1>10, <2>1 DEF RS!vars
<1> QED
  BY <1>3, <1>4, <1>5, <1>6, <1>7, <1>8, <1>9, <1>10 DEF RS!Next

LEMMA UrlsStep == ReplayInv /\ [RS!Next]_(RS!vars) =>
  (replayPc' # replayPc => \A t \in RS!Ids : projects[t] # RS!None => projects[t].urls \subseteq projects'[t].urls)
<1> SUFFICES ASSUME ReplayInv, [RS!Next]_(RS!vars), replayPc' # replayPc, NEW t \in RS!Ids
             PROVE  projects[t].urls \subseteq projects'[t].urls
  OBVIOUS
<1>1. CASE RS!Commit
  <2>1. projects'[t] = IF t \in DOMAIN saved THEN saved[t] ELSE projects[t]
    BY <1>1 DEF RS!Commit
  <2> QED
    BY <2>1 DEF ReplayInv
<1>2. CASE UNCHANGED projects
  BY <1>2
<1> QED
  BY <1>1, <1>2 DEF RS!Next, RS!Begin, RS!Read, RS!Skip, RS!Save, RS!Rollback, RS!Edit, RS!vars

-----------------------------------------------------------------------------
(* The applications together *)

LEMMA EachStarts ==
  InitAll => /\ Init /\ PR!Init /\ PA!Init /\ PS!Init /\ HS!Init
             /\ UE!Init /\ HC!Init /\ FL!Init /\ PN!Init /\ RS!Init
  BY DEF InitAll

\* A step of the composition is a step of the program whose behaviour it is, and leaves
\* the others as they are.
LEMMA EachSteps ==
  [NextAll]_allVars =>
    /\ [Next]_vars
    /\ [PR!Next]_(PR!vars)
    /\ [PA!Next]_(PA!vars)
    /\ [PS!Next]_(PS!vars)
    /\ [HS!Next]_(HS!vars)
    /\ [UE!Next]_(UE!vars)
    /\ [HC!Next]_(HC!vars)
    /\ [FL!Next]_(FL!vars)
    /\ [PN!Next]_(PN!vars)
    /\ [RS!Next]_(RS!vars)
<1> SUFFICES ASSUME [NextAll]_allVars
             PROVE  /\ [Next]_vars
                    /\ [PR!Next]_(PR!vars)
                    /\ [PA!Next]_(PA!vars)
                    /\ [PS!Next]_(PS!vars)
                    /\ [HS!Next]_(HS!vars)
                    /\ [UE!Next]_(UE!vars)
                    /\ [HC!Next]_(HC!vars)
                    /\ [FL!Next]_(FL!vars)
                    /\ [PN!Next]_(PN!vars)
                    /\ [RS!Next]_(RS!vars)
  OBVIOUS
<1> USE DEF NextAll, allVars, Runs, RetirementRuns, RepairRuns, AnalysisRuns, SummaryRuns, 
    HermesRuns, UsageRuns, HolmesRuns, FiltersRuns, PresentonRuns, ReplayRuns
<1>1. [Next]_vars
  BY DEF vars, recorder, disk
<1>2. [PR!Next]_(PR!vars)
  BY DEF repair, PR!vars
<1>3. [PA!Next]_(PA!vars)
  BY DEF analysis, PA!vars
<1>4. [PS!Next]_(PS!vars)
  BY DEF summary, PS!outside, PS!vars
<1>5. [HS!Next]_(HS!vars)
  BY DEF hermes, HS!vars
<1>6. [UE!Next]_(UE!vars)
  BY DEF usage, UE!exporter, UE!vars
<1>7. [HC!Next]_(HC!vars)
  BY DEF holmes, HC!manager, HC!vars
<1>8. [FL!Next]_(FL!vars)
  BY DEF filters, FL!vars
<1>9. [PN!Next]_(PN!vars)
  BY DEF presenton, PN!vars
<1>10. [RS!Next]_(RS!vars)
  BY DEF replay, RS!vars
<1> QED
  BY <1>1, <1>2, <1>3, <1>4, <1>5, <1>6, <1>7, <1>8, <1>9, <1>10

LEMMA StatisticsAlways ==
  SpecAll => [](RetiredInv /\ StartInv /\ RepairInv /\ SummaryInv /\ AnalysisInv)
<1>1. SpecAll => []RetiredInv
  BY EachStarts, EachSteps, RetiredInit, RetiredStep, PTL DEF SpecAll
<1>2. SpecAll => []StartInv
  BY EachStarts, EachSteps, StartInit, StartStep, PTL DEF SpecAll
<1>3. SpecAll => []RepairInv
  BY EachStarts, EachSteps, RepairInit, RepairStep, PTL DEF SpecAll
<1>4. SpecAll => []SummaryInv
  BY EachStarts, EachSteps, SummaryInit, SummaryStep, PTL DEF SpecAll
<1>5. SpecAll => []AnalysisInv
  BY EachStarts, EachSteps, AnalysisInit, AnalysisStep, PTL DEF SpecAll
<1> QED
  BY <1>1, <1>2, <1>3, <1>4, <1>5, PTL

LEMMA SeedingAlways ==
  SpecAll => [](HermesInv /\ FiltersInv /\ PresentonInv /\ ReplayInv)
<1>1. SpecAll => []HermesInv
  BY EachStarts, EachSteps, HermesInit, HermesStep, PTL DEF SpecAll
<1>2. SpecAll => []FiltersInv
  BY EachStarts, EachSteps, FiltersInit, FiltersStep, PTL DEF SpecAll
<1>3. SpecAll => []PresentonInv
  BY EachStarts, EachSteps, PresentonInit, PresentonStep, PTL DEF SpecAll
<1>4. SpecAll => []ReplayInv
  BY EachStarts, EachSteps, ReplayInit, ReplayStep, PTL DEF SpecAll
<1> QED
  BY <1>1, <1>2, <1>3, <1>4, PTL

LEMMA ConsoleAlways ==
  SpecAll => [](OneInv /\ HeldInv /\ HC!TypeOK)
<1>1. SpecAll => []OneInv
  BY EachStarts, EachSteps, OneInit, OneStep, PTL DEF SpecAll
<1>2. SpecAll => []HeldInv
  BY EachStarts, EachSteps, HeldInit, HeldStep, PTL DEF SpecAll
<1>3. SpecAll => []HC!TypeOK
  BY <1>2, EachStarts, EachSteps, HolmesTypesInit, HolmesTypesStep, PTL DEF SpecAll
<1> QED
  BY <1>1, <1>2, <1>3, PTL

LEMMA ExporterAlways == SpecAll => []UsageInv
<1>1. UsageInv /\ [UE!Next]_(UE!vars) => UsageInv'
  BY UsageStep
<1> QED
  BY <1>1, EachStarts, EachSteps, UsageInit, PTL DEF SpecAll

\* Every program's state is of its type.
THEOREM ApplicationsTyped == SpecAll => []TypesOK
<1>1. /\ RetiredInv /\ RepairInv /\ SummaryInv /\ AnalysisInv
      /\ HermesInv /\ FiltersInv /\ PresentonInv /\ ReplayInv
      /\ HC!TypeOK /\ UsageInv
      => TypesOK
  BY DEF TypesOK, RetiredInv, RepairInv, SummaryInv, AnalysisInv, HermesInv, FiltersInv, PresentonInv, ReplayInv, UsageInv
<1> QED
  BY <1>1, StatisticsAlways, SeedingAlways, ConsoleAlways, ExporterAlways, PTL

\* On a filesystem that keeps renames in order, every row ever recorded for a retired
\* series stays in the recorder or in the archive (save_archive, retire, restore).
THEOREM NothingIsLost ==
  ASSUME OrderedRename
  PROVE  SpecAll => []NothingLost
<1>1. ArchiveInv /\ [Next]_vars => ArchiveInv'
  BY ArchiveStep
<1>2. ArchiveInv => NothingLost
  BY DEF ArchiveInv
<1> QED
  BY <1>1, <1>2, EachStarts, EachSteps, ArchiveInit, PTL DEF SpecAll

\* While Home Assistant runs beside the retiring step the recorder holds no statistics of
\* the retired series (verify_config, retire).
THEOREM RetiredFirst == SpecAll => []RetiredBeforeStart
<1>1. StartInv => RetiredBeforeStart
  BY DEF StartInv
<1> QED
  BY <1>1, StatisticsAlways, PTL

\* A restore that ends well, for the first or another time, leaves every archived row in
\* the recorder once, and no other (restore): rows are distinct, so that equal sets of
\* rows are as many entries, whatever ids they were given.
THEOREM RestoresExactly == SpecAll => RestoredExactly
<1>1. RetiredInv /\ [Next]_vars
      => [pod.step = "restore" /\ pc = "init" /\ pc' = "running"
            => RowsOf(db') = RowsOf(archive) /\ Cardinality(db') = Cardinality(archive)]_vars
  BY RestoreStep
<1> QED
  BY <1>1, EachSteps, StatisticsAlways, PTL DEF SpecAll, RestoredExactly

\* The power statistics stay one series that can be lowered again (repair, undo), a day is
\* billed for the use of exactly its hours, and when those are there (analyze), and a text
\* shows the figures of its date (async_update).
THEOREM StatisticsAreRight == SpecAll => []StatisticsRight
<1>1. AnalysisInv => PA!CountsItsHours /\ PA!WholeDaysCount
  BY CountsItsHours, WholeDaysCount
<1>2. SummaryInv => PS!FiguresOfTheDate
  BY DEF SummaryInv, OfTheDate, PS!FiguresOfTheDate
<1>3. RepairInv => PR!OneBaseline /\ PR!Undoable
  BY DEF RepairInv
<1>4. RepairInv /\ SummaryInv /\ AnalysisInv => StatisticsRight
  BY <1>1, <1>2, <1>3 DEF StatisticsRight
<1> QED
  BY <1>4, StatisticsAlways, PTL

\* What a seeding reports as done is done, wherever the ones before it were killed: the
\* parked tasks, the functions, the settings and the projects, and the skill, unless the
\* removal of its copy was cut off before its marker and no start has finished it.
THEOREM SeededRight == SpecAll => []SeededAsDeclared
<1>1. HermesInv => HS!MarkerMeansWhole /\ HS!ParkedMeansNone
  BY HermesAssumption DEF HermesInv, MarkerFits, HS!TypeOK, HS!MarkerMeansWhole
<1>2. FiltersInv => FL!ServedAsInGit
  BY DEF FiltersInv
<1>3. ReplayInv => RS!Reconciled
  BY DEF ReplayInv
<1>4. HermesInv /\ FiltersInv /\ PresentonInv /\ ReplayInv => SeededAsDeclared
  BY <1>1, <1>2, <1>3, PresentonOwned DEF SeededAsDeclared
<1> QED
  BY <1>4, SeedingAlways, PTL

\* Whatever is lost, pruned or restarted, no two investigations a console has started run
\* in Holmes at once, and one that takes no more questions is at work or says why (_run).
THEOREM InvestigationsOneAtATime == SpecAll => []OneAtATime
<1>1. OneInv /\ HeldInv => OneAtATime
  BY DEF OneInv, HeldInv, OneAtATime
<1> QED
  BY <1>1, ConsoleAlways, PTL

\* Totals that Prometheus has never fall; a series that does not start at 0 was there when
\* the exporter first read state.db, or as many scrapes in a row as the hold has room for
\* brought nothing (render); and reconciling drops none of the users' URLs (replay).
THEOREM NothingIsDropped == SpecAll => NothingDropped
<1>1. UsageInv /\ [UE!Next]_(UE!vars)
      => [\A l \in Sets : l \notin DOMAIN sample /\ l \in DOMAIN sample' /\ sample'[l] > 0
            => l \in history' \/ (lost + 1) * ScrapeEvery > Hold]_(UE!vars)
  BY UsageStep
<1>2. UsageInv /\ [UE!Next]_(UE!vars) => [\A l \in DOMAIN sample : sample'[l] >= sample[l]]_(UE!vars)
  BY UsageStep
<1>3. ReplayInv /\ [RS!Next]_(RS!vars)
      => [replayPc' # replayPc =>
            \A t \in RS!Ids : projects[t] # RS!None => projects[t].urls \subseteq projects'[t].urls]_(RS!vars)
  BY UrlsStep
<1>4. SpecAll => UE!FirstCallsCounted
  BY <1>1, EachSteps, ExporterAlways, PTL DEF SpecAll, UE!FirstCallsCounted
<1>5. SpecAll => UE!TotalsNeverFall
  BY <1>2, EachSteps, ExporterAlways, PTL DEF SpecAll, UE!TotalsNeverFall
<1>6. SpecAll => RS!UrlsKept
  BY <1>3, EachSteps, SeedingAlways, PTL DEF SpecAll, RS!UrlsKept
<1> QED
  BY <1>4, <1>5, <1>6, PTL DEF NothingDropped
=============================================================================
