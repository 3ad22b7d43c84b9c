-------------------------- MODULE Statistics_proofs --------------------------
(***************************************************************************)
(* Proofs about the four programs that keep Home Assistant's statistics:   *)
(* their retirement, the repair of the power statistics, their analysis    *)
(* and the hourly summary.  Each has an inductive invariant for any number *)
(* of rows, days and faults; Applications_proofs puts them together.       *)
(***************************************************************************)
EXTENDS Applications, TLAPS, WellFoundedInduction, FiniteSetTheorems, FunctionTheorems

-----------------------------------------------------------------------------
(* What the proofs need of naturals in place of an induction. *)

\* A set of naturals has a first one.
LEMMA FirstOf ==
  ASSUME NEW T \in SUBSET Nat, T # {}
  PROVE  \E k \in T : \A j \in T : k <= j
<1>1. PICK k \in T : \A j \in T : ~(<<j, k>> \in OpToRel(<, Nat))
  BY NatLessThanWellFounded, WFMin
<1>2. \A j \in T : k <= j
  <2> SUFFICES ASSUME NEW j \in T PROVE ~(j < k)
    <3>1. \A j \in T : j \in Nat /\ k \in Nat
      OBVIOUS
    <3> QED
      BY <3>1
  <2> SUFFICES ASSUME j < k PROVE FALSE
    OBVIOUS
  <2>1. <<j, k>> \in Nat \X Nat /\ <<j, k>>[1] = j /\ <<j, k>>[2] = k
    BY <1>1
  <2>2. <<j, k>> \in OpToRel(<, Nat)
    BY <2>1 DEF OpToRel
  <2> QED
    BY <1>1, <2>2
<1> QED
  BY <1>2

\* A bounded set of naturals has a last one.
LEMMA LastOf ==
  ASSUME NEW D \in Nat, NEW T \in SUBSET (0 .. D), T # {}
  PROVE  \E m \in T : \A n \in T : n <= m
<1> DEFINE U == {k \in 0 .. D : D - k \in T}
<1>1. \A n \in T : D - n \in U
  <2> SUFFICES ASSUME NEW n \in T PROVE D - n \in U
    OBVIOUS
  <2>1. D - n \in 0 .. D /\ D - (D - n) = n
    OBVIOUS
  <2>2. (D - (D - n)) \in T
    BY <2>1
  <2> QED
    BY <2>1, <2>2
<1>2. U \subseteq Nat
  OBVIOUS
<1>3. \A k \in U : k \in 0 .. D /\ D - k \in T
  OBVIOUS
<1> HIDE DEF U
<1>4. PICK k \in U : \A j \in U : k <= j
  <2>1. U # {}
    BY <1>1
  <2> QED
    BY <1>2, <2>1, FirstOf
<1>5. \A n \in T : n <= D - k
  <2> SUFFICES ASSUME NEW n \in T PROVE n <= D - k
    OBVIOUS
  <2>1. k <= D - n /\ k \in Int
    BY <1>1, <1>3, <1>4
  <2> QED
    BY <2>1
<1> QED
  BY <1>3, <1>5

\* What holds of every step of two counters holds of the whole way.
LEMMA Telescope ==
  ASSUME NEW lo \in Nat, NEW hi \in Nat, lo <= hi, NEW f, NEW g,
         \A k \in lo .. hi : f[k] \in Int /\ g[k] \in Int,
         \A k \in lo .. hi : k < hi => f[k + 1] - f[k] <= g[k + 1] - g[k]
  PROVE  f[hi] - f[lo] <= g[hi] - g[lo]
<1> DEFINE T == {k \in lo .. hi : ~(f[k] - f[lo] <= g[k] - g[lo])}
<1> SUFFICES ASSUME T # {} PROVE FALSE
  OBVIOUS
<1>1. T \subseteq Nat /\ T \subseteq lo .. hi
  OBVIOUS
<1>2. PICK k \in T : \A j \in T : k <= j
  <2> HIDE DEF T
  <2> QED
    BY <1>1, FirstOf
<1>3. k \in lo .. hi /\ ~(f[k] - f[lo] <= g[k] - g[lo])
  BY <1>2
<1>4. k # lo
  BY <1>3
<1>5. k - 1 \in lo .. hi /\ k - 1 < hi /\ (k - 1) + 1 = k
  BY <1>3, <1>4
<1>6. k - 1 \notin T
  <2> HIDE DEF T
  <2> QED
    BY <1>2, <1>3
<1>7. f[k - 1] - f[lo] <= g[k - 1] - g[lo]
  BY <1>5, <1>6
<1>8. f[k] - f[k - 1] <= g[k] - g[k - 1]
  BY <1>5
<1> QED
  BY <1>3, <1>5, <1>7, <1>8

-----------------------------------------------------------------------------
(* RetiredStatistics *)

\* Entries of distinct rows that were recorded, under ids that leave room.
Proper(x) ==
  /\ x \in SUBSET Entries
  /\ \A e \in x : e.row <= recorded /\ e.id <= MaxOther + 2 * recorded
  /\ \A e, d \in x : e.row = d.row => e = d

\* What is in the recorder, in the archive and what an outage leaves of it.
RetiredInv == TypeOK /\ Proper(db) /\ Proper(archive) /\ Proper(durable)

LEMMA EntriesAre ==
  ASSUME NEW e \in Entries
  PROVE  e.row \in 1 .. MaxRows /\ e.id \in 1 .. MaxOther + 2 * MaxRows
  BY DEF Entries, Rows, Ids

\* As many entries as rows.
LEMMA ProperCard ==
  ASSUME NEW x, Proper(x), recorded \in Nat
  PROVE  IsFiniteSet(x) /\ Cardinality(x) = Cardinality(RowsOf(x)) /\ Cardinality(x) <= recorded /\ Cardinality(x) \in Nat
<1> DEFINE f == [e \in x |-> e.row]
<1>1. RowsOf(x) \subseteq 1 .. recorded
  <2> SUFFICES ASSUME NEW e \in x PROVE e.row \in 1 .. recorded
    BY DEF RowsOf
  <2>1. e \in Entries /\ e.row <= recorded
    BY DEF Proper
  <2> QED
    BY <2>1, EntriesAre
<1>2. IsFiniteSet(1 .. recorded) /\ Cardinality(1 .. recorded) = recorded
  BY FS_Interval
<1>3. IsFiniteSet(RowsOf(x)) /\ Cardinality(RowsOf(x)) <= recorded
  BY <1>1, <1>2, FS_Subset
<1>4. f \in [x -> RowsOf(x)] /\ \A e \in x : f[e] = e.row
  BY DEF RowsOf
<1>5. f \in Injection(x, RowsOf(x)) /\ f \in Surjection(x, RowsOf(x))
  <2> HIDE DEF f
  <2>1. \A e, d \in x : f[e] = f[d] => e = d
    BY <1>4 DEF Proper
  <2>2. \A r \in RowsOf(x) : \E e \in x : f[e] = r
    BY <1>4 DEF RowsOf
  <2> QED
    BY <1>4, <2>1, <2>2, Fun_IsInj, Fun_IsSurj
<1> HIDE DEF f
<1>6. IsFiniteSet(x) /\ Cardinality(x) = Cardinality(RowsOf(x))
  BY <1>3, <1>5, FS_Injection
<1> QED
  BY <1>3, <1>6, FS_CardinalityType

LEMMA HighestIdIs ==
  ASSUME RetiredInv
  PROVE  /\ HighestId \in Nat /\ HighestId <= MaxOther + 2 * recorded
         /\ db = {} => HighestId = other
<1> USE RetirementAssumption
<1> DEFINE T == {other} \cup {e.id : e \in db}
           D == MaxOther + 2 * recorded
<1>1. recorded \in Nat /\ MaxOther \in Nat /\ other \in 0 .. MaxOther /\ D \in Nat
  <2>1. recorded \in Nat /\ MaxOther \in Nat /\ other \in 0 .. MaxOther
    BY DEF RetiredInv, TypeOK
  <2> QED
    BY <2>1
<1>2. \A e \in db : e.id \in 0 .. D
  <2> SUFFICES ASSUME NEW e \in db PROVE e.id \in 0 .. D
    OBVIOUS
  <2>1. e \in Entries /\ e.id <= D
    BY DEF RetiredInv, Proper
  <2> QED
    BY <1>1, <2>1, EntriesAre
<1>3. T \in SUBSET (0 .. D) /\ T # {}
  <2>1. other \in 0 .. D
    BY <1>1
  <2> QED
    BY <1>2, <2>1
<1>4. PICK m \in T : \A n \in T : n <= m
  <2> HIDE DEF T, D
  <2> QED
    BY <1>1, <1>3, LastOf
<1>5. m >= other /\ \A e \in db : m >= e.id
  BY <1>1, <1>2, <1>4
<1>6. HighestId \in T /\ HighestId >= other /\ \A e \in db : HighestId >= e.id
  BY <1>4, <1>5 DEF HighestId
<1>7. db = {} => HighestId = other
  BY <1>6
<1> HIDE DEF T
<1>8. HighestId \in 0 .. D
  BY <1>3, <1>6
<1> QED
  BY <1>1, <1>7, <1>8

\* What restore() inserts into a recorder without retired rows.
LEMMA InsertedIs ==
  ASSUME RetiredInv, db = {}
  PROVE  Proper(Inserted) /\ RowsOf(Inserted) = RowsOf(archive)
<1> USE RetirementAssumption
<1> DEFINE rank(e) == Cardinality({d \in archive : d.id <= e.id})
<1>1. HighestId \in 0 .. MaxOther /\ recorded \in Nat /\ recorded <= MaxRows /\ MaxOther \in Nat /\ MaxRows \in Nat
  BY HighestIdIs DEF RetiredInv, TypeOK
<1>2. IsFiniteSet(archive) /\ Cardinality(archive) <= recorded /\ Cardinality(archive) \in Nat
  BY <1>1, ProperCard DEF RetiredInv
<1>3. \A e \in archive : rank(e) \in 1 .. recorded
  <2> SUFFICES ASSUME NEW e \in archive PROVE rank(e) \in 1 .. recorded
    OBVIOUS
  <2> DEFINE S == {d \in archive : d.id <= e.id}
  <2>1. S \in SUBSET archive
    OBVIOUS
  <2>2. e \in S
    <3>1. e \in Entries
      BY DEF RetiredInv, Proper
    <3>2. e.id \in Nat
      BY <3>1, EntriesAre
    <3> QED
      BY <3>2
  <2> HIDE DEF S
  <2>3. IsFiniteSet(S) /\ Cardinality(S) <= Cardinality(archive) /\ Cardinality(S) \in Nat
    BY <1>2, <2>1, FS_Subset, FS_CardinalityType
  <2>4. Cardinality(S) # 0
    BY <2>2, <2>3, FS_EmptySet
  <2>5. Cardinality(S) \in 1 .. recorded
    BY <1>1, <1>2, <2>3, <2>4
  <2> QED
    BY <2>5 DEF S
<1> HIDE DEF rank
<1>4. Inserted = {[row |-> e.row, id |-> HighestId + rank(e)] : e \in archive}
  BY DEF Inserted, rank
<1>5. \A e \in archive : /\ e.row \in Rows /\ e.row <= recorded
                         /\ HighestId + rank(e) \in Ids /\ HighestId + rank(e) <= MaxOther + 2 * recorded
  <2> SUFFICES ASSUME NEW e \in archive
               PROVE  /\ e.row \in Rows /\ e.row <= recorded
                      /\ HighestId + rank(e) \in Ids /\ HighestId + rank(e) <= MaxOther + 2 * recorded
    OBVIOUS
  <2>1. e \in Entries /\ e.row <= recorded
    BY DEF RetiredInv, Proper
  <2>2. rank(e) \in 1 .. recorded
    BY <1>3
  <2>3. HighestId + rank(e) \in 1 .. MaxOther + 2 * MaxRows /\ HighestId + rank(e) <= MaxOther + 2 * recorded
    BY <1>1, <2>2
  <2> QED
    BY <2>1, <2>3 DEF Entries, Ids
<1>6. \A i \in Inserted : i \in Entries /\ \E e \in archive : i.row = e.row /\ i = [row |-> e.row, id |-> HighestId + rank(e)]
  BY <1>4, <1>5 DEF Entries
<1>7. \A i \in Inserted : i.row <= recorded /\ i.id <= MaxOther + 2 * recorded
  BY <1>4, <1>5
<1>8. \A i, k \in Inserted : i.row = k.row => i = k
  <2> SUFFICES ASSUME NEW i \in Inserted, NEW k \in Inserted, i.row = k.row PROVE i = k
    OBVIOUS
  <2>1. PICK e \in archive : i.row = e.row /\ i = [row |-> e.row, id |-> HighestId + rank(e)]
    BY <1>6
  <2>2. PICK d \in archive : k.row = d.row /\ k = [row |-> d.row, id |-> HighestId + rank(d)]
    BY <1>6
  <2>3. e = d
    BY <2>1, <2>2 DEF RetiredInv, Proper
  <2> QED
    BY <2>1, <2>2, <2>3
<1>9. RowsOf(Inserted) = RowsOf(archive)
  <2>1. \A i \in Inserted : i.row \in RowsOf(archive)
    BY <1>6 DEF RowsOf
  <2>2. \A e \in archive : e.row \in RowsOf(Inserted)
    <3> SUFFICES ASSUME NEW e \in archive PROVE \E i \in Inserted : i.row = e.row
      BY DEF RowsOf
    <3> DEFINE i == [row |-> e.row, id |-> HighestId + rank(e)]
    <3>1. i \in Inserted /\ i.row = e.row
      BY <1>4
    <3> QED
      BY <3>1
  <2> QED
    BY <2>1, <2>2 DEF RowsOf
<1> QED
  BY <1>6, <1>7, <1>8, <1>9 DEF Proper

LEMMA RetiredInit == Init => RetiredInv
<1> SUFFICES ASSUME Init PROVE RetiredInv
  OBVIOUS
<1>1. pod \in Versions
  BY DEF Init, Versions
<1>2. TypeOK
  BY <1>1, RetirementAssumption DEF Init, TypeOK, NoArchive
<1>3. db = {} /\ archive = {} /\ durable = {}
  BY DEF Init, NoArchive
<1> QED
  BY <1>2, <1>3 DEF RetiredInv, Proper

\* No step makes the entries of a set of files or tables improper.
LEMMA StaysProper ==
  ASSUME TypeOK, recorded' \in {recorded, recorded + 1}, NEW x, Proper(x)
  PROVE  /\ x \in SUBSET Entries
         /\ \A e \in x : e.row <= recorded' /\ e.id <= MaxOther + 2 * recorded'
         /\ \A e, d \in x : e.row = d.row => e = d
<1>1. recorded \in Nat /\ MaxOther \in Nat
  BY RetirementAssumption DEF TypeOK
<1>2. recorded <= recorded' /\ MaxOther + 2 * recorded <= MaxOther + 2 * recorded' /\ recorded' \in Nat
  <2>1. CASE recorded' = recorded
    BY <1>1, <2>1
  <2>2. CASE recorded' = recorded + 1
    BY <1>1, <2>2
  <2> QED
    BY <2>1, <2>2
<1>3. \A e \in x : e.row \in Nat /\ e.id \in Nat
  <2> SUFFICES ASSUME NEW e \in x PROVE e.row \in Nat /\ e.id \in Nat
    OBVIOUS
  <2>1. e \in Entries
    BY DEF Proper
  <2> QED
    BY <2>1, EntriesAre, RetirementAssumption
<1> QED
  BY <1>1, <1>2, <1>3 DEF Proper

LEMMA RetiredStep == RetiredInv /\ [Next]_vars => RetiredInv'
<1> SUFFICES ASSUME RetiredInv, [Next]_vars PROVE RetiredInv'
  OBVIOUS
<1> USE RetirementAssumption
<1>t. TypeOK /\ Proper(db) /\ Proper(archive) /\ Proper(durable)
  BY DEF RetiredInv
<1> USE DEF Container, HomeAssistant, NoStep, Retire, SaveArchive, Rename, SyncDirectory, CommitDelete, Retry,
        GitChanges, Kill, Outage, Fault, vars, recorder, disk
<1>1. recorded' \in {recorded, recorded + 1} /\ recorded' \in 0 .. MaxRows
  BY <1>t DEF Next, Restore, RecordTracked, RecordOther, TypeOK
<1>2. archive' \in {archive, db, durable}
  BY DEF Next, Restore, RecordTracked, RecordOther
<1>3. durable' \in {archive, durable}
  BY DEF Next, Restore, RecordTracked, RecordOther
<1>4. \A x : Proper(x) =>
        /\ x \in SUBSET Entries
        /\ \A e \in x : e.row <= recorded' /\ e.id <= MaxOther + 2 * recorded'
        /\ \A e, d \in x : e.row = d.row => e = d
  BY <1>t, <1>1, StaysProper
<1>5. /\ db' \in SUBSET Entries
      /\ \A e \in db' : e.row <= recorded' /\ e.id <= MaxOther + 2 * recorded'
      /\ \A e, d \in db' : e.row = d.row => e = d
  <2>1. CASE RecordTracked
    <3> DEFINE new == [row |-> recorded + 1, id |-> HighestId + 1]
    <3>1. recorded < MaxRows /\ recorded' = recorded + 1 /\ db' = db \cup {new} /\ recorded \in Nat /\ MaxRows \in Nat /\ MaxOther \in Nat
      BY <1>t, <2>1 DEF RecordTracked, TypeOK
    <3>2. HighestId \in Nat /\ HighestId <= MaxOther + 2 * recorded
      BY HighestIdIs
    <3>3. HighestId + 1 \in 1 .. MaxOther + 2 * MaxRows /\ HighestId + 1 <= MaxOther + 2 * recorded' /\ recorded + 1 \in 1 .. MaxRows
      BY <3>1, <3>2
    <3>4. new \in Entries /\ new.row = recorded' /\ new.id <= MaxOther + 2 * recorded'
      BY <3>1, <3>3 DEF Entries, Rows, Ids
    <3>5. \A e \in db : e.row # new.row
      <4> SUFFICES ASSUME NEW e \in db PROVE e.row # recorded + 1
        BY <3>1, <3>4
      <4>1. e \in Entries /\ e.row <= recorded
        BY <1>t DEF Proper
      <4> QED
        BY <3>1, <4>1, EntriesAre
    <3> HIDE DEF new
    <3>6. recorded' <= recorded'
      BY <3>1
    <3> QED
      BY <1>t, <1>4, <3>1, <3>4, <3>5, <3>6
  <2>2. CASE Restore
    <3>1. recorded' = recorded
      BY <2>2 DEF Restore
    <3>2. CASE db' = Inserted /\ db = {}
      <4>1. Proper(Inserted)
        BY <3>2, InsertedIs
      <4> QED
        BY <1>4, <3>2, <4>1
    <3>3. CASE db' = db
      BY <1>t, <1>4, <3>3
    <3> QED
      BY <2>2, <3>2, <3>3 DEF Restore
  <2>3. CASE db' = {}
    BY <2>3
  <2>4. CASE db' = db
    BY <1>t, <1>4, <2>4
  <2> QED
    BY <2>1, <2>2, <2>3, <2>4 DEF Next, RecordOther
<1>6. (Proper(db) /\ Proper(archive) /\ Proper(durable))'
  <2>1. Proper(db)'
    BY <1>5 DEF Proper
  <2>2. Proper(archive)'
    BY <1>t, <1>2, <1>4 DEF Proper
  <2>3. Proper(durable)'
    BY <1>t, <1>3, <1>4 DEF Proper
  <2> QED
    BY <2>1, <2>2, <2>3
<1>7. TypeOK'
  <2>1. db' \in SUBSET Entries /\ archive' \in SUBSET Entries /\ durable' \in SUBSET Entries
    BY <1>6 DEF Proper
  <2>2. pod' \in Versions
    BY <1>t DEF Next, Restore, RecordTracked, RecordOther, TypeOK
  <2>3. pc' \in {"init", "failed", "rename", "sync", "delete", "running"}
    BY <1>t DEF Next, Restore, RecordTracked, RecordOther, TypeOK
  <2>4. faults' \in 0 .. Faults
    BY <1>t DEF Next, Restore, RecordTracked, RecordOther, TypeOK
  <2>5. other' \in 0 .. MaxOther
    <3>1. CASE RecordOther
      <4>1. HighestId \in Nat
        BY HighestIdIs
      <4> QED
        BY <3>1, <4>1 DEF RecordOther
    <3>2. CASE UNCHANGED other
      BY <1>t, <3>2 DEF TypeOK
    <3> QED
      BY <3>1, <3>2 DEF Next, Restore, RecordTracked
  <2> QED
    BY <1>1, <2>1, <2>2, <2>3, <2>4, <2>5 DEF TypeOK
<1> QED
  BY <1>6, <1>7 DEF RetiredInv

LEMMA RestoreStep ==
  ASSUME RetiredInv, [Next]_vars, pod.step = "restore", pc = "init", pc' = "running"
  PROVE  RowsOf(db') = RowsOf(archive) /\ Cardinality(db') = Cardinality(archive)
<1>1. Restore
  BY DEF Next, Container, HomeAssistant, NoStep, Retire, SaveArchive, Rename, SyncDirectory, CommitDelete, Retry,
         GitChanges, Kill, Outage, RecordTracked, RecordOther, vars
<1>2. RowsOf(db) \in {{}, RowsOf(archive)} /\ db' = IF db = {} THEN Inserted ELSE db
  BY <1>1 DEF Restore
<1>3. recorded \in Nat /\ Proper(archive) /\ Proper(db)
  BY RetirementAssumption DEF RetiredInv, TypeOK
<1>4. Proper(db') /\ RowsOf(db') = RowsOf(archive)
  <2>1. CASE db = {}
    BY <1>2, <2>1, InsertedIs
  <2>2. CASE db # {}
    <3>1. RowsOf(db) # {}
      BY <2>2 DEF RowsOf
    <3> QED
      BY <1>2, <1>3, <2>2, <3>1
  <2> QED
    BY <2>1, <2>2
<1>5. Cardinality(db') = Cardinality(RowsOf(db'))
  BY <1>3, <1>4, ProperCard
<1>6. Cardinality(archive) = Cardinality(RowsOf(archive))
  BY <1>3, ProperCard
<1> QED
  BY <1>4, <1>5, <1>6

\* restore() puts the archived rows back under other ids.
LEMMA RowsKept == \A r \in RowsOf(archive) : r \in RowsOf(Inserted)
<1> SUFFICES ASSUME NEW e \in archive
             PROVE  \E i \in Inserted : i.row = e.row
  BY DEF RowsOf
<1> DEFINE rank == Cardinality({d \in archive : d.id <= e.id})
<1> DEFINE i == [row |-> e.row, id |-> HighestId + rank]
<1>1. i \in Inserted
  BY DEF Inserted
<1>2. i.row = e.row
  OBVIOUS
<1> QED
  BY <1>1, <1>2

\* A row that is added is there, and so are the others.
LEMMA RowsJoined ==
  ASSUME NEW s, NEW r, NEW n
  PROVE  RowsOf(s) \cup {r} \subseteq RowsOf(s \cup {[row |-> r, id |-> n]})
<1> SUFFICES ASSUME NEW q \in RowsOf(s) \cup {r}
             PROVE  \E e \in s \cup {[row |-> r, id |-> n]} : e.row = q
  BY Zenon DEF RowsOf
<1>1. CASE q = r
  <2> [row |-> r, id |-> n].row = q
    BY <1>1
  <2> QED
    OBVIOUS
<1>2. CASE q \in RowsOf(s)
  BY <1>2 DEF RowsOf
<1> QED
  BY <1>1, <1>2

LEMMA ArchiveInit == Init => ArchiveInv
  BY RetirementAssumption DEF Init, ArchiveInv, NothingLost, RowsOf, NoArchive

LEMMA ArchiveStep == ASSUME OrderedRename PROVE ArchiveInv /\ [Next]_vars => ArchiveInv'
<1> SUFFICES ASSUME ArchiveInv, [Next]_vars
             PROVE  ArchiveInv'
  OBVIOUS
<1> USE DEF ArchiveInv, NothingLost, RowsOf, NoArchive, VerifyConfig
<1>1. CASE NoStep
  BY <1>1 DEF NoStep, recorder, disk
<1>2. CASE Retire
  BY <1>2 DEF Retire, SaveArchive, recorder, disk
<1>3. CASE Rename
  BY <1>3 DEF Rename, recorder
<1>4. CASE SyncDirectory
  BY <1>4 DEF SyncDirectory, recorder
<1>5. CASE CommitDelete
  BY <1>5 DEF CommitDelete
<1>6. CASE Restore
  <2>1. \A r \in RowsOf(archive) : r \in RowsOf(Inserted)
    BY RowsKept
  <2>2. pc' \in {"failed", "running"} /\ UNCHANGED <<pod, archive, durable, recorded>>
    BY <1>6 DEF Restore, disk
  <2>3. RowsOf(db) \subseteq RowsOf(db') \cup RowsOf(archive)
    BY <1>6 DEF Restore
  <2>4. durable # archive => db' = db
    BY <1>6 DEF Restore
  <2> QED
    BY <2>2, <2>3, <2>4
<1>7. CASE Retry
  BY <1>7 DEF Retry, recorder, disk
<1>8. CASE RecordTracked
  <2>1. RowsOf(db) \cup {recorded + 1} \subseteq RowsOf(db')
    BY <1>8, RowsJoined DEF RecordTracked
  <2>2. \A r \in 1 .. recorded' : r \in 1 .. recorded \/ r = recorded + 1
    BY <1>8 DEF RecordTracked
  <2> QED
    BY <1>8, <2>1, <2>2 DEF RecordTracked, disk
<1>9. CASE RecordOther
  BY <1>9 DEF RecordOther, disk
<1>10. CASE GitChanges
  BY <1>10 DEF GitChanges, recorder, disk
<1>11. CASE Kill
  BY <1>11 DEF Kill, recorder, disk
<1>12. CASE Outage
  BY <1>12 DEF Outage, recorder
<1>13. CASE UNCHANGED vars
  BY <1>13 DEF vars, recorder, disk
<1> QED
  BY <1>1, <1>2, <1>3, <1>4, <1>5, <1>6, <1>7, <1>8, <1>9, <1>10, <1>11, <1>12, <1>13
  DEF Next, Container, HomeAssistant

LEMMA StartInit == Init => StartInv
  BY DEF Init, StartInv, RetiredBeforeStart

LEMMA StartStep == StartInv /\ [Next]_vars => StartInv'
<1> SUFFICES ASSUME StartInv, [Next]_vars
             PROVE  StartInv'
  OBVIOUS
<1> USE DEF StartInv, RetiredBeforeStart, VerifyConfig
<1>1. CASE NoStep \/ Retire \/ Restore \/ Retry
  BY <1>1 DEF NoStep, Retire, SaveArchive, Restore, Retry, recorder
<1>2. CASE Rename \/ SyncDirectory \/ CommitDelete
  BY <1>2 DEF Rename, SyncDirectory, CommitDelete, recorder
<1>3. CASE HomeAssistant
  BY <1>3 DEF HomeAssistant, RecordTracked, RecordOther
<1>4. CASE GitChanges \/ Kill \/ Outage
  BY <1>4 DEF GitChanges, Kill, Outage, recorder
<1>5. CASE UNCHANGED vars
  BY <1>5 DEF vars, recorder
<1> QED
  BY <1>1, <1>2, <1>3, <1>4, <1>5 DEF Next, Container

-----------------------------------------------------------------------------
(* PowerRepair *)

\* A journal is written of low rows and committed only while it is theirs; one that an
\* outage may take has not been committed.
RepairInv ==
  /\ PR!TypeOK /\ PR!OneBaseline /\ PR!Undoable
  /\ rows \in Seq({"low", "raised"}) /\ journal \in Seq({"low", "raised"})
  /\ repairPc \in {"journal", "commit"} \/ ~repairDurable => PR!Pending
  /\ repairPc = "commit" => journal = rows

LEMMA RepairInit == PR!Init => RepairInv
<1> SUFFICES ASSUME PR!Init PROVE RepairInv
  OBVIOUS
<1>1. rows = <<"low">> /\ journal = <<>> /\ Len(rows) = 1 /\ rows[1] = "low"
  BY DEF PR!Init, PR!NoJournal
<1> QED
  BY <1>1, RepairAssumption DEF PR!Init, RepairInv, PR!TypeOK, PR!OneBaseline, PR!Undoable, PR!Pending

LEMMA RepairStep == RepairInv /\ [PR!Next]_(PR!vars) => RepairInv'
<1> SUFFICES ASSUME RepairInv, [PR!Next]_(PR!vars) PROVE RepairInv'
  OBVIOUS
<1> USE RepairAssumption DEF RepairInv, PR!TypeOK, PR!OneBaseline, PR!Undoable, PR!Pending, PR!NoJournal, PR!Fault
<1>0. DOMAIN rows = 1 .. Len(rows) /\ DOMAIN journal = 1 .. Len(journal) /\ Len(rows) \in Nat /\ Len(journal) \in Nat
  OBVIOUS
<1>1. CASE PR!NoStep \/ PR!Plan \/ PR!Retry
  BY <1>1 DEF PR!NoStep, PR!Plan, PR!Retry
<1>2. CASE PR!WriteJournal
  <2>1. repairDurable' \in BOOLEAN /\ repairPc' = "commit" /\ journal' = rows /\ UNCHANGED <<step, rows, repairFaults>>
    BY <1>2 DEF PR!WriteJournal
  <2>2. rows[1] = "low"
    BY <1>2 DEF PR!WriteJournal
  <2> QED
    BY <1>0, <2>1, <2>2
<1>3. CASE PR!Commit
  <2>1. rows' = [i \in 1 .. Len(rows) |-> "raised"] /\ journal' = journal /\ journal = rows
    BY <1>3, <1>0 DEF PR!Commit, PR!All
  <2>2. rows' \in Seq({"low", "raised"}) /\ Len(rows') = Len(rows) /\ DOMAIN rows' = 1 .. Len(rows)
    BY <2>1
  <2>3. repairPc' = "running" /\ repairDurable' = TRUE /\ step' = step /\ repairFaults' = repairFaults
    BY <1>3 DEF PR!Commit
  <2>5. \A i \in DOMAIN journal : journal[i] = "low"
    BY <1>3 DEF PR!Commit
  <2> QED
    BY <1>0, <2>1, <2>2, <2>3, <2>5
<1>4. CASE PR!Undo
  <2>1. CASE rows' = rows
    BY <1>4, <2>1 DEF PR!Undo
  <2>2. CASE rows' = [i \in 1 .. Len(rows) |-> "low"]
    <3>1. rows' \in Seq({"low", "raised"}) /\ Len(rows') = Len(rows) /\ DOMAIN rows' = 1 .. Len(rows)
      BY <2>2
    <3>2. UNCHANGED <<step, journal, repairDurable, repairFaults>> /\ repairPc' \in {"running", "failed"}
      BY <1>4, <2>2 DEF PR!Undo
    <3>3. rows'[1] = "low" /\ \A i \in DOMAIN rows' : rows'[i] = "low"
      BY <2>2, <3>1
    <3>4. PR!OneBaseline' /\ PR!Undoable' /\ PR!Pending'
      BY <3>3
    <3>5. PR!TypeOK'
      BY <3>1, <3>2
    <3> QED
      BY <3>1, <3>2, <3>4, <3>5
  <2> QED
    BY <1>0, <1>4, <2>1, <2>2 DEF PR!Undo, PR!Lowered, PR!All
<1>5. CASE PR!Record
  <2>1. /\ rows' = Append(rows, rows[Len(rows)]) /\ Len(rows) < RepairRows
        /\ repairPc = "running" /\ UNCHANGED <<step, repairPc, journal, repairDurable, repairFaults>>
    BY <1>5 DEF PR!Record
  <2>2. rows[Len(rows)] = rows[1] /\ rows[1] \in {"low", "raised"}
    BY <1>0
  <2>3. /\ rows' \in Seq({"low", "raised"}) /\ Len(rows') = Len(rows) + 1
        /\ DOMAIN rows' = 1 .. Len(rows) + 1 /\ \A i \in 1 .. Len(rows) + 1 : rows'[i] = rows[1]
    BY <2>1, <2>2, <1>0
  <2> QED
    BY <1>0, <2>1, <2>2, <2>3
<1>6. CASE PR!GitChanges \/ PR!Kill
  BY <1>6 DEF PR!GitChanges, PR!Kill
<1>7. CASE PR!Outage
  <2>1. repairPc' = "init" /\ UNCHANGED <<step, rows>> /\ repairFaults' \in 0 .. RepairFaults
    BY <1>7 DEF PR!Outage
  <2>2. repairDurable' = TRUE /\ repairDurable' \in BOOLEAN
    BY <1>7 DEF PR!Outage
  <2>3. CASE journal' = journal
    BY <2>1, <2>2, <2>3
  <2>4. CASE journal' = <<>> /\ ~repairDurable
    <3>1. journal' \in Seq({"low", "raised"}) /\ Len(journal') = 0
      BY <2>4
    <3> QED
      BY <2>1, <2>2, <2>4, <3>1
  <2> QED
    BY <1>7, <2>3, <2>4 DEF PR!Outage
<1>8. CASE UNCHANGED PR!vars
  BY <1>8 DEF PR!vars
<1> QED
  BY <1>1, <1>2, <1>3, <1>4, <1>5, <1>6, <1>7, <1>8 DEF PR!Next, PR!Container

-----------------------------------------------------------------------------
(* PowerSummary *)

LEMMA MonthsStart == \A m \in MonthStarts : m \in Int /\ 1 <= m /\ m <= LastDay
<1> SUFFICES ASSUME NEW m \in MonthStarts PROVE m \in Int /\ 1 <= m /\ m <= LastDay
  OBVIOUS
<1>1. m \in 1 .. LastDay
  BY SummaryAssumption, Zenon
<1> QED
  BY <1>1, SummaryAssumption

LEMMA MonthOfIs ==
  ASSUME NEW d \in 1 .. LastDay
  PROVE  /\ PS!MonthOf(d) \in MonthStarts /\ PS!MonthOf(d) <= d
         /\ \A n \in MonthStarts : n <= d => n <= PS!MonthOf(d)
<1> USE SummaryAssumption
<1> DEFINE T == {m \in MonthStarts : m <= d}
<1>1. T \in SUBSET (0 .. d) /\ T # {} /\ d \in Nat
  <2>1. 1 \in MonthStarts /\ 1 <= d
    OBVIOUS
  <2>2. T \subseteq 0 .. d
    <3> SUFFICES ASSUME NEW m \in MonthStarts, m <= d PROVE m \in 0 .. d
      OBVIOUS
    <3>1. m \in Int /\ 1 <= m /\ d \in Int
      BY MonthsStart
    <3> QED
      BY <3>1
  <2>3. 1 \in T
    BY <2>1
  <2> HIDE DEF T
  <2> QED
    BY <2>2, <2>3
<1>2. PICK m \in T : \A n \in T : n <= m
  <2> HIDE DEF T
  <2> QED
    BY <1>1, LastOf
<1>3. \E x \in MonthStarts : x <= d /\ \A n \in MonthStarts : n <= d => n <= x
  BY <1>2
<1> QED
  BY <1>3 DEF PS!MonthOf

\* Days of one month, and first days of months.
LEMMA SameMonth ==
  ASSUME NEW d \in 1 .. LastDay, NEW e \in 1 .. LastDay, PS!MonthOf(d) <= e, e <= d
  PROVE  PS!MonthOf(e) = PS!MonthOf(d)
<1>1. PS!MonthOf(d) \in Int /\ PS!MonthOf(e) \in Int
  BY MonthOfIs, MonthsStart
<1>2. PS!MonthOf(d) <= PS!MonthOf(e)
  BY MonthOfIs
<1>3. PS!MonthOf(e) <= e /\ PS!MonthOf(e) \in MonthStarts
  BY MonthOfIs
<1>4. PS!MonthOf(e) <= PS!MonthOf(d)
  BY <1>1, <1>3, MonthOfIs
<1> QED
  BY <1>1, <1>2, <1>4

LEMMA FirstOfMonth ==
  ASSUME NEW m \in MonthStarts
  PROVE  m \in 1 .. LastDay /\ PS!MonthOf(m) = m
<1>1. m \in 1 .. LastDay
  BY MonthsStart, SummaryAssumption
<1>2. PS!MonthOf(m) <= m /\ m <= PS!MonthOf(m) /\ PS!MonthOf(m) \in Int
  <2>1. PS!MonthOf(m) \in MonthStarts /\ PS!MonthOf(m) <= m
    BY <1>1, MonthOfIs
  <2>2. m <= m => m <= PS!MonthOf(m)
    BY <1>1, MonthOfIs
  <2>3. m <= m
    BY MonthsStart
  <2> QED
    BY <2>1, <2>2, <2>3, MonthsStart
<1> QED
  BY <1>1, <1>2

\* What build_facts() returns, and when its figures are of a date.
Gathered == [now : Int, today : Int, yesterday : Int, month : Int, bill : Int, bills : Int, report : Int]

OfTheDate(f, d) ==
  /\ f.today \in {d, PS!Missing} /\ f.yesterday \in {d - 1, PS!Missing} /\ f.month \in {PS!MonthOf(d), PS!Missing}
  /\ f.bill \in {d - 1, PS!Missing} /\ f.bills \in {PS!MonthOf(d), PS!Missing} /\ f.report \in {d - 1, PS!Missing}

\* Facts stay of the day they were gathered on until the text about them is shown.
SummaryInv ==
  /\ PS!TypeOK
  /\ updatePc \in {"report", "model"} => facts \in Gathered /\ OfTheDate(facts, facts.now)
  /\ shown.state = "ready" => OfTheDate(shown.facts, shown.date)

LEMMA SummaryInit == PS!Init => SummaryInv
<1> SUFFICES ASSUME PS!Init PROVE SummaryInv
  OBVIOUS
<1> USE SummaryAssumption DEF PS!Init
<1>1. 2 \in 1 .. LastDay /\ monthly \in MonthStarts
  BY MonthOfIs
<1>2. works \in [{"key", "recorder", "model"} -> BOOLEAN]
  OBVIOUS
<1>3. PS!TypeOK
  BY <1>1, <1>2 DEF PS!TypeOK
<1> QED
  BY <1>3 DEF SummaryInv

\* What build_facts() gathers is of the day it runs on.
LEMMA FactsOfToday ==
  ASSUME PS!TypeOK
  PROVE  PS!Facts \in Gathered /\ PS!Facts.now = today /\ OfTheDate(PS!Facts, today)
<1> USE SummaryAssumption DEF PS!TypeOK, PS!Missing
<1>1. PS!Meter("today") \in {today, 0}
  BY DEF PS!Meter
<1>2. PS!Meter("yesterday") \in {today - 1, 0}
  BY DEF PS!Meter
<1>3. PS!Meter("month") \in {PS!MonthOf(today), 0}
  BY FirstOfMonth DEF PS!Meter
<1>4. PS!Facts.bills \in {PS!MonthOf(today), 0}
  <2>1. CASE PS!MonthOf(today) <= through /\ through <= today
    <3>1. PS!MonthOf(today) \in Int /\ 1 <= PS!MonthOf(today)
      BY MonthOfIs, MonthsStart
    <3>2. through \in 1 .. LastDay
      BY <2>1, <3>1
    <3> QED
      BY <2>1, <3>2, SameMonth DEF PS!Facts
  <2>2. CASE ~(PS!MonthOf(today) <= through /\ through <= today)
    BY <2>2 DEF PS!Facts
  <2> QED
    BY <2>1, <2>2
<1>5. PS!MonthOf(today) \in Int
  <2>1. today \in 1 .. LastDay
    OBVIOUS
  <2>2. PS!MonthOf(today) \in MonthStarts
    BY <2>1, MonthOfIs
  <2> QED
    BY <2>2, MonthsStart
<1>6. PS!Facts.bill \in {today - 1, 0}
  BY DEF PS!Facts
<1>7. /\ PS!Facts.today = PS!Meter("today") /\ PS!Facts.yesterday = PS!Meter("yesterday")
      /\ PS!Facts.month = PS!Meter("month") /\ PS!Facts.report = 0 /\ PS!Facts.now = today
  BY DEF PS!Facts
<1>8. OfTheDate(PS!Facts, today)
  BY <1>1, <1>2, <1>3, <1>4, <1>6, <1>7 DEF OfTheDate
<1>9. PS!Facts \in Gathered
  <2>1. PS!Facts.bills \in Int /\ PS!Facts.bill \in Int
    BY <1>4, <1>5, <1>6
  <2> QED
    BY <1>1, <1>2, <1>3, <1>5, <1>7, <2>1 DEF PS!Facts, Gathered
<1> QED
  BY <1>7, <1>8, <1>9

LEMMA SummaryStep == SummaryInv /\ [PS!Next]_(PS!vars) => SummaryInv'
<1> SUFFICES ASSUME SummaryInv, [PS!Next]_(PS!vars) PROVE SummaryInv'
  OBVIOUS
<1> USE SummaryAssumption DEF SummaryInv
<1>t. PS!TypeOK
  OBVIOUS
<1>1. PS!TypeOK'
  <2> USE DEF PS!TypeOK
  <2>1. CASE PS!Update
    <3>1. UNCHANGED PS!outside /\ updatePc' \in {"idle", "key", "report", "model"}
      BY <2>1 DEF PS!Update, PS!Starts, PS!ReadKey, PS!ReadReport, PS!Asked, PS!Ends
    <3>2. shown'.state \in {"unknown", "not_configured", "error", "expired", "ready"}
      BY <2>1 DEF PS!Update, PS!Starts, PS!ReadKey, PS!ReadReport, PS!Asked, PS!Ends
    <3> QED
      BY <3>1, <3>2 DEF PS!outside
  <2>2. CASE PS!Midnight
    BY <2>2 DEF PS!Midnight
  <2>3. CASE PS!Reset
    BY <2>3, MonthOfIs DEF PS!Reset
  <2>4. CASE PS!Reading
    BY <2>4 DEF PS!Reading
  <2>5. CASE \E w \in DOMAIN works : PS!Flips(w)
    <3>1. works' \in [{"key", "recorder", "model"} -> BOOLEAN]
      BY <2>5 DEF PS!Flips
    <3> QED
      BY <2>5, <3>1 DEF PS!Flips
  <2>6. CASE UNCHANGED PS!vars
    BY <2>6 DEF PS!vars, PS!outside
  <2> QED
    BY <2>1, <2>2, <2>3, <2>4, <2>5, <2>6 DEF PS!Next
<1>2. CASE PS!Starts
  BY <1>1, <1>2 DEF PS!Starts
<1>3. CASE PS!ReadKey
  BY <1>1, <1>3, FactsOfToday DEF PS!ReadKey, PS!Ends
<1>4. CASE PS!ReadReport
  <2>1. facts \in Gathered /\ OfTheDate(facts, facts.now) /\ UNCHANGED shown
    BY <1>4 DEF PS!ReadReport
  <2>2. facts'.report \in {facts.now - 1, 0} /\ facts' \in Gathered
    BY <1>4, <2>1 DEF PS!ReadReport, Gathered, PS!Missing
  <2>3. /\ facts'.now = facts.now /\ facts'.today = facts.today /\ facts'.yesterday = facts.yesterday
        /\ facts'.month = facts.month /\ facts'.bill = facts.bill /\ facts'.bills = facts.bills
    BY <1>4, <2>1 DEF PS!ReadReport, Gathered
  <2>4. OfTheDate(facts', facts'.now)
    BY <2>1, <2>2, <2>3 DEF OfTheDate, PS!Missing
  <2> QED
    BY <1>1, <2>1, <2>2, <2>4
<1>5. CASE PS!Asked
  <2>1. updatePc' = "idle"
    BY <1>5 DEF PS!Asked, PS!Ends
  <2>2. CASE shown'.state = "ready"
    <3>1. shown' = [state |-> "ready", facts |-> facts, date |-> facts.now] /\ updatePc = "model"
      BY <1>5, <2>2 DEF PS!Asked, PS!Ends
    <3>2. shown'.facts = facts /\ shown'.date = facts.now
      BY <3>1
    <3> QED
      BY <1>1, <2>1, <3>1, <3>2
  <2> QED
    BY <1>1, <2>1, <2>2
<1>6. CASE UNCHANGED <<updatePc, facts, shown>>
  BY <1>1, <1>6
<1> QED
  BY <1>2, <1>3, <1>4, <1>5, <1>6 DEF PS!Next, PS!Update, PS!Midnight, PS!Reset, PS!Reading, PS!Flips, PS!vars

-----------------------------------------------------------------------------
(* PowerAnalysis *)

\* The statistics of an hour, recorded or late.
Row(h) == IF h \in DOMAIN statistics THEN statistics[h] ELSE late[h]

\* Rows follow the use, hour by hour, but for the falls.
AnalysisInv ==
  /\ PA!TypeOK
  /\ fell \in [by : [PA!Series -> Nat], at : SUBSET (1 .. hour)]
  /\ \A h \in 0 .. hour : Row(h) \in [PA!Series -> Int]
  /\ \A s \in PA!Series : Row(hour)[s] = used[hour][s] - fell.by[s]
  /\ \A h \in 0 .. hour : h < hour => used[h + 1]["gaming"] - used[h]["gaming"] <= used[h + 1]["pc"] - used[h]["pc"]
  /\ \A h \in 0 .. hour, s \in PA!Series : h < hour =>
       /\ used[h + 1][s] - used[h][s] \in {0, 1}
       /\ \/ Row(h + 1)[s] - Row(h)[s] = used[h + 1][s] - used[h][s]
          \/ h + 1 \in fell.at /\ Row(h + 1)[s] - Row(h)[s] < 0

LEMMA MidnightsOrdered ==
  ASSUME NEW d \in PA!Days
  PROVE  /\ Midnights[d] \in Nat /\ Midnights[d + 1] \in Nat /\ Midnights[d] < Midnights[d + 1]
         /\ PA!Sampled(d) = Midnights[d] .. Midnights[d + 1]
<1> USE AnalysisAssumption
<1>1. Len(Midnights) \in Nat /\ d \in 1 .. Len(Midnights) /\ d + 1 \in 1 .. Len(Midnights)
  BY DEF PA!Days
<1> QED
  BY <1>1 DEF PA!Days, PA!Sampled, PA!LastHour

LEMMA HoursAreNat == PA!TypeOK => hour \in Nat
<1>1. Midnights[Len(Midnights)] \in Nat
  BY AnalysisAssumption
<1> QED
  BY <1>1 DEF PA!TypeOK, PA!Hours

LEMMA DeltaIs ==
  ASSUME NEW d \in PA!Days, NEW s \in PA!Series
  PROVE  PA!Delta(d, s) = statistics[Midnights[d + 1]][s] - statistics[Midnights[d]][s]
<1> DEFINE hs == PA!Sampled(d)
           lo == CHOOSE h \in hs : \A k \in hs : h <= k
           hi == CHOOSE h \in hs : \A k \in hs : h >= k
<1>1. hs = Midnights[d] .. Midnights[d + 1] /\ Midnights[d] \in Nat /\ Midnights[d + 1] \in Nat /\ Midnights[d] < Midnights[d + 1]
  BY MidnightsOrdered
<1> HIDE DEF hs
<1>2. Midnights[d] \in hs /\ \A k \in hs : Midnights[d] <= k
  BY <1>1
<1>3. Midnights[d + 1] \in hs /\ \A k \in hs : Midnights[d + 1] >= k
  BY <1>1
<1>4. lo \in hs /\ \A k \in hs : lo <= k
  BY <1>2
<1>5. hi \in hs /\ \A k \in hs : hi >= k
  BY <1>3
<1> HIDE DEF lo, hi
<1>6. lo = Midnights[d]
  BY <1>1, <1>2, <1>4
<1>7. hi = Midnights[d + 1]
  BY <1>1, <1>3, <1>5
<1> QED
  BY <1>6, <1>7 DEF PA!Delta, hs, lo, hi

\* The history of a whole day, and what it says of the use in its hours.
LEMMA DayRows ==
  ASSUME AnalysisInv, NEW d \in PA!Days, PA!Complete(d)
  PROVE  /\ Midnights[d + 1] <= hour
         /\ \A h \in PA!Sampled(d) : h \in 0 .. hour /\ statistics[h] = Row(h)
<1>1. /\ Midnights[d] \in Nat /\ Midnights[d + 1] \in Nat /\ Midnights[d] < Midnights[d + 1]
      /\ PA!Sampled(d) = Midnights[d] .. Midnights[d + 1]
  BY MidnightsOrdered
<1>2. hour \in Nat
  BY HoursAreNat DEF AnalysisInv
<1>3. \A h \in PA!Sampled(d) : h \in DOMAIN statistics /\ h \in 0 .. hour
  BY DEF PA!Complete, AnalysisInv, PA!TypeOK
<1>4. Midnights[d + 1] \in PA!Sampled(d)
  BY <1>1
<1> QED
  BY <1>1, <1>2, <1>3, <1>4 DEF Row

LEMMA CountsItsHours ==
  ASSUME AnalysisInv
  PROVE  PA!CountsItsHours
<1> SUFFICES ASSUME NEW d \in PA!Days, PA!Included(d), NEW s \in PA!Series
             PROVE  PA!Delta(d, s) = PA!Actual(d, s)
  BY DEF PA!CountsItsHours
<1> DEFINE f == [h \in 0 .. hour |-> Row(h)[s]]
           g == [h \in 0 .. hour |-> used[h][s]]
           lo == Midnights[d]
           hi == Midnights[d + 1]
<1>1. PA!Complete(d) /\ PA!Steady(d, s)
  BY DEF PA!Included
<1>2. hi <= hour /\ hour \in Nat /\ \A h \in PA!Sampled(d) : h \in 0 .. hour /\ statistics[h] = Row(h)
  BY <1>1, DayRows, HoursAreNat DEF AnalysisInv
<1>3. lo \in Nat /\ hi \in Nat /\ lo < hi /\ PA!Sampled(d) = lo .. hi
  BY MidnightsOrdered
<1>4. \A h \in 0 .. hour : f[h] \in Int /\ g[h] \in Int /\ f[h] = Row(h)[s] /\ g[h] = used[h][s]
  BY DEF AnalysisInv, PA!TypeOK
<1>5. \A h \in lo .. hi : h \in 0 .. hour
  BY <1>2, <1>3
<1>6. \A h \in lo .. hi : h < hi => h + 1 \in lo .. hi
  BY <1>3
<1>7. \A h \in lo .. hi : h < hi => Row(h + 1)[s] >= Row(h)[s]
  BY <1>1, <1>2, <1>3, <1>6 DEF PA!Steady
<1>8. \A h \in lo .. hi : h < hi => Row(h + 1)[s] - Row(h)[s] = used[h + 1][s] - used[h][s]
  <2> SUFFICES ASSUME NEW h \in lo .. hi, h < hi
               PROVE  Row(h + 1)[s] - Row(h)[s] = used[h + 1][s] - used[h][s]
    OBVIOUS
  <2>1. h \in 0 .. hour /\ h < hour /\ h + 1 \in 0 .. hour
    BY <1>2, <1>3, <1>5, <1>6
  <2>2. ~(Row(h + 1)[s] - Row(h)[s] < 0)
    BY <1>4, <1>7, <2>1
  <2> QED
    BY <2>1, <2>2 DEF AnalysisInv
<1> HIDE DEF f, g
<1>9. \A h \in lo .. hi : h < hi => f[h + 1] - f[h] = g[h + 1] - g[h]
  BY <1>4, <1>5, <1>6, <1>8
<1>10. \A h \in lo .. hi : f[h] \in Int /\ g[h] \in Int
  BY <1>4, <1>5
<1> HIDE DEF lo, hi
<1>11. f[hi] - f[lo] <= g[hi] - g[lo]
  <2>1. \A h \in lo .. hi : h < hi => f[h + 1] - f[h] <= g[h + 1] - g[h]
    <3> SUFFICES ASSUME NEW h \in lo .. hi, h < hi PROVE f[h + 1] - f[h] <= g[h + 1] - g[h]
      OBVIOUS
    <3>1. h + 1 \in lo .. hi
      BY <1>3
    <3> QED
      BY <1>9, <1>10, <3>1
  <2>2. lo <= hi
    BY <1>3
  <2> QED
    BY <1>3, <1>10, <2>1, <2>2, Telescope
<1>12. g[hi] - g[lo] <= f[hi] - f[lo]
  <2>1. \A h \in lo .. hi : h < hi => g[h + 1] - g[h] <= f[h + 1] - f[h]
    <3> SUFFICES ASSUME NEW h \in lo .. hi, h < hi PROVE g[h + 1] - g[h] <= f[h + 1] - f[h]
      OBVIOUS
    <3>1. h + 1 \in lo .. hi
      BY <1>3
    <3> QED
      BY <1>9, <1>10, <3>1
  <2>2. lo <= hi
    BY <1>3
  <2>3. \A h \in lo .. hi : g[h] \in Int /\ f[h] \in Int
    BY <1>10
  <2> QED
    BY <1>3, <2>1, <2>2, <2>3, Telescope
<1>13. lo \in lo .. hi /\ hi \in lo .. hi
  BY <1>3
<1>14. f[hi] - f[lo] = g[hi] - g[lo]
  BY <1>10, <1>11, <1>12, <1>13
<1>15. PA!Delta(d, s) = statistics[hi][s] - statistics[lo][s]
  BY DeltaIs DEF lo, hi
<1> QED
  BY <1>2, <1>3, <1>4, <1>5, <1>13, <1>14, <1>15 DEF PA!Actual, lo, hi

LEMMA WholeDaysCount ==
  ASSUME AnalysisInv
  PROVE  PA!WholeDaysCount
<1> SUFFICES ASSUME NEW d \in bills,
                    (PA!HoursOf(d) \cup {Midnights[d]}) \subseteq DOMAIN statistics,
                    PA!HoursOf(d) \cap fell.at = {}
             PROVE  PA!Included(d)
  BY DEF PA!WholeDaysCount
<1>1. d \in PA!Days
  BY DEF AnalysisInv, PA!TypeOK
<1> DEFINE lo == Midnights[d]
           hi == Midnights[d + 1]
<1>2. lo \in Nat /\ hi \in Nat /\ lo < hi /\ PA!Sampled(d) = lo .. hi
  BY <1>1, MidnightsOrdered
<1>3. PA!HoursOf(d) = lo + 1 .. hi
  BY DEF PA!HoursOf
<1>4. PA!Complete(d)
  BY <1>2, <1>3 DEF PA!Complete
<1>5. hi <= hour /\ hour \in Nat /\ \A h \in PA!Sampled(d) : h \in 0 .. hour /\ statistics[h] = Row(h)
  BY <1>1, <1>4, DayRows, HoursAreNat DEF AnalysisInv
<1>6. \A h \in lo .. hi : h \in 0 .. hour /\ statistics[h] = Row(h)
  BY <1>2, <1>5
<1>7. \A h \in lo .. hi : h < hi => h + 1 \in lo .. hi /\ h < hour /\ h + 1 \notin fell.at
  BY <1>2, <1>3, <1>5
<1>8. \A h \in lo .. hi, s \in PA!Series : h < hi =>
        /\ used[h + 1][s] - used[h][s] \in {0, 1}
        /\ Row(h + 1)[s] - Row(h)[s] = used[h + 1][s] - used[h][s]
  BY <1>6, <1>7 DEF AnalysisInv
<1>9. \A h \in 0 .. hour, s \in PA!Series : Row(h)[s] \in Int /\ used[h][s] \in Int
  BY DEF AnalysisInv, PA!TypeOK
<1> HIDE DEF lo, hi
<1>10. \A s \in PA!Series : PA!Steady(d, s)
  <2> SUFFICES ASSUME NEW s \in PA!Series, NEW h \in lo .. hi, h + 1 \in lo .. hi
               PROVE  statistics[h + 1][s] >= statistics[h][s]
    BY <1>2 DEF PA!Steady
  <2>1. h < hi /\ Row(h + 1)[s] \in Int /\ Row(h)[s] \in Int
    BY <1>2, <1>6, <1>9
  <2>2. Row(h + 1)[s] - Row(h)[s] >= 0
    BY <1>8, <2>1
  <2> QED
    BY <1>6, <2>1, <2>2
<1>11. PA!Delta(d, "gaming") <= PA!Delta(d, "pc")
  <2> DEFINE f == [h \in lo .. hi |-> Row(h)["gaming"]]
             g == [h \in lo .. hi |-> Row(h)["pc"]]
  <2>1. \A h \in lo .. hi : f[h] \in Int /\ g[h] \in Int /\ f[h] = statistics[h]["gaming"] /\ g[h] = statistics[h]["pc"]
    BY <1>6, <1>9 DEF PA!Series
  <2>2. \A h \in lo .. hi : h < hi => f[h + 1] - f[h] <= g[h + 1] - g[h]
    <3> SUFFICES ASSUME NEW h \in lo .. hi, h < hi PROVE f[h + 1] - f[h] <= g[h + 1] - g[h]
      OBVIOUS
    <3>1. h + 1 \in lo .. hi /\ h \in 0 .. hour /\ h < hour
      BY <1>6, <1>7
    <3>2. used[h + 1]["gaming"] - used[h]["gaming"] <= used[h + 1]["pc"] - used[h]["pc"]
      BY <3>1 DEF AnalysisInv
    <3>3. /\ Row(h + 1)["gaming"] - Row(h)["gaming"] = used[h + 1]["gaming"] - used[h]["gaming"]
          /\ Row(h + 1)["pc"] - Row(h)["pc"] = used[h + 1]["pc"] - used[h]["pc"]
      BY <1>8 DEF PA!Series
    <3>4. f[h + 1] = Row(h + 1)["gaming"] /\ f[h] = Row(h)["gaming"] /\ g[h + 1] = Row(h + 1)["pc"] /\ g[h] = Row(h)["pc"]
      BY <3>1
    <3> QED
      BY <3>2, <3>3, <3>4
  <2> HIDE DEF f, g
  <2>3. \A h \in lo .. hi : f[h] \in Int /\ g[h] \in Int
    BY <2>1
  <2>4. lo <= hi /\ lo \in lo .. hi /\ hi \in lo .. hi
    BY <1>2
  <2>5. f[hi] - f[lo] <= g[hi] - g[lo]
    BY <1>2, <2>2, <2>3, <2>4, Telescope
  <2>6. \A s \in PA!Series : PA!Delta(d, s) = statistics[hi][s] - statistics[lo][s]
    BY <1>1, DeltaIs DEF lo, hi
  <2> QED
    BY <2>1, <2>4, <2>5, <2>6 DEF PA!Series
<1> QED
  BY <1>4, <1>10, <1>11 DEF PA!Included

LEMMA AnalysisInit == PA!Init => AnalysisInv
<1> SUFFICES ASSUME PA!Init PROVE AnalysisInv
  OBVIOUS
<1> DEFINE zero == [s \in PA!Series |-> 0]
<1>1. /\ hour = 0 /\ used = [h \in {0} |-> zero] /\ statistics = [h \in {0} |-> zero] /\ late = [h \in {} |-> 0]
      /\ fell = [by |-> zero, at |-> {}] /\ bills = {} /\ meterFaults = 0
  BY DEF PA!Init
<1>2. Midnights[Len(Midnights)] \in Nat /\ MeterFaults \in Nat
  BY AnalysisAssumption
<1>3. zero \in [PA!Series -> Nat] /\ zero \in [PA!Series -> Int]
  OBVIOUS
<1>4. 0 .. hour = {0}
  BY <1>1
<1>5. PA!TypeOK
  BY <1>1, <1>2, <1>3, <1>4 DEF PA!TypeOK, PA!Hours
<1>6. Row(0) = zero /\ used[0] = zero
  BY <1>1 DEF Row
<1>7. fell \in [by : [PA!Series -> Nat], at : SUBSET (1 .. hour)] /\ fell.by = zero
  BY <1>1, <1>3
<1> HIDE DEF zero
<1>8. \A h \in 0 .. hour : ~(h < hour) /\ h = 0
  BY <1>1
<1>9. \A s \in PA!Series : Row(hour)[s] = used[hour][s] - fell.by[s]
  BY <1>1, <1>6, <1>7 DEF zero
<1> QED
  BY <1>3, <1>5, <1>6, <1>7, <1>8, <1>9 DEF AnalysisInv

LEMMA HourEndsStep ==
  ASSUME AnalysisInv, NEW u \in PA!Use, NEW missing \in BOOLEAN, NEW falls \in {{}} \cup {{s} : s \in PA!Series},
         PA!HourEnds(u, missing, falls)
  PROVE  AnalysisInv'
<1>t. PA!TypeOK /\ hour \in Nat
  BY HoursAreNat DEF AnalysisInv
<1>1. hour' = hour + 1 /\ hour < Midnights[Len(Midnights)] /\ Midnights[Len(Midnights)] \in Nat /\ u.gaming <= u.pc /\ bills' = bills
  BY AnalysisAssumption DEF PA!HourEnds
<1>2. 0 .. hour' = 0 .. hour \cup {hour'} /\ hour' \in Nat /\ hour' \notin 0 .. hour
  BY <1>t, <1>1
<1>3. u.gaming \in {0, 1} /\ u.pc \in {0, 1} /\ \A s \in PA!Series : u[s] \in {0, 1}
  BY DEF PA!Use, PA!Series
<1>4. used \in [0 .. hour -> [PA!Series -> Nat]]
  BY <1>t DEF PA!TypeOK
<1>5. /\ used' \in [0 .. hour' -> [PA!Series -> Nat]]
      /\ \A h \in 0 .. hour : used'[h] = used[h]
      /\ \A s \in PA!Series : used'[hour'][s] = used[hour][s] + u[s]
  <2>1. used' = [h \in 0 .. hour' |-> IF h = hour' THEN [s \in PA!Series |-> used[hour][s] + u[s]] ELSE used[h]]
    BY DEF PA!HourEnds
  <2>2. [s \in PA!Series |-> used[hour][s] + u[s]] \in [PA!Series -> Nat]
    <3>1. used[hour] \in [PA!Series -> Nat]
      BY <1>t, <1>4
    <3>2. \A s \in PA!Series : used[hour][s] + u[s] \in Nat
      BY <1>3, <3>1
    <3> QED
      BY <3>2
  <2> QED
    BY <1>2, <1>4, <2>1, <2>2
<1>6. fell \in [by : [PA!Series -> Nat], at : SUBSET (1 .. hour)]
  BY DEF AnalysisInv
<1>7. /\ fell' \in [by : [PA!Series -> Nat], at : SUBSET (1 .. hour')]
      /\ fell.at \subseteq fell'.at
      /\ \A s \in PA!Series : \/ fell'.by[s] = fell.by[s]
                              \/ fell'.by[s] = fell.by[s] + 2 /\ hour' \in fell'.at
  <2>1. CASE falls = {}
    <3>1. fell' = fell
      BY <2>1 DEF PA!HourEnds
    <3>2. 1 .. hour \subseteq 1 .. hour'
      BY <1>t, <1>1
    <3> QED
      BY <1>6, <3>1, <3>2
  <2>2. CASE falls # {}
    <3> DEFINE by == [s \in PA!Series |-> fell.by[s] + (IF s \in falls THEN 2 ELSE 0)]
               at == fell.at \cup {hour'}
    <3>1. fell' = [by |-> by, at |-> at]
      BY <2>2 DEF PA!HourEnds
    <3>2. by \in [PA!Series -> Nat] /\ \A s \in PA!Series : by[s] \in {fell.by[s], fell.by[s] + 2}
      BY <1>6
    <3>3. at \in SUBSET (1 .. hour') /\ fell.at \subseteq at /\ hour' \in at
      BY <1>6, <1>t, <1>1
    <3> HIDE DEF by, at
    <3>4. fell'.by = by /\ fell'.at = at
      BY <3>1
    <3> QED
      BY <3>1, <3>2, <3>3, <3>4
  <2> QED
    BY <2>1, <2>2
<1> DEFINE row == [s \in PA!Series |-> used'[hour'][s] - fell'.by[s]]
           With(f) == [h \in DOMAIN f \cup {hour'} |-> IF h = hour' THEN row ELSE f[h]]
<1>8. /\ row \in [PA!Series -> Int]
      /\ \A s \in PA!Series : row[s] = used'[hour'][s] - fell'.by[s]
  BY <1>2, <1>5, <1>7
<1>9. \/ late' = With(late) /\ statistics' = statistics
      \/ statistics' = With(statistics) /\ late' = late
  BY DEF PA!HourEnds
<1>10. /\ DOMAIN statistics \cap DOMAIN late = {} /\ DOMAIN statistics \cup DOMAIN late = 0 .. hour
  BY <1>t DEF PA!TypeOK
<1> HIDE DEF row
<1>11. /\ DOMAIN statistics' \cap DOMAIN late' = {} /\ DOMAIN statistics' \cup DOMAIN late' = 0 .. hour'
       /\ \A h \in 0 .. hour : Row(h)' = Row(h)
       /\ (IF hour' \in DOMAIN statistics' THEN statistics'[hour'] ELSE late'[hour']) = row
  <2>1. CASE late' = With(late) /\ statistics' = statistics
    BY <1>2, <1>10, <2>1 DEF Row
  <2>2. CASE statistics' = With(statistics) /\ late' = late
    BY <1>2, <1>10, <2>2 DEF Row
  <2> QED
    BY <1>9, <2>1, <2>2
<1> HIDE DEF With
<1>12. PA!TypeOK'
  <2>1. meterFaults' \in 0 .. MeterFaults
    <3>1. meterFaults \in Nat /\ MeterFaults \in Nat
      BY <1>t, AnalysisAssumption DEF PA!TypeOK
    <3> DEFINE a == IF missing THEN 1 ELSE 0
               b == IF falls = {} THEN 0 ELSE 1
    <3>2. meterFaults' = meterFaults + a + b /\ meterFaults' <= MeterFaults
      BY Zenon DEF PA!HourEnds
    <3>3. a \in Nat /\ b \in Nat
      OBVIOUS
    <3> HIDE DEF a, b
    <3> QED
      BY <3>1, <3>2, <3>3
  <2>2. hour' \in PA!Hours
    BY <1>t, <1>1 DEF PA!Hours
  <2>3. bills' \subseteq PA!Days
    BY <1>t, <1>1 DEF PA!TypeOK
  <2> QED
    BY <1>5, <1>11, <2>1, <2>2, <2>3 DEF PA!TypeOK
<1>13. Row(hour)' = row
  BY <1>11 DEF Row
<1>14. \A h \in 0 .. hour' : Row(h)' \in [PA!Series -> Int]
  <2>1. \A h \in 0 .. hour : Row(h)' \in [PA!Series -> Int]
    BY <1>11 DEF AnalysisInv
  <2>2. \A h : h = hour' => Row(h)' = row
    BY <1>11 DEF Row
  <2> QED
    BY <1>2, <1>8, <2>1, <2>2
<1>15. \A h \in 0 .. hour' : h < hour' => h = hour \/ (h \in 0 .. hour /\ h < hour)
  BY <1>t, <1>1
<1>16. \A s \in PA!Series : /\ Row(hour)[s] = used[hour][s] - fell.by[s]
                            /\ used[hour][s] \in Nat /\ fell.by[s] \in Nat /\ u[s] \in {0, 1}
  BY <1>t, <1>3, <1>4, <1>6 DEF AnalysisInv
\* The hour that has ended, and those before.
<1>17. \A h, s : h = hour /\ s \in PA!Series =>
         /\ used'[h + 1][s] - used'[h][s] = u[s]
         /\ \/ Row(h + 1)'[s] - Row(h)'[s] = u[s]
            \/ h + 1 \in fell'.at /\ Row(h + 1)'[s] - Row(h)'[s] < 0
  <2> SUFFICES ASSUME NEW h, NEW s \in PA!Series, h = hour
               PROVE  /\ used'[h + 1][s] - used'[h][s] = u[s]
                      /\ \/ Row(h + 1)'[s] - Row(h)'[s] = u[s]
                         \/ h + 1 \in fell'.at /\ Row(h + 1)'[s] - Row(h)'[s] < 0
    OBVIOUS
  <2>1. h + 1 = hour' /\ h \in 0 .. hour
    BY <1>t, <1>1
  <2>2. Row(h + 1)' = row
    BY <2>1, <1>11 DEF Row
  <2>3. Row(h)' = Row(hour)
    BY <2>1, <1>11
  <2>4. used'[h + 1][s] = used[hour][s] + u[s] /\ used'[h][s] = used[hour][s]
    BY <2>1, <1>5
  <2>5. row[s] = used'[hour'][s] - fell'.by[s] /\ used'[hour'][s] = used[hour][s] + u[s]
    BY <1>5, <1>8
  <2> HIDE DEF Row
  <2>6. CASE fell'.by[s] = fell.by[s]
    BY <2>2, <2>3, <2>4, <2>5, <2>6, <1>16
  <2>7. CASE fell'.by[s] = fell.by[s] + 2 /\ hour' \in fell'.at
    BY <2>1, <2>2, <2>3, <2>4, <2>5, <2>7, <1>16
  <2> QED
    BY <1>7, <2>6, <2>7
<1>18. \A h \in 0 .. hour : h < hour =>
         /\ used'[h + 1]["gaming"] - used'[h]["gaming"] <= used'[h + 1]["pc"] - used'[h]["pc"]
         /\ \A s \in PA!Series :
              /\ used'[h + 1][s] - used'[h][s] \in {0, 1}
              /\ \/ Row(h + 1)'[s] - Row(h)'[s] = used'[h + 1][s] - used'[h][s]
                 \/ h + 1 \in fell'.at /\ Row(h + 1)'[s] - Row(h)'[s] < 0
  <2> SUFFICES ASSUME NEW h \in 0 .. hour, h < hour
               PROVE  /\ used'[h + 1]["gaming"] - used'[h]["gaming"] <= used'[h + 1]["pc"] - used'[h]["pc"]
                      /\ \A s \in PA!Series :
                           /\ used'[h + 1][s] - used'[h][s] \in {0, 1}
                           /\ \/ Row(h + 1)'[s] - Row(h)'[s] = used'[h + 1][s] - used'[h][s]
                              \/ h + 1 \in fell'.at /\ Row(h + 1)'[s] - Row(h)'[s] < 0
    OBVIOUS
  <2>1. h + 1 \in 0 .. hour
    BY <1>t
  <2>2. Row(h + 1)' = Row(h + 1) /\ Row(h)' = Row(h) /\ used'[h + 1] = used[h + 1] /\ used'[h] = used[h]
    BY <1>5, <1>11, <2>1
  <2>3. h + 1 \in fell.at => h + 1 \in fell'.at
    BY <1>7
  <2> QED
    BY <2>2, <2>3 DEF AnalysisInv
<1>19. (\A s \in PA!Series : Row(hour)[s] = used[hour][s] - fell.by[s])'
  BY <1>8, <1>13
<1>20. (\A h \in 0 .. hour : h < hour => used[h + 1]["gaming"] - used[h]["gaming"] <= used[h + 1]["pc"] - used[h]["pc"])'
  <2> SUFFICES ASSUME NEW h \in 0 .. hour', h < hour'
               PROVE  used'[h + 1]["gaming"] - used'[h]["gaming"] <= used'[h + 1]["pc"] - used'[h]["pc"]
    OBVIOUS
  <2>1. CASE h = hour
    BY <1>1, <1>17, <2>1 DEF PA!Series
  <2> QED
    BY <1>15, <1>18, <2>1
<1>21. (\A h \in 0 .. hour, s \in PA!Series : h < hour =>
          /\ used[h + 1][s] - used[h][s] \in {0, 1}
          /\ \/ Row(h + 1)[s] - Row(h)[s] = used[h + 1][s] - used[h][s]
             \/ h + 1 \in fell.at /\ Row(h + 1)[s] - Row(h)[s] < 0)'
  <2> SUFFICES ASSUME NEW h \in 0 .. hour', NEW s \in PA!Series, h < hour'
               PROVE  /\ used'[h + 1][s] - used'[h][s] \in {0, 1}
                      /\ \/ Row(h + 1)'[s] - Row(h)'[s] = used'[h + 1][s] - used'[h][s]
                         \/ h + 1 \in fell'.at /\ Row(h + 1)'[s] - Row(h)'[s] < 0
    OBVIOUS
  <2>1. CASE h = hour
    BY <1>3, <1>17, <2>1
  <2> QED
    BY <1>15, <1>18, <2>1
<1> QED
  BY <1>7, <1>12, <1>14, <1>19, <1>20, <1>21 DEF AnalysisInv

LEMMA AnalysisStep == AnalysisInv /\ [PA!Next]_(PA!vars) => AnalysisInv'
<1> SUFFICES ASSUME AnalysisInv, [PA!Next]_(PA!vars) PROVE AnalysisInv'
  OBVIOUS
<1>1. CASE \E u \in PA!Use, missing \in BOOLEAN, falls \in {{}} \cup {{s} : s \in PA!Series} : PA!HourEnds(u, missing, falls)
  BY <1>1, HourEndsStep
<1>2. CASE \E h \in DOMAIN late : PA!Compiled(h)
  <2> PICK n \in DOMAIN late : PA!Compiled(n)
    BY <1>2
  <2>1. /\ statistics' = [k \in DOMAIN statistics \cup {n} |-> IF k = n THEN late[n] ELSE statistics[k]]
        /\ late' = [k \in DOMAIN late \ {n} |-> late[k]]
        /\ UNCHANGED <<hour, used, fell, bills, meterFaults>>
    BY DEF PA!Compiled
  <2>2. DOMAIN statistics \cap DOMAIN late = {} /\ DOMAIN statistics \cup DOMAIN late = 0 .. hour
    BY DEF AnalysisInv, PA!TypeOK
  <2>3. DOMAIN statistics' \cap DOMAIN late' = {} /\ DOMAIN statistics' \cup DOMAIN late' = 0 .. hour
    BY <2>1, <2>2
  <2>4. \A h : h \in 0 .. hour => Row(h)' = Row(h)
    BY <2>1, <2>2 DEF Row
  <2>5. PA!TypeOK'
    BY <2>1, <2>3 DEF AnalysisInv, PA!TypeOK
  <2>6. hour \in Nat
    BY HoursAreNat DEF AnalysisInv
  <2>7. \A h \in 0 .. hour : h < hour => h + 1 \in 0 .. hour
    BY <2>6
  <2>8. Row(hour)' = Row(hour)
    <3>1. \A h : h = hour => Row(h)' = Row(h)
      BY <2>4, <2>6
    <3>2. \A h : h = hour => Row(hour)' = Row(h)'
      BY <2>1 DEF Row
    <3> QED
      BY <3>1, <3>2
  <2> QED
    BY <2>1, <2>4, <2>5, <2>7, <2>8 DEF AnalysisInv
<1>3. CASE \E d \in PA!Days : PA!Bill(d)
  BY <1>3 DEF PA!Bill, AnalysisInv, PA!TypeOK, Row
<1>4. CASE UNCHANGED PA!vars
  <2>1. /\ hour' = hour /\ used' = used /\ statistics' = statistics /\ late' = late
        /\ fell' = fell /\ bills' = bills /\ meterFaults' = meterFaults
    BY <1>4 DEF PA!vars
  <2>2. \A h : Row(h)' = Row(h)
    BY <2>1 DEF Row
  <2>3. Row(hour)' = Row(hour)
    BY <2>1 DEF Row
  <2>4. PA!TypeOK'
    BY <2>1 DEF AnalysisInv, PA!TypeOK
  <2> QED
    BY <2>1, <2>2, <2>3, <2>4 DEF AnalysisInv
<1> QED
  BY <1>1, <1>2, <1>3, <1>4 DEF PA!Next
=============================================================================
