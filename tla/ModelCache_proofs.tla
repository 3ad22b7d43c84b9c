--------------------------- MODULE ModelCache_proofs ---------------------------
(***************************************************************************)
(* Proofs about ModelCache, for every set of manifests, every number and   *)
(* size of files, and any number of faults.                                *)
(***************************************************************************)
EXTENDS ModelCache, TLAPS

LEMMA IndexType == N \in Nat /\ 1 \in Index /\ N \in Index
BY CacheAssumption DEF Index

\* What a manifest pins is a file of the type, of a size at least one unit.
LEMMA WantType ==
  ASSUME NEW m \in Manifests, NEW i \in Index
  PROVE  /\ Want(m, i) \in Tags
         /\ Whole(Want(m, i)) \in Files
         /\ SizeOf(Want(m, i)) \in Nat \ {0}
         /\ \A n \in 0 .. SizeOf(Want(m, i)) : n \in Sizes \cup {0}
<1>1. Want(m, i) \in Tags
  BY CacheAssumption DEF Index
<1>2. SizeOf(Want(m, i)) \in Nat \ {0}
  BY <1>1, CacheAssumption
<1>3. \A n \in 1 .. SizeOf(Want(m, i)) : n \in Sizes
  BY <1>1 DEF Sizes
<1>4. Whole(Want(m, i)) \in Files
  BY <1>1, <1>2, <1>3 DEF Whole, Files
<1> QED BY <1>1, <1>2, <1>3, <1>4

\* Some manifest and file exist, so Empty is a file.
LEMMA EmptyType == Empty \in Files /\ Empty.len = 0 /\ Empty.tag = Junk
BY DEF Empty, Files

\* Readable files are never the value that stands for no file.
LEMMA FileParts ==
  ASSUME NEW f \in Files
  PROVE  /\ f.tag \in Tags \cup {Junk, Rotten}
         /\ f.len \in Sizes \cup {0}
         /\ f.len \in Nat
<1>1. f.tag \in Tags \cup {Junk, Rotten} /\ f.len \in Sizes \cup {0}
  BY DEF Files
<1>2. \A n \in Sizes : n \in Nat
  BY CacheAssumption DEF Sizes
<1> QED BY <1>1, <1>2

LEMMA NoneIsNoFile == None \notin Files /\ None \notin Manifests
BY CacheAssumption

\* A beginning of a file is as long as some file.
LEMMA SizesClosed ==
  ASSUME NEW n \in Sizes \cup {0}, NEW k \in 0 .. n
  PROVE  k \in Sizes \cup {0}
<1>1. CASE n = 0
  BY <1>1
<1>2. CASE n \in Sizes
  <2>1. PICK t \in Tags : n \in 1 .. SizeOf(t)
    BY <1>2 DEF Sizes
  <2>2. SizeOf(t) \in Nat
    BY CacheAssumption
  <2>3. k = 0 \/ k \in 1 .. SizeOf(t)
    BY <2>1, <2>2
  <2> QED BY <2>3 DEF Sizes
<1> QED BY <1>1, <1>2

LEMMA MakeFile ==
  ASSUME NEW t \in Tags \cup {Junk, Rotten}, NEW n \in Sizes \cup {0}
  PROVE  [tag |-> t, len |-> n] \in Files
BY DEF Files

LEMMA PutFile ==
  ASSUME NEW d \in [Roots -> [Index -> Files \cup {None}]],
         NEW r \in Roots, NEW i \in Index, NEW f \in Files \cup {None}
  PROVE  [d EXCEPT ![r][i] = f] \in [Roots -> [Index -> Files \cup {None}]]
OBVIOUS

-----------------------------------------------------------------------------
(* Type correctness *)

TypeInv == TypeOK /\ StreamInv

LEMMA NextType ==
  ASSUME TypeOK, NEW r \in Roots, NextFile(r)
  PROVE  pc' \in [Roots -> Pcs] /\ idx' \in [Roots -> Index]
<1>1. idx[r] \in Index /\ idx[r] # N => idx[r] + 1 \in Index
  BY IndexType DEF TypeOK, Index
<1>2. idx' \in [Roots -> Index]
  BY <1>1 DEF NextFile, TypeOK
<1>3. pc' \in [Roots -> Pcs]
  BY DEF NextFile, Goto, TypeOK, Pcs
<1> QED BY <1>2, <1>3

LEMMA TypeInit == Init => TypeInv
<1> SUFFICES ASSUME Init PROVE TypeInv
  OBVIOUS
<1>1. reply \in [tag : Tags \cup {Junk}, pos : Sizes \cup {0}]
  BY DEF Init, NoReply
<1>2. faults \in 0 .. Faults
  BY CacheAssumption DEF Init
<1>3. TypeOK
  BY <1>1, <1>2, IndexType DEF Init, TypeOK, Pcs
<1>4. StreamInv
  BY DEF Init, StreamInv, At, Roots
<1> QED BY <1>3, <1>4 DEF TypeInv

LEMMA TypeStep == TypeInv /\ [Next]_vars => TypeInv'
<1> SUFFICES ASSUME TypeInv, [Next]_vars PROVE TypeInv'
  OBVIOUS
<1> USE DEF TypeInv
<1>a. "archive" \in Roots /\ "local" \in Roots /\ "archive" # "local"
  BY DEF Roots
<1>b. \A r \in Roots : pc[r] \in Pcs /\ man[r] \in Manifests /\ idx[r] \in Index
  BY DEF TypeOK
<1>c. \A r \in Roots, i \in Index :
        dest[r][i] \in Files \cup {None} /\ part[r][i] \in Files \cup {None}
  BY DEF TypeOK
<1>1. ASSUME NEW r \in Roots, Start(r) PROVE TypeInv'
  BY <1>1, <1>a DEF Start, TypeOK, StreamInv, At, Goto, disk, Pcs
<1>2. ASSUME NEW r \in Roots, Begin(r) PROVE TypeInv'
  BY <1>2, <1>a, IndexType DEF Begin, TypeOK, StreamInv, At, Goto, Pcs
<1>3. ASSUME NEW r \in Roots, Finish(r) PROVE TypeInv'
  BY <1>3, <1>a DEF Finish, TypeOK, StreamInv, At, Goto, Pcs
<1>4. ASSUME NEW r \in Roots, Verify(r) PROVE TypeInv'
  <2>1. Valid(part[r][idx[r]], man[r], idx[r]) => part[r][idx[r]] \in Files
    BY <1>b, WantType DEF Valid
  <2> DEFINE ok == Valid(part[r][idx[r]], man[r], idx[r])
  <2>2. dest' \in [Roots -> [Index -> Files \cup {None}]]
    <3>1. CASE ok
      <4>1. dest' = [dest EXCEPT ![r][idx[r]] = part[r][idx[r]]]
        BY <1>4, <3>1 DEF Verify
      <4> QED BY <1>b, <2>1, <3>1, <4>1, PutFile DEF TypeOK
    <3>2. CASE ~ok
      BY <1>4, <3>2 DEF Verify, TypeOK
    <3> QED BY <3>1, <3>2
  <2>3. part' \in [Roots -> [Index -> Files \cup {None}]]
    BY <1>4, <1>b DEF Verify, PutPart, TypeOK
  <2>4. pc' \in [Roots -> Pcs] /\ idx' \in [Roots -> Index]
    <3>1. CASE ok
      BY <1>4, <1>b, <3>1, NextType DEF Verify, TypeOK
    <3>2. CASE ~ok
      BY <1>4, <3>2 DEF Verify, Goto, TypeOK, Pcs
    <3> QED BY <3>1, <3>2
  <2>5. TypeOK'
    BY <1>4, <2>2, <2>3, <2>4 DEF Verify, TypeOK
  <2>6. \A s \in Roots : pc'[s] = "transfer" =>
          s # r /\ pc[s] = "transfer" /\ idx'[s] = idx[s] /\ part'[s] = part[s]
    BY <1>4 DEF Verify, NextFile, Goto, PutPart, TypeOK
  <2>7. \A s \in Roots, i \in Index : dest[s][i] # None => dest'[s][i] # None
    <3>1. CASE ok
      <4>1. dest' = [dest EXCEPT ![r][idx[r]] = part[r][idx[r]]]
        BY <1>4, <3>1 DEF Verify
      <4> QED
        BY <1>b, <2>1, <3>1, <4>1, NoneIsNoFile DEF TypeOK
    <3>2. CASE ~ok
      BY <1>4, <3>2 DEF Verify
    <3> QED
      BY <3>1, <3>2
  <2>8. StreamInv'
    BY <1>4, <1>a, <1>b, <2>6, <2>7 DEF Verify, StreamInv, At
  <2> QED BY <2>5, <2>8
<1>5. ASSUME SkipValid PROVE TypeInv'
  BY <1>5, <1>a, <1>b, IndexType
     DEF SkipValid, NextFile, TypeOK, StreamInv, At, Goto, Pcs, disk, Index
<1>6. ASSUME Request PROVE TypeInv'
  <2> DEFINE i == idx["archive"]
             t == Wanted("archive")
             kept == KeptPart(part["archive"][i], t)
  <2>1. /\ i \in Index
        /\ t \in Tags
        /\ Length(kept) \in 0 .. SizeOf(t) /\ Length(kept) \in Sizes \cup {0}
        /\ kept \in Files \cup {None}
        /\ Length(kept) > 0 => kept \in Files /\ kept.len = Length(kept)
    <3>1. i \in Index /\ t \in Tags /\ SizeOf(t) \in Nat \ {0}
      BY <1>a, <1>b, WantType DEF Wanted
    <3>2. part["archive"][i] \in Files \cup {None}
      BY <1>a, <1>c, <3>1
    <3> HIDE DEF t, i
    <3>3. CASE part["archive"][i] \in Files
      BY <3>1, <3>2, <3>3, FileParts, NoneIsNoFile DEF KeptPart, Length
    <3>4. CASE part["archive"][i] = None
      BY <3>1, <3>4 DEF KeptPart, Length
    <3> QED BY <3>2, <3>3, <3>4
  <2> HIDE DEF t, kept, i
  <2>2. CASE \E body \in {t} \cup (IF faults > 0 THEN {Junk} ELSE {}) :
               /\ faults' = IF body = t THEN faults ELSE faults - 1
               /\ \E resume \in {FALSE} \cup (IF Length(kept) > 0 THEN {TRUE} ELSE {}) :
                    /\ reply' = [tag |-> body, pos |-> IF resume THEN Length(kept) ELSE 0]
                    /\ PutPart("archive", i, Opened(kept, resume))
               /\ Goto("archive", "transfer")
    <3>1. PICK body \in Tags \cup {Junk}, resume \in BOOLEAN :
            /\ faults' = faults \/ (faults > 0 /\ faults' = faults - 1)
            /\ reply' = [tag |-> body, pos |-> IF resume THEN Length(kept) ELSE 0]
            /\ PutPart("archive", i, Opened(kept, resume))
            /\ resume => Length(kept) > 0
      <4>1. PICK body \in {t} \cup (IF faults > 0 THEN {Junk} ELSE {}) :
               /\ faults' = IF body = t THEN faults ELSE faults - 1
               /\ \E resume \in {FALSE} \cup (IF Length(kept) > 0 THEN {TRUE} ELSE {}) :
                    /\ reply' = [tag |-> body, pos |-> IF resume THEN Length(kept) ELSE 0]
                    /\ PutPart("archive", i, Opened(kept, resume))
        BY <2>2
      <4>2. /\ body \in Tags \cup {Junk}
            /\ faults' = faults \/ (faults > 0 /\ faults' = faults - 1)
        BY <2>1, <4>1
      <4>3. PICK resume \in {FALSE} \cup (IF Length(kept) > 0 THEN {TRUE} ELSE {}) :
               /\ reply' = [tag |-> body, pos |-> IF resume THEN Length(kept) ELSE 0]
               /\ PutPart("archive", i, Opened(kept, resume))
        BY <4>1
      <4>4. resume \in BOOLEAN /\ (resume => Length(kept) > 0)
        BY <4>3
      <4> QED BY <4>2, <4>3, <4>4
    <3>2. Opened(kept, resume) \in Files /\ Opened(kept, resume).len = reply'.pos
      BY <2>1, <3>1, EmptyType DEF Opened
    <3>3. reply' \in [tag : Tags \cup {Junk}, pos : Sizes \cup {0}]
      BY <2>1, <3>1
    <3>4. part' \in [Roots -> [Index -> Files \cup {None}]] /\ part'["archive"][i] = Opened(kept, resume)
      BY <1>a, <2>1, <3>1, <3>2 DEF PutPart, TypeOK
    <3>5. faults' \in 0 .. Faults
      BY <3>1, CacheAssumption DEF TypeOK
    <3>6. TypeOK'
      BY <1>6, <2>2, <3>3, <3>4, <3>5 DEF Request, Goto, TypeOK, Pcs
    <3>7. StreamInv'
      BY <1>6, <1>a, <2>2, <3>2, <3>4, NoneIsNoFile DEF Request, Goto, StreamInv, At, TypeOK, i
    <3> QED BY <3>6, <3>7
  <2>3. CASE /\ faults > 0
             /\ faults' = faults - 1
             /\ PutPart("archive", i, kept)
             /\ Goto("archive", "failed")
             /\ UNCHANGED reply
    <3>1. TypeOK'
      BY <1>6, <1>a, <2>1, <2>3, CacheAssumption DEF Request, Goto, PutPart, TypeOK, Pcs
    <3>2. StreamInv'
      BY <1>6, <1>a, <2>3 DEF Request, Goto, StreamInv, At, TypeOK
    <3> QED BY <3>1, <3>2
  <2> QED
    <3> USE DEF i, t, kept
    <3> QED BY <1>6, <2>2, <2>3 DEF Request
<1>7. ASSUME ReceiveChunk PROVE TypeInv'
  <2> DEFINE i == idx["archive"]
             f == Append(part["archive"][i], reply.tag, reply.pos)
  <2>1. /\ i \in Index
        /\ SizeOf(Wanted("archive")) \in Nat
        /\ \A n \in 0 .. SizeOf(Wanted("archive")) : n \in Sizes \cup {0}
    BY <1>a, <1>b, WantType DEF Wanted
  <2>2. part["archive"][i] \in Files /\ part["archive"][i].len = reply.pos
    BY <1>7, <1>a, <1>c, <2>1 DEF ReceiveChunk, StreamInv, At
  <2>3. reply.pos \in Nat /\ reply.pos + 1 \in Sizes \cup {0}
    BY <1>7, <2>1, <2>2, FileParts DEF ReceiveChunk
  <2>4. reply.tag \in Tags \cup {Junk}
    BY DEF TypeOK
  <2>5. f \in Files /\ f.len = reply.pos + 1
    BY <2>2, <2>3, <2>4, MakeFile DEF Append
  <2> HIDE DEF f
  <2>6. reply' \in [tag : Tags \cup {Junk}, pos : Sizes \cup {0}] /\ reply'.pos = f.len
    BY <1>7, <2>3, <2>4, <2>5 DEF ReceiveChunk, TypeOK
  <2>7. part' \in [Roots -> [Index -> Files \cup {None}]] /\ part'["archive"][i] = f
    BY <1>7, <1>a, <2>1, <2>5 DEF ReceiveChunk, PutPart, TypeOK, f
  <2>8. TypeOK'
    BY <1>7, <2>6, <2>7 DEF ReceiveChunk, TypeOK, job
  <2>9. StreamInv'
    BY <1>7, <2>5, <2>6, <2>7, NoneIsNoFile DEF ReceiveChunk, StreamInv, At, job
  <2> QED BY <2>8, <2>9
<1>8. ASSUME EndOfReply PROVE TypeInv'
  <2>1. faults' \in 0 .. Faults
    BY <1>8, CacheAssumption DEF EndOfReply, TypeOK
  <2>2. reply' \in [tag : Tags \cup {Junk}, pos : Sizes \cup {0}]
    BY <1>8 DEF EndOfReply, NoReply
  <2> QED
    BY <1>8, <1>a, <2>1, <2>2 DEF EndOfReply, Goto, TypeOK, StreamInv, At, disk, Pcs
<1>9. ASSUME CheckSource PROVE TypeInv'
  BY <1>9, <1>a DEF CheckSource, TypeOK, StreamInv, At, Goto, disk, Pcs
<1>10. ASSUME CheckOrigin PROVE TypeInv'
  <2> DEFINE i == idx["local"]
  <2>1. CASE ~Valid(dest["archive"][i], man["local"], i)
    BY <1>10, <1>a, <2>1 DEF CheckOrigin, Goto, TypeOK, StreamInv, At, disk, Pcs
  <2>2. CASE Valid(dest["archive"][i], man["local"], i) /\ Valid(dest["local"][i], man["local"], i)
    <3>1. NextFile("local")
      BY <1>10, <2>2 DEF CheckOrigin
    <3>2. TypeOK'
      BY <1>10, <1>a, <3>1, NextType DEF CheckOrigin, TypeOK, disk
    <3>3. StreamInv'
      BY <1>10, <1>a, <3>1 DEF CheckOrigin, NextFile, Goto, TypeOK, StreamInv, At, disk
    <3> QED BY <3>2, <3>3
  <2>3. CASE Valid(dest["archive"][i], man["local"], i) /\ ~Valid(dest["local"][i], man["local"], i)
    <3>1. dest["archive"][i] # None
      BY <1>a, <1>b, <2>3, WantType, NoneIsNoFile DEF Valid
    <3>2. Goto("local", "transfer") /\ UNCHANGED idx
      BY <1>10, <2>3 DEF CheckOrigin
    <3> QED
      BY <1>10, <1>a, <3>1, <3>2 DEF CheckOrigin, Goto, TypeOK, StreamInv, At, disk, Pcs
  <2> QED BY <2>1, <2>2, <2>3
<1>11. ASSUME CopyFile PROVE TypeInv'
  <2>1. part' \in [Roots -> [Index -> Files \cup {None}]]
    BY <1>11, <1>a, <1>b, <1>c, PutFile DEF CopyFile, PutPart, TypeOK
  <2>2. TypeOK'
    BY <1>11, <1>a, <2>1 DEF CopyFile, Goto, TypeOK, Pcs
  <2>3. StreamInv'
    BY <1>11, <1>a DEF CopyFile, Goto, PutPart, TypeOK, StreamInv, At
  <2> QED BY <2>2, <2>3
<1>12. ASSUME Wait PROVE TypeInv'
  BY <1>12 DEF Wait, TypeOK, StreamInv, At, disk, job
<1>13. ASSUME NEW r \in Roots, Crash(r) PROVE TypeInv'
  <2>1. faults' \in 0 .. Faults
    BY <1>13, CacheAssumption DEF Crash, Fault, TypeOK
  <2>2. part' \in [Roots -> [Index -> Files \cup {None}]]
    <3>1. CASE UNCHANGED part
      BY <3>1 DEF TypeOK
    <3>2. CASE r = "local" /\ At(r, "transfer")
      <4> DEFINE f == dest["archive"][idx[r]]
      <4>1. f \in Files
        BY <1>a, <1>b, <1>c, <3>2 DEF StreamInv
      <4> HIDE DEF f
      <4>2. PICK n \in 0 .. f.len : PutPart(r, idx[r], [f EXCEPT !.len = n])
        BY <1>13, <3>2 DEF Crash, f
      <4>3. n \in Sizes \cup {0}
        BY <4>1, <4>2, SizesClosed, FileParts
      <4>4. [f EXCEPT !.len = n] \in Files
        BY <4>1, <4>3 DEF Files
      <4> QED BY <1>b, <4>2, <4>4, PutFile DEF PutPart, TypeOK
    <3> QED BY <1>13, <3>1, <3>2 DEF Crash
  <2>3. reply' \in [tag : Tags \cup {Junk}, pos : Sizes \cup {0}]
    BY <1>13 DEF Crash, NoReply, TypeOK
  <2>4. TypeOK'
    BY <1>13, <2>1, <2>2, <2>3 DEF Crash, Goto, TypeOK, Pcs
  <2>5. At("archive", "transfer")' => r # "archive" /\ UNCHANGED <<part["archive"], reply>>
    BY <1>13, <1>a DEF Crash, Goto, PutPart, At, TypeOK
  <2>6. At("local", "transfer")' => At("local", "transfer")
    BY <1>13, <1>a DEF Crash, Goto, At, TypeOK
  <2>7. At("archive", "transfer")' => At("archive", "transfer")
    BY <1>13, <1>a DEF Crash, Goto, At, TypeOK
  <2>8. StreamInv'
    BY <1>13, <2>5, <2>6, <2>7 DEF Crash, StreamInv
  <2> QED BY <2>4, <2>8
<1>14. ASSUME NEW r \in Roots, Restart(r) PROVE TypeInv'
  BY <1>14, <1>a DEF Restart, TypeOK, StreamInv, At, Goto, disk, Pcs
<1>15. ASSUME NEW r \in Roots, Resync(r) PROVE TypeInv'
  BY <1>15, <1>a DEF Resync, TypeOK, StreamInv, At, Goto, disk, Pcs
<1>16. ASSUME ManifestChanges PROVE TypeInv'
  <2>1. faults' \in 0 .. Faults
    BY <1>16, CacheAssumption DEF ManifestChanges, Fault, TypeOK
  <2> QED
    BY <1>16, <2>1 DEF ManifestChanges, TypeOK, StreamInv, At, disk, job
<1>17. ASSUME NEW r \in Roots, NEW i \in Index, Rot(r, i) PROVE TypeInv'
  <2>1. faults' \in 0 .. Faults
    BY <1>17, CacheAssumption DEF Rot, Fault, TypeOK
  <2>2. PICK n \in {dest[r][i].len, 0} : dest' = [dest EXCEPT ![r][i] = [tag |-> Rotten, len |-> n]]
    BY <1>17 DEF Rot
  <2>3. dest[r][i] \in Files
    BY <1>17, <1>c DEF Rot
  <2>4. [tag |-> Rotten, len |-> n] \in Files
    BY <2>2, <2>3, MakeFile, FileParts
  <2>5. dest' \in [Roots -> [Index -> Files \cup {None}]]
    BY <2>2, <2>4, PutFile DEF TypeOK
  <2>6. \A s \in Roots, j \in Index : dest[s][j] # None => dest'[s][j] # None
    BY <2>2, <2>4, NoneIsNoFile DEF TypeOK
  <2>7. TypeOK'
    BY <1>17, <2>1, <2>5 DEF Rot, TypeOK, job
  <2>8. StreamInv'
    BY <1>17, <1>a, <1>b, <2>6 DEF Rot, StreamInv, At, job
  <2> QED BY <2>7, <2>8
<1>18. CASE UNCHANGED vars
  BY <1>18 DEF vars, TypeOK, StreamInv, At, disk, job
<1> QED
  BY <1>1, <1>2, <1>3, <1>4, <1>5, <1>6, <1>7, <1>8, <1>9, <1>10, <1>11, <1>12,
     <1>13, <1>14, <1>15, <1>16, <1>17, <1>18, <1>a
     DEF Next, Download, Sync, Steps

\* Every variable keeps its type: no file grows past what a manifest pins.
THEOREM TypeCorrect == Spec => []TypeOK
<1>1. TypeInv => TypeOK
  BY DEF TypeInv
<1> QED BY <1>1, TypeInit, TypeStep, PTL DEF Spec

-----------------------------------------------------------------------------
(* Readiness *)

ReadyInv == TypeInv /\ MarkerInv /\ ProgressInv

\* What root r contributes to the two invariants.
RootInv(r) ==
  /\ Writing(r) => marker[r] = None
  /\ \A m \in Manifests : marker[r] = m => Verified(r, m)
  /\ pc[r] \in {"source", "file", "transfer", "verify"} =>
       \A j \in Index : j < idx[r] => Sound(dest[r][j], man[r], j)
  /\ At(r, "finish") => Verified(r, man[r])

LEMMA ReadyByRoot == ReadyInv <=> TypeInv /\ \A r \in Roots : RootInv(r)
BY DEF ReadyInv, MarkerInv, ProgressInv, RootInv

\* A root nothing happened to keeps its part.
LEMMA RootFrame ==
  ASSUME NEW r \in Roots, RootInv(r),
         dest'[r] = dest[r], marker'[r] = marker[r], pc'[r] = pc[r],
         man'[r] = man[r], idx'[r] = idx[r]
  PROVE  RootInv(r)'
BY DEF RootInv, Writing, Verified, Sound, Rotted, Valid, At

\* A job that is not between begin and finish owes only its marker.
LEMMA RootIdle ==
  ASSUME NEW r \in Roots, RootInv(r),
         dest'[r] = dest[r], marker'[r] = marker[r],
         pc'[r] \in {"start", "begin", "done", "failed"}
  PROVE  RootInv(r)'
BY DEF RootInv, Writing, Verified, Sound, Rotted, Valid, At

\* A job that goes on with the file it is at.
LEMMA RootMoves ==
  ASSUME NEW r \in Roots, RootInv(r),
         dest'[r] = dest[r], marker'[r] = marker[r], man'[r] = man[r], idx'[r] = idx[r],
         pc[r] \in {"source", "file", "transfer"},
         pc'[r] \in {"file", "transfer", "verify", "failed"}
  PROVE  RootInv(r)'
BY DEF RootInv, Writing, Verified, Sound, Rotted, Valid, At

\* Going on to the next file, or to the marker, when this one is verified.
LEMMA RootNext ==
  ASSUME TypeInv, NEW r \in Roots, RootInv(r), NextFile(r),
         pc[r] \in {"file", "verify"},
         marker'[r] = marker[r], man'[r] = man[r],
         \A j \in Index : j # idx[r] => dest'[r][j] = dest[r][j],
         Valid(dest'[r][idx[r]], man[r], idx[r])
  PROVE  RootInv(r)'
<1>1. idx[r] \in Index /\ idx \in [Roots -> Index] /\ pc \in [Roots -> Pcs]
  BY DEF TypeInv, TypeOK
<1>2. marker'[r] = None
  BY DEF RootInv, Writing
<1>3. \A j \in Index : j < idx[r] \/ j = idx[r] => Sound(dest'[r][j], man'[r], j)
  BY <1>1 DEF RootInv, Index, Sound, Rotted, Valid
<1>4. CASE idx[r] = N
  <2>1. pc'[r] = "finish"
    BY <1>1, <1>4 DEF NextFile, Goto
  <2>2. Verified(r, man[r])'
    BY <1>3, <1>4, IndexType DEF Verified, Index, Sound, Rotted, Valid
  <2> QED BY <1>2, <2>1, <2>2, NoneIsNoFile DEF RootInv, Writing, At
<1>5. CASE idx[r] # N
  <2>1. pc'[r] = "file" /\ idx'[r] = idx[r] + 1
    BY <1>1, <1>5 DEF NextFile, Goto
  <2>2. \A j \in Index : j < idx'[r] => Sound(dest'[r][j], man'[r], j)
    BY <1>1, <1>3, <2>1, IndexType DEF Index
  <2> QED BY <1>2, <2>1, <2>2, NoneIsNoFile DEF RootInv, Writing, At, Sound, Rotted, Valid
<1> QED BY <1>4, <1>5

LEMMA ReadyInit == Init => ReadyInv
<1> SUFFICES ASSUME Init PROVE ReadyInv
  OBVIOUS
<1>1. \A r \in Roots : RootInv(r)
  BY NoneIsNoFile DEF Init, RootInv, Writing, At
<1> QED BY <1>1, TypeInit, ReadyByRoot

LEMMA ReadyStep == ReadyInv /\ [Next]_vars => ReadyInv'
<1> SUFFICES ASSUME ReadyInv, [Next]_vars PROVE ReadyInv'
  OBVIOUS
<1>a. TypeInv /\ TypeInv' /\ \A r \in Roots : RootInv(r)
  BY TypeStep, ReadyByRoot
<1>b. "archive" \in Roots /\ "local" \in Roots /\ "archive" # "local"
  BY DEF Roots
<1> SUFFICES ASSUME NEW s \in Roots PROVE RootInv(s)'
  BY <1>a DEF ReadyInv, MarkerInv, ProgressInv, RootInv
<1>c. RootInv(s) /\ idx[s] \in Index
  BY <1>a DEF TypeInv, TypeOK
<1>d. /\ pc \in [Roots -> Pcs] /\ man \in [Roots -> Manifests] /\ idx \in [Roots -> Index]
      /\ marker \in [Roots -> Manifests \cup {None}]
      /\ dest \in [Roots -> [Index -> Files \cup {None}]]
  BY <1>a DEF TypeInv, TypeOK
<1>1. ASSUME NEW r \in Roots, Start(r) PROVE RootInv(s)'
  <2>1. CASE s = r
    BY <1>1, <1>c, <1>d, <2>1, RootIdle DEF Start, Goto, disk
  <2>2. CASE s # r
    BY <1>1, <1>c, <1>d, <2>2, RootFrame DEF Start, Goto, disk
  <2> QED BY <2>1, <2>2
<1>2. ASSUME NEW r \in Roots, Begin(r) PROVE RootInv(s)'
  <2>1. CASE s = r
    <3>1. marker'[s] = None /\ pc'[s] \in {"source", "file"} /\ idx'[s] = 1
      BY <1>2, <1>d, <2>1 DEF Begin, Goto
    <3>2. \A j \in Index : ~(j < idx'[s])
      BY <3>1 DEF Index
    <3> QED BY <3>1, <3>2, NoneIsNoFile DEF RootInv, Writing, At
  <2>2. CASE s # r
    BY <1>2, <1>c, <1>d, <2>2, RootFrame DEF Begin, Goto
  <2> QED BY <2>1, <2>2
<1>3. ASSUME NEW r \in Roots, Finish(r) PROVE RootInv(s)'
  <2>1. CASE s = r
    <3>1. marker'[s] = man[s] /\ pc'[s] = "done" /\ dest'[s] = dest[s] /\ Verified(s, man[s])
      BY <1>3, <1>c, <1>d, <2>1 DEF Finish, Goto, RootInv
    <3> QED BY <3>1 DEF RootInv, Writing, At, Verified, Sound, Rotted, Valid
  <2>2. CASE s # r
    BY <1>3, <1>c, <1>d, <2>2, RootFrame DEF Finish, Goto
  <2> QED BY <2>1, <2>2
<1>4. ASSUME NEW r \in Roots, Verify(r) PROVE RootInv(s)'
  <2>1. CASE s # r
    BY <1>4, <1>c, <1>d, <2>1, RootFrame DEF Verify, NextFile, Goto
  <2>2. CASE s = r /\ Valid(part[r][idx[r]], man[r], idx[r])
    <3>1. dest' = [dest EXCEPT ![r][idx[r]] = part[r][idx[r]]] /\ NextFile(r)
      BY <1>4, <2>2 DEF Verify
    <3>2. /\ dest'[r][idx[r]] = part[r][idx[r]]
          /\ \A j \in Index : j # idx[r] => dest'[r][j] = dest[r][j]
      BY <1>c, <1>d, <2>2, <3>1
    <3>3. pc[r] = "verify" /\ marker' = marker /\ man' = man
      BY <1>4 DEF Verify, At
    <3> QED BY <1>a, <1>c, <2>2, <3>1, <3>2, <3>3, RootNext
  <2>3. CASE s = r /\ ~Valid(part[r][idx[r]], man[r], idx[r])
    BY <1>4, <1>c, <1>d, <2>3, RootIdle DEF Verify, Goto
  <2> QED BY <2>1, <2>2, <2>3
<1>5. ASSUME SkipValid PROVE RootInv(s)'
  <2>1. CASE s = "archive"
    BY <1>5, <1>a, <1>c, <2>1, RootNext DEF SkipValid, disk, At
  <2>2. CASE s # "archive"
    BY <1>5, <1>c, <1>d, <2>2, RootFrame DEF SkipValid, NextFile, Goto, disk
  <2> QED BY <2>1, <2>2
<1>6. ASSUME Request PROVE RootInv(s)'
  <2>1. CASE s = "archive"
    <3>1. pc[s] \in {"source", "file", "transfer"} /\ pc'[s] \in {"file", "transfer", "verify", "failed"}
      BY <1>6, <1>d, <2>1 DEF Request, At, Goto
    <3> QED BY <1>6, <1>c, <3>1, RootMoves DEF Request
  <2>2. CASE s # "archive"
    BY <1>6, <1>c, <1>d, <2>2, RootFrame DEF Request, Goto
  <2> QED BY <2>1, <2>2
<1>7. ASSUME ReceiveChunk PROVE RootInv(s)'
  BY <1>7, <1>c, RootFrame DEF ReceiveChunk, job
<1>8. ASSUME EndOfReply PROVE RootInv(s)'
  <2>1. CASE s = "archive"
    <3>1. pc[s] \in {"source", "file", "transfer"} /\ pc'[s] \in {"file", "transfer", "verify", "failed"}
      BY <1>8, <1>d, <2>1 DEF EndOfReply, At, Goto, disk
    <3> QED BY <1>8, <1>c, <3>1, RootMoves DEF EndOfReply, disk
  <2>2. CASE s # "archive"
    BY <1>8, <1>c, <1>d, <2>2, RootFrame DEF EndOfReply, Goto, disk
  <2> QED BY <2>1, <2>2
<1>9. ASSUME CheckSource PROVE RootInv(s)'
  <2>1. CASE s = "local"
    <3>1. pc[s] \in {"source", "file", "transfer"} /\ pc'[s] \in {"file", "transfer", "verify", "failed"}
      BY <1>9, <1>d, <2>1 DEF CheckSource, At, Goto, disk
    <3> QED BY <1>9, <1>c, <3>1, RootMoves DEF CheckSource, disk
  <2>2. CASE s # "local"
    BY <1>9, <1>c, <1>d, <2>2, RootFrame DEF CheckSource, Goto, disk
  <2> QED BY <2>1, <2>2
<1>10. ASSUME CheckOrigin PROVE RootInv(s)'
  <2>1. CASE s # "local"
    BY <1>10, <1>c, <1>d, <2>1, RootFrame DEF CheckOrigin, NextFile, Goto, disk
  <2>2. CASE s = "local" /\ NextFile("local")
                         /\ Valid(dest["local"][idx["local"]], man["local"], idx["local"])
    BY <1>10, <1>a, <1>c, <2>2, RootNext DEF CheckOrigin, disk, At
  <2>3. CASE s = "local" /\ (Goto("local", "transfer") \/ Goto("local", "failed"))
                         /\ UNCHANGED idx
    <3>1. pc[s] = "file" /\ pc'[s] \in {"transfer", "failed"}
      BY <1>10, <1>d, <2>3 DEF CheckOrigin, At, Goto
    <3> QED BY <1>10, <1>c, <2>3, <3>1, RootMoves DEF CheckOrigin, disk
  <2> QED BY <1>10, <2>1, <2>2, <2>3 DEF CheckOrigin
<1>11. ASSUME CopyFile PROVE RootInv(s)'
  <2>1. CASE s = "local"
    <3>1. pc[s] \in {"source", "file", "transfer"} /\ pc'[s] \in {"file", "transfer", "verify", "failed"}
      BY <1>11, <1>d, <2>1 DEF CopyFile, At, Goto
    <3> QED BY <1>11, <1>c, <3>1, RootMoves DEF CopyFile
  <2>2. CASE s # "local"
    BY <1>11, <1>c, <1>d, <2>2, RootFrame DEF CopyFile, Goto
  <2> QED BY <2>1, <2>2
<1>12. ASSUME Wait PROVE RootInv(s)'
  BY <1>12, <1>c, RootFrame DEF Wait, disk, job
<1>13. ASSUME NEW r \in Roots, Crash(r) PROVE RootInv(s)'
  <2>1. CASE s = r
    BY <1>13, <1>c, <1>d, <2>1, RootIdle DEF Crash, Goto
  <2>2. CASE s # r
    BY <1>13, <1>c, <1>d, <2>2, RootFrame DEF Crash, Goto
  <2> QED BY <2>1, <2>2
<1>14. ASSUME NEW r \in Roots, Restart(r) PROVE RootInv(s)'
  <2>1. CASE s = r
    BY <1>14, <1>c, <1>d, <2>1, RootIdle DEF Restart, Goto, disk
  <2>2. CASE s # r
    BY <1>14, <1>c, <1>d, <2>2, RootFrame DEF Restart, Goto, disk
  <2> QED BY <2>1, <2>2
<1>15. ASSUME NEW r \in Roots, Resync(r) PROVE RootInv(s)'
  <2>1. CASE s = r
    BY <1>15, <1>c, <1>d, <2>1, RootIdle DEF Resync, Goto, disk
  <2>2. CASE s # r
    BY <1>15, <1>c, <1>d, <2>2, RootFrame DEF Resync, Goto, disk
  <2> QED BY <2>1, <2>2
<1>16. ASSUME ManifestChanges PROVE RootInv(s)'
  BY <1>16, <1>c, RootFrame DEF ManifestChanges, disk, job
<1>17. ASSUME NEW r \in Roots, NEW i \in Index, Rot(r, i) PROVE RootInv(s)'
  <2>1. CASE s = r
    <3>1. PICK n \in {dest[r][i].len, 0} : dest' = [dest EXCEPT ![r][i] = [tag |-> Rotten, len |-> n]]
      BY <1>17 DEF Rot
    <3>2. Rotted(dest'[s][i])
      <4>1. dest[r][i] \in Files
        BY <1>17, <1>d DEF Rot
      <4>2. [tag |-> Rotten, len |-> n] \in Files
        BY <3>1, <4>1, MakeFile, FileParts
      <4> QED BY <1>d, <2>1, <3>1, <4>2, NoneIsNoFile DEF Rotted
    <3>3. \A j \in Index : j # i => dest'[s][j] = dest[s][j]
      BY <1>d, <2>1, <3>1
    <3>4. \A j \in Index, m \in Manifests : Sound(dest[s][j], m, j) => Sound(dest'[s][j], m, j)
      BY <3>2, <3>3 DEF Sound
    <3>5. marker'[s] = marker[s] /\ pc'[s] = pc[s] /\ man'[s] = man[s] /\ idx'[s] = idx[s]
      BY <1>17 DEF Rot, job
    <3>6. \A m \in Manifests : Verified(s, m) => Verified(s, m)'
      BY <3>4 DEF Verified, Sound, Rotted, Valid
    <3>7. \A j \in Index : Sound(dest[s][j], man[s], j) => Sound(dest'[s][j], man'[s], j)
      BY <1>d, <3>4, <3>5
    <3> QED BY <1>c, <1>d, <3>5, <3>6, <3>7 DEF RootInv, Writing, At, Verified
  <2>2. CASE s # r
    BY <1>17, <1>c, <1>d, <2>2, RootFrame DEF Rot, job
  <2> QED BY <2>1, <2>2
<1>18. CASE UNCHANGED vars
  BY <1>18, <1>c, RootFrame DEF vars, disk, job
<1> QED
  BY <1>1, <1>2, <1>3, <1>4, <1>5, <1>6, <1>7, <1>8, <1>9, <1>10, <1>11, <1>12,
     <1>13, <1>14, <1>15, <1>16, <1>17, <1>18, <1>b
     DEF Next, Download, Sync, Steps

\* Whatever crashes, bad replies, retries and manifest changes happened, a root that
\* ready() accepts for a manifest holds exactly that manifest's files, but for those
\* the disk has changed since.
THEOREM ReadinessIsHonest == Spec => []ReadyIsVerified
<1>1. ReadyInv => ReadyIsVerified
  BY DEF ReadyInv, MarkerInv, ReadyIsVerified, Ready
<1> QED BY <1>1, ReadyInit, ReadyStep, PTL DEF Spec

-----------------------------------------------------------------------------
(* Nothing incomplete is put in place *)

LEMMA IncompleteStep == TypeInv /\ NeverIncomplete /\ [Next]_vars => NeverIncomplete'
<1> SUFFICES ASSUME TypeInv, NeverIncomplete, [Next]_vars PROVE NeverIncomplete'
  OBVIOUS
<1> SUFFICES ASSUME NEW r \in Roots, NEW i \in Index, dest'[r][i] # None
             PROVE  \E m \in Manifests : Sound(dest'[r][i], m, i)
  BY DEF NeverIncomplete, Sound, Rotted, Valid
<1>a. dest \in [Roots -> [Index -> Files \cup {None}]] /\ man[r] \in Manifests
  BY DEF TypeInv, TypeOK
<1>1. CASE dest'[r][i] = dest[r][i]
  BY <1>1 DEF NeverIncomplete
<1>2. ASSUME NEW s \in Roots, Verify(s), dest'[r][i] # dest[r][i] PROVE Sound(dest'[r][i], man[r], i)
  <2>1. Valid(part[s][idx[s]], man[s], idx[s]) /\ dest' = [dest EXCEPT ![s][idx[s]] = part[s][idx[s]]]
    BY <1>2 DEF Verify
  <2>2. s = r /\ i = idx[s]
    BY <1>a, <1>2, <2>1
  <2> QED BY <1>a, <2>1, <2>2 DEF Sound
<1>3. ASSUME NEW s \in Roots, NEW j \in Index, Rot(s, j), dest'[r][i] # dest[r][i]
      PROVE  Rotted(dest'[r][i])
  <2>1. PICK n \in {dest[s][j].len, 0} : dest' = [dest EXCEPT ![s][j] = [tag |-> Rotten, len |-> n]]
    BY <1>3 DEF Rot
  <2>2. s = r /\ j = i
    BY <1>a, <1>3, <2>1
  <2> QED BY <1>a, <2>1, <2>2 DEF Rotted
<1>4. \/ dest' = dest
      \/ \E s \in Roots : Verify(s)
      \/ \E s \in Roots, j \in Index : Rot(s, j)
  BY DEF Next, Download, Sync, Steps, Roots, vars, disk, Start, Begin, Finish, SkipValid,
         Request, ReceiveChunk, EndOfReply, CheckSource, CheckOrigin, CopyFile, Wait, Crash,
         Restart, Resync, ManifestChanges
<1> QED BY <1>a, <1>1, <1>2, <1>3, <1>4 DEF Sound

\* Under its own name there is never anything but a whole file that some manifest
\* pinned, or what the disk has made of one.
THEOREM NothingIncomplete == Spec => []NeverIncomplete
<1>1. Init => NeverIncomplete
  BY DEF Init, NeverIncomplete
<1> QED BY <1>1, TypeInit, TypeStep, IncompleteStep, PTL DEF Spec

\* What sync puts in place is verified, even if the origin rots or is replaced between
\* its check and the copy.
THEOREM CopiesVerified == Spec => CopiesAreVerified
<1>1. TypeInv /\ [Next]_vars =>
        [\A i \in Index : dest'["local"][i] # dest["local"][i] /\ faults' = faults
           => Valid(dest'["local"][i], man["local"], i)]_vars
  <2> SUFFICES ASSUME TypeInv, [Next]_vars, NEW i \in Index,
                      dest'["local"][i] # dest["local"][i], faults' = faults
               PROVE  Valid(dest'["local"][i], man["local"], i)
    OBVIOUS
  <2>a. dest \in [Roots -> [Index -> Files \cup {None}]] /\ faults \in Nat
    BY CacheAssumption DEF TypeInv, TypeOK
  <2>1. ~\E s \in Roots, j \in Index : Rot(s, j)
    BY <2>a DEF Rot, Fault
  <2>2. PICK s \in Roots : Verify(s)
    BY <2>1 DEF Next, Download, Sync, Steps, Roots, vars, disk, Start, Begin, Finish, SkipValid,
         Request, ReceiveChunk, EndOfReply, CheckSource, CheckOrigin, CopyFile, Wait, Crash,
         Restart, Resync, ManifestChanges
  <2>3. Valid(part[s][idx[s]], man[s], idx[s]) /\ dest' = [dest EXCEPT ![s][idx[s]] = part[s][idx[s]]]
    BY <2>2 DEF Verify
  <2>4. s = "local" /\ i = idx[s]
    BY <2>a, <2>3
  <2> QED BY <2>a, <2>3, <2>4
<1> QED BY <1>1, TypeInit, TypeStep, PTL DEF Spec, CopiesAreVerified
=============================================================================
