--------------------------- MODULE FileReadProofs ---------------------------
(***************************************************************************)
(* Pinned mappings for any number of readers and of compactions: the pins   *)
(* of a file count its readers, so neither the swap of compactGroup nor     *)
(* another reader's unpin takes a mapping away that is being decoded.  And   *)
(* what a reader decodes are bytes of the file it found, until a compacted  *)
(* file is compacted again.                                                 *)
(***************************************************************************)
EXTENDS FileRead, FiniteSetTheorems, TLAPS

\* The inductive invariant: both parts are checked by the runs of FileRead.
PinInv == TypeOK /\ PinnedStaysMapped

-----------------------------------------------------------------------------
(* Counting pins.                                                          *)

\* The readers that pin a version are finitely many.
LEMMA PinningFinite ==
  ASSUME NEW v
  PROVE  IsFiniteSet(Pinning(v)) /\ Cardinality(Pinning(v)) \in Nat
<1>1. Pinning(v) \subseteq Readers
  BY DEF Pinning
<1>2. IsFiniteSet(Pinning(v))
  BY <1>1, FileReadAssumption, FS_Subset
<1> QED
  BY <1>2, FS_CardinalityType

\* A reader that neither takes nor releases a pin leaves the pinning readers
\* as they are.
LEMMA PinningKept ==
  ASSUME NEW r \in Readers, pc[r] # "pinned", pc'[r] # "pinned",
         \A q \in Readers \ {r} : pc'[q] = pc[q] /\ obj'[q] = obj[q],
         NEW v \in Versions
  PROVE  Pinning(v)' = Pinning(v)
  BY DEF Pinning

\* Loading a file maps it at most once, and leaves the other files alone.
LEMMA LoadFacts ==
  ASSUME TypeOK, NEW v \in Versions, Load(v)
  PROVE  /\ mapped' \in [Versions -> 0..MaxVersions]
         /\ spans' \in [Versions -> 0..MaxVersions]
         /\ reader' \in [Versions -> 0..MaxVersions]
         /\ \A x \in Versions : mapped[x] # 0 => mapped'[x] = mapped[x]
<1>1. /\ mapped \in [Versions -> 0..MaxVersions] /\ spans \in [Versions -> 0..MaxVersions]
      /\ reader \in [Versions -> 0..MaxVersions] /\ disk \in [Names -> 0..MaxVersions]
      /\ 0 \in 0..MaxVersions
  BY FileReadAssumption DEF TypeOK
<1>2. Name(v) \in Names
  BY DEF Name, Names
<1>3. Handle(v) \in 0..MaxVersions
  BY <1>1, <1>2 DEF Handle
<1>4. MmapFile(Handle(v)) \in 0..MaxVersions
  BY <1>1, <1>3 DEF MmapFile
<1> QED
  BY <1>1, <1>3, <1>4 DEF Load

-----------------------------------------------------------------------------
(* The steps of a reader.                                                  *)

\* Starting a read.
LEMMA FindFileInv ==
  ASSUME PinInv, NEW r \in Readers, FindFile(r)
  PROVE  PinInv'
<1>1. TypeOK /\ current \in 0..MaxVersions
  <2>1. TypeOK /\ current \in Versions
    BY DEF PinInv, TypeOK
  <2> QED
    BY <2>1, FileReadAssumption DEF Versions
<1>2. /\ pc' = [pc EXCEPT ![r] = "found"] /\ obj' = [obj EXCEPT ![r] = current]
      /\ pc[r] = "idle" /\ bytes' = bytes
      /\ UNCHANGED <<current, kept, disk, compactor, mapped, spans, reader, pins, retire>>
  BY DEF FindFile, file
<1>3. /\ pc'[r] = "found" /\ obj'[r] = current
      /\ \A q \in Readers \ {r} : pc'[q] = pc[q] /\ obj'[q] = obj[q]
  BY <1>1, <1>2 DEF TypeOK
<1>4. rev' \in [Readers -> Revs] /\ got' \in [Readers -> Answers]
  <2>1. PICK x \in Revs : rev' = [rev EXCEPT ![r] = x]
    BY ZenonT(30) DEF FindFile
  <2>2. rev \in [Readers -> Revs] /\ got \in [Readers -> Answers]
    BY <1>1 DEF TypeOK
  <2>3. got' = [got EXCEPT ![r] = "nothing"] /\ "nothing" \in Answers
    BY DEF FindFile, Answers
  <2> QED
    BY <2>1, <2>2, <2>3
<1>5. \A v \in Versions : Pinning(v)' = Pinning(v)
  BY <1>2, <1>3, PinningKept
<1>6. TypeOK'
  <2>1. \A v \in Versions : pins'[v] = Cardinality(Pinning(v)')
    BY <1>1, <1>2, <1>5 DEF TypeOK
  <2>2. /\ pc' \in [Readers -> {"idle", "found", "pinned", "handle"}]
        /\ obj' \in [Readers -> 0..MaxVersions]
    BY <1>1, <1>2 DEF TypeOK
  <2>3. \A q \in Readers : HoldsFile(q)'
    <3>1. \A q \in Readers : HoldsFile(q)
      BY <1>1 DEF TypeOK
    <3>2. current \in Versions
      BY <1>1 DEF TypeOK
    <3> QED
      BY <1>2, <1>3, <3>1, <3>2 DEF HoldsFile
  <2> QED
    BY <1>1, <1>2, <1>4, <2>1, <2>2, <2>3 DEF TypeOK
<1>7. PinnedStaysMapped'
  BY <1>2, <1>3 DEF PinInv, PinnedStaysMapped
<1> QED
  BY <1>6, <1>7 DEF PinInv

\* What ends a read, whatever the answer, leaves the other readers alone.
LEMMA FinishFacts ==
  ASSUME TypeOK, NEW r \in Readers, NEW answer \in Answers, Finish(r, answer)
  PROVE  /\ pc' \in [Readers -> {"idle", "found", "pinned", "handle"}]
         /\ rev' \in [Readers -> Revs] /\ got' \in [Readers -> Answers]
         /\ obj' \in [Readers -> 0..MaxVersions] /\ bytes' \in [Readers -> 0..MaxVersions]
         /\ pc'[r] = "idle"
         /\ \A q \in Readers \ {r} :
               pc'[q] = pc[q] /\ obj'[q] = obj[q] /\ bytes'[q] = bytes[q]
         /\ \A q \in Readers : HoldsFile(q)'
<1>1. 0 \in 0..MaxVersions
  BY FileReadAssumption
<1>2. /\ pc' = [pc EXCEPT ![r] = "idle"] /\ obj' = [obj EXCEPT ![r] = 0]
      /\ bytes' = [bytes EXCEPT ![r] = 0] /\ got' = [got EXCEPT ![r] = answer]
      /\ rev' = rev
  BY DEF Finish
<1>3. /\ pc \in [Readers -> {"idle", "found", "pinned", "handle"}]
      /\ rev \in [Readers -> Revs] /\ got \in [Readers -> Answers]
      /\ obj \in [Readers -> 0..MaxVersions] /\ bytes \in [Readers -> 0..MaxVersions]
  BY DEF TypeOK
<1>4. /\ pc' \in [Readers -> {"idle", "found", "pinned", "handle"}]
      /\ rev' \in [Readers -> Revs] /\ got' \in [Readers -> Answers]
      /\ obj' \in [Readers -> 0..MaxVersions] /\ bytes' \in [Readers -> 0..MaxVersions]
  BY <1>1, <1>2, <1>3
<1>5. /\ pc'[r] = "idle"
      /\ \A q \in Readers \ {r} :
            pc'[q] = pc[q] /\ obj'[q] = obj[q] /\ bytes'[q] = bytes[q]
  BY <1>2, <1>3
<1>6. \A q \in Readers : HoldsFile(q)
  BY DEF TypeOK
<1>7. \A q \in Readers : HoldsFile(q)'
  <2> SUFFICES ASSUME NEW q \in Readers
               PROVE  HoldsFile(q)'
    OBVIOUS
  <2>1. CASE q = r
    BY <1>5, <2>1 DEF HoldsFile
  <2>2. CASE q # r
    BY <1>5, <1>6, <2>2 DEF HoldsFile
  <2> QED
    BY <2>1, <2>2
<1> QED
  BY <1>4, <1>5, <1>7

\* A read that ends without having pinned a mapping.
LEMMA UnpinnedFinish ==
  ASSUME PinInv, NEW r \in Readers, NEW answer \in Answers, Finish(r, answer),
         pc[r] # "pinned",
         UNCHANGED <<current, kept, disk, compactor, pins, retire>>,
         /\ mapped' \in [Versions -> 0..MaxVersions]
         /\ spans' \in [Versions -> 0..MaxVersions]
         /\ reader' \in [Versions -> 0..MaxVersions],
         \A x \in Versions : mapped[x] # 0 => mapped'[x] = mapped[x]
  PROVE  PinInv'
<1>1. TypeOK /\ PinnedStaysMapped
  BY DEF PinInv
<1>2. /\ pc' \in [Readers -> {"idle", "found", "pinned", "handle"}]
      /\ rev' \in [Readers -> Revs] /\ got' \in [Readers -> Answers]
      /\ obj' \in [Readers -> 0..MaxVersions] /\ bytes' \in [Readers -> 0..MaxVersions]
      /\ pc'[r] = "idle"
      /\ \A q \in Readers \ {r} :
            pc'[q] = pc[q] /\ obj'[q] = obj[q] /\ bytes'[q] = bytes[q]
      /\ \A q \in Readers : HoldsFile(q)'
  BY <1>1, FinishFacts
<1>3. \A v \in Versions : Pinning(v)' = Pinning(v)
  BY <1>2, PinningKept
<1>4. \A v \in Versions : pins'[v] = Cardinality(Pinning(v)')
  BY <1>1, <1>3 DEF TypeOK
<1>5. TypeOK'
  <2>1. /\ current' \in Versions /\ disk' \in [Names -> 0..MaxVersions]
        /\ retire' \in [Versions -> BOOLEAN] /\ kept' \in [Versions -> SUBSET Revs]
        /\ compactor' \in {"idle", "measured", "renamed", "swapped"}
        /\ compactor' \in {"measured", "renamed"} => current' < MaxVersions
        /\ pins' \in [Versions -> Nat]
    BY <1>1 DEF TypeOK
  <2> QED
    BY <1>2, <1>4, <2>1 DEF TypeOK
<1>6. ASSUME NEW q \in Readers, pc'[q] = "pinned"
      PROVE  mapped'[obj'[q]] = bytes'[q]
  <2>1. q # r /\ pc[q] = "pinned" /\ obj'[q] = obj[q] /\ bytes'[q] = bytes[q]
    BY <1>2, <1>6
  <2>2. HoldsFile(q) /\ mapped[obj[q]] = bytes[q]
    BY <1>1, <2>1 DEF TypeOK, PinnedStaysMapped
  <2> QED
    BY <2>1, <2>2 DEF HoldsFile
<1> QED
  BY <1>5, <1>6 DEF PinInv, PinnedStaysMapped

\* The failing and the unmapped reads, and Read.
LEMMA PlainReadInv ==
  ASSUME PinInv, NEW r \in Readers, OpenFails(r) \/ ReadAt(r) \/ ReadAll(r)
  PROVE  PinInv'
<1>1. TypeOK
  BY DEF PinInv
<1>2. /\ UNCHANGED <<current, kept, disk, compactor, mapped, spans, reader, pins, retire>>
      /\ pc[r] # "pinned"
  BY DEF OpenFails, ReadAt, ReadAll, file
<1>3. \E answer \in Answers : Finish(r, answer)
  BY DEF OpenFails, ReadAt, ReadAll, Decoded, Answers
<1>4. /\ mapped' \in [Versions -> 0..MaxVersions] /\ spans' \in [Versions -> 0..MaxVersions]
      /\ reader' \in [Versions -> 0..MaxVersions]
  BY <1>1, <1>2 DEF TypeOK
<1> QED
  BY <1>2, <1>3, <1>4, UnpinnedFinish

\* recordBytes: a mapping that is handed out is pinned in the same step.
LEMMA RecordBytesInv ==
  ASSUME PinInv, NEW r \in Readers, RecordBytes(r)
  PROVE  PinInv'
<1> DEFINE v == obj[r]
<1>1. TypeOK /\ PinnedStaysMapped /\ pc[r] = "found"
  BY DEF PinInv, RecordBytes
<1>2. v \in Versions
  <2>1. HoldsFile(r)
    BY <1>1 DEF TypeOK
  <2> QED
    BY <1>1, <2>1 DEF HoldsFile
<1>3. Load(v) /\ UNCHANGED <<current, kept, disk, compactor, retire>>
  BY DEF RecordBytes
<1>4. /\ mapped' \in [Versions -> 0..MaxVersions] /\ spans' \in [Versions -> 0..MaxVersions]
      /\ reader' \in [Versions -> 0..MaxVersions]
      /\ \A x \in Versions : mapped[x] # 0 => mapped'[x] = mapped[x]
  BY <1>1, <1>2, <1>3, LoadFacts
<1>5. CASE ~Position(spans'[v], rev[r])
  <2>1. Finish(r, "compacted") /\ pins' = pins /\ "compacted" \in Answers
    BY <1>5 DEF RecordBytes, Answers
  <2> QED
    BY <1>1, <1>3, <1>4, <2>1, UnpinnedFinish
<1>6. CASE Position(spans'[v], rev[r])
  <2>1. /\ pc' = [pc EXCEPT ![r] = IF mapped'[v] # 0 THEN "pinned" ELSE "handle"]
        /\ bytes' = [bytes EXCEPT ![r] = IF mapped'[v] # 0 THEN mapped'[v] ELSE reader'[v]]
        /\ pins' = IF mapped'[v] # 0 THEN [pins EXCEPT ![v] = @ + 1] ELSE pins
        /\ UNCHANGED <<rev, obj, got>>
    BY <1>6 DEF RecordBytes
  <2>2. /\ pc \in [Readers -> {"idle", "found", "pinned", "handle"}]
        /\ bytes \in [Readers -> 0..MaxVersions] /\ pins \in [Versions -> Nat]
        /\ \A q \in Readers : HoldsFile(q)
        /\ \A x \in Versions : pins[x] = Cardinality(Pinning(x))
    BY <1>1 DEF TypeOK
  <2> HIDE DEF v
  <2>3. /\ pc' \in [Readers -> {"idle", "found", "pinned", "handle"}]
        /\ bytes' \in [Readers -> 0..MaxVersions] /\ pins' \in [Versions -> Nat]
    BY <1>2, <1>4, <2>1, <2>2
  <2>4. \A q \in Readers \ {r} : pc'[q] = pc[q] /\ bytes'[q] = bytes[q]
    BY <2>1, <2>2
  <2>5. /\ pc'[r] = IF mapped'[v] # 0 THEN "pinned" ELSE "handle"
        /\ mapped'[v] # 0 => bytes'[r] = mapped'[v]
    BY <2>1, <2>2
  <2>6. ASSUME NEW q \in Readers PROVE HoldsFile(q)'
    <3>1. CASE q = r
      BY <1>2, <2>1, <2>5, <3>1 DEF HoldsFile, v
    <3>2. CASE q # r
      BY <2>1, <2>2, <2>4, <3>2 DEF HoldsFile
    <3> QED
      BY <3>1, <3>2
  <2>7. ASSUME NEW x \in Versions PROVE pins'[x] = Cardinality(Pinning(x)')
    <3>1. CASE mapped'[v] # 0 /\ x = v
      <4>1. r \notin Pinning(x) /\ Pinning(x)' = Pinning(x) \cup {r}
        BY <1>1, <2>1, <2>4, <2>5, <3>1 DEF Pinning, v
      <4>2. Cardinality(Pinning(x)') = Cardinality(Pinning(x)) + 1
        BY <4>1, PinningFinite, FS_AddElement
      <4>3. pins'[x] = pins[x] + 1
        BY <2>1, <2>2, <3>1
      <4> QED
        BY <2>2, <4>2, <4>3
    <3>2. CASE mapped'[v] # 0 /\ x # v
      <4>1. Pinning(x)' = Pinning(x)
        BY <1>1, <2>1, <2>4, <3>2 DEF Pinning, v
      <4>2. pins'[x] = pins[x]
        BY <2>1, <2>2, <3>2
      <4> QED
        BY <2>2, <4>1, <4>2
    <3>3. CASE mapped'[v] = 0
      <4>1. pc'[r] # "pinned" /\ pins' = pins
        BY <2>1, <2>5, <3>3
      <4>2. Pinning(x)' = Pinning(x)
        BY <1>1, <2>1, <2>4, <4>1, PinningKept
      <4> QED
        BY <2>2, <4>1, <4>2
    <3> QED
      BY <3>1, <3>2, <3>3
  <2>8. TypeOK'
    <3>1. /\ current' \in Versions /\ disk' \in [Names -> 0..MaxVersions]
          /\ retire' \in [Versions -> BOOLEAN] /\ kept' \in [Versions -> SUBSET Revs]
          /\ compactor' \in {"idle", "measured", "renamed", "swapped"}
          /\ compactor' \in {"measured", "renamed"} => current' < MaxVersions
          /\ rev' \in [Readers -> Revs] /\ got' \in [Readers -> Answers]
          /\ obj' \in [Readers -> 0..MaxVersions]
      BY <1>1, <1>3, <2>1 DEF TypeOK
    <3> QED
      BY <1>4, <2>3, <2>6, <2>7, <3>1 DEF TypeOK
  <2>9. ASSUME NEW q \in Readers, pc'[q] = "pinned" PROVE mapped'[obj'[q]] = bytes'[q]
    <3>1. CASE q = r
      BY <2>1, <2>5, <2>9, <3>1 DEF v
    <3>2. CASE q # r
      <4>1. pc[q] = "pinned" /\ obj'[q] = obj[q] /\ bytes'[q] = bytes[q]
        BY <2>1, <2>4, <2>9, <3>2
      <4>2. mapped[obj[q]] = bytes[q] /\ HoldsFile(q)
        BY <1>1, <2>2, <4>1 DEF PinnedStaysMapped
      <4> QED
        BY <1>4, <4>1, <4>2 DEF HoldsFile
    <3> QED
      BY <3>1, <3>2
  <2> QED
    BY <2>8, <2>9 DEF PinInv, PinnedStaysMapped
<1> QED
  BY <1>5, <1>6

\* unpin: the last pin of a retired file unmaps it, and there is no other
\* reader of it then.
LEMMA DecodeInv ==
  ASSUME PinInv, NEW r \in Readers, DecodeAndUnpin(r)
  PROVE  PinInv'
<1>1. TypeOK /\ PinnedStaysMapped /\ pc[r] = "pinned"
  BY DEF PinInv, DecodeAndUnpin
<1>2. PICK v \in Versions : v = obj[r]
  <2>1. HoldsFile(r)
    BY <1>1 DEF TypeOK
  <2> QED
    BY <1>1, <2>1 DEF HoldsFile
<1>3. /\ pins' = [pins EXCEPT ![v] = @ - 1]
      /\ mapped' = IF pins[v] = 1 /\ retire[v] THEN [mapped EXCEPT ![v] = 0] ELSE mapped
      /\ UNCHANGED <<current, kept, disk, compactor, spans, reader, retire>>
      /\ Finish(r, Decoded(r)) /\ Decoded(r) \in Answers
  BY <1>2 DEF DecodeAndUnpin, Decoded, Answers
<1>4. /\ pc' \in [Readers -> {"idle", "found", "pinned", "handle"}]
      /\ rev' \in [Readers -> Revs] /\ got' \in [Readers -> Answers]
      /\ obj' \in [Readers -> 0..MaxVersions] /\ bytes' \in [Readers -> 0..MaxVersions]
      /\ pc'[r] = "idle"
      /\ \A q \in Readers \ {r} :
            pc'[q] = pc[q] /\ obj'[q] = obj[q] /\ bytes'[q] = bytes[q]
      /\ \A q \in Readers : HoldsFile(q)'
  BY <1>1, <1>3, FinishFacts, ZenonT(30)
<1>5. /\ pins \in [Versions -> Nat] /\ mapped \in [Versions -> 0..MaxVersions]
      /\ \A x \in Versions : pins[x] = Cardinality(Pinning(x))
  BY <1>1 DEF TypeOK
<1>6. r \in Pinning(v)
  BY <1>1, <1>2 DEF Pinning
<1>7. \A x \in Versions : Pinning(x)' = Pinning(x) \ {r}
  BY <1>4 DEF Pinning
<1>8. \A x \in Versions : x # v => r \notin Pinning(x)
  BY <1>2 DEF Pinning
<1>9. Cardinality(Pinning(v)') = pins[v] - 1 /\ Cardinality(Pinning(v)') \in Nat
  <2>1. IsFiniteSet(Pinning(v)) /\ IsFiniteSet(Pinning(v) \ {r})
    BY PinningFinite, FS_RemoveElement
  <2>2. Cardinality(Pinning(v) \ {r}) = Cardinality(Pinning(v)) - 1
    BY <1>6, <2>1, FS_RemoveElement
  <2>3. Cardinality(Pinning(v) \ {r}) \in Nat
    BY <2>1, FS_CardinalityType
  <2> QED
    BY <1>2, <1>5, <1>7, <2>2, <2>3
<1>10. pins' \in [Versions -> Nat] /\ \A x \in Versions : pins'[x] = Cardinality(Pinning(x)')
  <2>1. pins[v] - 1 \in Nat
    BY <1>9
  <2>2. pins' \in [Versions -> Nat]
    BY <1>2, <1>3, <1>5, <2>1
  <2>3. ASSUME NEW x \in Versions PROVE pins'[x] = Cardinality(Pinning(x)')
    <3>1. CASE x = v
      BY <1>3, <1>5, <1>9, <3>1
    <3>2. CASE x # v
      <4>1. Pinning(x)' = Pinning(x)
        BY <1>7, <1>8, <3>2
      <4>2. pins'[x] = pins[x]
        BY <1>3, <1>5, <3>2
      <4> QED
        BY <1>5, <4>1, <4>2
    <3> QED
      BY <3>1, <3>2
  <2> QED
    BY <2>2, <2>3
<1>11. mapped' \in [Versions -> 0..MaxVersions]
  <2>1. 0 \in 0..MaxVersions
    BY FileReadAssumption
  <2> QED
    BY <1>3, <1>5, <2>1
<1>12. TypeOK'
  <2>1. /\ current' \in Versions /\ disk' \in [Names -> 0..MaxVersions]
        /\ retire' \in [Versions -> BOOLEAN] /\ kept' \in [Versions -> SUBSET Revs]
        /\ compactor' \in {"idle", "measured", "renamed", "swapped"}
        /\ compactor' \in {"measured", "renamed"} => current' < MaxVersions
        /\ spans' \in [Versions -> 0..MaxVersions]
        /\ reader' \in [Versions -> 0..MaxVersions]
    BY <1>1, <1>3 DEF TypeOK
  <2> QED
    BY <1>4, <1>10, <1>11, <2>1, ZenonT(30) DEF TypeOK
<1>13. ASSUME NEW q \in Readers, pc'[q] = "pinned" PROVE mapped'[obj'[q]] = bytes'[q]
  <2>1. q # r /\ pc[q] = "pinned" /\ obj'[q] = obj[q] /\ bytes'[q] = bytes[q]
    BY <1>4, <1>13, ZenonT(30)
  <2>2. mapped[obj[q]] = bytes[q]
    BY <1>1, <2>1, ZenonT(30) DEF PinnedStaysMapped
  <2>3. CASE obj[q] # v
    BY <1>3, <2>1, <2>2, <2>3
  <2>4. CASE obj[q] = v
    <3>1. q \in Pinning(v)'
      BY <1>13, <2>1, <2>4 DEF Pinning
    <3>2. pins[v] # 1
      <4>1. IsFiniteSet(Pinning(v)')
        BY <1>2, <1>7, PinningFinite, FS_RemoveElement
      <4>2. Cardinality(Pinning(v)') # 0
        BY <3>1, <4>1, FS_EmptySet
      <4> QED
        BY <1>2, <1>5, <1>9, <4>2
    <3> QED
      BY <1>3, <2>1, <2>2, <3>2
  <2> QED
    BY <2>3, <2>4
<1> QED
  BY <1>12, <1>13 DEF PinInv, PinnedStaysMapped

-----------------------------------------------------------------------------
(* The steps of compactGroup.                                              *)

\* A step of the compactor leaves the readers and the pins alone.
LEMMA ReadersAlone ==
  ASSUME TypeOK, UNCHANGED <<pins, pc, rev, obj, bytes, got>>
  PROVE  /\ pc' \in [Readers -> {"idle", "found", "pinned", "handle"}]
         /\ rev' \in [Readers -> Revs] /\ got' \in [Readers -> Answers]
         /\ obj' \in [Readers -> 0..MaxVersions] /\ bytes' \in [Readers -> 0..MaxVersions]
         /\ \A q \in Readers : HoldsFile(q)'
         /\ pins' \in [Versions -> Nat]
         /\ \A x \in Versions : pins'[x] = Cardinality(Pinning(x)')
<1>1. \A q \in Readers : HoldsFile(q)'
  BY DEF TypeOK, HoldsFile
<1>2. \A x \in Versions : Pinning(x)' = Pinning(x)
  BY DEF Pinning
<1> QED
  BY <1>1, <1>2 DEF TypeOK

\* liveRecords, the rename and the removal.
LEMMA CompactorInv ==
  ASSUME PinInv, Measure \/ Rename \/ RemoveOld
  PROVE  PinInv'
<1>1. TypeOK /\ PinnedStaysMapped /\ current \in Versions
  BY DEF PinInv, TypeOK
<1>2. UNCHANGED <<current, pins, retire, pc, rev, obj, bytes, got>>
  BY DEF Measure, Rename, RemoveOld, read, file
<1>3. /\ mapped' \in [Versions -> 0..MaxVersions] /\ spans' \in [Versions -> 0..MaxVersions]
      /\ reader' \in [Versions -> 0..MaxVersions]
      /\ \A x \in Versions : mapped[x] # 0 => mapped'[x] = mapped[x]
  <2>1. CASE Measure
    BY <1>1, <2>1, LoadFacts DEF Measure
  <2>2. CASE Rename \/ RemoveOld
    BY <1>1, <2>2 DEF Rename, RemoveOld, file, TypeOK
  <2> QED
    BY <2>1, <2>2
<1>4. /\ compactor' \in {"idle", "measured", "renamed", "swapped"}
      /\ compactor' \in {"measured", "renamed"} => current < MaxVersions
  BY <1>1 DEF Measure, Rename, RemoveOld, TypeOK
<1>5. disk' \in [Names -> 0..MaxVersions] /\ kept' \in [Versions -> SUBSET Revs]
  <2>0. disk \in [Names -> 0..MaxVersions] /\ kept \in [Versions -> SUBSET Revs]
    BY <1>1 DEF TypeOK
  <2>1. CASE Measure
    BY <2>0, <2>1 DEF Measure
  <2>2. CASE Rename
    <3>1. current < MaxVersions
      BY <1>1, <2>2 DEF Rename, TypeOK
    <3>2. current + 1 \in Versions /\ current + 1 \in 0..MaxVersions
      BY <1>1, <3>1, FileReadAssumption DEF Versions
    <3>3. PICK live \in SUBSET kept[current] : kept' = [kept EXCEPT ![current + 1] = live]
      BY <2>2, ZenonT(30) DEF Rename
    <3>4. live \in SUBSET Revs
      BY <1>1, <2>0
    <3>5. disk' = [disk EXCEPT !["sparse"] = current + 1]
      BY <2>2 DEF Rename
    <3> QED
      BY <2>0, <3>2, <3>3, <3>4, <3>5, ZenonT(30)
  <2>3. CASE RemoveOld
    <3>1. 0 \in 0..MaxVersions
      BY FileReadAssumption
    <3> QED
      BY <2>0, <2>3, <3>1, ZenonT(30) DEF RemoveOld
  <2> QED
    BY <2>1, <2>2, <2>3
<1>6. TypeOK'
  <2>1. current' \in Versions /\ retire' \in [Versions -> BOOLEAN]
    BY <1>1, <1>2 DEF TypeOK
  <2> QED
    BY <1>1, <1>2, <1>3, <1>4, <1>5, <2>1, ReadersAlone, ZenonT(30) DEF TypeOK
<1>7. ASSUME NEW q \in Readers, pc'[q] = "pinned" PROVE mapped'[obj'[q]] = bytes'[q]
  <2>1. mapped[obj[q]] = bytes[q] /\ pc[q] = "pinned" /\ HoldsFile(q)
    BY <1>1, <1>2, <1>7 DEF PinnedStaysMapped, TypeOK
  <2> QED
    BY <1>2, <1>3, <2>1, ZenonT(30) DEF HoldsFile
<1> QED
  BY <1>6, <1>7, ZenonT(30) DEF PinInv, PinnedStaysMapped

\* The swap unmaps the replaced file only when no reader has it pinned.
LEMMA SwapInv ==
  ASSUME PinInv, Swap
  PROVE  PinInv'
<1>1. TypeOK /\ PinnedStaysMapped /\ current \in Versions
  BY DEF PinInv, TypeOK
<1>2. current + 1 \in Versions /\ current + 1 \in 0..MaxVersions /\ 0 \in 0..MaxVersions
  <2>1. current < MaxVersions
    BY <1>1 DEF Swap, TypeOK
  <2> QED
    BY <1>1, <2>1, FileReadAssumption DEF Versions
<1>3. /\ mapped \in [Versions -> 0..MaxVersions] /\ spans \in [Versions -> 0..MaxVersions]
      /\ reader \in [Versions -> 0..MaxVersions] /\ retire \in [Versions -> BOOLEAN]
      /\ disk \in [Names -> 0..MaxVersions] /\ kept \in [Versions -> SUBSET Revs]
  BY <1>1 DEF TypeOK
<1>4. UNCHANGED <<kept, disk, pins, pc, rev, obj, bytes, got>>
  BY DEF Swap, read
<1>5. /\ current' = current + 1
      /\ spans' = [spans EXCEPT ![current + 1] = current + 1]
      /\ mapped' = IF pins[current] = 0 THEN [mapped EXCEPT ![current] = 0] ELSE mapped
      /\ reader' = [reader EXCEPT ![current] = 0]
      /\ compactor' \in {"idle", "swapped"}
  BY DEF Swap
<1>6. /\ mapped' \in [Versions -> 0..MaxVersions] /\ spans' \in [Versions -> 0..MaxVersions]
      /\ reader' \in [Versions -> 0..MaxVersions]
  BY <1>1, <1>2, <1>3, <1>5
<1>7. retire' \in [Versions -> BOOLEAN]
  <2>1. (mapped[current] # 0 /\ pins[current] > 0) \in BOOLEAN
    OBVIOUS
  <2>2. retire' = [retire EXCEPT ![current] = mapped[current] # 0 /\ pins[current] > 0]
    BY DEF Swap
  <2> QED
    BY <1>1, <1>3, <2>1, <2>2, Zenon
<1>8. TypeOK'
  BY <1>1, <1>2, <1>3, <1>4, <1>5, <1>6, <1>7, ReadersAlone, ZenonT(30) DEF TypeOK
<1>9. ASSUME NEW q \in Readers, pc'[q] = "pinned" PROVE mapped'[obj'[q]] = bytes'[q]
  <2>1. pc[q] = "pinned" /\ mapped[obj[q]] = bytes[q]
    BY <1>1, <1>4, <1>9 DEF PinnedStaysMapped
  <2>2. CASE obj[q] # current
    BY <1>3, <1>4, <1>5, <2>1, <2>2
  <2>3. CASE obj[q] = current
    <3>1. q \in Pinning(current)
      BY <2>1, <2>3 DEF Pinning
    <3>2. Cardinality(Pinning(current)) # 0
      BY <3>1, PinningFinite, FS_EmptySet
    <3>3. pins[current] # 0
      BY <1>1, <3>2 DEF TypeOK
    <3> QED
      BY <1>4, <1>5, <2>1, <3>3
  <2> QED
    BY <2>2, <2>3
<1> QED
  BY <1>8, <1>9 DEF PinInv, PinnedStaysMapped

-----------------------------------------------------------------------------
(* The theorem.                                                            *)

\* Nobody reads yet, and nothing is mapped.
LEMMA InitInv ==
  ASSUME Init
  PROVE  PinInv
<1>1. 1 \in Versions /\ 0 \in 0..MaxVersions /\ 1 \in 0..MaxVersions
  BY FileReadAssumption DEF Versions
<1>2. \A v : Pinning(v) = {}
  BY DEF Init, Pinning
<1>3. \A v \in Versions : pins[v] = Cardinality(Pinning(v))
  BY <1>2, FS_EmptySet, ZenonT(30) DEF Init
<1>4. \A r \in Readers : HoldsFile(r)
  BY DEF Init, HoldsFile
<1>5. /\ kept \in [Versions -> SUBSET Revs] /\ disk \in [Names -> 0..MaxVersions]
      /\ got \in [Readers -> Answers]
  BY <1>1 DEF Init, Answers
<1>6. /\ mapped \in [Versions -> 0..MaxVersions] /\ spans \in [Versions -> 0..MaxVersions]
      /\ reader \in [Versions -> 0..MaxVersions] /\ retire \in [Versions -> BOOLEAN]
      /\ pins \in [Versions -> Nat]
  BY <1>1 DEF Init
<1>7. /\ pc \in [Readers -> {"idle", "found", "pinned", "handle"}]
      /\ rev \in [Readers -> Revs]
      /\ obj \in [Readers -> 0..MaxVersions] /\ bytes \in [Readers -> 0..MaxVersions]
  BY <1>1 DEF Init
<1>8. current \in Versions /\ compactor = "idle"
  BY <1>1 DEF Init
<1>9. PinnedStaysMapped
  BY DEF Init, PinnedStaysMapped
<1> QED
  BY <1>3, <1>4, <1>5, <1>6, <1>7, <1>8, <1>9 DEF PinInv, TypeOK

\* Every step keeps the invariant.
LEMMA NextInv ==
  ASSUME PinInv, [Next]_vars
  PROVE  PinInv'
<1>1. CASE \E r \in Readers : FindFile(r) \/ ReaderStep(r)
  BY <1>1, FindFileInv, RecordBytesInv, DecodeInv, PlainReadInv DEF ReaderStep
<1>2. CASE Measure \/ Rename \/ Swap \/ RemoveOld
  BY <1>2, CompactorInv, SwapInv
<1>3. CASE UNCHANGED vars
  <2>1. /\ UNCHANGED <<current, kept, disk, compactor, mapped, spans, reader, retire>>
        /\ UNCHANGED <<pins, pc, rev, obj, bytes, got>>
    BY <1>3 DEF vars, file, read
  <2>2. TypeOK
    BY DEF PinInv
  <2>3. /\ current' \in Versions /\ disk' \in [Names -> 0..MaxVersions]
        /\ mapped' \in [Versions -> 0..MaxVersions]
        /\ spans' \in [Versions -> 0..MaxVersions]
        /\ reader' \in [Versions -> 0..MaxVersions] /\ retire' \in [Versions -> BOOLEAN]
        /\ kept' \in [Versions -> SUBSET Revs]
        /\ compactor' \in {"idle", "measured", "renamed", "swapped"}
        /\ compactor' \in {"measured", "renamed"} => current' < MaxVersions
    BY <2>1, <2>2 DEF TypeOK
  <2>4. TypeOK'
    BY <2>1, <2>2, <2>3, ReadersAlone, ZenonT(30) DEF TypeOK
  <2>5. PinnedStaysMapped'
    BY <2>1 DEF PinInv, PinnedStaysMapped
  <2> QED
    BY <2>4, <2>5 DEF PinInv
<1> QED
  BY <1>1, <1>2, <1>3 DEF Next

\* The bytes that recordBytes hands out stay mapped until they are unpinned,
\* for any number of readers and of compactions of the file.
THEOREM PinnedIsMapped == Spec => []PinnedStaysMapped
<1>1. Init => PinInv
  BY InitInv
<1>2. PinInv /\ [Next]_vars => PinInv'
  BY NextInv
<1>3. PinInv => PinnedStaysMapped
  BY DEF PinInv
<1> QED
  BY <1>1, <1>2, <1>3, PTL DEF Spec

-----------------------------------------------------------------------------
(* Readers decode the bytes of the file they found.                        *)

\* Loading a version that the log has had opens its own file.
LEMMA OwnLoad ==
  ASSUME TypeOK, NamesLead, LoadedIsOwn, disk["sparse"] <= 2,
         NEW v \in Versions, v <= current, Load(v)
  PROVE  /\ reader'[v] = v /\ spans'[v] = v /\ mapped'[v] \in {0, v}
         /\ \A x \in Versions \ {v} :
               reader'[x] = reader[x] /\ spans'[x] = spans[x] /\ mapped'[x] = mapped[x]
         /\ \A x \in Versions : spans[x] = x => spans'[x] = x
<1> DEFINE h == Handle(v)
           m == IF mapped[v] # 0 THEN mapped[v] ELSE MmapFile(h)
<1>1. /\ mapped \in [Versions -> 0..MaxVersions] /\ spans \in [Versions -> 0..MaxVersions]
      /\ reader \in [Versions -> 0..MaxVersions]
      /\ reader[v] \in {0, v} /\ mapped[v] \in {0, v} /\ spans[v] \in {0, v}
  BY DEF TypeOK, LoadedIsOwn
<1>2. current \in Nat /\ v \in Nat /\ v >= 1 /\ current >= 1
  BY FileReadAssumption DEF TypeOK, Versions
<1>3. disk[Name(v)] \in {0, v}
  <2>1. CASE v = 1
    BY <2>1 DEF Name, NamesLead
  <2>2. CASE v # 1
    <3>1. Name(v) = "sparse" /\ current # 1
      BY <1>2, <2>2 DEF Name
    <3>2. disk["sparse"] = IF compactor = "renamed" THEN current + 1 ELSE current
      BY <3>1 DEF NamesLead
    <3>3. disk["sparse"] = v
      BY <1>2, <2>2, <3>2
    <3> QED
      BY <3>1, <3>3
  <2> QED
    BY <2>1, <2>2
<1>4. h # 0 /\ h = v /\ m \in {0, v}
  BY <1>1, <1>3 DEF Load, Handle, MmapFile
<1>5. /\ reader' = [reader EXCEPT ![v] = h] /\ mapped' = [mapped EXCEPT ![v] = m]
      /\ spans' = [spans EXCEPT ![v] = IF @ # 0 THEN @ ELSE IF m # 0 THEN m ELSE h]
  BY DEF Load
<1> HIDE DEF h, m
<1> QED
  BY <1>1, <1>2, <1>4, <1>5

\* A step that leaves the files of the log and what is loaded alone, of one
\* reader that is left with no bytes and a right answer.
LEMMA OwnReader ==
  ASSUME NamesLead, LoadedIsOwn, TypeOK, NEW r \in Readers,
         UNCHANGED <<current, disk, compactor>>,
         \A q \in Readers \ {r} :
            pc'[q] = pc[q] /\ obj'[q] = obj[q] /\ bytes'[q] = bytes[q] /\ got'[q] = got[q],
         obj'[r] <= current,
         disk["sparse"] <= 2 =>
            /\ \A v \in Versions :
                  reader'[v] \in {0, v} /\ mapped'[v] \in {0, v} /\ spans'[v] \in {0, v}
            /\ \A v \in Versions : spans[v] = v => spans'[v] = v
            /\ pc'[r] \in {"pinned", "handle"} => bytes'[r] = obj'[r] /\ spans'[obj'[r]] = obj'[r]
            /\ got'[r] # "garbage"
  PROVE  NamesLead' /\ LoadedIsOwn'
<1>1. NamesLead'
  BY ZenonT(30) DEF NamesLead
<1>2. ASSUME disk'["sparse"] <= 2, NEW q \in Readers
      PROVE  /\ pc'[q] \in {"pinned", "handle"} => bytes'[q] = obj'[q] /\ spans'[obj'[q]] = obj'[q]
             /\ got'[q] # "garbage"
  <2>1. CASE q = r
    BY <1>2, <2>1
  <2>2. CASE q # r
    <3>1. /\ pc[q] \in {"pinned", "handle"} =>
                bytes[q] = obj[q] /\ spans[obj[q]] = obj[q] /\ obj[q] \in Versions
          /\ got[q] # "garbage"
      BY <1>2, ZenonT(30) DEF LoadedIsOwn, TypeOK, HoldsFile
    <3> QED
      BY <1>2, <2>2, <3>1
  <2> QED
    BY <2>1, <2>2
<1> QED
  BY <1>1, <1>2, ZenonT(30) DEF LoadedIsOwn

\* What a reader decodes from what it was given is a record.
LEMMA OwnDecoded ==
  ASSUME LoadedIsOwn, disk["sparse"] <= 2, NEW r \in Readers, pc[r] \in {"pinned", "handle"}
  PROVE  Decoded(r) = "record"
  BY DEF LoadedIsOwn, Decoded

LEMMA OwnReaderStep ==
  ASSUME ReadInv, NEW r \in Readers, FindFile(r) \/ ReaderStep(r)
  PROVE  NamesLead' /\ LoadedIsOwn'
<1>1. TypeOK /\ NamesLead /\ LoadedIsOwn
  BY DEF ReadInv
<1>2. /\ pc \in [Readers -> {"idle", "found", "pinned", "handle"}]
      /\ got \in [Readers -> Answers] /\ obj \in [Readers -> 0..MaxVersions]
      /\ bytes \in [Readers -> 0..MaxVersions] /\ mapped \in [Versions -> 0..MaxVersions]
      /\ current \in Nat /\ HoldsFile(r)
  <2>1. /\ pc \in [Readers -> {"idle", "found", "pinned", "handle"}]
        /\ got \in [Readers -> Answers] /\ obj \in [Readers -> 0..MaxVersions]
        /\ bytes \in [Readers -> 0..MaxVersions] /\ mapped \in [Versions -> 0..MaxVersions]
        /\ current \in Versions /\ HoldsFile(r)
    BY <1>1, ZenonT(30) DEF TypeOK
  <2> QED
    BY <2>1, FileReadAssumption, SMTT(30) DEF Versions
<1>3. UNCHANGED <<current, disk, compactor>>
  BY ZenonT(30) DEF FindFile, ReaderStep, RecordBytes, OpenFails, DecodeAndUnpin, ReadAt, ReadAll
<1>4. ASSUME NEW answer, Finish(r, answer)
      PROVE  /\ pc'[r] = "idle" /\ obj'[r] <= current /\ got'[r] = answer
             /\ \A q \in Readers \ {r} :
                   pc'[q] = pc[q] /\ obj'[q] = obj[q] /\ bytes'[q] = bytes[q] /\ got'[q] = got[q]
  BY <1>2, <1>4 DEF Finish
<1>5. disk["sparse"] <= 2 => \A v \in Versions :
         reader[v] \in {0, v} /\ mapped[v] \in {0, v} /\ spans[v] \in {0, v}
  BY <1>1, ZenonT(30) DEF LoadedIsOwn
<1>6. CASE FindFile(r)
  <2>1. /\ pc' = [pc EXCEPT ![r] = "found"] /\ obj' = [obj EXCEPT ![r] = current]
        /\ got' = [got EXCEPT ![r] = "nothing"] /\ bytes' = bytes
        /\ UNCHANGED <<mapped, spans, reader>>
    BY <1>6 DEF FindFile, file
  <2>2. /\ pc'[r] = "found" /\ obj'[r] <= current /\ got'[r] # "garbage"
        /\ \A q \in Readers \ {r} :
              pc'[q] = pc[q] /\ obj'[q] = obj[q] /\ bytes'[q] = bytes[q] /\ got'[q] = got[q]
    BY <1>2, <2>1
  <2> QED
    BY <1>1, <1>3, <1>5, <2>1, <2>2, OwnReader
<1>7. CASE OpenFails(r) \/ ReadAll(r)
  <2>1. UNCHANGED <<mapped, spans, reader>>
        /\ \E answer \in {"error", "record", "compacted"} : Finish(r, answer)
    BY <1>7, ZenonT(30) DEF OpenFails, ReadAll, file
  <2> QED
    BY <1>1, <1>3, <1>4, <1>5, <2>1, OwnReader, ZenonT(30)
<1>8. CASE ReadAt(r)
  <2>1. PICK answer : /\ UNCHANGED <<mapped, spans, reader>> /\ pc[r] = "handle" /\ Finish(r, answer)
                      /\ answer \in {"error", Decoded(r)}
    BY <1>8, ZenonT(30) DEF ReadAt, file
  <2>2. disk["sparse"] <= 2 => answer # "garbage"
    BY <1>1, <2>1, OwnDecoded
  <2> QED
    BY <1>1, <1>3, <1>4, <1>5, <2>1, <2>2, OwnReader, ZenonT(30)
<1>9. CASE DecodeAndUnpin(r)
  <2>1. /\ UNCHANGED <<spans, reader>> /\ pc[r] = "pinned" /\ Finish(r, Decoded(r))
        /\ mapped' = mapped \/ mapped' = [mapped EXCEPT ![obj[r]] = 0]
    BY <1>9, ZenonT(30) DEF DecodeAndUnpin
  <2>2. disk["sparse"] <= 2 => Decoded(r) # "garbage"
    BY <1>1, <2>1, OwnDecoded, ZenonT(30)
  <2>3. disk["sparse"] <= 2 => \A v \in Versions : mapped'[v] \in {0, v}
    BY <1>2, <1>5, <2>1
  <2> QED
    BY <1>1, <1>3, <1>4, <1>5, <2>1, <2>2, <2>3, OwnReader, ZenonT(30)
<1>10. CASE RecordBytes(r)
  <2> DEFINE v == obj[r]
  <2>1. pc[r] = "found" /\ Load(v)
    BY <1>10, ZenonT(30) DEF RecordBytes
  <2>2. v \in Versions /\ v <= current
    BY <1>1, <1>2, <2>1 DEF HoldsFile, NamesLead
  <2>3. disk["sparse"] <= 2 =>
          /\ reader'[v] = v /\ spans'[v] = v /\ mapped'[v] \in {0, v}
          /\ \A x \in Versions :
                reader'[x] \in {0, x} /\ mapped'[x] \in {0, x} /\ spans'[x] \in {0, x}
          /\ \A x \in Versions : spans[x] = x => spans'[x] = x
    <3> SUFFICES ASSUME disk["sparse"] <= 2
                 PROVE  /\ reader'[v] = v /\ spans'[v] = v /\ mapped'[v] \in {0, v}
                        /\ \A x \in Versions :
                              reader'[x] \in {0, x} /\ mapped'[x] \in {0, x} /\ spans'[x] \in {0, x}
                        /\ \A x \in Versions : spans[x] = x => spans'[x] = x
      OBVIOUS
    <3> HIDE DEF v
    <3>1. /\ reader'[v] = v /\ spans'[v] = v /\ mapped'[v] \in {0, v}
          /\ \A x \in Versions \ {v} :
                reader'[x] = reader[x] /\ spans'[x] = spans[x] /\ mapped'[x] = mapped[x]
          /\ \A x \in Versions : spans[x] = x => spans'[x] = x
      BY <1>1, <2>1, <2>2, OwnLoad
    <3> QED
      BY <1>5, <3>1
  <2>4. CASE ~Position(spans'[v], rev[r])
    <3>1. Finish(r, "compacted")
      BY <1>10, <2>4, ZenonT(30) DEF RecordBytes
    <3> QED
      BY <1>1, <1>3, <1>4, <2>3, <3>1, OwnReader, ZenonT(30)
  <2>5. CASE Position(spans'[v], rev[r])
    <3>1. /\ pc' = [pc EXCEPT ![r] = IF mapped'[v] # 0 THEN "pinned" ELSE "handle"]
          /\ bytes' = [bytes EXCEPT ![r] = IF mapped'[v] # 0 THEN mapped'[v] ELSE reader'[v]]
          /\ UNCHANGED <<obj, got>>
      BY <1>10, <2>5, ZenonT(30) DEF RecordBytes
    <3>2. /\ bytes'[r] = IF mapped'[v] # 0 THEN mapped'[v] ELSE reader'[v]
          /\ obj'[r] = v /\ obj'[r] <= current
          /\ \A q \in Readers \ {r} :
                pc'[q] = pc[q] /\ obj'[q] = obj[q] /\ bytes'[q] = bytes[q] /\ got'[q] = got[q]
      BY <1>2, <2>2, <3>1
    <3>3. disk["sparse"] <= 2 => bytes'[r] = obj'[r] /\ spans'[obj'[r]] = obj'[r] /\ got'[r] # "garbage"
      BY <1>1, <2>3, <3>1, <3>2, ZenonT(30) DEF LoadedIsOwn
    <3> HIDE DEF v
    <3> QED
      BY <1>1, <1>3, <2>3, <3>2, <3>3, OwnReader, ZenonT(30)
  <2> QED
    BY <2>4, <2>5, ZenonT(30)
<1> QED
  BY <1>6, <1>7, <1>8, <1>9, <1>10 DEF ReaderStep

\* compactGroup.
LEMMA OwnCompactorStep ==
  ASSUME ReadInv, Measure \/ Rename \/ Swap \/ RemoveOld
  PROVE  NamesLead' /\ LoadedIsOwn'
<1>1. TypeOK /\ NamesLead /\ LoadedIsOwn
  BY DEF ReadInv
<1>2. /\ mapped \in [Versions -> 0..MaxVersions] /\ spans \in [Versions -> 0..MaxVersions]
      /\ reader \in [Versions -> 0..MaxVersions] /\ disk \in [Names -> 0..MaxVersions]
      /\ current \in Versions /\ current \in Nat /\ current >= 1
      /\ obj \in [Readers -> 0..MaxVersions] /\ \A q \in Readers : obj[q] \in Nat
      /\ compactor = "renamed" => current + 1 \in Versions
  <2>1. /\ mapped \in [Versions -> 0..MaxVersions] /\ spans \in [Versions -> 0..MaxVersions]
        /\ reader \in [Versions -> 0..MaxVersions] /\ disk \in [Names -> 0..MaxVersions]
        /\ current \in Versions /\ obj \in [Readers -> 0..MaxVersions]
        /\ compactor = "renamed" => current < MaxVersions
    BY <1>1, ZenonT(30) DEF TypeOK
  <2>2. \A q \in Readers : obj[q] \in Nat
    BY <2>1, FileReadAssumption
  <2> QED
    BY <2>1, <2>2, FileReadAssumption DEF Versions
<1>3. UNCHANGED <<pc, obj, bytes, got>>
  BY DEF Measure, Rename, Swap, RemoveOld, read
<1>4. \A q \in Readers : pc[q] \in {"pinned", "handle"} => obj[q] \in Versions
  BY <1>1 DEF TypeOK, HoldsFile
<1>5. CASE Measure
  <2>1. Load(current) /\ UNCHANGED <<current, disk>> /\ compactor = "idle" /\ compactor' = "measured"
    BY <1>5 DEF Measure
  <2>2. NamesLead'
    BY <1>1, <1>3, <2>1 DEF NamesLead
  <2>3. LoadedIsOwn'
    <3> SUFFICES ASSUME disk["sparse"] <= 2
                 PROVE  LoadedIsOwn'
      BY <2>1, ZenonT(30) DEF LoadedIsOwn
    <3>1. /\ reader'[current] = current /\ spans'[current] = current /\ mapped'[current] \in {0, current}
          /\ \A x \in Versions \ {current} :
                reader'[x] = reader[x] /\ spans'[x] = spans[x] /\ mapped'[x] = mapped[x]
          /\ \A x \in Versions : spans[x] = x => spans'[x] = x
      BY <1>1, <1>2, <2>1, OwnLoad
    <3> QED
      BY <1>1, <1>3, <1>4, <3>1, ZenonT(30) DEF LoadedIsOwn
  <2> QED
    BY <2>2, <2>3
<1>6. CASE Rename
  <2>1. /\ disk' = [disk EXCEPT !["sparse"] = current + 1] /\ compactor = "measured"
        /\ compactor' = "renamed" /\ UNCHANGED <<current, mapped, spans, reader>>
    BY <1>6 DEF Rename, file
  <2>2. disk'["sparse"] = current + 1 /\ disk'["dense"] = disk["dense"]
    BY <1>2, <2>1 DEF Names
  <2>3. NamesLead'
    BY <1>1, <1>3, <2>1, <2>2 DEF NamesLead
  <2>4. disk'["sparse"] <= 2 => disk["sparse"] <= 2
    BY <1>1, <1>2, <2>1, <2>2 DEF NamesLead
  <2>5. LoadedIsOwn'
    BY <1>1, <1>3, <2>1, <2>4 DEF LoadedIsOwn
  <2> QED
    BY <2>3, <2>5
<1>7. CASE Swap
  <2>1. /\ compactor = "renamed" /\ current' = current + 1 /\ disk' = disk
        /\ spans' = [spans EXCEPT ![current + 1] = current + 1]
        /\ mapped' = mapped \/ mapped' = [mapped EXCEPT ![current] = 0]
        /\ reader' = [reader EXCEPT ![current] = 0]
        /\ compactor' # "renamed"
    BY <1>7 DEF Swap
  <2>2. NamesLead'
    BY <1>1, <1>2, <1>3, <2>1 DEF NamesLead
  <2>3. \A v \in Versions : /\ spans'[v] \in {spans[v], v} /\ mapped'[v] \in {mapped[v], 0}
                            /\ reader'[v] \in {reader[v], 0}
    BY <1>2, <2>1
  <2>4. LoadedIsOwn'
    BY <1>1, <1>3, <1>4, <2>1, <2>3 DEF LoadedIsOwn
  <2> QED
    BY <2>2, <2>4
<1>8. CASE RemoveOld
  <2>1. /\ disk' = [disk EXCEPT !["dense"] = 0] /\ compactor = "swapped"
        /\ compactor' = "idle" /\ UNCHANGED <<current, mapped, spans, reader>>
    BY <1>8 DEF RemoveOld, file
  <2>2. disk'["sparse"] = disk["sparse"] /\ disk'["dense"] = 0
    BY <1>2, <2>1 DEF Names
  <2>3. NamesLead'
    BY <1>1, <1>3, <2>1, <2>2 DEF NamesLead
  <2>4. LoadedIsOwn'
    BY <1>1, <1>3, <2>1, <2>2 DEF LoadedIsOwn
  <2> QED
    BY <2>3, <2>4
<1> QED
  BY <1>5, <1>6, <1>7, <1>8

\* What a read decodes was located in the bytes it is read from, until a
\* compacted file is compacted again, for any number of readers.
THEOREM OwnBytesDecoded == Spec => []DecodesOwnBytes
<1>1. Init => ReadInv
  <2> SUFFICES ASSUME Init
               PROVE  ReadInv
    OBVIOUS
  <2>1. TypeOK /\ PinnedStaysMapped
    BY InitInv DEF PinInv
  <2>2. disk["dense"] = 1 /\ disk["sparse"] = 0 /\ current = 1 /\ compactor = "idle"
    BY DEF Init, Names
  <2>3. NamesLead
    BY <2>2 DEF NamesLead, Init
  <2>4. LoadedIsOwn
    BY DEF LoadedIsOwn, Init
  <2> QED
    BY <2>1, <2>3, <2>4 DEF ReadInv
<1>2. ReadInv /\ [Next]_vars => ReadInv'
  <2> SUFFICES ASSUME ReadInv, [Next]_vars
               PROVE  ReadInv'
    OBVIOUS
  <2>1. (TypeOK /\ PinnedStaysMapped)'
    BY NextInv DEF ReadInv, PinInv
  <2>2. CASE \E r \in Readers : FindFile(r) \/ ReaderStep(r)
    BY <2>1, <2>2, OwnReaderStep DEF ReadInv
  <2>3. CASE Measure \/ Rename \/ Swap \/ RemoveOld
    BY <2>1, <2>3, OwnCompactorStep DEF ReadInv
  <2>4. CASE UNCHANGED vars
    BY <2>1, <2>4, ZenonT(30) DEF ReadInv, NamesLead, LoadedIsOwn, vars, file, read
  <2> QED
    BY <2>2, <2>3, <2>4 DEF Next
<1>3. ReadInv => DecodesOwnBytes
  BY DEF ReadInv, LoadedIsOwn, DecodesOwnBytes
<1> QED
  BY <1>1, <1>2, <1>3, PTL DEF Spec
=============================================================================
