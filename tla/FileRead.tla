------------------------------ MODULE FileRead ------------------------------
(***************************************************************************)
(* Reads of closed files against the compactions that replace them:        *)
(* recordBytes, loadLocked, readerLocked, unpin, Read and the swap of       *)
(* compactGroup (filesystem_log.go).                                        *)
(*                                                                         *)
(* One place in FilesystemLog.files is followed through its versions:       *)
(* version 1 is the dense file that the log wrote, each compaction makes    *)
(* the next one.  The compacted versions cover the same range, so they all  *)
(* have the same name.  Bytes, spans and handles are known by the version   *)
(* they come from, 0 being nil.  A step that holds a file's mutex is one    *)
(* action; what happens after its release is another.                       *)
(***************************************************************************)
EXTENDS Integers, FiniteSets

CONSTANTS Readers, Revs,   \* goroutines that read, revisions of the file
          Mapping,         \* the platforms: files can be mapped, or not
          MaxVersions      \* bound on the versions

ASSUME FileReadAssumption ==
    MaxVersions \in Nat \ {0} /\ Mapping \subseteq BOOLEAN /\ IsFiniteSet(Readers)

VARIABLES canMap,    \* whether the platform maps files
          current,   \* the version in FilesystemLog.files
          kept,      \* the revisions that each version holds
          disk,      \* the version that each name leads to, 0 for none
          compactor, \* where compactGroup is
          mapped, spans, reader, pins, retire,   \* of each version's logFile
          pc, rev, obj, bytes, got               \* of each reader

file == <<mapped, spans, reader, pins, retire>>
read == <<pc, rev, obj, bytes, got>>
vars == <<canMap, current, kept, disk, compactor, file, read>>

Versions == 1..MaxVersions
Names == {"dense", "sparse"}
Name(v) == IF v = 1 THEN "dense" ELSE "sparse"

Init ==
    /\ canMap \in Mapping /\ current = 1 /\ compactor = "idle"
    /\ kept = [v \in Versions |-> IF v = 1 THEN Revs ELSE {}]
    /\ disk = [n \in Names |-> IF n = "dense" THEN 1 ELSE 0]
    /\ mapped = [v \in Versions |-> 0] /\ spans = [v \in Versions |-> 0]
    /\ reader = [v \in Versions |-> 0] /\ pins = [v \in Versions |-> 0]
    /\ retire = [v \in Versions |-> FALSE]
    /\ pc = [r \in Readers |-> "idle"] /\ rev \in [Readers -> Revs]
    /\ obj = [r \in Readers |-> 0] /\ bytes = [r \in Readers |-> 0]
    /\ got = [r \in Readers |-> "nothing"]

-----------------------------------------------------------------------------
(* Loading a file, with its mutex held.                                    *)

\* readerLocked: the handle there is, or the file the name leads to now.
Handle(v) == IF reader[v] # 0 THEN reader[v] ELSE disk[Name(v)]

\* mmapFile: the bytes of the file, nil where the platform cannot map.
MmapFile(h) == IF canMap THEN h ELSE 0

\* loadLocked: maps the file and indexes it, each once.
Load(v) ==
    LET h == Handle(v)
        m == IF mapped[v] # 0 THEN mapped[v] ELSE MmapFile(h)
    IN /\ h # 0
       /\ reader' = [reader EXCEPT ![v] = h]
       /\ mapped' = [mapped EXCEPT ![v] = m]
       /\ spans' = [spans EXCEPT ![v] = IF @ # 0 THEN @ ELSE IF m # 0 THEN m ELSE h]

\* position, with the spans in s: a revision that compaction dropped is not there.
Position(s, x) == x \in kept[s]

Finish(r, answer) ==
    /\ pc' = [pc EXCEPT ![r] = "idle"]
    /\ obj' = [obj EXCEPT ![r] = 0] /\ bytes' = [bytes EXCEPT ![r] = 0]
    /\ got' = [got EXCEPT ![r] = answer]
    /\ UNCHANGED rev

-----------------------------------------------------------------------------
(* Readers.                                                                *)

\* recordBytes finds the file under the log's mutex, and releases it.
FindFile(r) ==
    /\ pc[r] = "idle"
    /\ pc' = [pc EXCEPT ![r] = "found"]
    /\ obj' = [obj EXCEPT ![r] = current]
    /\ \E x \in Revs : rev' = [rev EXCEPT ![r] = x]
    /\ got' = [got EXCEPT ![r] = "nothing"]
    /\ UNCHANGED <<canMap, current, kept, disk, compactor, file, bytes>>

\* The rest of recordBytes under the file's mutex: load, find the position,
\* pin the mapping or keep the handle.
RecordBytes(r) ==
    /\ pc[r] = "found" /\ Load(obj[r])
    /\ LET v == obj[r] IN
       IF ~Position(spans'[v], rev[r])
       THEN Finish(r, "compacted") /\ UNCHANGED pins
       ELSE /\ pc' = [pc EXCEPT ![r] = IF mapped'[v] # 0 THEN "pinned" ELSE "handle"]
            /\ bytes' = [bytes EXCEPT ![r] = IF mapped'[v] # 0 THEN mapped'[v] ELSE reader'[v]]
            /\ pins' = IF mapped'[v] # 0 THEN [pins EXCEPT ![v] = @ + 1] ELSE pins
            /\ UNCHANGED <<rev, obj, got>>
    /\ UNCHANGED <<canMap, current, kept, disk, compactor, retire>>

\* The name leads nowhere any more: the read fails.
OpenFails(r) ==
    /\ pc[r] = "found" /\ Handle(obj[r]) = 0
    /\ Finish(r, "error")
    /\ UNCHANGED <<canMap, current, kept, disk, compactor, file>>

Decoded(r) == IF bytes[r] = spans[obj[r]] THEN "record" ELSE "garbage"

\* GetLogEntry decodes the pinned bytes, and unpin: the last unpin of a
\* retired file unmaps it.
DecodeAndUnpin_Keeps(r) ==
    /\ pc[r] = "pinned"
    /\ pins' = [pins EXCEPT ![obj[r]] = @ - 1]
    /\ Finish(r, Decoded(r))
    /\ UNCHANGED <<canMap, current, kept, disk, compactor, mapped, spans, reader, retire>>

DecodeAndUnpin(r) ==
    /\ pc[r] = "pinned"
    /\ LET v == obj[r] IN
       /\ pins' = [pins EXCEPT ![v] = @ - 1]
       /\ mapped' = IF pins[v] = 1 /\ retire[v] THEN [mapped EXCEPT ![v] = 0] ELSE mapped
    /\ Finish(r, Decoded(r))
    /\ UNCHANGED <<canMap, current, kept, disk, compactor, spans, reader, retire>>

\* Without a mapping the record is read from the handle, which compaction may
\* have closed since.
ReadAt(r) ==
    /\ pc[r] = "handle"
    /\ Finish(r, IF reader[obj[r]] = bytes[r] THEN Decoded(r) ELSE "error")
    /\ UNCHANGED <<canMap, current, kept, disk, compactor, file>>

\* Read has a copy of the list of files, and opens them by name: a file that
\* is gone, or shorter than it was, is an error.
ReadAll(r) ==
    /\ pc[r] = "found"
    /\ Finish(r, IF disk[Name(obj[r])] # obj[r] THEN "error"
                 ELSE IF rev[r] \in kept[obj[r]] THEN "record" ELSE "compacted")
    /\ UNCHANGED <<canMap, current, kept, disk, compactor, file>>

-----------------------------------------------------------------------------
(* compactGroup.                                                           *)

\* liveRecords loads the file to read it.
Measure ==
    /\ compactor = "idle" /\ current < MaxVersions
    /\ Load(current)
    /\ compactor' = "measured"
    /\ UNCHANGED <<canMap, current, kept, disk, pins, retire, read>>

\* The live records are written and renamed into place.
Rename ==
    /\ compactor = "measured"
    /\ \E live \in SUBSET kept[current] :
          /\ current > 1 => live # kept[current]
          /\ kept' = [kept EXCEPT ![current + 1] = live]
    /\ disk' = [disk EXCEPT !["sparse"] = current + 1]
    /\ compactor' = "renamed"
    /\ UNCHANGED <<canMap, current, file, read>>

\* The swap, with the log's mutex and the file's: the mapping goes now, or
\* with the last unpin.  The new file is indexed.
Swap_Unmaps ==
    /\ compactor = "renamed"
    /\ current' = current + 1
    /\ spans' = [spans EXCEPT ![current + 1] = current + 1]
    /\ mapped' = [mapped EXCEPT ![current] = 0]
    /\ reader' = [reader EXCEPT ![current] = 0]
    /\ compactor' = IF current = 1 THEN "swapped" ELSE "idle"
    /\ UNCHANGED <<canMap, kept, disk, pins, retire, read>>

Swap_OldSpans ==
    /\ compactor = "renamed"
    /\ current' = current + 1
    /\ spans' = [spans EXCEPT ![current + 1] = spans[current]]
    /\ mapped' = IF pins[current] = 0 THEN [mapped EXCEPT ![current] = 0] ELSE mapped
    /\ retire' = [retire EXCEPT ![current] = mapped[current] # 0 /\ pins[current] > 0]
    /\ reader' = [reader EXCEPT ![current] = 0]
    /\ compactor' = IF current = 1 THEN "swapped" ELSE "idle"
    /\ UNCHANGED <<canMap, kept, disk, pins, read>>

Swap ==
    /\ compactor = "renamed"
    /\ current' = current + 1
    /\ spans' = [spans EXCEPT ![current + 1] = current + 1]
    /\ mapped' = IF pins[current] = 0 THEN [mapped EXCEPT ![current] = 0] ELSE mapped
    /\ retire' = [retire EXCEPT ![current] = mapped[current] # 0 /\ pins[current] > 0]
    /\ reader' = [reader EXCEPT ![current] = 0]
    /\ compactor' = IF current = 1 THEN "swapped" ELSE "idle"
    /\ UNCHANGED <<canMap, kept, disk, pins, read>>

\* The replaced file is removed, unless its replacement took its name.
RemoveOld ==
    /\ compactor = "swapped"
    /\ disk' = [disk EXCEPT !["dense"] = 0]
    /\ compactor' = "idle"
    /\ UNCHANGED <<canMap, current, kept, file, read>>

ReaderStep(r) ==
    RecordBytes(r) \/ OpenFails(r) \/ DecodeAndUnpin(r) \/ ReadAt(r) \/ ReadAll(r)

Next ==
    \/ \E r \in Readers : FindFile(r) \/ ReaderStep(r)
    \/ Measure \/ Rename \/ Swap \/ RemoveOld

Spec == Init /\ [][Next]_vars

\* Every read that began is finished by its goroutine.
FairSpec == Spec /\ \A r \in Readers : WF_vars(ReaderStep(r))

-----------------------------------------------------------------------------
Answers == {"nothing", "record", "garbage", "compacted", "error"}

Pinning(v) == {r \in Readers : pc[r] = "pinned" /\ obj[r] = v}

HoldsFile(r) ==
    /\ pc[r] # "idle" => obj[r] \in Versions
    /\ pc[r] = "pinned" => bytes[r] # 0

\* Each version counts exactly the readers that hold a pin on it, and they
\* were given bytes.
TypeOK ==
    /\ current \in Versions /\ disk \in [Names -> 0..MaxVersions]
    /\ mapped \in [Versions -> 0..MaxVersions] /\ spans \in [Versions -> 0..MaxVersions]
    /\ reader \in [Versions -> 0..MaxVersions] /\ retire \in [Versions -> BOOLEAN]
    /\ kept \in [Versions -> SUBSET Revs]
    /\ compactor \in {"idle", "measured", "renamed", "swapped"}
    /\ compactor \in {"measured", "renamed"} => current < MaxVersions
    /\ pc \in [Readers -> {"idle", "found", "pinned", "handle"}]
    /\ rev \in [Readers -> Revs] /\ got \in [Readers -> Answers]
    /\ obj \in [Readers -> 0..MaxVersions] /\ bytes \in [Readers -> 0..MaxVersions]
    /\ \A r \in Readers : HoldsFile(r)
    /\ pins \in [Versions -> Nat]
    /\ \A v \in Versions : pins[v] = Cardinality(Pinning(v))

\* The bytes a reader decodes stay mapped until it releases its pin, through
\* the swap and the pins of other readers: the mapping of the file is the one
\* it was given.
PinnedStaysMapped ==
    \A r \in Readers : pc[r] = "pinned" => mapped[obj[r]] = bytes[r]

\* A file replaced by compaction while pinned is unmapped by the last unpin.
RetiredIsUnmapped == \A v \in Versions : (retire[v] /\ mapped[v] = v) ~> mapped[v] # v

\* "recordBytes returns the encoded bytes of revision's record": what is
\* decoded was located in the bytes it is read from, as long as no compacted
\* file was compacted again.  (The new one takes its name, and a reader that
\* still holds the old logFile opens the new file with the old spans.)
DecodesOwnBytes == disk["sparse"] <= 2 => \A r \in Readers : got[r] # "garbage"

\* A name leads to the version that has it, and no reader is ahead of the log.
NamesLead ==
    /\ disk["dense"] \in {0, 1}
    /\ disk["sparse"] = IF compactor = "renamed" THEN current + 1
                        ELSE IF current = 1 THEN 0 ELSE current
    /\ \A r \in Readers : obj[r] <= current

\* Until a compacted file is compacted again, what was loaded for a version is
\* its own, and so is what its readers were given.
LoadedIsOwn ==
    disk["sparse"] <= 2 =>
        /\ \A v \in Versions : reader[v] \in {0, v} /\ mapped[v] \in {0, v} /\ spans[v] \in {0, v}
        /\ \A r \in Readers : pc[r] \in {"pinned", "handle"} =>
               bytes[r] = obj[r] /\ spans[obj[r]] = obj[r]
        /\ \A r \in Readers : got[r] # "garbage"

\* Inductive: with the pins counted, every reader holds bytes of the version it
\* found.
ReadInv == TypeOK /\ PinnedStaysMapped /\ NamesLead /\ LoadedIsOwn

\* "Reads of discarded revisions fail with ErrCompacted" (log.go), and no
\* others: a revision the log holds is read.
HeldIsRead ==
    \A r \in Readers : rev[r] \in kept[current] => got[r] # "error"

\* "a file replaced by compaction while pinned is marked retire, and the last
\* unpin unmaps it": a replaced file that nobody reads is not mapped.
ReplacedIsUnmapped ==
    \A v \in Versions :
        v < current /\ (\A r \in Readers : obj[r] # v) => mapped[v] = 0
=============================================================================
