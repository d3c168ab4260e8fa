------------------------------- MODULE FileLog -------------------------------
(***************************************************************************)
(* The files of the log on a disk that crashes: commitBatch, rotation,      *)
(* compactGroup and the recovery that open and listFiles do                 *)
(* (filesystem_log.go), without an archive.                                 *)
(*                                                                         *)
(* The disk keeps what was synced.  Of the bytes written to a file after    *)
(* its last Sync a crash keeps any prefix, which may end inside a record.   *)
(* Of the changes to the directory since the last syncDir it keeps any      *)
(* prefix: directory operations reach the disk in order.  A record is its   *)
(* revision, and sizes are counted in records.                              *)
(***************************************************************************)
EXTENDS Integers, Sequences, FiniteSets, FiniteSetsExt, SequencesExt

CONSTANTS RotateSize,       \* Options.RotateBytes, in records
          MaxBatch,         \* bound on the records of a batch
          MaxLog,           \* bound on the revisions
          MaxCrashes,       \* bound on the crashes of the machine
          MaxKills,         \* bound on the crashes of the process alone
          MaxRemoveErrors   \* bound on the os.Remove calls that fail

FileLogAssumption == RotateSize \in Nat \ {0} /\ MaxBatch \in Nat \ {0}

VARIABLES dirs,      \* the directory after each change since the last syncDir
          dense,     \* contents of the dense files, by first revision
          files,     \* FilesystemLog.files
          phase,     \* where the writer (commitBatch, rotateLocked, open) is
          comp,      \* the running compactGroup
          dead,      \* records that compaction found superseded
          acked,     \* highest revision acknowledged to a client
          crashes, kills, errors

vars == <<dirs, dense, files, phase, comp, dead, acked, crashes, kills, errors>>

-----------------------------------------------------------------------------
(* Names and contents.                                                     *)

Dense(first) == [first |-> first, last |-> 0, sparse |-> FALSE, held |-> {}]
Sparse(first, last, held) == [first |-> first, last |-> last, sparse |-> TRUE, held |-> held]
SameName(e, f) == e.first = f.first /\ e.last = f.last

LastOf(e) == IF e.sparse THEN e.last ELSE dense[e.first].written
HeldBy(e) == IF e.sparse THEN e.held ELSE e.first..dense[e.first].written

Current == Last(dirs)
ActiveFirst == Last(files).first
LastRevision == dense[ActiveFirst].written
Fresh(first) == [written |-> first - 1, synced |-> first - 1, header |-> FALSE, torn |-> FALSE]
NoCompaction == [step |-> "none", group |-> <<>>, out |-> Dense(0), todo |-> <<>>]

Init ==
    /\ dirs = <<{}>> /\ files = <<>> /\ phase = "down" /\ comp = NoCompaction
    /\ dense = [f \in 1..MaxLog + 1 |-> Fresh(f)]
    /\ dead = {} /\ acked = 0 /\ crashes = 0 /\ kills = 0 /\ errors = 0

-----------------------------------------------------------------------------
(* The writer.                                                             *)

\* commitBatch: the batch is written, synced, and then published.
Write(n) ==
    /\ phase = "idle" /\ LastRevision + n <= MaxLog
    /\ dense' = [dense EXCEPT ![ActiveFirst].written = @ + n]
    /\ phase' = "written"
    /\ UNCHANGED <<dirs, files, comp, dead, acked, crashes, kills, errors>>

Sync ==
    /\ phase = "written"
    /\ dense' = [dense EXCEPT ![ActiveFirst].synced = dense[ActiveFirst].written]
    /\ phase' = "synced"
    /\ UNCHANGED <<dirs, files, comp, dead, acked, crashes, kills, errors>>

Publish_BeforeSync ==
    /\ phase = "written"
    /\ acked' = LastRevision
    /\ phase' = IF LastRevision - ActiveFirst + 1 >= RotateSize THEN "create" ELSE "idle"
    /\ UNCHANGED <<dirs, dense, files, comp, dead, crashes, kills, errors>>

Publish ==
    /\ phase = "synced"
    /\ acked' = LastRevision
    /\ phase' = IF LastRevision - ActiveFirst + 1 >= RotateSize THEN "create" ELSE "idle"
    /\ UNCHANGED <<dirs, dense, files, comp, dead, crashes, kills, errors>>

\* tick: a file that is old enough is rotated if it has records.
Tick ==
    /\ phase = "idle" /\ LastRevision >= ActiveFirst
    /\ phase' = "create"
    /\ UNCHANGED <<dirs, dense, files, comp, dead, acked, crashes, kills, errors>>

\* newActiveFile: create, write and sync the header, syncDir.
NextFirst == IF files = <<>> THEN 1 ELSE LastOf(Last(files)) + 1

CreateFile ==
    /\ phase = "create"
    /\ dirs' = Append(dirs, Current \cup {Dense(NextFirst)})
    /\ dense' = [dense EXCEPT ![NextFirst] = Fresh(NextFirst)]
    /\ phase' = "header"
    /\ UNCHANGED <<files, comp, dead, acked, crashes, kills, errors>>

WriteHeader ==
    /\ phase = "header"
    /\ dense' = [dense EXCEPT ![NextFirst].header = TRUE]
    /\ phase' = "syncdir"
    /\ UNCHANGED <<dirs, files, comp, dead, acked, crashes, kills, errors>>

StartFile ==
    /\ phase = "syncdir"
    /\ dirs' = <<Current>>
    /\ files' = Append(files, Dense(NextFirst))
    /\ phase' = "idle"
    /\ UNCHANGED <<dense, comp, dead, acked, crashes, kills, errors>>

-----------------------------------------------------------------------------
(* compactGroup.                                                           *)

Running == phase \notin {"down", "refused"}
MuHeld == phase \in {"create", "header", "syncdir"}

\* The live records of files i..j are copied to a temporary file, which is
\* synced; `drop' are the ones the index no longer needs.
CompactWrite_FirstOnly(i, j, drop) ==
    /\ Running /\ comp = NoCompaction
    /\ LET group == SubSeq(files, i, j)
           held == UNION {HeldBy(group[k]) : k \in 1..Len(group)}
       IN /\ drop \subseteq held /\ (i < j \/ drop # {})
          /\ dead' = dead \cup drop
          /\ comp' = [step |-> "tmp", group |-> group, todo |-> <<>>,
                      out |-> Sparse(Head(group).first, LastOf(Last(group)), HeldBy(Head(group)) \ drop)]
    /\ UNCHANGED <<dirs, dense, files, phase, acked, crashes, kills, errors>>

CompactWrite(i, j, drop) ==
    /\ Running /\ comp = NoCompaction
    /\ LET group == SubSeq(files, i, j)
           held == UNION {HeldBy(group[k]) : k \in 1..Len(group)}
       IN /\ drop \subseteq held /\ (i < j \/ drop # {})
          /\ dead' = dead \cup drop
          /\ comp' = [step |-> "tmp", group |-> group, todo |-> <<>>,
                      out |-> Sparse(Head(group).first, LastOf(Last(group)), held \ drop)]
    /\ UNCHANGED <<dirs, dense, files, phase, acked, crashes, kills, errors>>

CompactRename ==
    /\ comp.step = "tmp"
    /\ dirs' = Append(dirs, {e \in Current : ~SameName(e, comp.out)} \cup {comp.out})
    /\ comp' = [comp EXCEPT !.step = "renamed"]
    /\ UNCHANGED <<dense, files, phase, dead, acked, crashes, kills, errors>>

\* syncDir, and the swap in the index, which needs mu.
CompactSwap ==
    /\ comp.step = "renamed" /\ ~MuHeld
    /\ dirs' = <<Current>>
    /\ LET i == CHOOSE k \in 1..Len(files) : files[k] = Head(comp.group)
       IN files' = SubSeq(files, 1, i - 1) \o <<comp.out>>
                       \o SubSeq(files, i + Len(comp.group), Len(files))
    /\ comp' = [comp EXCEPT !.step = "remove",
                    !.todo = SelectSeq(comp.group, LAMBDA e : ~SameName(e, comp.out))]
    /\ UNCHANGED <<dense, phase, dead, acked, crashes, kills, errors>>

\* The replaced files are removed one by one; a failure is only logged.
NextRemoval == IF Len(comp.todo) <= 1 THEN NoCompaction ELSE [comp EXCEPT !.todo = Tail(@)]

CompactRemove ==
    /\ comp.step = "remove"
    /\ dirs' = IF comp.todo = <<>> THEN dirs ELSE Append(dirs, Current \ {Head(comp.todo)})
    /\ comp' = NextRemoval
    /\ UNCHANGED <<dense, files, phase, dead, acked, crashes, kills, errors>>

CompactRemoveFails ==
    /\ comp.step = "remove" /\ comp.todo # <<>> /\ errors < MaxRemoveErrors
    /\ errors' = errors + 1
    /\ comp' = NextRemoval
    /\ UNCHANGED <<dirs, dense, files, phase, dead, acked, crashes, kills>>

-----------------------------------------------------------------------------
(* Crash and recovery.                                                     *)

\* What may be left of a dense file that was being written.
Remains(d) ==
    {l \in [written : d.synced..d.written, synced : {d.synced}, header : {d.header, TRUE},
            torn : BOOLEAN] : l.torn => l.written < d.written}

Written == IF phase \in {"header", "syncdir"} THEN NextFirst
           ELSE IF files = <<>> THEN 1 ELSE ActiveFirst

Stopped == phase' = "down" /\ files' = <<>> /\ comp' = NoCompaction

\* The machine stops: the disk keeps a prefix of what was not synced.
Crash ==
    /\ Running /\ crashes < MaxCrashes
    /\ crashes' = crashes + 1
    /\ \E i \in 1..Len(dirs) : dirs' = <<dirs[i]>>
    /\ \E left \in Remains(dense[Written]) :
           dense' = [dense EXCEPT ![Written] = [left EXCEPT !.synced = left.written]]
    /\ Stopped
    /\ UNCHANGED <<dead, acked, kills, errors>>

\* The process stops: what it did is still there, synced or not; a write in
\* progress may be cut.
Kill ==
    /\ Running /\ kills < MaxKills
    /\ kills' = kills + 1
    /\ \E left \in Remains(dense[Written]) :
           /\ phase # "written" => left.written = dense[Written].written
           /\ dense' = [dense EXCEPT ![Written] = left]
    /\ Stopped
    /\ UNCHANGED <<dirs, dead, acked, crashes, errors>>

\* listFiles: in name order, a compacted file drops those that follow it and
\* start in its range.
Before(e, f) ==
    \/ e.first < f.first
    \/ e.first = f.first /\ e.sparse /\ ~f.sparse
    \/ e.first = f.first /\ e.sparse /\ f.sparse /\ e.last < f.last

Listed == SetToSortSeq(Current, Before)

Kept ==
    FoldLeft(LAMBDA kept, e :
                IF /\ kept # <<>> /\ Last(kept).sparse
                   /\ e.first \in Last(kept).first..Last(kept).last
                THEN kept ELSE Append(kept, e), <<>>, Listed)

Removed == SelectSeq(Listed, LAMBDA e : ~Contains(Kept, e))

\* open refuses a file without its header, a torn file that is not the last,
\* and a sequence of files that has a gap or does not start at 1.
Refused(kept) ==
    \E i \in 1..Len(kept) :
        \/ ~kept[i].sparse /\ ~dense[kept[i].first].header
        \/ i < Len(kept) /\ ~kept[i].sparse /\ dense[kept[i].first].torn
        \/ kept[i].first # (IF i = 1 THEN 1 ELSE LastOf(kept[i - 1]) + 1)

Open ==
    /\ phase = "down"
    /\ dirs' = FoldLeft(LAMBDA ds, e : Append(ds, Last(ds) \ {e}), dirs, Removed)
    /\ IF Refused(Kept)
       THEN phase' = "refused" /\ UNCHANGED <<dense, files>>
       ELSE /\ files' = Kept
            /\ phase' = IF Kept = <<>> \/ Last(Kept).sparse THEN "create" ELSE "idle"
            /\ dense' = IF Kept = <<>> \/ Last(Kept).sparse THEN dense
                        ELSE [dense EXCEPT ![Last(Kept).first].torn = FALSE]
    /\ UNCHANGED <<comp, dead, acked, crashes, kills, errors>>

Next ==
    \/ \E n \in 1..MaxBatch : Write(n)
    \/ Sync \/ Publish \/ Tick
    \/ CreateFile \/ WriteHeader \/ StartFile
    \/ \E j \in 1..Len(files) - 1 : \E i \in 1..j : \E drop \in SUBSET (1..acked) :
           CompactWrite(i, j, drop)
    \/ CompactRename \/ CompactSwap \/ CompactRemove \/ CompactRemoveFails
    \/ Crash \/ Kill \/ Open

Spec == Init /\ [][Next]_vars

-----------------------------------------------------------------------------
Steps == {"none", "tmp", "renamed", "remove"}
Phases == {"down", "refused", "idle", "written", "synced", "create", "header", "syncdir"}

\* The files in memory are in the directory, partition the revisions from 1
\* on, and the last of them is a dense one with its header.
TypeOK ==
    /\ phase \in Phases /\ comp.step \in Steps /\ acked \in 0..MaxLog
    /\ crashes \in 0..MaxCrashes /\ kills \in 0..MaxKills
    /\ errors \in 0..MaxRemoveErrors /\ dead \in SUBSET (1..acked)
    /\ \A i \in 1..Len(files) :
          /\ files[i] \in Current \/ comp.step = "renamed"
          /\ files[i].first = IF i = 1 THEN 1 ELSE LastOf(files[i - 1]) + 1
    /\ phase \in {"idle", "written", "synced"} =>
          ~Last(files).sparse /\ dense[ActiveFirst].header
    /\ phase = "create" => Dense(NextFirst) \notin Current

Live == (1..acked) \ dead

\* What is on the disk whichever prefix of the unsynced changes survives.
Durable(dir) == UNION {IF e.sparse THEN e.held ELSE e.first..dense[e.first].synced : e \in dir}

\* At every moment a crash of the machine leaves every acknowledged record that is still live
\* on the disk: commit, rotation, compaction and the removals of a recovery
\* never have it in unsynced bytes or unsynced directory entries only.  (Not once
\* the process alone was killed, or a removal failed: the next start relies on
\* an entry that was not synced, or keeps the wrong one of two files.)
AckedIsOnDisk == kills = 0 /\ errors = 0 => \A i \in 1..Len(dirs) : Live \subseteq Durable(dirs[i])

\* A log that opened serves every acknowledged record that is still live, and
\* continues after it: "A write cut short by a crash: nothing past it was
\* acknowledged".
RecoversAcked ==
    phase \in {"idle", "written", "synced"} =>
        /\ LastRevision >= acked
        /\ Live \subseteq UNION {HeldBy(files[i]) : i \in 1..Len(files)}

\* The log refuses to open only because of a file without a header, unless a
\* removal failed.
RefusesOnlyHeaderless ==
    phase = "refused" /\ errors = 0 => \E e \in Current : ~e.sparse /\ ~dense[e.first].header

\* "it covers this file's revisions, so this file is one that compaction was
\* about to remove" (listFiles): a file is removed at start only if the
\* compacted file kept before it holds all of its range.
RemovedFilesAreCovered ==
    phase = "down" =>
        \A i \in 1..Len(Removed) :
            \E j \in 1..Len(Kept) : /\ Kept[j].sparse
                                    /\ Kept[j].first <= Removed[i].first
                                    /\ LastOf(Removed[i]) <= Kept[j].last

\* "open ... repairs a torn tail on the last file, and opens it for appending":
\* the log opens again after a crash.
AlwaysOpens == phase # "refused"
=============================================================================
