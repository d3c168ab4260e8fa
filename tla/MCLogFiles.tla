---------------------------- MODULE MCLogFiles ----------------------------
(***************************************************************************)
(* Parts of the filesystem log on small instances, one at a time: the       *)
(* rewriting of the log with the index, the encoding of a file, the record  *)
(* cache and the archive.  `part' says which one runs, the others stay in   *)
(* their first state.                                                       *)
(***************************************************************************)
EXTENDS LogCompaction

CONSTANTS a, b

VARIABLES part,
          data, spans, revisions, last, synced, closed,
          ll, items, used, recent,
          dir, committed, dead, archive, queue, op, adds, fetch, phase,
          compactions, kills, interrupts, losses

codec == <<data, spans, revisions, last, synced, closed>>
cache == <<ll, items, used, recent>>
archiving == <<dir, committed, dead, archive, queue, op, adds, fetch, phase,
               compactions, kills, interrupts, losses>>

Put(k) == [type |-> "PUT", key |-> k]
Delete(k) == [type |-> "DELETE", key |-> k]

\* Puts and deletes of one key, and a record that writes both.
SomeRecords == {{Put(a)}, {Delete(b)}, {Put(a), Put(b)}}

\* Varints of one to three bytes.
Codec == INSTANCE LogCodec WITH
    Base <- 2, Lengths <- {1, 2, 5}, Fills <- {0, 1, 2, 3}, MaxRecords <- 4

\* Records of several sizes, one of them above the budget.
Cache == INSTANCE RecordCache WITH
    Revisions <- 1..6, Size <- <<1, 2, 3, 2, 1, 5>>, Budget <- 4

Archiving == INSTANCE Archive WITH
    QueueCap <- 4, MaxLog <- 3, MaxCompactions <- 2, MaxKills <- 1, MaxInterrupts <- 0,
    MaxLosses <- 1

ASSUME Codec!CodecAssumption /\ Cache!CacheAssumption /\ Archiving!ArchiveAssumption

-----------------------------------------------------------------------------
MCInit ==
    /\ part \in {"rewriting", "codec", "cache", "archive"}
    /\ Init /\ Codec!Init /\ Cache!Init /\ Archiving!Init

\* The process is killed, or the machine is lost, once.
MCNext ==
    /\ \/ part = "rewriting" /\ Next /\ UNCHANGED <<codec, cache, archiving>>
       \/ part = "codec" /\ Codec!Next /\ UNCHANGED <<vars, cache, archiving>>
       \/ part = "cache" /\ Cache!Next /\ UNCHANGED <<vars, codec, archiving>>
       \/ part = "archive" /\ Archiving!Next /\ kills' + losses' <= 1
             /\ UNCHANGED <<vars, codec, cache>>
    /\ UNCHANGED part

MCSpec == MCInit /\ [][MCNext]_<<part, vars, codec, cache, archiving>>

-----------------------------------------------------------------------------
\* The index of a file that commits, compactions and recoveries keep is what
\* Scan and Offsets read back from its bytes, and a file cut short anywhere is a
\* torn tail, never an error (LogCodec).
IndexIsScan == part = "codec" => Codec!IndexIsScan /\ Codec!CutsAreTornTails

\* The cache counts the bytes of the records it holds, within the budget, and
\* evicts the least recently used record first (RecordCache).
EvictsOldest == part = "cache" => Cache!UsedIsSum /\ Cache!RecentIsCached

\* The objects in the archive are a complete log at every moment, and once Close
\* has returned they hold every live record (Archive).
ArchiveRestores == part = "archive" => Archiving!ArchiveRestores /\ Archiving!ClosedIsArchived

\* A log whose archive nobody else writes to opens, after a kill or on another
\* machine, and then holds every live record (Archive).
OpensWithLive ==
    part = "archive" => Archiving!TypeOK /\ Archiving!OpensAgain /\ Archiving!ServesLive
=============================================================================
