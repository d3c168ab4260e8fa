------------------------------- MODULE Archive -------------------------------
(***************************************************************************)
(* The archive of the log: closed files are copied to an object store by a  *)
(* worker (archive, worker.go, gcsarchive.go), compaction replaces them     *)
(* there too, and open reconciles the directory with it, or restores an     *)
(* empty directory from it (filesystem_log.go).                             *)
(*                                                                         *)
(* The process may be killed at any step and the machine, with its disk,    *)
(* may be lost; the disk itself is the subject of FileLog, so a change of   *)
(* the directory is one step here.  A record is its revision.               *)
(***************************************************************************)
EXTENDS Integers, Sequences, FiniteSets, FiniteSetsExt, SequencesExt

CONSTANTS QueueCap,         \* capacity of the archiver's queue
          MaxLog,           \* bound on the revisions
          MaxCompactions,   \* bound on the runs of compactGroup
          MaxKills,         \* bound on the kills of the running process
          MaxInterrupts,    \* bound on the kills during a restore
          MaxLosses         \* bound on the losses of the machine

ArchiveAssumption == QueueCap \in Nat \ {0}

VARIABLES dir,         \* the files of the directory; the last one is active
          committed,   \* the last revision that must be found again
          dead,        \* records that compaction dropped
          archive,     \* the objects of the store
          queue,       \* the archiver's queue
          op,          \* the operation the archiver is carrying out
          adds,        \* operations compactGroup has still to queue
          fetch,       \* objects a restore has still to download
          phase, compactions, kills, interrupts, losses

vars == <<dir, committed, dead, archive, queue, op, adds, fetch, phase,
          compactions, kills, interrupts, losses>>
counters == <<compactions, kills, interrupts, losses>>

-----------------------------------------------------------------------------
(* Files, as in FileLog: a name is the first revision and, for a compacted  *)
(* file, the last one.                                                      *)

File(first, last, sparse, held) ==
    [first |-> first, last |-> last, sparse |-> sparse, held |-> held, torn |-> FALSE]
NewFile(first) == File(first, first - 1, FALSE, {})
Name(f) == <<f.first, IF f.sparse THEN f.last ELSE 0>>
Named(files, name) == {f \in files : Name(f) = name}
Before(f, g) == 
    \/ f.first < g.first
    \/ f.first = g.first /\ f.sparse /\ (~g.sparse \/ f.last < g.last)
InOrder(files) == SetToSortSeq(files, Before)
Held(files) == UNION {f.held : f \in files}

Active == Last(InOrder(dir))
LastRevision == Active.last

\* listFiles: a compacted file drops the ones that start in its range.
Kept(files) ==
    FoldLeft(LAMBDA kept, f :
                IF kept # <<>> /\ Last(kept).sparse /\ f.first <= Last(kept).last THEN kept
                ELSE Append(kept, f), <<>>, InOrder(files))

\* open: a torn file that is not the last or is compacted, or a gap.
Refused(files) ==
    \E i \in 1..Len(files) :
        \/ files[i].torn /\ (i < Len(files) \/ files[i].sparse)
        \/ files[i].first # (IF i = 1 THEN 1 ELSE files[i - 1].last + 1)

UploadOf(f) == [name |-> Name(f), remove |-> FALSE]
RemovalOf(f) == [name |-> Name(f), remove |-> TRUE]
NoOp == [name |-> <<0, 0>>, remove |-> FALSE]

Init ==
    /\ dir = {} /\ committed = 0 /\ dead = {} /\ archive = {} /\ queue = <<>> /\ op = NoOp
    /\ adds = <<>> /\ fetch = <<>> /\ phase = "down"
    /\ compactions = 0 /\ kills = 0 /\ interrupts = 0 /\ losses = 0

-----------------------------------------------------------------------------
(* The log: a commit, a rotation, a compaction and Close.                  *)

CommitRecord ==
    /\ phase = "up" /\ LastRevision < MaxLog
    /\ committed' = Max({committed, LastRevision + 1})
    /\ dir' = (dir \ {Active}) \cup
                  {[Active EXCEPT !.last = LastRevision + 1, !.held = @ \cup {LastRevision + 1}]}
    /\ UNCHANGED <<dead, archive, queue, op, adds, fetch, phase, counters>>

\* rotateLocked: the next file is created before the old one is queued.
RotateTo(next) ==
    /\ Active.held # {} /\ Len(queue) < QueueCap
    /\ dir' = dir \cup {NewFile(LastRevision + 1)}
    /\ queue' = Append(queue, UploadOf(Active))
    /\ phase' = next
    /\ UNCHANGED <<committed, dead, archive, op, adds, fetch, counters>>

Rotate == phase = "up" /\ RotateTo("up")

\* compactGroup: files i..j are replaced by one with their live records; the
\* archive is to receive it and then to lose the originals.
Compact_RemovesFirst(i, j, drop) ==
    /\ phase = "up" /\ adds = <<>> /\ compactions < MaxCompactions
    /\ LET group == SubSeq(InOrder(dir), i, j)
           held == Held(ToSet(group))
           new == File(Head(group).first, Last(group).last, TRUE, held \ drop)
           gone == SelectSeq(group, LAMBDA f : Name(f) # Name(new))
       IN /\ drop \subseteq held /\ (i < j \/ drop # {})
          /\ dead' = dead \cup drop
          /\ dir' = (dir \ ToSet(group)) \cup {new}
          /\ adds' = [n \in 1..Len(gone) |-> RemovalOf(gone[n])] \o <<UploadOf(new)>>
    /\ compactions' = compactions + 1
    /\ UNCHANGED <<committed, archive, queue, op, fetch, phase, kills, interrupts, losses>>

Compact(i, j, drop) ==
    /\ phase = "up" /\ adds = <<>> /\ compactions < MaxCompactions
    /\ LET group == SubSeq(InOrder(dir), i, j)
           held == Held(ToSet(group))
           new == File(Head(group).first, Last(group).last, TRUE, held \ drop)
           gone == SelectSeq(group, LAMBDA f : Name(f) # Name(new))
       IN /\ drop \subseteq held /\ (i < j \/ drop # {})
          /\ dead' = dead \cup drop
          /\ dir' = (dir \ ToSet(group)) \cup {new}
          /\ adds' = <<UploadOf(new)>> \o [n \in 1..Len(gone) |-> RemovalOf(gone[n])]
    /\ compactions' = compactions + 1
    /\ UNCHANGED <<committed, archive, queue, op, fetch, phase, kills, interrupts, losses>>

QueueAdd ==
    /\ phase = "up" /\ adds # <<>> /\ Len(queue) < QueueCap
    /\ queue' = Append(queue, Head(adds))
    /\ adds' = Tail(adds)
    /\ UNCHANGED <<dir, committed, dead, archive, op, fetch, phase, counters>>

\* Close rotates, closes the queue and waits for the archiver.  Compact does
\* not run any more (the server has stopped).
Close ==
    /\ phase = "up" /\ adds = <<>>
    /\ IF Active.held # {} THEN RotateTo("closing")
       ELSE phase' = "closing"
            /\ UNCHANGED <<dir, committed, dead, archive, queue, op, adds, fetch, counters>>

Drained ==
    /\ phase = "closing" /\ queue = <<>> /\ op = NoOp
    /\ phase' = "closed"
    /\ UNCHANGED <<dir, committed, dead, archive, queue, op, adds, fetch, counters>>

-----------------------------------------------------------------------------
(* The archiver.  An operation that fails is tried again, for ever.        *)

Take ==
    /\ phase \in {"up", "closing"} /\ op = NoOp /\ queue # <<>>
    /\ op' = Head(queue)
    /\ queue' = Tail(queue)
    /\ UNCHANGED <<dir, committed, dead, archive, adds, fetch, phase, counters>>

\* Upload reads the file and creates the object if it does not exist;
\* explainWriteError compares it if it does.  A file that is gone is an error.
Uploading(f) == phase \in {"up", "closing"} /\ op # NoOp /\ ~op.remove /\ f \in Named(dir, op.name)

Upload(f) ==
    /\ Uploading(f) /\ Named(archive, op.name) \subseteq {f}
    /\ archive' = archive \cup {f}
    /\ op' = NoOp
    /\ UNCHANGED <<dir, committed, dead, queue, adds, fetch, phase, counters>>

\* The object was created, and the answer was lost.
UploadUnanswered(f) ==
    /\ Uploading(f) /\ Named(archive, op.name) = {}
    /\ archive' = archive \cup {f}
    /\ UNCHANGED <<dir, committed, dead, queue, op, adds, fetch, phase, counters>>

\* ErrRevisionConflict: archive panics.
UploadConflicts(f) ==
    /\ Uploading(f) /\ ~(Named(archive, op.name) \subseteq {f})
    /\ phase' = "panic"
    /\ UNCHANGED <<dir, committed, dead, archive, queue, op, adds, fetch, counters>>

Delete ==
    /\ phase \in {"up", "closing"} /\ op.remove
    /\ archive' = archive \ Named(archive, op.name)
    /\ op' = NoOp
    /\ UNCHANGED <<dir, committed, dead, queue, adds, fetch, phase, counters>>

-----------------------------------------------------------------------------
(* Stopping, and starting again.                                           *)

Stop == phase' = "down" /\ queue' = <<>> /\ op' = NoOp /\ adds' = <<>> /\ fetch' = <<>>

Kill ==
    /\ phase \in {"up", "closing", "panic", "closed"} /\ kills < MaxKills
    /\ kills' = kills + 1
    /\ Stop
    /\ UNCHANGED <<dir, committed, dead, archive, compactions, interrupts, losses>>

\* The machine is lost with its disk: what must be found again is what the
\* archive has.
Lose ==
    /\ phase # "down" /\ losses < MaxLosses
    /\ losses' = losses + 1
    /\ dir' = {}
    /\ committed' = IF archive = {} THEN 0 ELSE Last(Kept(archive)).last
    /\ dead' = dead \cap 1..committed'
    /\ Stop
    /\ UNCHANGED <<archive, compactions, kills, interrupts>>

\* reconcileArchive of an empty directory: every object is downloaded.
Restore ==
    /\ phase = "down" /\ dir = {} /\ archive # {}
    /\ phase' = "restoring" /\ fetch' = InOrder(archive)
    /\ UNCHANGED <<dir, committed, dead, archive, queue, op, adds, counters>>

Download ==
    /\ phase = "restoring" /\ fetch # <<>>
    /\ dir' = dir \cup {Head(fetch)} /\ fetch' = Tail(fetch)
    /\ UNCHANGED <<committed, dead, archive, queue, op, adds, phase, counters>>

\* A kill during a download leaves a prefix of the object under its name.
KillDownload ==
    /\ phase = "restoring" /\ fetch # <<>> /\ interrupts < MaxInterrupts
    /\ interrupts' = interrupts + 1
    /\ LET f == Head(fetch) IN
       \E n \in f.first - 1..f.last - 1 :
           dir' = dir \cup {[f EXCEPT !.held = @ \cap 1..n, !.torn = TRUE,
                                      !.last = IF f.sparse THEN f.last ELSE n]}
    /\ Stop
    /\ UNCHANGED <<committed, dead, archive, compactions, kills, losses>>

\* superseded, and the objects that the directory neither has nor supersedes.
Superseded_Never(files, f) == FALSE
Superseded(files, f) == \E g \in ToSet(files) : g.sparse /\ f.first \in g.first..g.last
Local(files, f) == \E g \in ToSet(files) : Name(g) = Name(f)
Foreign(files) == {f \in archive : ~Local(files, f) /\ ~Superseded(files, f)}

Archived(f) == Named(archive, Name(f)) # {}

\* open: objects that were superseded are removed, closed files that are not
\* archived are uploaded, and a new file is started unless the last one can be
\* appended to, which fails if it exists.  The archiver has not started: more than QueueCap operations
\* block for ever.
StartOps_NoUploads(files, renew) ==
    LET stale == InOrder({f \in archive : ~Local(files, f)})
    IN [n \in 1..Len(stale) |-> RemovalOf(stale[n])]

StartOps(files, renew) ==
    LET stale == InOrder({f \in archive : ~Local(files, f)})
        closed == IF renew THEN files ELSE Front(files)
        todo == SelectSeq(closed, LAMBDA f : ~Archived(f))
    IN [n \in 1..Len(stale) |-> RemovalOf(stale[n])] \o [n \in 1..Len(todo) |-> UploadOf(todo[n])]

Open ==
    /\ \/ phase = "restoring" /\ fetch = <<>>
       \/ phase = "down" /\ (dir # {} \/ archive = {})
    /\ \E files \in {Kept(dir)} :
       LET renew == files = <<>> \/ Last(files).sparse \/ Archived(Last(files))
           next == IF files = <<>> THEN 1 ELSE Last(files).last + 1
           ops == IF files = <<>> THEN <<>> ELSE StartOps(files, renew)
           exists == renew /\ Named(ToSet(files), Name(NewFile(next))) # {}
       IN IF Foreign(files) # {} \/ Refused(files) \/ exists
          THEN phase' = "refused" /\ dir' = ToSet(files) /\ UNCHANGED queue
          ELSE IF Len(ops) > QueueCap
          THEN phase' = "hung" /\ dir' = ToSet(files) /\ UNCHANGED queue
          ELSE /\ phase' = "up" /\ queue' = ops
               /\ dir' = {[f EXCEPT !.torn = FALSE] : f \in ToSet(files)}
                         \cup (IF renew THEN {NewFile(next)} ELSE {})
    /\ UNCHANGED <<committed, dead, archive, op, adds, fetch, counters>>

Archiver == Take \/ Delete \/ \E f \in dir : Upload(f) \/ UploadConflicts(f)

Next ==
    \/ CommitRecord \/ Rotate \/ QueueAdd \/ Close \/ Drained
    \/ \E j \in 1..Cardinality(dir) - 1 : \E i \in 1..j : \E drop \in SUBSET (1..committed) :
           Compact(i, j, drop)
    \/ Take \/ Delete \/ \E f \in dir : Upload(f) \/ UploadUnanswered(f) \/ UploadConflicts(f)
    \/ Kill \/ Lose \/ Restore \/ Download \/ KillDownload \/ Open

Spec == Init /\ [][Next]_vars

\* The archiver's goroutine runs, uploads succeed in the end, and a process
\* that stopped is started again.
FairSpec == Spec /\ WF_vars(Archiver) /\ WF_vars(Restore \/ Download \/ Open)

-----------------------------------------------------------------------------
Phases == {"down", "restoring", "up", "closing", "closed", "refused", "hung", "panic"}

TypeOK ==
    /\ phase \in Phases /\ committed \in 0..MaxLog /\ dead \in SUBSET (1..committed)
    /\ Len(queue) <= QueueCap
    /\ \A f \in dir \cup archive : f.held \subseteq f.first..f.last
    /\ phase = "up" => /\ ~Active.sparse /\ Active.last = committed
                       /\ ~Archived(Active) /\ UploadOf(Active) \notin ToSet(queue) \cup {op}

Live == (1..committed) \ dead

\* "a machine with no local files restores from it": whenever the machine is
\* lost, the objects in the archive, each upload, replacement and removal
\* half done, are a log without gaps that holds every live record it covers.
\* (Not after a kill: the next start removes objects before it uploads the
\* file that replaces them.)
ArchiveRestores ==
    LET files == Kept(archive) IN
    kills = 0 => /\ ~Refused(files)
                 /\ files # <<>> => Live \cap 1..Last(files).last \subseteq Held(ToSet(files))

\* A log that runs, started from its directory or restored from the archive,
\* holds every live record that is to be found again.  (Not after a restore that
\* was interrupted: the next start takes the files it left for the log.)
ServesLive == phase = "up" /\ interrupts = 0 => Live \subseteq Held(dir)

\* "otherwise every archived file must be present locally or superseded by a
\* local compacted file": a log whose archive nobody else writes to opens, unless
\* a restore was interrupted.
OpensAgain == interrupts = 0 => phase # "refused"

\* "rotates the active file so that everything committed is archived, waits for
\* uploads": once Close has waited for the archiver, every live record is in
\* the archive.
ClosedIsArchived == phase = "closed" => Live \subseteq Held(archive)

\* "Archive, if set, receives every closed file": a live record of a closed
\* file reaches the archive.
ClosedReachesArchive ==
    \A r \in 1..MaxLog :
        (phase = "up" /\ r \in Live \cap Held(dir \ {Active}))
            ~> (r \in dead \cup Held(archive) \/ phase \in {"refused", "hung", "panic"} \/ r > committed)

\* "A conflict means another writer is using the archive": one writer alone
\* meets no conflict.
NoConflict == phase # "panic"

\* "callers add items and never wait for them": opening the log does not wait
\* for the archiver, which has not started.
OpenReturns == phase # "hung"
==============================================================================
