---------------------------- MODULE LogCompaction ----------------------------
(***************************************************************************)
(* Compaction of the index and of the log, and the replay that rebuilds the *)
(* index from the compacted log: MemoryStorage.Compact and ReplayLog        *)
(* (memory.go), BPTree.Compact (bptree.go), FilesystemLog.Compact and       *)
(* compactGroup (filesystem_log.go).                                        *)
(*                                                                         *)
(* A record is the set of its events, of distinct keys.  The history of all *)
(* records is kept in `log'; `files' and `active' say which of them the     *)
(* disk holds.  The files have ranges that do not overlap, so their order   *)
(* is that of their first revisions.                                        *)
(* The size of a file is counted in records.  What a crash does to the      *)
(* files themselves is the subject of FileLog: here a group of files is     *)
(* replaced in one step, and a restart finds the files as they are.         *)
(***************************************************************************)
EXTENDS Integers, Sequences, FiniteSets, FiniteSetsExt

CONSTANTS Keys,
          Records,        \* the records that may be committed
          RotateSize,     \* Options.RotateBytes, in records
          DeadShare,      \* a lone file is left alone while dead * DeadShare < count
          MaxLog,         \* bound on the length of the log
          MaxRestarts     \* bound on the restarts

ASSUME LogCompactionAssumption ==
    /\ RotateSize \in Nat \ {0} /\ DeadShare \in Nat /\ MaxLog \in Nat \ {0}
    /\ MaxRestarts \in Nat
    /\ \A rec \in Records : \A e, f \in rec : e.key = f.key => e = f

VARIABLES log,        \* every record committed, in revision order
          files,      \* the closed files: ranges, and the revisions they hold
          active,     \* the file that commits append to
          index,      \* BPTree: the revisions of each key, and the tombstone flag
          compacted,  \* MemoryStorage.compacted
          jobs,       \* background log compactions that have not started
          plan,       \* the running one: its revision and the groups of files left
          floor,      \* the highest revision ever compacted through
          restarts

vars == <<log, files, active, index, compacted, jobs, plan, floor, restarts>>

NoKey == [revs |-> {}, tombstone |-> FALSE]
NoPlan == [through |-> 0, groups |-> {}]
NewFile(first) == [first |-> first, last |-> first - 1, sparse |-> FALSE, held |-> {}]

Init ==
    /\ log = <<{}>>          \* the dummy record of the first start
    /\ files = {} /\ active = [NewFile(1) EXCEPT !.last = 1, !.held = {1}]
    /\ index = [k \in Keys |-> NoKey]
    /\ compacted = 0 /\ jobs = {} /\ plan = NoPlan /\ floor = 0 /\ restarts = 0

-----------------------------------------------------------------------------
(* The index.                                                              *)

Touches(rec, k) == \E e \in rec : e.key = k
Deletes(rec, k) == [type |-> "DELETE", key |-> k] \in rec

\* GetLatestRevisionByKey, 0 for none.
LatestIn(ix, k, at) == Max({0} \cup {r \in ix[k].revs : r <= at})

\* AddRevision for each event of a record.
AddRecord(ix, r) ==
    [k \in Keys |->
        IF Touches(log'[r], k)
        THEN [revs |-> ix[k].revs \cup {r}, tombstone |-> Deletes(log'[r], k)]
        ELSE ix[k]]

\* compactRevisions: a key whose latest write is a delete at or below through
\* goes; the others keep their latest write at or below it, and what follows.
CompactRevisions_Strict(entry, through) ==
    IF entry.revs = {} \/ (entry.tombstone /\ Max(entry.revs) <= through) THEN NoKey
    ELSE [entry EXCEPT !.revs = {r \in @ : r > through \/ r = Max(entry.revs)}]

CompactRevisions(entry, through) ==
    IF entry.revs = {} \/ (entry.tombstone /\ Max(entry.revs) <= through) THEN NoKey
    ELSE [entry EXCEPT !.revs =
             {r \in @ : ~ \E s \in entry.revs : r < s /\ s <= through}]

-----------------------------------------------------------------------------
(* Commit and rotation.                                                    *)

\* A record is committed to the active file, which is rotated when it is full,
\* and applied to the index.  txn.delete writes a delete only of a key that it
\* finds with a put.
Commit(rec) ==
    /\ Len(log) < MaxLog
    /\ \A e \in rec : e.type = "DELETE" =>
           index[e.key].revs # {} /\ ~index[e.key].tombstone
    /\ LET r == Len(log) + 1
           grown == [active EXCEPT !.last = r, !.held = @ \cup {r}]
           full == Cardinality(grown.held) >= RotateSize
       IN /\ log' = Append(log, rec)
          /\ files' = IF full THEN files \cup {grown} ELSE files
          /\ active' = IF full THEN NewFile(r + 1) ELSE grown
          /\ index' = AddRecord(index, r)
    /\ UNCHANGED <<compacted, jobs, plan, floor, restarts>>

\* tick: an active file that is old enough is rotated if it has records.
Tick ==
    /\ active.held # {}
    /\ files' = files \cup {active} /\ active' = NewFile(active.last + 1)
    /\ UNCHANGED <<log, index, compacted, jobs, plan, floor, restarts>>

-----------------------------------------------------------------------------
(* Compaction.                                                             *)

\* MemoryStorage.Compact: the index at once, the log in the background.
Compact(through) ==
    /\ through > compacted /\ through <= Len(log)
    /\ compacted' = through
    /\ floor' = Max({floor, through})
    /\ index' = [k \in Keys |-> CompactRevisions(index[k], through)]
    /\ jobs' = jobs \cup {through}
    /\ UNCHANGED <<log, files, active, plan, restarts>>

\* The callback that Compact gives to the log, and liveRecords: a record is
\* live if it is the latest write at or below through of one of its keys,
\* according to the index at the time of the call.
Live_LatestOnly(r, through) ==
    \E e \in log[r] : LatestIn(index, e.key, Len(log)) = r

Live(r, through) ==
    \E e \in log[r] : LatestIn(index, e.key, through) = r

LiveRecords(f, through) == {r \in f.held : Live(r, through)}
DeadRecords(f, through) == f.held \ LiveRecords(f, through)

\* The closed files at or below through.
Eligible_Active(through) == {f \in files \cup {active} : f.last <= through}

Eligible(through) == {f \in files : f.last <= through}

\* Neighbouring files are grouped while their live records fit in one file: a
\* file starts a group if there is none before it, or if the one before it has
\* live records and would grow too large.
StartsGroups(starts, fs, through) ==
    LET live(from, to) == UNION {LiveRecords(f, through) : f \in {g \in fs : g.first \in from..to}}
    IN \A f \in fs :
         f \in starts <=>
           \A s \in starts :
             (s.first < f.first /\ \A t \in starts : t.first < f.first => t.first <= s.first) =>
                /\ live(s.first, f.first - 1) # {}
                /\ Cardinality(live(s.first, f.first)) > RotateSize

\* The group that s starts.
Group(s, starts, fs) ==
    [first |-> s.first,
     files |-> {f \in fs : /\ s.first <= f.first
                           /\ \A t \in starts : t.first <= f.first => t.first <= s.first}]

\* A lone file that is (nearly) all live is left alone.
WorthRewriting(g, through) ==
    \/ Cardinality(g.files) > 1
    \/ \E f \in g.files : LET dead == Cardinality(DeadRecords(f, through))
                          IN dead > 0 /\ dead * DeadShare >= Cardinality(f.held)

\* FilesystemLog.Compact takes compactMu, picks the files and groups them.
StartRewrite(through) ==
    /\ plan = NoPlan /\ through \in jobs
    /\ jobs' = jobs \ {through}
    /\ \E starts \in SUBSET Eligible(through) :
          /\ StartsGroups(starts, Eligible(through), through)
          /\ plan' = LET groups == {Group(s, starts, Eligible(through)) : s \in starts}
                         todo == {g \in groups : WorthRewriting(g, through)}
                     IN IF todo = {} THEN NoPlan ELSE [through |-> through, groups |-> todo]
    /\ UNCHANGED <<log, files, active, index, compacted, floor, restarts>>

\* compactGroup: a run of files is replaced by one sparse file with the
\* records that are live now.  The groups are taken in order.
RewriteGroup ==
    /\ \E g \in plan.groups :
          LET merged == [first |-> g.first, last |-> Max({f.last : f \in g.files}), sparse |-> TRUE,
                         held |-> UNION {LiveRecords(f, plan.through) : f \in g.files}]
          IN /\ \A h \in plan.groups : g.first <= h.first
             /\ files' = (files \ g.files) \cup {merged}
             /\ plan' = IF plan.groups = {g} THEN NoPlan ELSE [plan EXCEPT !.groups = @ \ {g}]
    /\ UNCHANGED <<log, active, index, compacted, jobs, floor, restarts>>

\* The revisions whose records are on disk.
Held == active.held \cup UNION {f.held : f \in files}

\* The process is restarted: replay applies every record the files hold, in
\* revision order; the compacted revision is not stored anywhere.
Replay ==
    [k \in Keys |->
        LET revs == {r \in Held : Touches(log[r], k)}
        IN [revs |-> revs, tombstone |-> revs # {} /\ Deletes(log[Max(revs)], k)]]

Restart ==
    /\ restarts < MaxRestarts
    /\ restarts' = restarts + 1
    /\ index' = Replay
    /\ compacted' = 0 /\ jobs' = {} /\ plan' = NoPlan
    /\ UNCHANGED <<log, files, active, floor>>

\* The index is emptied and replayed in the running process: compacted and the
\* background rewrites stay as they are.
ForceReplayLog ==
    /\ index' = Replay
    /\ UNCHANGED <<log, files, active, compacted, jobs, plan, floor, restarts>>

Next ==
    \/ \E rec \in Records : Commit(rec)
    \/ Tick
    \/ \E through \in 1..MaxLog : Compact(through)
    \/ \E through \in jobs : StartRewrite(through)
    \/ RewriteGroup
    \/ Restart
    \/ ForceReplayLog

Spec == Init /\ [][Next]_vars

-----------------------------------------------------------------------------
Entry == [revs : SUBSET (1..MaxLog), tombstone : BOOLEAN]
File == [first : 1..(MaxLog + 1), last : 0..MaxLog, sparse : BOOLEAN, held : SUBSET (1..MaxLog)]

\* The ranges of the files do not overlap and cover the log, the active file is
\* the last, and dense files hold all of their range.
TypeOK ==
    /\ log \in Seq(Records \cup {{}}) /\ Len(log) <= MaxLog
    /\ index \in [Keys -> Entry]
    /\ compacted \in 0..floor /\ floor \in 0..Len(log) /\ restarts \in 0..MaxRestarts
    /\ jobs \in SUBSET (1..compacted)
    /\ plan \in [through : 0..compacted, groups : SUBSET [first : 1..(MaxLog + 1), files : SUBSET File]]
    /\ files \in SUBSET File /\ active \in File
    /\ active.first <= active.last + 1 /\ active.last = Len(log) /\ ~active.sparse
    /\ \A f \in files : f.first <= f.last /\ f.last < active.first
    /\ \A f, g \in files : f # g => f.last < g.first \/ g.last < f.first
    /\ \A f \in files \cup {active} :
          /\ f.held \subseteq f.first..f.last
          /\ f.sparse \/ f.held = f.first..f.last
    /\ \A r \in 1..Len(log) : \E f \in files \cup {active} : r \in f.first..f.last

\* The write of k that a read at revision `at' must see, 0 for none.
LastWrite(k, at) == Max({0} \cup {r \in 1..at : Touches(log[r], k)})
Exists(k, at) == LastWrite(k, at) > 0 /\ ~Deletes(log[LastWrite(k, at)], k)

\* Every revision that the index gives to a read which checkReadRevision lets
\* through is in the log: no rewrite drops it, before or after a restart or a
\* replay, whichever compactions overlap.  (A missing one ends the process.)
ReadsFindTheirRecord ==
    \A k \in Keys : \A at \in compacted..Len(log) :
        LatestIn(index, k, at) \in Held \cup {0}

\* The state above the compaction point survives compaction and restart: a
\* key that exists at a revision from the highest compaction on is found
\* there, at its revision.
ExistingKeysKept ==
    \A k \in Keys : \A at \in floor..Len(log) :
        Exists(k, at) => LatestIn(index, k, at) = LastWrite(k, at)

\* The groups of the running rewrite are closed files at or below its revision,
\* apart from each other, and no other file lies between those of a group.
PlanOK ==
    \A g \in plan.groups :
        /\ \A f \in g.files : f \in files /\ f.last <= plan.through /\ g.first <= f.first
        /\ \E f \in g.files : f.first = g.first
        /\ \A f \in files \ g.files : f.last < g.first \/ \A x \in g.files : x.last < f.first
        /\ \A h \in plan.groups : g # h => g.files \cap h.files = {}

\* The index holds writes of the log, and its flag tells of the latest.
IndexOfWrites ==
    \A k \in Keys :
        /\ \A r \in index[k].revs : r \in 1..Len(log) /\ Touches(log[r], k)
        /\ index[k].tombstone <=> index[k].revs # {} /\ Deletes(log[Max(index[k].revs)], k)

\* What the index gives to reads from the compacted revision on is in the files.
NeededIsHeld ==
    \A k \in Keys : \A r \in index[k].revs :
        (\A s \in index[k].revs : s <= compacted => s <= r) => r \in Held

\* A put that no compaction has passed is in the index, and in the files from
\* which the index would be built again.
ExistingIsHeld ==
    \A k \in Keys : \A r \in 1..Len(log) :
        (/\ Touches(log[r], k) /\ ~Deletes(log[r], k)
         /\ \A s \in 1..floor : Touches(log[s], k) => s <= r)
            => r \in index[k].revs /\ r \in Held

\* Inductive: the files, the plan of the rewrite and the index agree at every
\* step, so that no rewrite drops a record that the index, or a replay, needs.
CompactionInv == TypeOK /\ PlanOK /\ IndexOfWrites /\ NeededIsHeld /\ ExistingIsHeld

\* "keys whose latest write is a delete go" (memory.go): a key that does not
\* exist at a revision from the highest compaction on is not found there,
\* after a restart either.
DeletedKeysStayDeleted ==
    \A k \in Keys : \A at \in floor..Len(log) :
        ~Exists(k, at) =>
            \/ LatestIn(index, k, at) = 0
            \/ Deletes(log[LatestIn(index, k, at)], k)

\* "reads at older revisions fail" (storage.go): what checkReadRevision lets
\* through, from MemoryStorage.compacted on, is readable as it was.
AcceptedReadsSeeHistory ==
    \A k \in Keys : \A at \in compacted..Len(log) :
        Exists(k, at) => LatestIn(index, k, at) = LastWrite(k, at)
=============================================================================
