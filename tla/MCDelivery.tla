----------------------------- MODULE MCDelivery -----------------------------
(***************************************************************************)
(* What a committed change goes through until it is delivered, on small     *)
(* instances, one at a time: the batch it is flushed with, the watcher that *)
(* sends it and the archiver that uploads its file.  `part' says which one  *)
(* runs, the others stay in their first state.                              *)
(***************************************************************************)
EXTENDS Watch

CONSTANTS a, b, l, w1, c1, c2, c3, c4

VARIABLES part,
          openBatch, flushQueue, stop, flusher, flushing, caller, added, flushed,
          dir, committed, dead, archive, queue, op, adds, fetch, phase,
          compactions, kills, interrupts, losses

batches == <<openBatch, flushQueue, stop, flusher, flushing, caller, added, flushed>>
archiver == <<dir, committed, dead, archive, queue, op, adds, fetch, phase,
              compactions, kills, interrupts, losses>>

\* Two records of two keys; a watch of what is new, without puts, and one of
\* everything from the first revision.
SomeRecords == {{[type |-> "PUT", key |-> a]},
                {[type |-> "DELETE", key |-> a], [type |-> "PUT", key |-> b]}}
SomeRequests == {[start |-> 0, range |-> {a}, filters |-> {"NOPUT"}],
                 [start |-> 1, range |-> {a, b}, filters |-> {}]}

\* Four callers, two of which cannot share a batch.
Flushes == INSTANCE Batching WITH Callers <- {c1, c2, c3, c4}, Conflicts <- {<<c1, c2>>}

\* An archiver that is killed once and loses the answer to one upload.
Uploads == INSTANCE Archive WITH
    QueueCap <- 2, MaxCompactions <- 0, MaxKills <- 1, MaxInterrupts <- 1, MaxLosses <- 1

ASSUME Flushes!BatchingAssumption /\ Uploads!ArchiveAssumption

-----------------------------------------------------------------------------
MCInit ==
    /\ Init /\ Flushes!Init /\ Uploads!Init
    /\ \/ part = "watch"
       \/ part \in {"batches", "archiver"} /\ \A w \in Watchers : req[w].start = 0

\* No record is committed twice in a row.
Alternate == Len(log') > 1 => log'[Len(log')] # log'[Len(log') - 1]

MCNext ==
    /\ \/ part = "watch" /\ Next /\ Alternate /\ UNCHANGED <<batches, archiver>>
       \/ part = "batches" /\ Flushes!Next /\ UNCHANGED <<vars, archiver>>
       \/ part = "archiver" /\ Uploads!Next /\ UNCHANGED <<vars, batches>>
    /\ UNCHANGED part

\* The fairness of Watch, Batching and Archive.
MCSpec ==
    /\ MCInit /\ [][MCNext]_<<part, vars, batches, archiver>>
    /\ \A w \in Watchers : WF_vars(part = "watch" /\ Run(w))
    /\ WF_batches(part = "batches" /\ Flushes!Flusher)
    /\ WF_archiver(part = "archiver" /\ Uploads!Archiver)
    /\ WF_archiver(part = "archiver" /\ (Uploads!Restore \/ Uploads!Download \/ Uploads!Open))

-----------------------------------------------------------------------------
\* Transactions are flushed in the order in which they were added (Batching).
FlushedInOrder == part = "batches" => Flushes!FlushedInOrder

\* A transaction that was added is flushed, also by Close, which returns
\* (Batching).
QueuedIsFlushed == Flushes!QueuedIsFlushed /\ Flushes!CloseReturns

\* A committed change is delivered to each open watcher, and the Run of a closed
\* one returns (Watch).
WatchersGoOn == CommittedIsDelivered /\ ClosedReturns

\* What a closed file holds reaches the archive (Archive).
ClosedReachesArchive == Uploads!ClosedReachesArchive
=============================================================================
