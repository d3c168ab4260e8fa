---------------------------- MODULE TxnStoreInv ----------------------------
(***************************************************************************)
(* The inductive invariant behind Serializable and CompactionKeepsState.   *)
(* Neither is inductive: that a record is serial follows from what         *)
(* validation knew when it was accepted, which in turn rests on what the   *)
(* index showed when the transaction was evaluated.                        *)
(***************************************************************************)
EXTENDS TxnStore

\* The records whose order is settled: the published log and, while the
\* flusher prepares or writes a batch, the records accepted so far.
Decided == IF flush.stage = "prepare" THEN log \o flush.accepted ELSE log

InBatch(batch) == {batch[i] : i \in DOMAIN batch}

\* The transactions that wait for their validation.
Queued ==
  InBatch(openBatch) \cup InBatch(flush.batch)
    \cup (UNION {InBatch(flushQueue[i]) : i \in DOMAIN flushQueue})

\* The snapshots that may still be validated; the log's end may become one.
Snapshots ==
  {Len(log)} \cup {p.meta.snapshot : p \in Queued}
    \cup {snap[t] : t \in {u \in Txns : pc[u] \in {"snapshot", "evaluate", "append"}}}

\* Log positions agree between the log, the flusher, the storage and the
\* responses.
Positions ==
  /\ Len(log) >= 1
  /\ applied <= Len(log)
  /\ compacted <= applied
  /\ lastLogPosition = IF flush.stage = "deliver" THEN Len(log) - Len(flush.accepted)
                                                  ELSE Len(log)
  /\ flush.stage = "idle" => flush.accepted = <<>>
  /\ flush.stage # "prepare" => flush.batch = <<>>
  /\ \A t \in Txns : rev[t] <= Len(log)
  /\ \A t \in Txns : pc[t] = "evaluate" => snap[t] <= applied

\* Events on distinct keys, stamped with the revision of their record.
EventsStamped(events, r) ==
  /\ \A e \in events : e.mod = r /\ e.create <= r
  /\ \A e, f \in events : e.key = f.key => e = f

Stamped(L) == \A r \in DOMAIN L : EventsStamped(L[r].events, r)

\* Every decided record is serial, published or not.
DecidedSerial ==
  \A r \in 2..Len(Decided) :
    /\ Decided[r].txn \in Txns
    /\ Recorded(Decided[r].meta) => SerialRecord(Decided, r)

\* The entry of a key holds an upper segment of its writes up to `through`; a
\* missing one is overwritten at or below the compaction point, or is a delete
\* at or below it.
EntrySound(entry, k, L, through, point) ==
  /\ \A r \in entry.revs : r <= through /\ Writes(L[r], k)
  /\ \A r \in entry.revs, q \in 1..through : r < q /\ Writes(L[q], k) => q \in entry.revs
  /\ \A q \in 1..through :
       Writes(L[q], k) /\ q \notin entry.revs =>
         /\ q <= point
         /\ \/ \E p \in (q + 1)..point : Writes(L[p], k)
            \/ FindEvent(L[q], k).type = "DELETE"
  /\ entry.tombstone =>
       \A r \in entry.revs :
         (\A q \in entry.revs : q <= r) => FindEvent(L[r], k).type = "DELETE"

IndexSound(idx, L, through, point) ==
  \A k \in Keys : EntrySound(idx[k], k, L, through, point)

\* committedWrites covers every write after a snapshot that may still be
\* validated, the accepted records of the batch in hand included.
CommittedWritesCover ==
  \A s \in Snapshots :
    /\ s <= Len(log)
    /\ \A k \in Keys, q \in DOMAIN Decided :
         Writes(Decided[q], k) /\ q > s => committedWrites[k] >= q

\* The keys whose validation protects a transaction.
Validated(meta) == ReadSet(meta) \cup meta.writes

\* They include every key the request compares or writes on this state.
Covers(meta, request, state) ==
  /\ \A c \in request.compare : c.key \in Validated(meta)
  /\ \A i \in DOMAIN Branch(request, state) :
       IsWrite(Branch(request, state)[i]) => Branch(request, state)[i].key \in Validated(meta)

\* What a transaction has staged is right for its snapshot, unless a key it
\* recorded has been written since - and then validation rejects it.
PendingOK(p) ==
  LET at == p.meta.snapshot
      before == StateAt(log, at)
  IN /\ p.txn \in Txns
     /\ p.meta.writes = {e.key : e \in p.events}
     /\ \A o \in p.meta.reads : o.rev <= at
     /\ EventsStamped(p.events, at + 1)
     /\ Recorded(p.meta) =>
          \/ \E q \in (at + 1)..Len(log), k \in Validated(p.meta) : Writes(log[q], k)
          \/ /\ Covers(p.meta, req[p.txn], before)
             /\ p.events = SerialEvents(req[p.txn], before, at)

StagedAndQueued ==
  /\ \A p \in Queued : PendingOK(p)
  /\ \A t \in Txns : pc[t] = "append" =>
       PendingOK(PendingTxn(t)) /\ staged[t].meta.snapshot = snap[t]

\* The inductive invariant: whatever Txn, the batching layer, compaction and
\* restarts have done so far, the positions of log, flusher and storage agree;
\* the decided records carry their revisions and are serial; the index has lost
\* nothing a read from the compaction point on needs; committedWrites knows
\* every write that validateTxn may still have to hold against a snapshot; and
\* what is staged or queued is right for its snapshot or due to be rejected.
IInv ==
  /\ TypeOK
  /\ Positions
  /\ Stamped(Decided)
  /\ DecidedSerial
  /\ IndexSound(index, log, applied, compacted)
  /\ CommittedWritesCover
  /\ StagedAndQueued
=============================================================================
