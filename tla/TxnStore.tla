------------------------------ MODULE TxnStore ------------------------------
(***************************************************************************)
(* The transaction path of the storage: MemoryStorage.Txn evaluates a      *)
(* request optimistically at a snapshot of the log, the batching layer     *)
(* collects the resulting records into batches, one flusher goroutine      *)
(* validates each batch key by key, writes and publishes it, and every     *)
(* goroutine applies the published records to the in-memory index before   *)
(* it reads.  Compaction of the index, crashes and restarts interleave     *)
(* with all of that.                                                       *)
(*                                                                         *)
(* A transaction is one goroutine that runs one request; its identity is   *)
(* the value it writes.  The fields marked "history" do not exist in the   *)
(* code; they only record what the properties speak about.                 *)
(***************************************************************************)
EXTENDS Naturals, Sequences, FiniteSetsExt

CONSTANTS
  Keys,         \* the keys of the store
  Txns,         \* the transactions (goroutines in MemoryStorage.Txn)
  Requests,     \* the requests they may carry
  CompactRevs,  \* the revisions a client may ask to compact through
  MaxAttempts,  \* maxTxnAttempts
  MaxCrashes    \* bound: how often the process may be killed

NoTxn == "none" \* owner of the record ReplayLog appends to an empty log

(***************************************************************************)
(* Requests: the compares all have result EQUAL (any other is an error);   *)
(* an operation is a put, a single-key delete, a single-key read or a      *)
(* range read, the reads at an explicit revision or (0) at the snapshot.   *)
(***************************************************************************)
Compare == [target : {"MOD", "VERSION"}, key : Keys, value : Nat]
Op == [type : {"put", "delete"}, key : Keys]
        \cup [type : {"get"}, key : Keys, rev : Nat]
        \cup [type : {"list"}, range : SUBSET Keys, rev : Nat]
Request == [compare : SUBSET Compare, success : Seq(Op), failure : Seq(Op)]

IsWrite(op) == op.type \in {"put", "delete"}

\* No branch of a request writes the same key twice.
WritesEachKeyOnce(ops) ==
  \A i, j \in DOMAIN ops :
    IsWrite(ops[i]) /\ IsWrite(ops[j]) /\ ops[i].key = ops[j].key => i = j

ASSUME RequestsAssumption ==
  /\ Requests \subseteq Request
  /\ \A r \in Requests : WritesEachKeyOnce(r.success) /\ WritesEachKeyOnce(r.failure)

ASSUME BoundsAssumption ==
  /\ CompactRevs \subseteq Nat
  /\ MaxAttempts \in Nat \ {0}
  /\ MaxCrashes \in Nat
  /\ NoTxn \notin Txns

VARIABLES
  log,             \* FilesystemLog: the published records, revision = position
  applied,         \* MemoryStorage.applied
  index,           \* MemoryStorage.revisions: per key its revisions and tombstone flag
  compacted,       \* MemoryStorage.compacted
  openBatch,       \* Batching.openBatch, <<>> for nil
  flushQueue,      \* Batching.flushQueue
  flush,           \* the batch in the hands of the flusher goroutine
  lastLogPosition, \* Batching.lastLogPosition
  committedWrites, \* Batching.committedWrites
  pc,              \* where each transaction is
  req,             \* its request
  snap,            \* its snapshotTimestamp
  attempt,         \* the number of its attempts so far
  staged,          \* the txn struct and response that evaluate returned
  rev,             \* the revision of its response header
  up,              \* whether the process runs
  fatal,           \* the klog.Fatalf that stopped it, if one did
  crashes          \* how often it has been killed

storeVars == <<log, applied, index, compacted>>
batchVars == <<openBatch, flushQueue, flush, lastLogPosition, committedWrites>>
txnVars == <<pc, req, snap, attempt, staged, rev>>
procVars == <<up, fatal, crashes>>
vars == <<storeVars, batchVars, txnVars, procVars>>

-----------------------------------------------------------------------------
(***************************************************************************)
(* Records.  The events of a record form a list in the code; here they are *)
(* a set, each event with the position of the operation that staged it.    *)
(***************************************************************************)
NoKv == [create |-> 0, mod |-> 0, version |-> 0]

Writes(record, k) == \E e \in record.events : e.key = k

\* findEvent: the first event of the record on the key.
FindEvent(record, k) ==
  CHOOSE e \in record.events :
    e.key = k /\ \A f \in record.events : f.key = k => e.pos <= f.pos

\* The last one, which is what AddRevision leaves in the tombstone flag.
LastEvent(record, k) ==
  CHOOSE e \in record.events :
    e.key = k /\ \A f \in record.events : f.key = k => e.pos >= f.pos

\* The key-value pair an event leaves behind; a delete leaves none.
KvOf(event) ==
  IF event.type = "PUT"
  THEN [create |-> event.create, mod |-> event.mod, version |-> event.version]
  ELSE NoKv

NoMeta == [snapshot |-> 0, reads |-> {}, writes |-> {}, ranged |-> FALSE, missed |-> {}]
NoStaged == [events |-> {}, meta |-> NoMeta, succeeded |-> FALSE, answers |-> {}]

\* The empty record that gives the first client write revision 2.
DummyRecord == [txn |-> NoTxn, events |-> {}, meta |-> NoMeta]

(***************************************************************************)
(* The index, and the two ways to look up the revision of a key as of a    *)
(* revision: what the index answers, and what the log L says.              *)
(***************************************************************************)
GetLatestRevisionByKey(idx, k, at) == Max({r \in idx[k].revs : r <= at} \cup {0})

LatestWrite(L, k, at) == Max({r \in 1..at : Writes(L[r], k)} \cup {0})

KvAt(L, k, r) == IF r = 0 THEN NoKv ELSE KvOf(FindEvent(L[r], k))

\* What evaluate sees of each key at a revision, through the index.
IndexView(at) == [k \in Keys |-> KvAt(log, k, GetLatestRevisionByKey(index, k, at))]

\* The state of the store after the first `at` records of L.
StateAt(L, at) == [k \in Keys |-> KvAt(L, k, LatestWrite(L, k, at))]

\* applyUpTo / ReplayLog: AddRevision for every event of the records from..to.
AddRevisions(idx, L, from, to) ==
  [k \in Keys |->
     LET new == {r \in from..to : Writes(L[r], k)}
     IN IF new = {} THEN idx[k]
        ELSE [revs |-> idx[k].revs \cup new,
              tombstone |-> LastEvent(L[Max(new)], k).type = "DELETE"]]

EmptyIndex == [k \in Keys |-> [revs |-> {}, tombstone |-> FALSE]]

\* Faulty variant: the revision the key had at the compaction point goes too.
CompactRevisions_DropsPoint(entry, through) ==
  LET below == {r \in entry.revs : r <= through}
  IN IF entry.tombstone /\ below = entry.revs
     THEN [revs |-> {}, tombstone |-> FALSE]
     ELSE [entry EXCEPT !.revs = {r \in @ : r > Max(below \cup {0})}]

\* compactRevisions, for the entry of one key.
CompactRevisions(entry, through) ==
  LET below == {r \in entry.revs : r <= through}
  IN IF entry.tombstone /\ below = entry.revs
     THEN [revs |-> {}, tombstone |-> FALSE]
     ELSE [entry EXCEPT !.revs = {r \in @ : r >= Max(below \cup {0})}]

-----------------------------------------------------------------------------
(***************************************************************************)
(* evaluate, as functions of a view of the store.                          *)
(***************************************************************************)
Holds(c, view) ==
  c.value = IF c.target = "MOD" THEN view[c.key].mod ELSE view[c.key].version

Succeeded(request, view) == \A c \in request.compare : Holds(c, view)

Branch(request, view) ==
  IF Succeeded(request, view) THEN request.success ELSE request.failure

\* txn.put: the event staged with the revision after the snapshot.
PutEvent(i, k, view, at) ==
  [pos |-> i, type |-> "PUT", key |-> k, mod |-> at + 1, prev |-> view[k],
   create |-> IF view[k] = NoKv THEN at + 1 ELSE view[k].create,
   version |-> IF view[k] = NoKv THEN 1 ELSE view[k].version + 1]

\* txn.delete of a key that exists.
DeleteEvent(i, k, view, at) ==
  [pos |-> i, type |-> "DELETE", key |-> k, mod |-> at + 1, prev |-> view[k],
   create |-> 0, version |-> 0]

Stages(op, view) ==
  \/ op.type = "put"
  \/ op.type = "delete" /\ view[op.key] # NoKv

Events(ops, view, at) ==
  {IF ops[i].type = "put" THEN PutEvent(i, ops[i].key, view, at)
                          ELSE DeleteEvent(i, ops[i].key, view, at) :
     i \in {j \in DOMAIN ops : Stages(ops[j], view)}}

\* The revision a read operation reads at.
ReadRev(op, at) == IF op.rev > 0 THEN op.rev ELSE at

\* txn.get: the pair of the key, if it exists.
GetAnswer(op, at) ==
  LET kv == IndexView(ReadRev(op, at))[op.key]
  IN IF kv = NoKv THEN {} ELSE {<<op.key, kv>>}

\* txn.list: every put of the record that holds a key of the range.
ListAnswer(op, at) ==
  LET found == {GetLatestRevisionByKey(index, k, ReadRev(op, at)) : k \in op.range} \ {0}
  IN UNION {{<<e.key, KvOf(e)>> : e \in {f \in log[r].events : f.type = "PUT"}} : r \in found}

Answers(ops, at) ==
  {[pos |-> i,
    kvs |-> IF ops[i].type = "get" THEN GetAnswer(ops[i], at) ELSE ListAnswer(ops[i], at)] :
     i \in {j \in DOMAIN ops : ops[j].type \in {"get", "list"}}}

\* checkReadRevision.
ReadRevisionRefused(op, at) ==
  /\ op.type \in {"get", "list"}
  /\ op.rev > 0
  /\ op.rev < compacted \/ op.rev > at

\* txn.delete meets a key whose latest event is not a put: klog.Fatalf.
DeletesTombstone(op, at) ==
  /\ op.type = "delete"
  /\ GetLatestRevisionByKey(index, op.key, at) # 0
  /\ IndexView(at)[op.key] = NoKv

\* The operations run in order; the first that fails ends the evaluation.
FirstFailure(ops, at) ==
  LET failing == {i \in DOMAIN ops : \/ ReadRevisionRefused(ops[i], at)
                                     \/ DeletesTombstone(ops[i], at)}
  IN Max({0} \cup {i \in failing : \A j \in failing : i <= j})

ReadKeys(request, ops) ==
  {c.key : c \in request.compare}
    \cup {ops[i].key : i \in {j \in DOMAIN ops : ops[j].type = "get"}}

\* The TxnMeta evaluate builds.  `missed` is history: the keys of deletes
\* that found nothing, about which txn.delete records nothing.
Meta(request, ops, view, at) ==
  [snapshot |-> at,
   reads  |-> {[key |-> k, rev |-> GetLatestRevisionByKey(index, k, at)] : k \in ReadKeys(request, ops)},
   writes |-> {ops[i].key : i \in {j \in DOMAIN ops : Stages(ops[j], view)}},
   ranged |-> \E i \in DOMAIN ops : ops[i].type = "list",
   missed |-> {ops[i].key : i \in {j \in DOMAIN ops :
                  ops[j].type = "delete" /\ view[ops[j].key] = NoKv}}]

-----------------------------------------------------------------------------
Init ==
  /\ log = <<DummyRecord>>
  /\ applied = 1
  /\ index = EmptyIndex
  /\ compacted = 0
  /\ openBatch = <<>>
  /\ flushQueue = <<>>
  /\ flush = [stage |-> "idle", batch |-> <<>>, accepted |-> <<>>, rejected |-> {}]
  /\ lastLogPosition = 1
  /\ committedWrites = [k \in Keys |-> 0]
  /\ pc = [t \in Txns |-> "idle"]
  /\ req \in [Txns -> Requests]
  /\ snap = [t \in Txns |-> 0]
  /\ attempt = [t \in Txns |-> 0]
  /\ staged = [t \in Txns |-> NoStaged]
  /\ rev = [t \in Txns |-> 0]
  /\ up = TRUE
  /\ fatal = "none"
  /\ crashes = 0

Goto(t, label) == pc' = [pc EXCEPT ![t] = label]

\* applyUpTo(to), under mu.
ApplyUpTo(to) ==
  IF applied >= to THEN UNCHANGED <<applied, index>>
  ELSE /\ applied' = to
       /\ index' = AddRevisions(index, log, applied + 1, to)

(***************************************************************************)
(* The transaction goroutine: Txn, tryTxn, evaluate, commit.               *)
(***************************************************************************)

\* Faulty variant: the snapshot is what is applied, not what is committed.
Begin_AtApplied(t) ==
  /\ up /\ pc[t] = "idle"
  /\ snap' = [snap EXCEPT ![t] = applied]
  /\ attempt' = [attempt EXCEPT ![t] = 1]
  /\ Goto(t, "snapshot")
  /\ UNCHANGED <<storeVars, batchVars, req, staged, rev, procVars>>

\* Txn starts its first attempt: GetCurrentRevision is the snapshot.
Begin(t) ==
  /\ up /\ pc[t] = "idle"
  /\ snap' = [snap EXCEPT ![t] = Len(log)]
  /\ attempt' = [attempt EXCEPT ![t] = 1]
  /\ Goto(t, "snapshot")
  /\ UNCHANGED <<storeVars, batchVars, req, staged, rev, procVars>>

\* tryTxn applies the log up to its snapshot.
ApplySnapshot(t) ==
  /\ up /\ pc[t] = "snapshot"
  /\ ApplyUpTo(snap[t])
  /\ Goto(t, "evaluate")
  /\ UNCHANGED <<log, compacted, batchVars, req, snap, attempt, staged, rev, procVars>>

\* evaluate runs under mu.RLock; a transaction without events is then done.
Evaluate(t) ==
  /\ up /\ pc[t] = "evaluate"
  /\ LET at == snap[t]
         view == IndexView(at)
         ops == Branch(req[t], view)
         bad == FirstFailure(ops, at)
         events == Events(ops, view, at)
     IN \/ /\ bad = 0
           /\ staged' = [staged EXCEPT ![t] =
                           [events |-> events,
                            meta |-> Meta(req[t], ops, view, at),
                            succeeded |-> Succeeded(req[t], view),
                            answers |-> Answers(ops, at)]]
           /\ rev' = [rev EXCEPT ![t] = at]
           /\ Goto(t, IF events = {} THEN "done" ELSE "append")
           /\ UNCHANGED <<up, fatal>>
        \/ /\ bad # 0 /\ ReadRevisionRefused(ops[bad], at)
           /\ Goto(t, "error")
           /\ UNCHANGED <<staged, rev, up, fatal>>
        \/ /\ bad # 0 /\ ~ReadRevisionRefused(ops[bad], at)
           /\ up' = FALSE
           /\ fatal' = "old event is not a PUT"
           /\ UNCHANGED <<staged, rev, pc>>
  /\ UNCHANGED <<storeVars, batchVars, req, snap, attempt, crashes>>

ReadSet(meta) == {o.key : o \in meta.reads}

\* CanBatchTogether.
CanBatchTogether(existing, other) ==
  /\ existing.writes \cap other.writes = {}
  /\ existing.writes \cap ReadSet(other) = {}

\* TxnBatch.add: the PendingTxn; its channel is that of the transaction.
PendingTxn(t) == [txn |-> t, events |-> staged[t].events, meta |-> staged[t].meta]

CanBatchWith(batch, meta) ==
  \A i \in DOMAIN batch : CanBatchTogether(batch[i].meta, meta)

\* Faulty variant: a batch that cannot be joined is replaced, not queued.
Add_ForgetsBatch(t) ==
  /\ up /\ pc[t] = "append"
  /\ openBatch' = IF CanBatchWith(openBatch, staged[t].meta)
                  THEN Append(openBatch, PendingTxn(t)) ELSE <<PendingTxn(t)>>
  /\ Goto(t, "queued")
  /\ UNCHANGED <<storeVars, flushQueue, flush, lastLogPosition, committedWrites,
                 req, snap, attempt, staged, rev, procVars>>

\* Batching.Add: join the open batch, or queue it and open a new one.
Add(t) ==
  /\ up /\ pc[t] = "append"
  /\ IF CanBatchWith(openBatch, staged[t].meta)
     THEN /\ openBatch' = Append(openBatch, PendingTxn(t))
          /\ UNCHANGED flushQueue
     ELSE /\ openBatch' = <<PendingTxn(t)>>
          /\ flushQueue' = Append(flushQueue, openBatch)
  /\ Goto(t, "queued")
  /\ UNCHANGED <<storeVars, flush, lastLogPosition, committedWrites,
                 req, snap, attempt, staged, rev, procVars>>

\* The context ends while Add waits, or as the result arrives: the caller
\* gets an error, the queued record stays where it is.
Abandon(t) ==
  /\ up /\ pc[t] \in {"queued", "accepted", "rejected"}
  /\ Goto(t, "abandoned")
  /\ UNCHANGED <<storeVars, batchVars, req, snap, attempt, staged, rev, procVars>>

\* Faulty variant: commit answers without applying its own record.
Finish_WithoutApply(t) ==
  /\ up /\ pc[t] = "accepted"
  /\ Goto(t, "done")
  /\ UNCHANGED <<storeVars, batchVars, req, snap, attempt, staged, rev, procVars>>

\* commit applies the log up to its own revision and answers.
Finish(t) ==
  /\ up /\ pc[t] = "accepted"
  /\ ApplyUpTo(rev[t])
  /\ Goto(t, "done")
  /\ UNCHANGED <<log, compacted, batchVars, req, snap, attempt, staged, rev, procVars>>

\* A rejected transaction is tried again at a fresh snapshot.
Retry(t) ==
  /\ up /\ pc[t] = "rejected"
  /\ attempt[t] < MaxAttempts
  /\ attempt' = [attempt EXCEPT ![t] = @ + 1]
  /\ snap' = [snap EXCEPT ![t] = Len(log)]
  /\ Goto(t, "snapshot")
  /\ UNCHANGED <<storeVars, batchVars, req, staged, rev, procVars>>

\* "transaction conflicted with concurrent writes": the attempts are used up.
GiveUp(t) ==
  /\ up /\ pc[t] = "rejected"
  /\ attempt[t] = MaxAttempts
  /\ Goto(t, "failed")
  /\ UNCHANGED <<storeVars, batchVars, req, snap, attempt, staged, rev, procVars>>

(***************************************************************************)
(* The flusher goroutine: doBackgroundFlush, flushBatch, prepare and       *)
(* commitBatch.                                                            *)
(***************************************************************************)
TakeBatch ==
  /\ up /\ flush.stage = "idle"
  /\ \/ /\ flushQueue # <<>>
        /\ flush' = [flush EXCEPT !.stage = "prepare", !.batch = Head(flushQueue)]
        /\ flushQueue' = Tail(flushQueue)
        /\ UNCHANGED openBatch
     \/ /\ flushQueue = <<>> /\ openBatch # <<>>
        /\ flush' = [flush EXCEPT !.stage = "prepare", !.batch = openBatch]
        /\ openBatch' = <<>>
        /\ UNCHANGED flushQueue
  /\ UNCHANGED <<storeVars, lastLogPosition, committedWrites, txnVars, procVars>>

\* Faulty variants: the read set is not checked; the write set may lag by one;
\* a write at the snapshot itself is a conflict.
ValidateTxn_WritesOnly(meta) ==
  IF meta.ranged THEN meta.snapshot = lastLogPosition
  ELSE \A k \in meta.writes : committedWrites[k] <= meta.snapshot

ValidateTxn_OffByOne(meta) ==
  IF meta.ranged THEN meta.snapshot = lastLogPosition
  ELSE /\ \A o \in meta.reads : committedWrites[o.key] <= o.rev + 1
       /\ \A k \in meta.writes : committedWrites[k] <= meta.snapshot + 1

ValidateTxn_Strict(meta) ==
  IF meta.ranged THEN meta.snapshot = lastLogPosition
  ELSE /\ \A o \in meta.reads : committedWrites[o.key] <= o.rev
       /\ \A k \in meta.writes : committedWrites[k] < meta.snapshot

\* validateTxn.
ValidateTxn(meta) ==
  IF meta.ranged THEN meta.snapshot = lastLogPosition
  ELSE /\ \A o \in meta.reads : committedWrites[o.key] <= o.rev
       /\ \A k \in meta.writes : committedWrites[k] <= meta.snapshot

\* prepare re-stamps the events with the revision they are committed at.
Stamp(event, r) ==
  [event EXCEPT !.mod = r,
                !.create = IF event.type = "PUT" /\ event.create = event.mod THEN r ELSE @]

StampRecord(p, r) == [p EXCEPT !.events = {Stamp(e, r) : e \in p.events}]

\* Faulty variant: an accepted transaction's writes are not remembered.
PrepareTxn_ForgetsWrites ==
  /\ up /\ flush.stage = "prepare" /\ flush.batch # <<>>
  /\ LET p == Head(flush.batch)
         r == lastLogPosition + Len(flush.accepted) + 1
     IN flush' = IF ValidateTxn(p.meta)
                 THEN [flush EXCEPT !.batch = Tail(@), !.accepted = Append(@, StampRecord(p, r))]
                 ELSE [flush EXCEPT !.batch = Tail(@), !.rejected = @ \cup {p.txn}]
  /\ UNCHANGED <<storeVars, openBatch, flushQueue, lastLogPosition, committedWrites,
                 txnVars, procVars>>

\* One turn of prepare's loop: the flusher alone reads and writes this state.
PrepareTxn ==
  /\ up /\ flush.stage = "prepare" /\ flush.batch # <<>>
  /\ LET p == Head(flush.batch)
         r == lastLogPosition + Len(flush.accepted) + 1
     IN IF ValidateTxn(p.meta)
        THEN /\ flush' = [flush EXCEPT !.batch = Tail(@), !.accepted = Append(@, StampRecord(p, r))]
             /\ committedWrites' =
                  [k \in Keys |-> IF k \in p.meta.writes THEN r ELSE committedWrites[k]]
        ELSE /\ flush' = [flush EXCEPT !.batch = Tail(@), !.rejected = @ \cup {p.txn}]
             /\ UNCHANGED committedWrites
  /\ UNCHANGED <<storeVars, openBatch, flushQueue, lastLogPosition, txnVars, procVars>>

\* flushFunc: the batch is written, synced and published; with nothing to
\* commit the flusher goes straight to the results.
Publish ==
  /\ up /\ flush.stage = "prepare" /\ flush.batch = <<>>
  /\ log' = log \o flush.accepted
  /\ flush' = [flush EXCEPT !.stage = "deliver"]
  /\ UNCHANGED <<applied, index, compacted, openBatch, flushQueue, lastLogPosition,
                 committedWrites, txnVars, procVars>>

\* Where prepare put a transaction among the accepted ones, if it did.
AcceptedAt(t) == {i \in DOMAIN flush.accepted : flush.accepted[i].txn = t}

\* Faulty variant: an accepted transaction is told that it conflicted.
Deliver_AllRejected ==
  /\ up /\ flush.stage = "deliver"
  /\ pc' = [t \in Txns |->
              IF pc[t] = "queued" /\ (AcceptedAt(t) # {} \/ t \in flush.rejected)
              THEN "rejected" ELSE pc[t]]
  /\ lastLogPosition' = lastLogPosition + Len(flush.accepted)
  /\ flush' = [stage |-> "idle", batch |-> <<>>, accepted |-> <<>>, rejected |-> {}]
  /\ UNCHANGED <<storeVars, openBatch, flushQueue, committedWrites, req, snap, attempt,
                 staged, rev, procVars>>

\* The results go into the buffered channels; nobody listens to the channel
\* of an abandoned transaction.
Deliver ==
  /\ up /\ flush.stage = "deliver"
  /\ pc' = [t \in Txns |->
              IF pc[t] # "queued" THEN pc[t]
              ELSE IF AcceptedAt(t) # {} THEN "accepted"
              ELSE IF t \in flush.rejected THEN "rejected" ELSE pc[t]]
  /\ rev' = [t \in Txns |->
              IF AcceptedAt(t) # {} THEN lastLogPosition + Max(AcceptedAt(t)) ELSE rev[t]]
  /\ lastLogPosition' = lastLogPosition + Len(flush.accepted)
  /\ flush' = [stage |-> "idle", batch |-> <<>>, accepted |-> <<>>, rejected |-> {}]
  /\ UNCHANGED <<storeVars, openBatch, flushQueue, committedWrites, req, snap, attempt,
                 staged, procVars>>

(***************************************************************************)
(* Compaction of the index, crashes and restarts.                          *)
(***************************************************************************)

\* Compact: open watchers can only lower the revision asked for.
Compact(revision) ==
  LET through == Min({revision, applied})
  IN /\ up /\ through > compacted
     /\ index' = [k \in Keys |-> CompactRevisions(index[k], through)]
     /\ compacted' = through
     /\ UNCHANGED <<log, applied, batchVars, txnVars, procVars>>

\* The process is killed, at any point.
Crash ==
  /\ up /\ crashes < MaxCrashes
  /\ up' = FALSE
  /\ crashes' = crashes + 1
  /\ UNCHANGED <<storeVars, batchVars, txnVars, fatal>>

Ended == {"idle", "done", "error", "failed", "dead"}

\* Opening the log keeps the records of an unpublished batch that reached
\* the disk whole; ReplayLog rebuilds the index from record 1.
Restart ==
  /\ ~up
  /\ \E n \in 0..Len(flush.accepted) :
       /\ flush.stage # "prepare" => n = 0
       /\ flush.batch # <<>> => n = 0
       /\ log' = log \o SubSeq(flush.accepted, 1, n)
  /\ applied' = Len(log')
  /\ index' = AddRevisions(EmptyIndex, log', 1, Len(log'))
  /\ compacted' = 0
  /\ openBatch' = <<>>
  /\ flushQueue' = <<>>
  /\ flush' = [stage |-> "idle", batch |-> <<>>, accepted |-> <<>>, rejected |-> {}]
  /\ lastLogPosition' = Len(log')
  /\ committedWrites' = [k \in Keys |-> 0]
  /\ pc' = [t \in Txns |-> IF pc[t] \in Ended THEN pc[t] ELSE "dead"]
  /\ up' = TRUE
  /\ UNCHANGED <<req, snap, attempt, staged, rev, fatal, crashes>>

\* The server idles once every transaction has ended.
Idle ==
  /\ up /\ \A t \in Txns : pc[t] \in (Ended \ {"idle"}) \cup {"abandoned"}
  /\ openBatch = <<>> /\ flushQueue = <<>> /\ flush.stage = "idle"
  /\ UNCHANGED vars

TxnStep(t) ==
  Begin(t) \/ ApplySnapshot(t) \/ Evaluate(t) \/ Add(t) \/ Finish(t) \/ Retry(t) \/ GiveUp(t)

FlusherStep == TakeBatch \/ PrepareTxn \/ Publish \/ Deliver

Next ==
  \/ \E t \in Txns : TxnStep(t) \/ Abandon(t)
  \/ FlusherStep
  \/ \E r \in CompactRevs : Compact(r)
  \/ Crash
  \/ Restart
  \/ Idle

Spec == Init /\ [][Next]_vars

\* The Go scheduler runs every runnable goroutine, so a transaction that has
\* begun and can move does, and so does the flusher.  Nothing obliges a client
\* to begin or to compact, a context to end, or the process to be killed or
\* restarted.
FairSpec ==
  /\ Spec
  /\ \A t \in Txns : WF_vars(pc[t] # "idle" /\ TxnStep(t))
  /\ WF_vars(FlusherStep)

-----------------------------------------------------------------------------
(***************************************************************************)
(* Types.                                                                  *)
(***************************************************************************)
OpPositions == UNION {DOMAIN r.success \cup DOMAIN r.failure : r \in Requests}

Kv == [create : Nat, mod : Nat, version : Nat]
Event == [pos : OpPositions, type : {"PUT", "DELETE"}, key : Keys, mod : Nat, prev : Kv,
          create : Nat, version : Nat]
TxnMeta == [snapshot : Nat, reads : SUBSET [key : Keys, rev : Nat],
            writes : SUBSET Keys, ranged : BOOLEAN, missed : SUBSET Keys]
Record == [txn : Txns \cup {NoTxn}, events : SUBSET Event, meta : TxnMeta]
Answer == [pos : OpPositions, kvs : SUBSET (Keys \X Kv)]

Labels == {"idle", "snapshot", "evaluate", "append", "queued", "accepted",
           "rejected", "done", "error", "failed", "abandoned", "dead"}

\* The type invariant of the storage, the batching layer and the transactions.
TypeOK ==
  /\ log \in Seq(Record)
  /\ applied \in Nat
  /\ index \in [Keys -> [revs : SUBSET (1..Len(log)), tombstone : BOOLEAN]]
  /\ compacted \in Nat
  /\ openBatch \in Seq(Record)
  /\ flushQueue \in Seq(Seq(Record))
  /\ flush \in [stage : {"idle", "prepare", "deliver"}, batch : Seq(Record),
                accepted : Seq(Record), rejected : SUBSET Txns]
  /\ lastLogPosition \in Nat
  /\ committedWrites \in [Keys -> Nat]
  /\ pc \in [Txns -> Labels]
  /\ req \in [Txns -> Requests]
  /\ snap \in [Txns -> Nat]
  /\ attempt \in [Txns -> 0..MaxAttempts]
  /\ staged \in [Txns -> [events : SUBSET Event, meta : TxnMeta,
                          succeeded : BOOLEAN, answers : SUBSET Answer]]
  /\ rev \in [Txns -> Nat]
  /\ up \in BOOLEAN
  /\ fatal \in {"none", "old event is not a PUT"}
  /\ crashes \in 0..MaxCrashes

-----------------------------------------------------------------------------
(***************************************************************************)
(* Properties.                                                             *)
(***************************************************************************)

\* What a request writes when it runs alone on a state, at revision at + 1.
SerialEvents(request, state, at) == Events(Branch(request, state), state, at)

\* Record r of L is what its request writes when it runs alone on the state
\* that the records before it left.
SerialRecord(L, r) ==
  L[r].events = SerialEvents(req[L[r].txn], StateAt(L, r - 1), r - 1)

\* Every key the evaluation depended on is in the read or the write set.
Recorded(meta) ==
  /\ ~meta.ranged
  /\ meta.missed \subseteq ReadSet(meta) \cup meta.writes

\* Serializability in log order, the point of the optimistic scheme of
\* MemoryStorage.Txn and validateTxn: each committed transaction whose reads
\* were recorded in its TxnMeta wrote exactly what it would have written had
\* it run alone at its revision - whatever was evaluated, batched, compacted
\* or crashed in between.
Serializable ==
  \A r \in 2..Len(log) : Recorded(log[r].meta) => SerialRecord(log, r)

\* The pair a single-key read is owed on a given state.
PointAnswer(op, state) ==
  IF state[op.key] = NoKv THEN {} ELSE {<<op.key, state[op.key]>>}

\* Whether a response fits a state: its compares came out as they do on the
\* first n records of L, and its single-key reads returned what these say.
AnsweredAs(answer, request, L, n) ==
  LET before == StateAt(L, n)
      ops == Branch(request, before)
  IN /\ answer.succeeded = Succeeded(request, before)
     /\ \A a \in answer.answers :
          a.kvs = PointAnswer(ops[a.pos], StateAt(L, ReadRev(ops[a.pos], n)))

\* The response of a committed transaction: whether its compares succeeded
\* and what its single-key reads returned is what they say of the state just
\* before its revision (tryTxn answers from an older snapshot).
AnswersSerial ==
  \A t \in Txns :
    pc[t] \in {"accepted", "done"} /\ staged[t].meta.writes # {} /\ Recorded(staged[t].meta) =>
      AnsweredAs(staged[t], req[t], log, rev[t] - 1)

\* Compact keeps, for every key, the state at the compaction point and after
\* it: a read at any revision from compacted to applied that goes through the
\* index sees what the whole history says.
CompactionKeepsState ==
  \A at \in compacted..applied : IndexView(at) = StateAt(log, at)

\* An acknowledged write is in the log at the revision of its response, also
\* after a crash, and the index has it, so the next read returns it.
AckedIsDurableAndVisible ==
  \A t \in Txns :
    pc[t] = "done" /\ staged[t].meta.writes # {} =>
      /\ rev[t] \in DOMAIN log
      /\ log[rev[t]].txn = t
      /\ up => rev[t] <= applied

\* Retries do not write twice: a transaction has at most one record, and none
\* while it is being tried again or after it was answered with a failure.
WrittenAtMostOnce ==
  \A q, r \in 2..Len(log) :
    /\ log[q].txn = log[r].txn => q = r
    /\ pc[log[r].txn] \in {"queued", "accepted", "done", "abandoned", "dead"}

\* A rejected transaction's retry sees the write that beat it (flushBatch
\* delivers rejections after the commit): the fresh snapshot includes a write,
\* made after the old one, of a key the transaction read or wrote.
RetrySeesWinner ==
  [][\A t \in Txns :
       pc[t] = "rejected" /\ pc'[t] = "snapshot" =>
         LET meta == staged[t].meta
         IN \E r \in (snap[t] + 1)..snap'[t] :
              \/ meta.ranged
              \/ \E k \in ReadSet(meta) \cup meta.writes : Writes(log[r], k)]_vars

\* Every transaction is answered, whatever it raced with, unless the process
\* stops: no batch is forgotten and no result is lost.  (An answered
\* transaction stays so, hence the server is always idle again.)
EveryTxnEnds ==
  []<>(~up \/ \A t \in Txns : pc[t] \in Ended \cup {"abandoned"})

-----------------------------------------------------------------------------
(***************************************************************************)
(* What comments, assertions and tests of the repository say and the code  *)
(* does not do.                                                            *)
(***************************************************************************)

\* "the batching layer validates per key that nothing the transaction read or
\* wrote was committed after its snapshot" (MemoryStorage.Txn): every record
\* without a range read is serial, also when a delete found its key missing.
EveryPointTxnSerial ==
  \A r \in 2..Len(log) : ~log[r].meta.ranged => SerialRecord(log, r)

\* A transaction with a range read "commits only if nothing at all has
\* committed since its snapshot" (validateTxn).
RangeReadCommitsAlone ==
  \A r \in 2..Len(log) : log[r].meta.ranged => log[r].meta.snapshot = r - 1

\* "a read key is still valid iff it has not been written by a
\* concurrently-committed transaction since it was read" (TxnMeta.ReadSet):
\* validation rejects only for a write made after the snapshot.
RejectedOnlyForLaterWrite ==
  \A t \in flush.rejected :
    LET meta == staged[t].meta
    IN flush.stage = "deliver" =>
         \E r \in (meta.snapshot + 1)..Len(log) :
           \/ meta.ranged
           \/ \E k \in ReadSet(meta) \cup meta.writes : Writes(log[r], k)

\* "the index always reflects the revision a caller is about to read at"
\* (applyUpTo): also when Compact runs before the caller evaluates.
IndexReflectsSnapshot ==
  \A t \in Txns : pc[t] = "evaluate" => IndexView(snap[t]) = StateAt(log, snap[t])

\* txn.delete asserts that the latest event of an indexed key is a put.
DeleteFindsPut == fatal = "none"

\* List "returns a range of key-value pairs": nothing outside the range.
ListStaysInRange ==
  \A t \in Txns : \A a \in staged[t].answers :
    LET op == Branch(req[t], IndexView(snap[t]))[a.pos]
    IN pc[t] = "done" /\ op.type = "list" => \A kv \in a.kvs : kv[1] \in op.range
=============================================================================
