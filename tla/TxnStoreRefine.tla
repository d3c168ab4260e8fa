--------------------------- MODULE TxnStoreRefine ---------------------------
(***************************************************************************)
(* TxnStore implements SerialStore: the refinement mapping, and the        *)
(* inductive invariant that, with IInv, makes every step of the server a   *)
(* step of SerialStore or a stutter; and what makes its answers serial.    *)
(***************************************************************************)
EXTENDS TxnStoreInv

\* What the caller of a transaction knows.  Its goroutine runs under these labels.
Running == {"snapshot", "evaluate", "append", "queued", "accepted", "rejected"}

Status(label) ==
  IF label \in Running THEN "open"
  ELSE IF label = "done" THEN "answered"
  ELSE IF label \in {"error", "failed"} THEN "refused"
  ELSE IF label = "abandoned" THEN "lost"
  ELSE label

SerialEffect(request, L, n) == SerialEvents(request, StateAt(L, n), n)
ExactRecord(record) == Recorded(record.meta)

Abstract == INSTANCE SerialStore WITH
  Effect <- SerialEffect,
  Exact <- ExactRecord,
  history <- log,
  request <- req,
  status <- [t \in Txns |-> Status(pc[t])],
  seen <- snap,
  revision <- [t \in Txns |-> IF pc[t] = "done" THEN rev[t] ELSE 0]

\* MemoryStorage.Txn with its batching layer, retries, compaction, crashes and
\* replay is a serial store: the log only grows, every transaction is written
\* at most once, while it runs, and as if it ran alone there (if its reads were
\* recorded); an answered write has its revision, an answered read a revision
\* that was current during the call, and a refused one was never written.
ImplementsSerialStore == Abstract!Spec

-----------------------------------------------------------------------------
TxnsOf(batch) == {batch[i].txn : i \in DOMAIN batch}

Distinct(batch) == \A i, j \in DOMAIN batch : batch[i].txn = batch[j].txn => i = j

\* A transaction waits in at most one place: the open batch, one batch of the
\* queue or the batch in hand.
WaitsOnce ==
  /\ Distinct(openBatch) /\ Distinct(flush.batch)
  /\ \A i \in DOMAIN flushQueue : Distinct(flushQueue[i])
  /\ TxnsOf(openBatch) \cap TxnsOf(flush.batch) = {}
  /\ \A i \in DOMAIN flushQueue :
       /\ TxnsOf(flushQueue[i]) \cap (TxnsOf(openBatch) \cup TxnsOf(flush.batch)) = {}
       /\ \A j \in DOMAIN flushQueue :
            i # j => TxnsOf(flushQueue[i]) \cap TxnsOf(flushQueue[j]) = {}

WaitingTxns ==
  TxnsOf(openBatch) \cup TxnsOf(flush.batch)
    \cup (UNION {TxnsOf(flushQueue[i]) : i \in DOMAIN flushQueue})

\* None is decided twice, or both waits and is decided or rejected.
DecidedOnce ==
  /\ Distinct(Decided)
  /\ TxnsOf(Decided) \cap (WaitingTxns \cup flush.rejected) = {}
  /\ flush.rejected \cap WaitingTxns = {}

\* Where a transaction is agrees with how far its goroutine has come.
PlacesAgree ==
  \A t \in Txns :
    /\ t \in WaitingTxns \cup flush.rejected \cup TxnsOf(flush.accepted) =>
         pc[t] \in {"queued", "abandoned"}
    /\ t \in TxnsOf(Decided) => pc[t] \in {"queued", "accepted", "done", "abandoned", "dead"}

\* The results about to be delivered are those of the published records, and
\* a delivered result names the record.
ResultsRight ==
  /\ flush.stage = "deliver" =>
       \A i \in DOMAIN flush.accepted : log[lastLogPosition + i] = flush.accepted[i]
  /\ \A t \in Txns :
       pc[t] = "accepted" \/ (pc[t] = "done" /\ staged[t].meta.writes # {}) =>
         rev[t] \in DOMAIN log /\ log[rev[t]].txn = t
  /\ \A t \in Txns : pc[t] = "done" => rev[t] <= applied

\* The inductive invariant behind WrittenAtMostOnce, AckedIsDurableAndVisible
\* and the refinement, relative to IInv: every transaction of Txn is in one
\* place only - waiting, rejected or decided - which agrees with the state of
\* its goroutine, and the results that flushBatch delivers name its record.
OnceInv == WaitsOnce /\ DecidedOnce /\ PlacesAgree /\ ResultsRight

-----------------------------------------------------------------------------
\* A response that fits the first n records of L, read from keys of the read
\* set at revisions among them: then it fits whatever follows them, too.
AnswersRight(answer, request, L, n) ==
  /\ AnsweredAs(answer, request, L, n)
  /\ \A a \in answer.answers :
       LET op == Branch(request, StateAt(L, n))[a.pos]
       IN op.key \in ReadSet(answer.meta) /\ ReadRev(op, n) \in 0..n

\* What evaluate answered a transaction is right for its snapshot, unless a key
\* it recorded has been written since.
PendingAnswers(t) ==
  LET meta == staged[t].meta
      at == meta.snapshot
  IN Recorded(meta) =>
       \/ \E q \in (at + 1)..Len(log), k \in Validated(meta) : Writes(log[q], k)
       \/ AnswersRight(staged[t], req[t], log, at)

\* The inductive invariant behind AnswersSerial, relative to IInv and OnceInv:
\* the response that tryTxn keeps while its record is queued, validated and
\* written stays the one its snapshot justifies, and for a decided record it is
\* the one of the state just before it.
AnswersInv ==
  /\ log[1].txn = NoTxn
  /\ \A p \in Queued : p.meta = staged[p.txn].meta /\ PendingAnswers(p.txn)
  /\ \A t \in Txns : pc[t] = "append" => PendingAnswers(t)
  /\ \A r \in 2..Len(Decided) :
       LET t == Decided[r].txn
       IN /\ Decided[r].meta = staged[t].meta
          /\ Recorded(staged[t].meta) => AnswersRight(staged[t], req[t], Decided, r - 1)

\* All of it together, inductive: the index, the conflict table and the log
\* agree, each transaction is in one place and told the truth about it, and the
\* response that waits for it is right.
StoreInv == IInv /\ OnceInv /\ AnswersInv
=============================================================================
