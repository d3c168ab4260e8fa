--------------------------- MODULE TxnStoreProofs ---------------------------
(***************************************************************************)
(* Proofs about TxnStore, for every set of keys, transactions and requests *)
(* and all bounds: the steps of the batching layer and a restart preserve  *)
(* IInv, so IInv is inductive, and TypeOK, Serializable and                *)
(* CompactionKeepsState follow from it.                                    *)
(***************************************************************************)
EXTENDS TxnStoreSteps

(***************************************************************************)
(* Steps of the batching layer.                                            *)
(***************************************************************************)

\* Where a queued transaction is, before and after a step.
LEMMA QueuedMembers ==
  /\ \A p : p \in Queued <=>
       \/ p \in InBatch(openBatch)
       \/ \E i \in DOMAIN flushQueue : p \in InBatch(flushQueue[i])
       \/ p \in InBatch(flush.batch)
  /\ \A p : p \in Queued' <=>
       \/ p \in InBatch(openBatch')
       \/ \E i \in DOMAIN flushQueue' : p \in InBatch(flushQueue'[i])
       \/ p \in InBatch(flush'.batch)
<1>1. ASSUME NEW p
      PROVE  p \in Queued <=>
               \/ p \in InBatch(openBatch)
               \/ \E i \in DOMAIN flushQueue : p \in InBatch(flushQueue[i])
               \/ p \in InBatch(flush.batch)
  BY DEF Queued
<1>2. ASSUME NEW p
      PROVE  p \in Queued' <=>
               \/ p \in InBatch(openBatch')
               \/ \E i \in DOMAIN flushQueue' : p \in InBatch(flushQueue'[i])
               \/ p \in InBatch(flush'.batch)
  BY DEF Queued
<1> QED
  BY <1>1, <1>2

\* Queued transactions are records, and snapshots are numbers.
LEMMA QueuedType ==
  ASSUME IInv
  PROVE  Queued \subseteq Record
<1>1. /\ openBatch \in Seq(Record) /\ flush.batch \in Seq(Record)
      /\ \A i \in DOMAIN flushQueue : flushQueue[i] \in Seq(Record)
  <2>1. openBatch \in Seq(Record) /\ flush.batch \in Seq(Record)
    BY DEF IInv, TypeOK
  <2>2. flushQueue \in Seq(Seq(Record))
    BY DEF IInv, TypeOK
  <2>3. \A S : \A s \in Seq(S) : \A i \in DOMAIN s : s[i] \in S
    OBVIOUS
  <2> QED
    BY <2>1, <2>2, <2>3
<1>2. \A b \in Seq(Record) : InBatch(b) \subseteq Record
  BY DEF InBatch
<1> QED
  BY <1>1, <1>2, QueuedMembers

LEMMA SnapshotsNat ==
  ASSUME IInv
  PROVE  Snapshots \subseteq Nat
<1>1. \A p \in Queued : p.meta.snapshot \in Nat
  BY QueuedType DEF Record, TxnMeta
<1>2. Len(log) \in Nat /\ snap \in [Txns -> Nat]
  BY DecidedSpec, SeqSpec, ZenonT(30) DEF IInv, TypeOK
<1> QED
  BY <1>1, <1>2 DEF Snapshots

\* A step that moves pending transactions between batches: those that are
\* queued afterwards were queued or appended before.
LEMMA MoveStep ==
  ASSUME IInv, TypeOK', UNCHANGED <<storeVars, committedWrites, req, snap, staged>>,
         Decided' = Decided, Positions',
         \A p \in Queued' : p \in Queued \/ \E t \in Txns : pc[t] = "append" /\ p = PendingTxn(t),
         \A t \in Txns : pc'[t] \in {"snapshot", "evaluate", "append"} => pc'[t] = pc[t]
  PROVE  IInv'
<1> USE DEF storeVars
<1>1. \A p \in Queued' : PendingOK(p) /\ p.meta.snapshot \in Snapshots
  <2> SUFFICES ASSUME NEW p \in Queued'
               PROVE  PendingOK(p) /\ p.meta.snapshot \in Snapshots
    OBVIOUS
  <2>1. CASE p \in Queued
    BY <2>1 DEF IInv, StagedAndQueued, Snapshots
  <2>2. ASSUME NEW t \in Txns, pc[t] = "append", p = PendingTxn(t)
        PROVE  PendingOK(p) /\ p.meta.snapshot \in Snapshots
    <3>1. PendingOK(p) /\ staged[t].meta.snapshot = snap[t]
      BY <2>2 DEF IInv, StagedAndQueued
    <3>2. p.meta.snapshot = snap[t]
      BY <2>2, <3>1 DEF PendingTxn
    <3> QED
      BY <2>2, <3>1, <3>2 DEF Snapshots
  <2> QED
    BY <2>1, <2>2
<1>2. Snapshots' \subseteq Snapshots
  BY <1>1 DEF Snapshots
<1>3. Stamped(Decided)' /\ DecidedSerial'
  BY DecidedFrame DEF IInv
<1>4. IndexSound(index, log, applied, compacted)'
  BY DEF IInv
<1>5. CommittedWritesCover'
  BY <1>2, CoverFrame DEF IInv
<1>6. StagedAndQueued'
  <2>1. \A p \in Queued' : PendingOK(p)'
    BY <1>1, PendingFrame
  <2>2. ASSUME NEW u \in Txns, pc'[u] = "append"
        PROVE  PendingOK(PendingTxn(u))' /\ staged'[u].meta.snapshot = snap'[u]
    <3>1. PendingOK(PendingTxn(u)) /\ staged[u].meta.snapshot = snap[u]
      BY <2>2 DEF IInv, StagedAndQueued
    <3> QED
      BY <3>1, PendingFrame DEF PendingTxn
  <2> QED
    BY <2>1, <2>2 DEF StagedAndQueued
<1> QED
  BY <1>3, <1>4, <1>5, <1>6 DEF IInv

\* What Batching.Add queues.
LEMMA AddQueued ==
  ASSUME IInv, NEW t \in Txns, Add(t)
  PROVE  PendingTxn(t) \in Record /\ Queued' \subseteq Queued \cup {PendingTxn(t)}
<1> DEFINE p == PendingTxn(t)
<1>1. /\ flush' = flush
      /\ \/ openBatch' = Append(openBatch, p) /\ flushQueue' = flushQueue
         \/ openBatch' = <<p>> /\ flushQueue' = Append(flushQueue, openBatch)
  BY DEF Add
<1>2. p \in Record
  <2>1. staged[t] \in [events : SUBSET Event, meta : TxnMeta, succeeded : BOOLEAN,
                       answers : SUBSET Answer]
    BY ZenonT(30) DEF IInv, TypeOK
  <2> QED
    BY <2>1 DEF PendingTxn, Record
<1> HIDE DEF p
<1>3. openBatch \in Seq(Record) /\ flushQueue \in Seq(Seq(Record))
  BY ZenonT(30) DEF IInv, TypeOK
<1>4. Queued' \subseteq Queued \cup {p}
  <2>1. CASE openBatch' = Append(openBatch, p) /\ flushQueue' = flushQueue
    <3>1. InBatch(openBatch') \subseteq InBatch(openBatch) \cup {p}
      BY <1>2, <1>3, <2>1 DEF InBatch
    <3> QED
      BY <1>1, <2>1, <3>1 DEF Queued
  <2>2. CASE openBatch' = <<p>> /\ flushQueue' = Append(flushQueue, openBatch)
    <3>1. InBatch(openBatch') \subseteq {p}
      BY <2>2 DEF InBatch
    <3>2. ASSUME NEW i \in DOMAIN flushQueue'
          PROVE  \/ flushQueue'[i] = openBatch
                 \/ i \in DOMAIN flushQueue /\ flushQueue'[i] = flushQueue[i]
      BY <1>3, <2>2
    <3>3. \A i \in DOMAIN flushQueue' : InBatch(flushQueue'[i]) \subseteq Queued
      BY <3>2 DEF Queued
    <3> QED
      BY <1>1, <3>1, <3>3 DEF Queued
  <2> QED
    BY <1>1, <2>1, <2>2
<1> QED
  BY <1>2, <1>4 DEF p

\* Batching.Add.
LEMMA AddKeeps ==
  ASSUME IInv, NEW t \in Txns, Add(t)
  PROVE  IInv'
<1> DEFINE p == PendingTxn(t)
<1>1. /\ pc[t] = "append" /\ pc' = [pc EXCEPT ![t] = "queued"]
      /\ UNCHANGED <<storeVars, flush, lastLogPosition, committedWrites,
                     req, snap, attempt, staged, rev, procVars>>
      /\ \/ openBatch' = Append(openBatch, p) /\ flushQueue' = flushQueue
         \/ openBatch' = <<p>> /\ flushQueue' = Append(flushQueue, openBatch)
  BY DEF Add, Goto
<1>2. p \in Record /\ Queued' \subseteq Queued \cup {p}
  BY AddQueued
<1> HIDE DEF p
<1>3. /\ pc' \in [Txns -> Labels]
      /\ \A u \in Txns : pc'[u] \in {"snapshot", "evaluate", "append"} => pc'[u] = pc[u]
  <2>1. pc \in [Txns -> Labels]
    BY ZenonT(30) DEF IInv, TypeOK
  <2> QED
    BY <1>1, <2>1 DEF Labels
<1>4. openBatch \in Seq(Record) /\ flushQueue \in Seq(Seq(Record))
  BY ZenonT(30) DEF IInv, TypeOK
<1>5. openBatch' \in Seq(Record) /\ flushQueue' \in Seq(Seq(Record))
  <2>1. CASE openBatch' = Append(openBatch, p) /\ flushQueue' = flushQueue
    BY <1>2, <1>4, <2>1
  <2>2. CASE openBatch' = <<p>> /\ flushQueue' = Append(flushQueue, openBatch)
    BY <1>2, <1>4, <2>2
  <2> QED
    BY <1>1, <2>1, <2>2
<1>6. TypeOK'
  BY <1>1, <1>3, <1>5, ZenonT(30) DEF IInv, TypeOK, storeVars, procVars
<1>7. Decided' = Decided /\ Positions'
  BY <1>1, <1>3 DEF Decided, IInv, Positions, storeVars
<1> QED
  BY <1>1, <1>2, <1>3, <1>6, <1>7, MoveStep DEF p

\* The batch that doBackgroundFlush takes was queued.
LEMMA TakeQueued ==
  ASSUME IInv, TakeBatch
  PROVE  /\ flush' \in [stage : {"idle", "prepare", "deliver"}, batch : Seq(Record),
                        accepted : Seq(Record), rejected : SUBSET Txns]
         /\ flush'.stage = "prepare" /\ flush'.accepted = <<>>
         /\ openBatch' \in Seq(Record) /\ flushQueue' \in Seq(Seq(Record))
         /\ Queued' \subseteq Queued
         /\ Decided' = Decided
<1>1. /\ flush.stage = "idle"
      /\ UNCHANGED <<storeVars, lastLogPosition, committedWrites, txnVars, procVars>>
      /\ \/ /\ flushQueue # <<>>
            /\ flush' = [flush EXCEPT !.stage = "prepare", !.batch = Head(flushQueue)]
            /\ flushQueue' = Tail(flushQueue)
            /\ openBatch' = openBatch
         \/ /\ flush' = [flush EXCEPT !.stage = "prepare", !.batch = openBatch]
            /\ openBatch' = <<>>
            /\ flushQueue' = flushQueue
  BY DEF TakeBatch
<1>2. /\ openBatch \in Seq(Record) /\ flushQueue \in Seq(Seq(Record)) /\ log \in Seq(Record)
      /\ flush \in [stage : {"idle", "prepare", "deliver"}, batch : Seq(Record),
                    accepted : Seq(Record), rejected : SUBSET Txns]
      /\ flush.accepted = <<>> /\ flush.batch = <<>>
  BY <1>1, ZenonT(30) DEF IInv, TypeOK, Positions
<1>3. ASSUME NEW b \in Seq(Record), flush' = [flush EXCEPT !.stage = "prepare", !.batch = b]
      PROVE  /\ flush' \in [stage : {"idle", "prepare", "deliver"}, batch : Seq(Record),
                            accepted : Seq(Record), rejected : SUBSET Txns]
             /\ flush'.stage = "prepare" /\ flush'.batch = b /\ flush'.accepted = <<>>
  BY <1>2, <1>3, ZenonT(30)
<1>4. /\ flush' \in [stage : {"idle", "prepare", "deliver"}, batch : Seq(Record),
                     accepted : Seq(Record), rejected : SUBSET Txns]
      /\ flush'.stage = "prepare" /\ flush'.accepted = <<>>
      /\ openBatch' \in Seq(Record) /\ flushQueue' \in Seq(Seq(Record))
      /\ Queued' \subseteq Queued
  <2>1. CASE /\ flushQueue # <<>>
             /\ flush' = [flush EXCEPT !.stage = "prepare", !.batch = Head(flushQueue)]
             /\ flushQueue' = Tail(flushQueue)
             /\ openBatch' = openBatch
    <3>1. Head(flushQueue) \in Seq(Record) /\ Tail(flushQueue) \in Seq(Seq(Record))
      BY <1>2, <2>1
    <3>2. /\ Head(flushQueue) = flushQueue[1] /\ 1 \in DOMAIN flushQueue
          /\ \A i \in DOMAIN flushQueue' : i + 1 \in DOMAIN flushQueue
                                           /\ flushQueue'[i] = flushQueue[i + 1]
      BY <1>2, <2>1
    <3>3. flush'.batch = flushQueue[1]
      BY <1>3, <2>1, <3>1, <3>2, ZenonT(30)
    <3>4. Queued' \subseteq Queued
      BY <2>1, <3>2, <3>3, QueuedMembers
    <3> QED
      BY <1>2, <1>3, <2>1, <3>1, <3>4, ZenonT(30)
  <2>2. CASE /\ flush' = [flush EXCEPT !.stage = "prepare", !.batch = openBatch]
             /\ openBatch' = <<>>
             /\ flushQueue' = flushQueue
    <3>1. flush'.batch = openBatch
      BY <1>2, <1>3, <2>2, ZenonT(30)
    <3>2. InBatch(openBatch') = {}
      BY <2>2 DEF InBatch
    <3>3. Queued' \subseteq Queued
      BY <2>2, <3>1, <3>2, QueuedMembers
    <3> QED
      BY <1>2, <1>3, <2>2, <3>3, ZenonT(30)
  <2> QED
    BY <1>1, <2>1, <2>2, ZenonT(30)
<1>5. Decided' = Decided
  BY <1>1, <1>2, <1>4 DEF Decided, storeVars
<1> QED
  BY <1>4, <1>5

\* doBackgroundFlush takes a batch.
LEMMA TakeBatchKeeps ==
  ASSUME IInv, TakeBatch
  PROVE  IInv'
<1>1. /\ flush.stage = "idle"
      /\ UNCHANGED <<storeVars, lastLogPosition, committedWrites, txnVars, procVars>>
  BY DEF TakeBatch
<1>2. /\ flush' \in [stage : {"idle", "prepare", "deliver"}, batch : Seq(Record),
                     accepted : Seq(Record), rejected : SUBSET Txns]
      /\ flush'.stage = "prepare" /\ flush'.accepted = <<>>
      /\ openBatch' \in Seq(Record) /\ flushQueue' \in Seq(Seq(Record))
      /\ Queued' \subseteq Queued /\ Decided' = Decided
  BY TakeQueued
<1>3. TypeOK'
  BY <1>1, <1>2, ZenonT(30) DEF IInv, TypeOK, storeVars, txnVars, procVars
<1>4. Positions'
  BY <1>1, <1>2, ZenonT(30) DEF IInv, Positions, storeVars, txnVars
<1> QED
  BY <1>1, <1>2, <1>3, <1>4, MoveStep DEF txnVars

\* flushBatch delivers the results.
LEMMA DeliverKeeps ==
  ASSUME IInv, Deliver
  PROVE  IInv'
<1>1. /\ flush.stage = "deliver"
      /\ flush' = [stage |-> "idle", batch |-> <<>>, accepted |-> <<>>, rejected |-> {}]
      /\ lastLogPosition' = lastLogPosition + Len(flush.accepted)
      /\ UNCHANGED <<storeVars, openBatch, flushQueue, committedWrites, req, snap, attempt,
                     staged, procVars>>
  BY DEF Deliver
<1>2. /\ log \in Seq(Record) /\ flush.accepted \in Seq(Record)
      /\ Len(log) \in Nat /\ Len(flush.accepted) \in Nat /\ lastLogPosition \in Nat
      /\ pc \in [Txns -> Labels] /\ rev \in [Txns -> Nat]
  BY DecidedSpec, SeqSpec, ZenonT(30) DEF IInv, TypeOK
<1>3. lastLogPosition = Len(log) - Len(flush.accepted) /\ lastLogPosition' = Len(log)
  BY <1>1, <1>2 DEF IInv, Positions
<1>4. ASSUME NEW t \in Txns
      PROVE  rev'[t] \in Nat /\ rev'[t] <= Len(log)
  <2>1. CASE AcceptedAt(t) = {}
    <3>1. rev'[t] = rev[t]
      BY <2>1 DEF Deliver
    <3> QED
      BY <1>2, <3>1 DEF IInv, Positions
  <2>2. CASE AcceptedAt(t) # {}
    <3>1. rev'[t] = lastLogPosition + Max(AcceptedAt(t))
      BY <2>2 DEF Deliver
    <3>2. AcceptedAt(t) \subseteq 1..Len(flush.accepted)
      BY <1>2 DEF AcceptedAt
    <3>3. AcceptedAt(t) \in SUBSET (0..Len(flush.accepted))
      BY <1>2, <3>2
    <3>4. Max(AcceptedAt(t)) \in AcceptedAt(t)
      BY <1>2, <2>2, <3>3, MaxOfBounded, ZenonT(30)
    <3>5. Max(AcceptedAt(t)) \in 1..Len(flush.accepted)
      BY <3>2, <3>4
    <3> QED
      BY <1>2, <1>3, <3>1, <3>5
  <2> QED
    BY <2>1, <2>2
<1>5. rev' \in [Txns -> Nat]
  <2>1. rev' = [t \in Txns |-> rev'[t]]
    BY DEF Deliver
  <2> QED
    BY <1>4, <2>1
<1>6. /\ pc' \in [Txns -> Labels]
      /\ \A t \in Txns : pc'[t] \in {"snapshot", "evaluate", "append"} => pc'[t] = pc[t]
  <2>1. pc' = [t \in Txns |->
                 IF pc[t] # "queued" THEN pc[t]
                 ELSE IF AcceptedAt(t) # {} THEN "accepted"
                 ELSE IF t \in flush.rejected THEN "rejected" ELSE pc[t]]
    BY DEF Deliver
  <2> QED
    BY <1>2, <2>1 DEF Labels
<1>7. /\ flush' \in [stage : {"idle", "prepare", "deliver"}, batch : Seq(Record),
                     accepted : Seq(Record), rejected : SUBSET Txns]
      /\ flush'.stage = "idle" /\ flush'.batch = <<>> /\ flush'.accepted = <<>>
  BY <1>1
<1>8. TypeOK'
  BY <1>1, <1>2, <1>3, <1>5, <1>6, <1>7, ZenonT(30) DEF IInv, TypeOK, storeVars, procVars
<1>9. Decided' = Decided
  BY <1>1, <1>7 DEF Decided, storeVars
<1>10. Positions'
  BY <1>1, <1>3, <1>4, <1>6, <1>7, ZenonT(30) DEF IInv, Positions, storeVars
<1>11. Queued' \subseteq Queued
  <2>1. InBatch(flush'.batch) = {}
    BY <1>7 DEF InBatch
  <2> QED
    BY <1>1, <2>1, QueuedMembers
<1> QED
  BY <1>1, <1>6, <1>8, <1>9, <1>10, <1>11, MoveStep

\* Growing the log keeps what was staged right.
LEMMA PendingExtend ==
  ASSUME NEW p, p.meta.snapshot \in Nat, p.meta.snapshot <= Len(log),
         Len(log) \in Nat, Len(log') \in Nat, Len(log) <= Len(log'),
         \A i \in 1..Len(log) : log'[i] = log[i], req' = req, PendingOK(p)
  PROVE  PendingOK(p)'
<1> DEFINE at == p.meta.snapshot
<1>1. StateAt(log', at) = StateAt(log, at)
  BY StatePrefix
<1>2. \A q \in (at + 1)..Len(log) : q \in (at + 1)..Len(log') /\ log'[q] = log[q]
  OBVIOUS
<1> QED
  BY <1>1, <1>2, ZenonT(30) DEF PendingOK

\* commitBatch publishes the accepted records.
LEMMA PublishKeeps ==
  ASSUME IInv, Publish
  PROVE  IInv'
<1>1. /\ flush.stage = "prepare" /\ flush.batch = <<>>
      /\ log' = log \o flush.accepted
      /\ flush' = [flush EXCEPT !.stage = "deliver"]
      /\ UNCHANGED <<applied, index, compacted, openBatch, flushQueue, lastLogPosition,
                     committedWrites, txnVars, procVars>>
  BY DEF Publish
<1>2. /\ log \in Seq(Record) /\ flush.accepted \in Seq(Record)
      /\ Len(log) \in Nat /\ Len(flush.accepted) \in Nat
      /\ flush \in [stage : {"idle", "prepare", "deliver"}, batch : Seq(Record),
                    accepted : Seq(Record), rejected : SUBSET Txns]
      /\ applied \in Nat /\ compacted \in Nat
  BY DecidedSpec, SeqSpec, ZenonT(30) DEF IInv, TypeOK
<1>3. /\ flush' \in [stage : {"idle", "prepare", "deliver"}, batch : Seq(Record),
                     accepted : Seq(Record), rejected : SUBSET Txns]
      /\ flush'.stage = "deliver" /\ flush'.batch = flush.batch
      /\ flush'.accepted = flush.accepted
  BY <1>1, <1>2, ZenonT(30)
<1>4. /\ log' \in Seq(Record) /\ Len(log') = Len(log) + Len(flush.accepted)
      /\ Len(log') \in Nat /\ Len(log) <= Len(log')
      /\ \A i \in 1..Len(log) : log'[i] = log[i]
  BY <1>1, <1>2, ConcatSpec
<1>5. Decided' = Decided
  BY <1>1, <1>3 DEF Decided
<1>6. index' \in [Keys -> [revs : SUBSET (1..Len(log')), tombstone : BOOLEAN]]
  <2>1. index \in [Keys -> [revs : SUBSET (1..Len(log)), tombstone : BOOLEAN]]
    BY ZenonT(30) DEF IInv, TypeOK
  <2>2. 1..Len(log) \subseteq 1..Len(log')
    BY <1>2, <1>4
  <2> QED
    BY <1>1, <2>1, <2>2
<1>7. TypeOK'
  BY <1>1, <1>3, <1>4, <1>6, ZenonT(30) DEF IInv, TypeOK, txnVars, procVars
<1>8. Queued' = Queued
  BY <1>1, <1>3 DEF Queued
<1>9. Positions'
  <2>1. /\ Len(log) >= 1 /\ applied <= Len(log) /\ compacted <= applied
        /\ lastLogPosition = Len(log)
        /\ \A t \in Txns : rev[t] <= Len(log) /\ rev[t] \in Nat
        /\ \A t \in Txns : pc[t] = "evaluate" => snap[t] <= applied
    BY <1>1, ZenonT(30) DEF IInv, Positions, TypeOK
  <2>2. lastLogPosition' = Len(log') - Len(flush'.accepted)
    BY <1>1, <1>2, <1>3, <1>4, <2>1
  <2>3. Len(log') >= 1 /\ applied' <= Len(log') /\ compacted' <= applied'
    BY <1>1, <1>2, <1>4, <2>1
  <2>4. \A t \in Txns : rev'[t] <= Len(log')
    BY <1>1, <1>2, <1>4, <2>1 DEF txnVars
  <2> QED
    BY <1>1, <1>3, <2>1, <2>2, <2>3, <2>4 DEF Positions, txnVars
<1>10. Stamped(Decided)' /\ DecidedSerial'
  BY <1>1, <1>5, DecidedFrame DEF IInv, txnVars
<1>11. IndexSound(index, log, applied, compacted)'
  <2>1. \A k \in Keys : index[k].revs \subseteq Nat \ {0}
    BY IndexType, ZenonT(30) DEF IInv
  <2>2. \A i \in 1..applied : log[i] = log'[i]
    <3>1. applied \in Nat /\ Len(log) \in Nat /\ \A i \in 1..Len(log) : log'[i] = log[i]
      BY <1>2, <1>4, SeqSpec, ZenonT(30)
    <3>2. applied <= Len(log)
      BY ZenonT(30) DEF IInv, Positions
    <3>3. \A i \in 1..applied : i \in 1..Len(log)
      BY <3>1, <3>2
    <3> QED
      BY <3>1, <3>3, ZenonT(30)
  <2>3. compacted <= applied /\ IndexSound(index, log, applied, compacted)
    BY DEF IInv, Positions
  <2>4. IndexSound(index, log', applied, compacted)
    BY <1>2, <2>1, <2>2, <2>3, IndexSoundExtend, ZenonT(30)
  <2> QED
    BY <1>1, <2>4
<1>12. CommittedWritesCover'
  <2>1. ASSUME NEW s \in Snapshots'
        PROVE  s = Len(log') \/ s \in Snapshots
    BY <1>1, <1>8 DEF Snapshots, txnVars
  <2>2. \A s \in Snapshots : s \in Nat /\ s <= Len(log)
    BY SnapshotsNat DEF IInv, CommittedWritesCover
  <2>3. \A q \in DOMAIN Decided' : q <= Len(log')
    <3>1. Decided' = log'
      BY <1>3 DEF Decided
    <3> QED
      BY <1>4, <3>1
  <2>4. ASSUME NEW s \in Snapshots', NEW k \in Keys, NEW q \in DOMAIN Decided',
               Writes(Decided'[q], k), q > s
        PROVE  committedWrites'[k] >= q
    <3>1. CASE s = Len(log')
      <4>1. q \in Nat
        BY <1>5, DecidedSpec DEF IInv
      <4> QED
        BY <1>4, <2>3, <2>4, <3>1, <4>1
    <3>2. CASE s \in Snapshots
      BY <1>1, <1>5, <2>4, <3>2 DEF IInv, CommittedWritesCover
    <3> QED
      BY <2>1, <3>1, <3>2
  <2>5. \A s \in Snapshots' : s <= Len(log')
    BY <1>2, <1>4, <2>1, <2>2
  <2> QED
    BY <2>4, <2>5 DEF CommittedWritesCover
<1>13. StagedAndQueued'
  <2>1. ASSUME NEW p \in Queued
        PROVE  PendingOK(p)'
    <3>1. PendingOK(p) /\ p.meta.snapshot \in Snapshots
      BY DEF IInv, StagedAndQueued, Snapshots
    <3>2. p.meta.snapshot \in Nat /\ p.meta.snapshot <= Len(log)
      BY <3>1, SnapshotsNat, ZenonT(30) DEF IInv, CommittedWritesCover
    <3> QED
      BY <1>1, <1>2, <1>4, <3>1, <3>2, PendingExtend DEF txnVars
  <2>2. ASSUME NEW t \in Txns, pc'[t] = "append"
        PROVE  PendingOK(PendingTxn(t))' /\ staged'[t].meta.snapshot = snap'[t]
    <3>1. pc[t] = "append" /\ staged' = staged /\ snap' = snap /\ req' = req
      BY <1>1, <2>2 DEF txnVars
    <3>2. PendingOK(PendingTxn(t)) /\ staged[t].meta.snapshot = snap[t] /\ snap[t] \in Snapshots
      BY <3>1, ZenonT(30) DEF IInv, StagedAndQueued, Snapshots
    <3>3. PendingTxn(t).meta.snapshot \in Nat /\ PendingTxn(t).meta.snapshot <= Len(log)
      BY <3>2, SnapshotsNat, ZenonT(30) DEF IInv, CommittedWritesCover, PendingTxn
    <3>4. PendingTxn(t)' = PendingTxn(t)
      BY <3>1, ZenonT(30) DEF PendingTxn
    <3> QED
      BY <1>2, <1>4, <3>1, <3>2, <3>3, <3>4, PendingExtend, ZenonT(30)
  <2> QED
    BY <1>8, <2>1, <2>2 DEF StagedAndQueued
<1> QED
  BY <1>7, <1>9, <1>10, <1>11, <1>12, <1>13 DEF IInv

\* A key that no record after `at` writes has the state it had at `at`.
LEMMA StateKept ==
  ASSUME NEW L, NEW at \in Nat, NEW n \in Nat, at <= n, NEW k \in Keys,
         \A q \in (at + 1)..n : ~Writes(L[q], k)
  PROVE  StateAt(L, n)[k] = StateAt(L, at)[k]
<1> DEFINE a == LatestWrite(L, k, at)
           b == LatestWrite(L, k, n)
<1>1. /\ a \in 0..at
      /\ a # 0 => Writes(L[a], k)
      /\ \A r \in 1..at : Writes(L[r], k) => r <= a
  BY LatestWriteSpec
<1>2. /\ b \in 0..n
      /\ b # 0 => Writes(L[b], k)
      /\ \A r \in 1..n : Writes(L[r], k) => r <= b
  BY LatestWriteSpec
<1> HIDE DEF a, b
<1>3. b <= at
  BY <1>2
<1>4. b <= a
  BY <1>1, <1>2, <1>3
<1>5. a <= b
  BY <1>1, <1>2
<1>6. a = b
  BY <1>1, <1>2, <1>4, <1>5
<1> QED
  BY <1>6 DEF StateAt, a, b

\* What validateTxn establishes: a queued transaction that passes, and whose
\* reads were recorded, staged what its request writes at its snapshot, and no
\* key it depends on has changed since.
LEMMA ValidatedSerial ==
  ASSUME IInv, flush.stage = "prepare", NEW p \in Queued, ValidateTxn(p.meta), Recorded(p.meta)
  PROVE  LET before == StateAt(log, p.meta.snapshot)
         IN /\ Covers(p.meta, req[p.txn], before)
            /\ p.events = SerialEvents(req[p.txn], before, p.meta.snapshot)
            /\ \A k \in Validated(p.meta) : before[k] = StateAt(Decided, Len(Decided))[k]
            /\ ~ \E q \in (p.meta.snapshot + 1)..Len(log), k \in Validated(p.meta) :
                   Writes(log[q], k)
<1> DEFINE at == p.meta.snapshot
           n == Len(Decided)
<1>1. p \in Record /\ PendingOK(p) /\ at \in Snapshots
  BY QueuedType, ZenonT(30) DEF IInv, StagedAndQueued, Snapshots
<1>2. /\ at \in Nat /\ at <= Len(log)
      /\ \A k \in Keys, q \in DOMAIN Decided : Writes(Decided[q], k) /\ q > at => committedWrites[k] >= q
  BY <1>1, SnapshotsNat DEF IInv, CommittedWritesCover
<1>3. /\ Decided \in Seq(Record) /\ n \in Nat /\ Len(log) \in Nat /\ Len(log) <= n
      /\ DOMAIN Decided = 1..n
      /\ \A i \in 1..Len(log) : Decided[i] = log[i]
  BY DecidedLength, ZenonT(30)
<1>4. Validated(p.meta) \subseteq Keys /\ committedWrites \in [Keys -> Nat]
  <2>1. p.meta \in TxnMeta
    BY <1>1 DEF Record
  <2>2. p.meta.writes \subseteq Keys /\ \A o \in p.meta.reads : o.key \in Keys
    BY <2>1 DEF TxnMeta
  <2>3. committedWrites \in [Keys -> Nat]
    BY ZenonT(30) DEF IInv, TypeOK
  <2> QED
    BY <2>2, <2>3 DEF Validated, ReadSet
<1>5. \A k \in Validated(p.meta) : committedWrites[k] <= at
  <2>1. /\ \A o \in p.meta.reads : committedWrites[o.key] <= o.rev
        /\ \A k \in p.meta.writes : committedWrites[k] <= at
    BY DEF ValidateTxn, Recorded
  <2>2. \A o \in p.meta.reads : o.rev <= at
    BY <1>1, ZenonT(30) DEF PendingOK
  <2>3. \A o \in p.meta.reads : o.key \in Keys /\ o.rev \in Nat
    BY <1>1 DEF Record, TxnMeta
  <2>4. \A o \in p.meta.reads : committedWrites[o.key] <= at
    BY <1>2, <1>4, <2>1, <2>2, <2>3
  <2> QED
    BY <2>1, <2>4 DEF Validated, ReadSet
<1>6. ASSUME NEW k \in Validated(p.meta), NEW q \in (at + 1)..n
      PROVE  ~Writes(Decided[q], k)
  <2>1. committedWrites[k] \in Nat /\ committedWrites[k] <= at /\ k \in Keys
    BY <1>4, <1>5
  <2>2. q \in DOMAIN Decided /\ q > at /\ q \in Nat
    BY <1>2, <1>3
  <2> QED
    BY <1>2, <2>1, <2>2
<1>7. ~ \E q \in (at + 1)..Len(log), k \in Validated(p.meta) : Writes(log[q], k)
  BY <1>2, <1>3, <1>6
<1>8. /\ Covers(p.meta, req[p.txn], StateAt(log, at))
      /\ p.events = SerialEvents(req[p.txn], StateAt(log, at), at)
  BY <1>1, <1>7, ZenonT(30) DEF PendingOK
<1>9. StateAt(log, at) = StateAt(Decided, at)
  BY <1>2, <1>3, StatePrefix
<1>10. \A k \in Validated(p.meta) : StateAt(Decided, n)[k] = StateAt(Decided, at)[k]
  <2> SUFFICES ASSUME NEW k \in Validated(p.meta)
               PROVE  StateAt(Decided, n)[k] = StateAt(Decided, at)[k]
    OBVIOUS
  <2>1. at \in Nat /\ n \in Nat /\ at <= n
    BY <1>2, <1>3
  <2>2. k \in Keys /\ \A q \in (at + 1)..n : ~Writes(Decided[q], k)
    BY <1>4, <1>6
  <2> HIDE DEF n, at
  <2> QED
    BY <2>1, <2>2, StateKept
<1> QED
  BY <1>7, <1>8, <1>9, <1>10, ZenonT(30)

\* So the record that prepare re-stamps for it is what the request writes on
\* the state that the decided records left.
LEMMA AcceptedSerial ==
  ASSUME IInv, flush.stage = "prepare", NEW p \in Queued, ValidateTxn(p.meta), Recorded(p.meta)
  PROVE  StampRecord(p, Len(Decided) + 1).events
           = SerialEvents(req[p.txn], StateAt(Decided, Len(Decided)), Len(Decided))
<1> DEFINE at == p.meta.snapshot
           n == Len(Decided)
           before == StateAt(log, at)
           after == StateAt(Decided, n)
<1>1. p \in Record /\ PendingOK(p) /\ at \in Snapshots
  BY QueuedType DEF IInv, StagedAndQueued, Snapshots
<1>2. at \in Nat /\ at <= Len(log)
  BY <1>1, SnapshotsNat, ZenonT(30) DEF IInv, CommittedWritesCover
<1>3. Decided \in Seq(Record) /\ n \in Nat /\ log \in Seq(Record) /\ Len(log) \in Nat /\ Len(log) <= n
  BY DecidedLength, ZenonT(30)
<1>4. req[p.txn] \in Requests
  BY <1>1, ZenonT(30) DEF PendingOK, IInv, TypeOK
<1>5. before \in [Keys -> Kv] /\ \A k \in Keys : before[k].create <= at
  <2>1. Stamped(log)
    BY LogStamped DEF IInv
  <2>2. at \in 0..Len(log)
    BY <1>2, <1>3
  <2> QED
    BY <1>3, <2>1, <2>2, StateAtSpec, ZenonT(30)
<1>6. /\ Covers(p.meta, req[p.txn], before)
      /\ p.events = SerialEvents(req[p.txn], before, at)
      /\ \A k \in Validated(p.meta) : before[k] = after[k]
  BY ValidatedSerial, ZenonT(30)
<1>7. StampRecord(p, n + 1).events = {Stamp(e, n + 1) : e \in p.events}
  <2>1. StampRecord(p, n + 1).events = {Stamp(e, n + 1) : e \in p.events}
    BY <1>1, StampedEvents
  <2> QED
    BY <2>1
<1> HIDE DEF at, before, after, n
<1>8. {Stamp(e, n + 1) : e \in SerialEvents(req[p.txn], before, at)}
        = SerialEvents(req[p.txn], before, n)
  <2>1. n \in Nat /\ at \in Nat
    BY <1>2, <1>3
  <2> QED
    BY <1>4, <1>5, <2>1, StampSerialEvents
<1>9. SerialEvents(req[p.txn], before, n) = SerialEvents(req[p.txn], after, n)
  BY <1>6, SameEvents
<1> QED
  BY <1>6, <1>7, <1>8, <1>9, ZenonT(30) DEF n, after

\* Appending a serial, well-formed record to the decided ones.
LEMMA DecidedAppend ==
  ASSUME IInv, req' = req, Decided' \in Seq(Record), Len(Decided') = Len(Decided) + 1,
         \A i \in 1..Len(Decided) : Decided'[i] = Decided[i],
         NEW rec, Decided'[Len(Decided) + 1] = rec, rec.txn \in Txns,
         EventsStamped(rec.events, Len(Decided) + 1),
         Recorded(rec.meta) =>
           rec.events = SerialEvents(req[rec.txn], StateAt(Decided, Len(Decided)), Len(Decided))
  PROVE  Stamped(Decided)' /\ DecidedSerial'
<1> DEFINE n == Len(Decided)
<1>1. n \in Nat /\ DOMAIN Decided = 1..n
  BY DecidedLength, ZenonT(30)
<1>2. DOMAIN Decided' = 1..(n + 1) /\ Len(Decided') = n + 1
  BY SeqSpec
<1>3. Decided'[n + 1] = rec /\ \A i \in 1..n : Decided'[i] = Decided[i]
  OBVIOUS
<1>4. /\ EventsStamped(rec.events, n + 1)
      /\ Recorded(rec.meta) => rec.events = SerialEvents(req[rec.txn], StateAt(Decided, n), n)
  BY ZenonT(30)
<1>5. /\ \A r \in 1..n : EventsStamped(Decided[r].events, r)
      /\ \A r \in 2..n : /\ Decided[r].txn \in Txns
                         /\ Recorded(Decided[r].meta) => SerialRecord(Decided, r)
  BY <1>1, ZenonT(30) DEF IInv, Stamped, DecidedSerial
<1> HIDE DEF n
<1>6. \A r \in DOMAIN Decided' : EventsStamped(Decided'[r].events, r)
  <2>1. \A r \in 1..(n + 1) : r \in 1..n \/ r = n + 1
    BY <1>1, UpToNext
  <2>2. \A r \in 1..n : EventsStamped(Decided'[r].events, r)
    BY <1>3, <1>5, ZenonT(30)
  <2>3. EventsStamped(Decided'[n + 1].events, n + 1)
    BY <1>3, <1>4
  <2> QED
    BY <1>2, <2>1, <2>2, <2>3, ZenonT(30)
<1>7. ASSUME NEW r \in 2..(n + 1)
      PROVE  /\ Decided'[r].txn \in Txns
             /\ Recorded(Decided'[r].meta) =>
                  Decided'[r].events
                    = SerialEvents(req'[Decided'[r].txn], StateAt(Decided', r - 1), r - 1)
  <2>1. r - 1 \in Nat /\ (\A i \in 1..(r - 1) : i \in 1..n) /\ (r \in 2..n \/ r = n + 1)
    BY <1>1, UpToNext, ZenonT(30)
  <2>2. StateAt(Decided', r - 1) = StateAt(Decided, r - 1)
    <3>1. \A i \in 1..(r - 1) : Decided'[i] = Decided[i]
      BY <1>3, <2>1, ZenonT(30)
    <3> QED
      BY <2>1, <3>1, StatePrefix, ZenonT(30)
  <2>3. CASE r \in 2..n
    <3>1. Decided'[r] = Decided[r]
      BY <1>1, <1>3, <2>3, UpToNext, ZenonT(30)
    <3>2. /\ Decided[r].txn \in Txns
          /\ Recorded(Decided[r].meta) =>
               Decided[r].events = SerialEvents(req[Decided[r].txn], StateAt(Decided, r - 1), r - 1)
      BY <1>5, <2>3, ZenonT(30) DEF SerialRecord
    <3> QED
      BY <2>2, <3>1, <3>2, ZenonT(30)
  <2>4. CASE r = n + 1
    <3>1. r - 1 = n
      BY <1>1, <2>4
    <3>2. Decided'[r] = rec
      BY <1>3, <2>4, ZenonT(30)
    <3> QED
      BY <1>4, <2>2, <3>1, <3>2, ZenonT(30)
  <2> QED
    BY <2>1, <2>3, <2>4, ZenonT(30)
<1> QED
  BY <1>2, <1>6, <1>7, ZenonT(30) DEF Stamped, DecidedSerial, SerialRecord

\* The transaction at the head of the batch in hand, and the batch without it.
LEMMA HeadQueued ==
  ASSUME IInv, flush.batch # <<>>, openBatch' = openBatch, flushQueue' = flushQueue,
         flush'.batch = Tail(flush.batch)
  PROVE  /\ Head(flush.batch) \in Queued
         /\ Queued' \subseteq Queued
         /\ Tail(flush.batch) \in Seq(Record)
<1>1. flush.batch \in Seq(Record)
  BY ZenonT(30) DEF IInv, TypeOK
<1>2. /\ Head(flush.batch) = flush.batch[1] /\ 1 \in DOMAIN flush.batch
      /\ Tail(flush.batch) \in Seq(Record)
      /\ \A i \in DOMAIN Tail(flush.batch) : i + 1 \in DOMAIN flush.batch
                                             /\ Tail(flush.batch)[i] = flush.batch[i + 1]
  BY <1>1, TailSpec
<1>3. Head(flush.batch) \in InBatch(flush.batch)
  BY <1>2 DEF InBatch
<1>4. InBatch(Tail(flush.batch)) \subseteq InBatch(flush.batch)
  BY <1>2 DEF InBatch
<1> QED
  BY <1>2, <1>3, <1>4, QueuedMembers, ZenonT(30)

\* prepare accepts a record: it is decided, behind the others.
LEMMA DecidedAccept ==
  ASSUME IInv, flush.stage = "prepare", flush'.stage = "prepare", log' = log, NEW rec \in Record,
         flush'.accepted = Append(flush.accepted, rec)
  PROVE  /\ Decided' \in Seq(Record) /\ Len(Decided') = Len(Decided) + 1
         /\ \A i \in 1..Len(Decided) : Decided'[i] = Decided[i]
         /\ Decided'[Len(Decided) + 1] = rec
<1>1. log \in Seq(Record) /\ flush.accepted \in Seq(Record)
  BY DecidedLength, ZenonT(30)
<1> DEFINE D == log \o flush.accepted
           E == log \o Append(flush.accepted, rec)
<1>2. Decided = D /\ Decided' = E
  BY DEF Decided
<1>3. E \in Seq(Record) /\ Len(E) = Len(D) + 1 /\ E[Len(D) + 1] = rec
      /\ \A i \in 1..Len(D) : E[i] = D[i]
  <2>1. ASSUME NEW s \in Seq(Record), NEW t \in Seq(Record)
        PROVE  /\ s \o Append(t, rec) \in Seq(Record)
               /\ Len(s \o Append(t, rec)) = Len(s \o t) + 1
               /\ \A i \in 1..Len(s \o t) : (s \o Append(t, rec))[i] = (s \o t)[i]
               /\ (s \o Append(t, rec))[Len(s \o t) + 1] = rec
    BY ConcatAppend
  <2> QED
    BY <1>1, <2>1, ZenonT(30)
<1> HIDE DEF D, E
<1> QED
  BY <1>2, <1>3

\* prepare rejects a transaction.
LEMMA RejectKeeps ==
  ASSUME IInv, flush.stage = "prepare", flush.batch # <<>>,
         flush' = [flush EXCEPT !.batch = Tail(@), !.rejected = @ \cup {Head(flush.batch).txn}],
         UNCHANGED <<storeVars, openBatch, flushQueue, lastLogPosition, committedWrites,
                     txnVars, procVars>>
  PROVE  IInv'
<1>1. /\ flush \in [stage : {"idle", "prepare", "deliver"}, batch : Seq(Record),
                    accepted : Seq(Record), rejected : SUBSET Txns]
      /\ Tail(flush.batch) \in Seq(Record)
  <2>1. flush \in [stage : {"idle", "prepare", "deliver"}, batch : Seq(Record),
                   accepted : Seq(Record), rejected : SUBSET Txns]
    BY ZenonT(30) DEF IInv, TypeOK
  <2>2. flush.batch \in Seq(Record)
    BY <2>1
  <2> QED
    BY <2>1, <2>2
<1>2. flush'.batch = Tail(flush.batch) /\ flush'.stage = "prepare"
      /\ flush'.accepted = flush.accepted
  BY <1>1
<1>3. Head(flush.batch) \in Queued /\ Queued' \subseteq Queued
  BY <1>2, HeadQueued
<1>4. Head(flush.batch).txn \in Txns
  BY <1>3, ZenonT(30) DEF IInv, StagedAndQueued, PendingOK
<1>5. flush' \in [stage : {"idle", "prepare", "deliver"}, batch : Seq(Record),
                  accepted : Seq(Record), rejected : SUBSET Txns]
  BY <1>1, <1>4, ZenonT(30)
<1>6. TypeOK'
  BY <1>5, ZenonT(30) DEF IInv, TypeOK, storeVars, txnVars, procVars
<1>7. Decided' = Decided
  BY <1>2 DEF Decided, storeVars
<1>8. Positions'
  BY <1>2 DEF IInv, Positions, storeVars, txnVars
<1> QED
  BY <1>3, <1>6, <1>7, <1>8, MoveStep DEF txnVars

\* prepare accepts a transaction: it is appended to the decided records with
\* the next revision, and its writes enter committedWrites.
LEMMA AcceptKeeps ==
  ASSUME IInv, flush.stage = "prepare", flush.batch # <<>>, NEW p, NEW r,
         p = Head(flush.batch), r = lastLogPosition + Len(flush.accepted) + 1,
         ValidateTxn(p.meta),
         flush' = [flush EXCEPT !.batch = Tail(@), !.accepted = Append(@, StampRecord(p, r))],
         committedWrites' = [k \in Keys |-> IF k \in p.meta.writes THEN r ELSE committedWrites[k]],
         UNCHANGED <<storeVars, openBatch, flushQueue, lastLogPosition, txnVars, procVars>>
  PROVE  IInv'
<1> USE DEF storeVars, txnVars, procVars
<1> DEFINE n == Len(Decided)
           at == p.meta.snapshot
           rec == StampRecord(p, r)
<1>1. /\ flush \in [stage : {"idle", "prepare", "deliver"}, batch : Seq(Record),
                    accepted : Seq(Record), rejected : SUBSET Txns]
      /\ Tail(flush.batch) \in Seq(Record)
      /\ committedWrites \in [Keys -> Nat] /\ flush.accepted \in Seq(Record)
  <2>1. /\ flush \in [stage : {"idle", "prepare", "deliver"}, batch : Seq(Record),
                      accepted : Seq(Record), rejected : SUBSET Txns]
        /\ committedWrites \in [Keys -> Nat]
    BY ZenonT(30) DEF IInv, TypeOK
  <2>2. flush.batch \in Seq(Record) /\ flush.accepted \in Seq(Record)
    BY <2>1
  <2> QED
    BY <2>1, <2>2
<1>2. /\ Decided \in Seq(Record) /\ log \in Seq(Record) /\ Len(log) \in Nat /\ n \in Nat
      /\ Len(flush.accepted) \in Nat /\ n = Len(log) + Len(flush.accepted)
      /\ DOMAIN Decided = 1..n
  BY <1>1, DecidedSpec, SeqSpec DEF IInv
<1>3. r = n + 1 /\ r \in Nat
  <2>1. lastLogPosition = Len(log)
    BY DEF IInv, Positions
  <2> QED
    BY <1>2, <2>1
<1>4. flush'.batch = Tail(flush.batch) /\ flush'.stage = "prepare"
      /\ flush'.accepted = Append(flush.accepted, rec)
  BY <1>1
<1>5. p \in Queued /\ Queued' \subseteq Queued
  BY <1>4, HeadQueued
<1>6. p \in Record /\ PendingOK(p) /\ at \in Snapshots
  BY <1>5, QueuedType, ZenonT(30) DEF IInv, StagedAndQueued, Snapshots
<1>7. at \in Nat /\ at < r
  <2>1. at \in Nat /\ at <= Len(log)
    BY <1>6, SnapshotsNat, ZenonT(30) DEF IInv, CommittedWritesCover
  <2>2. /\ Len(log) \in Nat /\ Len(flush.accepted) \in Nat
        /\ r = n + 1 /\ n = Len(log) + Len(flush.accepted)
    BY <1>2, <1>3, ZenonT(30)
  <2> HIDE DEF n, at
  <2> QED
    BY <2>1, <2>2
<1>8. /\ rec \in Record /\ rec.txn = p.txn /\ rec.meta = p.meta
      /\ EventsStamped(rec.events, r)
      /\ \A k : Writes(rec, k) <=> Writes(p, k)
  <2>1. EventsStamped(p.events, at + 1)
    BY <1>6, ZenonT(30) DEF PendingOK
  <2> QED
    BY <1>3, <1>6, <1>7, <2>1, StampRecordSpec, ZenonT(30)
<1>9. Recorded(rec.meta) => rec.events = SerialEvents(req[rec.txn], StateAt(Decided, n), n)
  BY <1>3, <1>5, <1>8, AcceptedSerial, ZenonT(30)
<1> HIDE DEF rec, at
<1>10. /\ flush'.accepted \in Seq(Record) /\ Len(flush'.accepted) = Len(flush.accepted) + 1
       /\ flush'.accepted[Len(flush.accepted) + 1] = rec
       /\ \A i \in 1..Len(flush.accepted) : flush'.accepted[i] = flush.accepted[i]
  BY <1>1, <1>2, <1>4, <1>8
<1>11. flush' \in [stage : {"idle", "prepare", "deliver"}, batch : Seq(Record),
                   accepted : Seq(Record), rejected : SUBSET Txns]
  <2>1. flush' = [flush EXCEPT !.batch = Tail(flush.batch), !.accepted = flush'.accepted]
    BY <1>4 DEF rec
  <2> QED
    BY <1>1, <1>10, <2>1, ZenonT(30)
<1>12. committedWrites' \in [Keys -> Nat]
  BY <1>1, <1>3
<1>13. TypeOK'
  BY <1>11, <1>12, ZenonT(30) DEF IInv, TypeOK
<1>14. Positions'
  BY <1>4, ZenonT(30) DEF IInv, Positions
<1>15. /\ Decided' \in Seq(Record) /\ Len(Decided') = n + 1
       /\ \A i \in 1..n : Decided'[i] = Decided[i]
       /\ Decided'[n + 1] = rec
  <2>1. log' = log /\ flush'.stage = "prepare" /\ flush'.accepted = Append(flush.accepted, rec)
    BY <1>4
  <2> QED
    BY <1>8, <2>1, DecidedAccept
<1>16. Stamped(Decided)' /\ DecidedSerial'
  <2>1. rec.txn \in Txns
    BY <1>6, <1>8, ZenonT(30) DEF PendingOK
  <2> QED
    BY <1>3, <1>8, <1>9, <1>15, <2>1, DecidedAppend, ZenonT(30)
<1>17. IndexSound(index, log, applied, compacted)'
  BY ZenonT(30) DEF IInv, IndexSound, EntrySound
<1>18. Snapshots' \subseteq Snapshots
  BY <1>5 DEF Snapshots
<1>19. CommittedWritesCover'
  <2>1. \A s \in Snapshots' : s \in Nat /\ s <= Len(log')
    BY <1>18, SnapshotsNat, ZenonT(30) DEF IInv, CommittedWritesCover
  <2>2. ASSUME NEW s \in Snapshots', NEW k \in Keys, NEW q \in DOMAIN Decided',
               Writes(Decided'[q], k), q > s
        PROVE  committedWrites'[k] >= q
    <3>1. q \in 1..(n + 1) /\ committedWrites[k] \in Nat
      BY <1>1, <1>15
    <3>2. committedWrites'[k] = IF k \in p.meta.writes THEN r ELSE committedWrites[k]
      OBVIOUS
    <3>3. CASE q \in 1..n
      <4>1. Writes(Decided[q], k)
        BY <1>15, <2>2, <3>3
      <4>2. committedWrites[k] >= q
        BY <1>2, <1>18, <2>2, <3>3, <4>1, ZenonT(30) DEF IInv, CommittedWritesCover
      <4> QED
        BY <1>2, <1>3, <3>1, <3>2, <3>3, <4>2
    <3>4. CASE q = n + 1
      <4>1. Writes(p, k)
        BY <1>8, <1>15, <2>2, <3>4
      <4>2. k \in p.meta.writes
        <5>1. p.meta.writes = {e.key : e \in p.events}
          BY <1>6, ZenonT(30) DEF PendingOK
        <5> QED
          BY <4>1, <5>1 DEF Writes
      <4> QED
        BY <1>2, <1>3, <3>2, <3>4, <4>2
    <3>5. \A m \in Nat : \A x \in 1..(m + 1) : x \in 1..m \/ x = m + 1
      OBVIOUS
    <3> QED
      BY <1>2, <3>1, <3>3, <3>4, <3>5, ZenonT(30)
  <2> QED
    BY <2>1, <2>2 DEF CommittedWritesCover
<1>20. StagedAndQueued'
  <2>1. \A q : PendingOK(q) => PendingOK(q)'
    BY PendingFrame
  <2>2. \A t \in Txns : PendingTxn(t)' = PendingTxn(t)
    BY DEF PendingTxn
  <2> QED
    BY <1>5, <2>1, <2>2 DEF IInv, StagedAndQueued
<1> QED
  BY <1>13, <1>14, <1>16, <1>17, <1>19, <1>20 DEF IInv

LEMMA PrepareTxnKeeps ==
  ASSUME IInv, PrepareTxn
  PROVE  IInv'
<1> DEFINE p == Head(flush.batch)
           r == lastLogPosition + Len(flush.accepted) + 1
<1>1. /\ flush.stage = "prepare" /\ flush.batch # <<>>
      /\ UNCHANGED <<storeVars, openBatch, flushQueue, lastLogPosition, txnVars, procVars>>
  BY DEF PrepareTxn
<1>2. CASE ValidateTxn(p.meta)
  BY <1>1, <1>2, AcceptKeeps, ZenonT(30) DEF PrepareTxn
<1>3. CASE ~ValidateTxn(p.meta)
  BY <1>1, <1>3, RejectKeeps DEF PrepareTxn
<1> QED
  BY <1>2, <1>3

(***************************************************************************)
(* Restart.                                                                *)
(***************************************************************************)

\* The log after a restart is a prefix of the decided records, no shorter
\* than the published log: a crash loses at most what was never published.
LEMMA RestartLog ==
  ASSUME IInv, Restart
  PROVE  /\ log' \in Seq(Record)
         /\ Len(log') \in Nat /\ Len(log) <= Len(log') /\ Len(log') <= Len(Decided)
         /\ \A i \in 1..Len(log') : log'[i] = Decided[i]
<1>1. PICK n \in 0..Len(flush.accepted) :
        /\ flush.stage # "prepare" => n = 0
        /\ log' = log \o SubSeq(flush.accepted, 1, n)
  BY ZenonT(30) DEF Restart
<1>2. /\ log \in Seq(Record) /\ flush.accepted \in Seq(Record)
      /\ Len(log) \in Nat /\ Len(flush.accepted) \in Nat
      /\ Len(Decided) = IF flush.stage = "prepare" THEN Len(log) + Len(flush.accepted)
                                                   ELSE Len(log)
      /\ \A i \in 1..Len(log) : Decided[i] = log[i]
  BY DecidedLength, ZenonT(30)
<1>3. /\ log' \in Seq(Record) /\ Len(log') = Len(log) + n
      /\ \A i \in 1..Len(log) : log'[i] = log[i]
      /\ \A i \in 1..(Len(log) + n) : log'[i] = (log \o flush.accepted)[i]
  <2>1. /\ log \in Seq(Record) /\ flush.accepted \in Seq(Record)
        /\ n \in 0..Len(flush.accepted) /\ log' = log \o SubSeq(flush.accepted, 1, n)
    BY <1>1, <1>2, ZenonT(30)
  <2> QED
    BY <2>1, ConcatPrefix
<1>4. Len(log') \in Nat /\ Len(log) <= Len(log') /\ Len(log') <= Len(Decided)
  BY <1>1, <1>2, <1>3
<1>5. \A i \in 1..Len(log') : log'[i] = Decided[i]
  <2>1. CASE flush.stage = "prepare"
    <3>1. Decided = log \o flush.accepted
      BY <2>1 DEF Decided
    <3> QED
      BY <1>3, <3>1, ZenonT(30)
  <2>2. CASE flush.stage # "prepare"
    <3>1. Len(log') = Len(log)
      BY <1>1, <1>2, <1>3, <2>2
    <3> QED
      BY <1>2, <1>3, <3>1, ZenonT(30)
  <2> QED
    BY <2>1, <2>2
<1> QED
  BY <1>3, <1>4, <1>5

\* ReplayLog rebuilds an index that is sound for the whole log.
LEMMA ReplaySound ==
  ASSUME NEW L \in Seq(Record), Stamped(L)
  PROVE  /\ AddRevisions(EmptyIndex, L, 1, Len(L)) \in IndexOver(Len(L))
         /\ IndexSound(AddRevisions(EmptyIndex, L, 1, Len(L)), L, Len(L), 0)
<1>1. Len(L) \in Nat
  BY SeqSpec
<1>2. /\ EmptyIndex \in IndexOver(Len(L))
      /\ \A k \in Keys : EmptyIndex[k].revs \subseteq Nat \ {0}
  BY ZenonT(30) DEF EmptyIndex, IndexOver
<1>3. IndexSound(EmptyIndex, L, 0, 0)
  BY DEF IndexSound, EntrySound, EmptyIndex
<1>4. AddRevisions(EmptyIndex, L, 1, Len(L)) \in IndexOver(Len(L))
  BY <1>1, <1>2, AddRevisionsType
<1>5. IndexSound(AddRevisions(EmptyIndex, L, 0 + 1, Len(L)), L, Len(L), 0)
  <2>1. Len(L) \in 0..Len(L)
    BY <1>1
  <2> QED
    BY <1>2, <1>3, <2>1, AddRevisionsSound
<1> QED
  BY <1>4, <1>5

\* A server that holds no transaction and whose index covers the log.
Fresh ==
  /\ TypeOK
  /\ Len(log) >= 1
  /\ Stamped(log)
  /\ \A r \in 2..Len(log) : /\ log[r].txn \in Txns
                            /\ Recorded(log[r].meta) => SerialRecord(log, r)
  /\ applied = Len(log) /\ compacted = 0 /\ lastLogPosition = Len(log)
  /\ openBatch = <<>> /\ flushQueue = <<>>
  /\ flush.stage = "idle" /\ flush.batch = <<>> /\ flush.accepted = <<>>
  /\ IndexSound(index, log, applied, compacted)
  /\ \A t \in Txns : rev[t] <= Len(log)
  /\ \A t \in Txns : pc[t] \notin {"snapshot", "evaluate", "append"}

\* Such a server satisfies IInv.
LEMMA FreshStart == Fresh => IInv
<1> SUFFICES ASSUME Fresh
             PROVE  IInv
  OBVIOUS
<1>1. TypeOK
  BY ZenonT(30) DEF Fresh
<1>2. flush.stage = "idle" /\ flush.batch = <<>> /\ flush.accepted = <<>>
  BY ZenonT(30) DEF Fresh
<1>3. Decided = log
  BY <1>2 DEF Decided
<1>4. Queued = {}
  <2>1. openBatch = <<>> /\ flushQueue = <<>>
    BY ZenonT(30) DEF Fresh
  <2>2. InBatch(<<>>) = {} /\ DOMAIN flushQueue = {}
    BY <2>1 DEF InBatch
  <2>3. InBatch(openBatch) = {} /\ InBatch(flush.batch) = {}
    BY <1>2, <2>1, <2>2
  <2> QED
    BY <2>2, <2>3 DEF Queued
<1>5. Snapshots = {Len(log)}
  <2>1. \A t \in Txns : pc[t] \notin {"snapshot", "evaluate", "append"}
    BY ZenonT(30) DEF Fresh
  <2>2. {u \in Txns : pc[u] \in {"snapshot", "evaluate", "append"}} = {}
    BY <2>1
  <2> QED
    BY <1>4, <2>2 DEF Snapshots
<1>6. log \in Seq(Record) /\ Len(log) \in Nat /\ DOMAIN log = 1..Len(log)
  <2>1. log \in Seq(Record)
    BY <1>1, ZenonT(30) DEF TypeOK
  <2> QED
    BY <2>1, SeqSpec
<1>7. Positions
  <2>1. Len(log) >= 1 /\ applied = Len(log) /\ compacted = 0 /\ lastLogPosition = Len(log)
    BY DEF Fresh
  <2>2. \A t \in Txns : rev[t] <= Len(log) /\ pc[t] # "evaluate"
    BY ZenonT(30) DEF Fresh
  <2>3. applied <= Len(log) /\ compacted <= applied
    BY <1>6, <2>1
  <2> QED
    BY <1>2, <2>1, <2>2, <2>3, ZenonT(30) DEF Positions
<1>8. Stamped(Decided) /\ DecidedSerial
  BY <1>3, ZenonT(30) DEF Fresh, DecidedSerial
<1>9. CommittedWritesCover
  <2>1. \A q \in DOMAIN log : ~(q > Len(log))
    BY <1>6
  <2>2. Len(log) <= Len(log)
    BY <1>6
  <2> QED
    BY <1>3, <1>5, <2>1, <2>2 DEF CommittedWritesCover
<1>10. StagedAndQueued
  BY <1>4, ZenonT(30) DEF Fresh, StagedAndQueued
<1>11. IndexSound(index, log, applied, compacted)
  BY ZenonT(30) DEF Fresh
<1> QED
  BY <1>1, <1>7, <1>8, <1>9, <1>10, <1>11 DEF IInv

LEMMA RestartKeeps ==
  ASSUME IInv, Restart
  PROVE  IInv'
<1>1. /\ applied' = Len(log') /\ index' = AddRevisions(EmptyIndex, log', 1, Len(log'))
      /\ compacted' = 0 /\ openBatch' = <<>> /\ flushQueue' = <<>>
      /\ flush' = [stage |-> "idle", batch |-> <<>>, accepted |-> <<>>, rejected |-> {}]
      /\ lastLogPosition' = Len(log') /\ committedWrites' = [k \in Keys |-> 0]
      /\ pc' = [t \in Txns |-> IF pc[t] \in Ended THEN pc[t] ELSE "dead"]
      /\ up' = TRUE
      /\ UNCHANGED <<req, snap, attempt, staged, rev, fatal, crashes>>
  BY ZenonT(30) DEF Restart
<1>2. /\ log' \in Seq(Record)
      /\ Len(log') \in Nat /\ Len(log) <= Len(log') /\ Len(log') <= Len(Decided)
      /\ \A i \in 1..Len(log') : log'[i] = Decided[i]
  BY RestartLog
<1>3. DOMAIN log' = 1..Len(log')
  BY <1>2, SeqSpec
<1>4. Len(Decided) \in Nat /\ DOMAIN Decided = 1..Len(Decided) /\ Len(log) \in Nat
  BY DecidedLength, ZenonT(30)
<1>5. Stamped(log)'
  <2>1. \A r \in DOMAIN Decided : EventsStamped(Decided[r].events, r)
    BY DEF IInv, Stamped
  <2>2. \A r \in DOMAIN log' : r \in DOMAIN Decided /\ log'[r] = Decided[r]
    BY <1>2, <1>3, <1>4
  <2> QED
    BY <2>1, <2>2 DEF Stamped
<1>6. ASSUME NEW r \in 2..Len(log')
      PROVE  /\ log'[r].txn \in Txns
             /\ Recorded(log'[r].meta) => SerialRecord(log, r)'
  <2>1. r \in 1..Len(log') /\ r \in 2..Len(Decided) /\ r - 1 \in Nat
        /\ \A i \in 1..(r - 1) : i \in 1..Len(log')
    BY <1>2, <1>4
  <2>2. StateAt(log', r - 1) = StateAt(Decided, r - 1)
    BY <1>2, <2>1, StatePrefix
  <2>3. log'[r] = Decided[r] /\ req' = req
    BY <1>1, <1>2, <2>1, ZenonT(30)
  <2>4. Decided[r].txn \in Txns /\ (Recorded(Decided[r].meta) => SerialRecord(Decided, r))
    BY <2>1 DEF IInv, DecidedSerial
  <2> QED
    BY <2>2, <2>3, <2>4, ZenonT(30) DEF SerialRecord
<1>7. /\ index' \in IndexOver(Len(log'))
      /\ IndexSound(index, log, applied, compacted)'
  BY <1>1, <1>2, <1>5, ReplaySound, ZenonT(30)
<1>8. /\ pc' \in [Txns -> Labels]
      /\ \A t \in Txns : pc'[t] \notin {"snapshot", "evaluate", "append"}
  <2>1. Ended \subseteq Labels \ {"snapshot", "evaluate", "append"} /\ "dead" \in Labels
    BY DEF Ended, Labels
  <2>2. pc' = [t \in Txns |-> IF pc[t] \in Ended THEN pc[t] ELSE "dead"]
    BY <1>1
  <2> QED
    BY <2>1, <2>2
<1>9. TypeOK'
  <2>1. openBatch' \in Seq(Record) /\ flushQueue' \in Seq(Seq(Record))
    BY <1>1
  <2>2. flush' \in [stage : {"idle", "prepare", "deliver"}, batch : Seq(Record),
                    accepted : Seq(Record), rejected : SUBSET Txns]
    BY <1>1
  <2>3. committedWrites' \in [Keys -> Nat] /\ applied' \in Nat /\ compacted' \in Nat
        /\ lastLogPosition' \in Nat /\ up' \in BOOLEAN
    BY <1>1, <1>2, ZenonT(30)
  <2>4. /\ req' \in [Txns -> Requests] /\ snap' \in [Txns -> Nat]
        /\ attempt' \in [Txns -> 0..MaxAttempts]
        /\ staged' \in [Txns -> [events : SUBSET Event, meta : TxnMeta,
                                 succeeded : BOOLEAN, answers : SUBSET Answer]]
        /\ rev' \in [Txns -> Nat]
        /\ fatal' \in {"none", "old event is not a PUT"} /\ crashes' \in 0..MaxCrashes
    BY <1>1, ZenonT(30) DEF IInv, TypeOK
  <2> QED
    BY <1>2, <1>7, <1>8, <2>1, <2>2, <2>3, <2>4, ZenonT(30) DEF TypeOK, IndexOver
<1>10. Len(log') >= 1 /\ \A t \in Txns : rev'[t] <= Len(log')
  <2>1. Len(log) >= 1
    BY ZenonT(30) DEF IInv, Positions
  <2>2. rev' = rev /\ \A t \in Txns : rev[t] <= Len(log) /\ rev[t] \in Nat
    BY <1>1, ZenonT(30) DEF IInv, Positions, TypeOK
  <2>3. Len(log) \in Nat /\ Len(log') \in Nat /\ Len(log) <= Len(log')
    BY <1>2, <1>4
  <2> QED
    BY <2>1, <2>2, <2>3
<1>11. flush'.stage = "idle" /\ flush'.batch = <<>> /\ flush'.accepted = <<>>
  BY <1>1
<1>12. Fresh'
  BY <1>1, <1>5, <1>6, <1>7, <1>8, <1>9, <1>10, <1>11, ZenonT(30) DEF Fresh
<1> QED
  BY <1>12, FreshStart, PTL

-----------------------------------------------------------------------------
(***************************************************************************)
(* The theorems.                                                           *)
(***************************************************************************)

\* A fresh process whose log holds the one empty record satisfies IInv.
LEMMA InitHolds ==
  ASSUME Init
  PROVE  IInv
<1>1. NoMeta \in TxnMeta /\ DummyRecord \in Record
  BY ZenonT(30) DEF NoMeta, TxnMeta, DummyRecord, Record
<1>2. NoStaged \in [events : SUBSET Event, meta : TxnMeta, succeeded : BOOLEAN,
                    answers : SUBSET Answer]
  BY <1>1, ZenonT(30) DEF NoStaged
<1>3. log = <<DummyRecord>> /\ DummyRecord.events = {}
  BY ZenonT(30) DEF Init, DummyRecord
<1>4. log \in Seq(Record) /\ Len(log) = 1 /\ log[1].events = {} /\ DOMAIN log = 1..1
  BY <1>1, <1>3
<1>5. index = [k \in Keys |-> [revs |-> {}, tombstone |-> FALSE]]
  BY ZenonT(30) DEF Init, EmptyIndex
<1>6. TypeOK
  <2>1. index \in [Keys -> [revs : SUBSET (1..Len(log)), tombstone : BOOLEAN]]
    BY <1>5, ZenonT(30)
  <2>2. openBatch \in Seq(Record) /\ flushQueue \in Seq(Seq(Record))
    BY DEF Init
  <2>3. flush \in [stage : {"idle", "prepare", "deliver"}, batch : Seq(Record),
                   accepted : Seq(Record), rejected : SUBSET Txns]
    BY DEF Init
  <2>4. applied \in Nat /\ compacted \in Nat /\ lastLogPosition \in Nat
        /\ committedWrites \in [Keys -> Nat] /\ up \in BOOLEAN
        /\ fatal \in {"none", "old event is not a PUT"}
    BY ZenonT(30) DEF Init
  <2>5. pc \in [Txns -> Labels] /\ req \in [Txns -> Requests] /\ snap \in [Txns -> Nat]
        /\ rev \in [Txns -> Nat]
    BY ZenonT(30) DEF Init, Labels
  <2>6. staged \in [Txns -> [events : SUBSET Event, meta : TxnMeta,
                             succeeded : BOOLEAN, answers : SUBSET Answer]]
    BY <1>2, ZenonT(30) DEF Init
  <2>7. attempt \in [Txns -> 0..MaxAttempts] /\ crashes \in 0..MaxCrashes
    BY BoundsAssumption DEF Init
  <2> QED
    BY <1>4, <2>1, <2>2, <2>3, <2>4, <2>5, <2>6, <2>7, ZenonT(30) DEF TypeOK
<1>7. flush.stage = "idle" /\ flush.batch = <<>> /\ flush.accepted = <<>>
      /\ openBatch = <<>> /\ flushQueue = <<>> /\ applied = 1 /\ compacted = 0
      /\ lastLogPosition = 1
  BY ZenonT(30) DEF Init
<1>8. Stamped(log)
  <2>1. \A r \in DOMAIN log : log[r].events = {}
    BY <1>4
  <2> QED
    BY <2>1 DEF Stamped, EventsStamped
<1>9. IndexSound(index, log, applied, compacted)
  <2>1. \A k \in Keys : ~Writes(log[1], k)
    BY <1>4 DEF Writes
  <2>2. \A k \in Keys : index[k].revs = {} /\ index[k].tombstone = FALSE
    BY <1>5
  <2>3. \A q \in 1..applied : q = 1
    BY <1>7
  <2> QED
    BY <2>1, <2>2, <2>3, ZenonT(30) DEF IndexSound, EntrySound
<1>10. \A t \in Txns : rev[t] = 0 /\ pc[t] = "idle"
  BY ZenonT(30) DEF Init
<1>11. Fresh
  <2>1. Len(log) >= 1 /\ (\A r \in 2..Len(log) : FALSE) /\ applied = Len(log)
        /\ lastLogPosition = Len(log)
    BY <1>4, <1>7
  <2>2. \A t \in Txns : /\ rev[t] <= Len(log)
                        /\ pc[t] \notin {"snapshot", "evaluate", "append"}
    BY <1>4, <1>10
  <2> QED
    BY <1>6, <1>7, <1>8, <1>9, <2>1, <2>2, ZenonT(30) DEF Fresh
<1> QED
  BY <1>11, FreshStart

\* Every step of the specification preserves IInv.
LEMMA NextKeeps ==
  ASSUME IInv, [Next]_vars
  PROVE  IInv'
<1>1. ASSUME NEW t \in Txns, TxnStep(t)
      PROVE  IInv'
  <2>1. ASSUME GiveUp(t)
        PROVE  IInv'
    BY <2>1, StopKeeps, ZenonT(30) DEF GiveUp, Goto
  <2> QED
    BY <1>1, <2>1, BeginKeeps, ApplySnapshotKeeps, EvaluateKeeps, AddKeeps, FinishKeeps,
       RetryKeeps DEF TxnStep
<1>2. ASSUME NEW t \in Txns, Abandon(t)
      PROVE  IInv'
  BY <1>2, StopKeeps, ZenonT(30) DEF Abandon, Goto
<1>3. ASSUME FlusherStep
      PROVE  IInv'
  BY <1>3, TakeBatchKeeps, PrepareTxnKeeps, PublishKeeps, DeliverKeeps DEF FlusherStep
<1>4. ASSUME NEW r \in CompactRevs, Compact(r)
      PROVE  IInv'
  BY <1>4, CompactKeeps
<1>5. ASSUME Crash
      PROVE  IInv'
  <2>1. up' \in BOOLEAN /\ fatal' = fatal /\ UNCHANGED <<storeVars, batchVars, txnVars>>
    BY <1>5, ZenonT(30) DEF Crash
  <2>2. crashes' \in 0..MaxCrashes
    <3>1. crashes \in 0..MaxCrashes /\ crashes < MaxCrashes /\ crashes' = crashes + 1
      BY <1>5, ZenonT(30) DEF Crash, IInv, TypeOK
    <3>2. MaxCrashes \in Nat
      BY BoundsAssumption
    <3> QED
      BY <3>1, <3>2
  <2>3. fatal \in {"none", "old event is not a PUT"}
    BY ZenonT(30) DEF IInv, TypeOK
  <2> QED
    BY <2>1, <2>2, <2>3, ProcessKeeps, ZenonT(30)
<1>6. ASSUME UNCHANGED vars
      PROVE  IInv'
  <2>1. up \in BOOLEAN /\ fatal \in {"none", "old event is not a PUT"} /\ crashes \in 0..MaxCrashes
    BY ZenonT(30) DEF IInv, TypeOK
  <2> QED
    BY <1>6, <2>1, ProcessKeeps, ZenonT(30) DEF vars, procVars
<1> QED
  BY <1>1, <1>2, <1>3, <1>4, <1>5, <1>6, RestartKeeps DEF Next, Idle

\* The inductive invariant holds of every behaviour.
THEOREM IInvHolds == Spec => []IInv
<1>1. Init => IInv
  BY InitHolds
<1>2. IInv /\ [Next]_vars => IInv'
  BY NextKeeps
<1> QED
  BY <1>1, <1>2, PTL DEF Spec

\* Type correctness of the transaction path.
THEOREM TypeCorrect == Spec => []TypeOK
<1>1. IInv => TypeOK
  BY DEF IInv
<1> QED
  BY <1>1, IInvHolds, PTL

\* Serializability in log order: for any keys, requests, number of
\* transactions, retries, compactions and crashes, every record of the log
\* whose transaction recorded its reads is what its request writes when it
\* runs alone on the state the records before it left.
THEOREM Serializability == Spec => []Serializable
<1>1. IInv => Serializable
  <2> SUFFICES ASSUME IInv, NEW r \in 2..Len(log), Recorded(log[r].meta)
               PROVE  SerialRecord(log, r)
    BY DEF Serializable
  <2>1. /\ Len(log) \in Nat /\ Len(Decided) \in Nat /\ Len(log) <= Len(Decided)
        /\ \A i \in 1..Len(log) : Decided[i] = log[i]
    BY DecidedLength, ZenonT(30)
  <2>2. /\ r \in 2..Len(Decided) /\ r \in 1..Len(log) /\ r - 1 \in Nat
        /\ \A i \in 1..(r - 1) : i \in 1..Len(log)
    BY <2>1
  <2>3. StateAt(Decided, r - 1) = StateAt(log, r - 1)
    BY <2>1, <2>2, StatePrefix
  <2>4. SerialRecord(Decided, r)
    BY <2>1, <2>2, ZenonT(30) DEF IInv, DecidedSerial
  <2> QED
    BY <2>1, <2>2, <2>3, <2>4, ZenonT(30) DEF SerialRecord
<1> QED
  BY <1>1, IInvHolds, PTL

\* Compaction keeps the state at its revision and after it: what the index
\* answers there is what the whole history says, whatever was compacted,
\* applied late or replayed.
THEOREM CompactionSound == Spec => []CompactionKeepsState
<1>1. IInv => CompactionKeepsState
  <2> SUFFICES ASSUME IInv, NEW at \in compacted..applied
               PROVE  IndexView(at) = StateAt(log, at)
    BY DEF CompactionKeepsState
  <2>1. compacted \in Nat /\ applied \in Nat
    BY ZenonT(30) DEF IInv, TypeOK
  <2>2. at \in 0..applied /\ \A p \in (at + 1)..compacted : FALSE
    BY <2>1
  <2>3. ASSUME NEW k \in Keys
        PROVE  KvAt(log, k, GetLatestRevisionByKey(index, k, at))
                 = KvAt(log, k, LatestWrite(log, k, at))
    <3>1. \A q \in (at + 1)..compacted : ~Writes(log[q], k)
      BY <2>2
    <3> QED
      BY <2>2, <3>1, IndexAgrees
  <2> QED
    BY <2>3 DEF IndexView, StateAt
<1> QED
  BY <1>1, IInvHolds, PTL
=============================================================================
